------------------------ MODULE DynamicBatcherProofs ------------------------
(***************************************************************************)
(* That the batcher loses nobody, makes nobody wait beyond its bound, sends *)
(* no batch early and lets nobody overtake, and implements BatchBuffer,    *)
(* for any number of requests and models, any strategy, weights and sizes. *)
(***************************************************************************)
EXTENDS DynamicBatcher, QueueLemmas, FiniteSetTheorems, WellFoundedInduction

(* What every step keeps, but for the range of the counter, which follows  *)
(* from what it counts.                                                    *)
Types ==
    /\ strategy \in Strategies
    /\ bucket \in [Models -> SUBSET Requests]
    /\ entered \in Seq(Requests)
    /\ age \in [Requests -> Nat]
    /\ since \in 0 .. MaxGap
    /\ call \in {"none", "collect", "flush", "over"}
    /\ visit \subseteq Models
    /\ current \in Models \cup {NoModel}
    /\ formed \in Seq(SUBSET Requests)

(* A request is added once, to the bucket of its model, and it has no age  *)
(* before that.                                                            *)
Placed ==
    /\ \A m \in Models : \A r \in bucket[m] : ModelOf[r] = m /\ r \in Added
    /\ \A i, j \in 1 .. Len(entered) : entered[i] = entered[j] => i = j
    /\ \A r \in Requests \ Added : age[r] = 0

Counts ==
    /\ size = Cardinality(Waiting)
    /\ \A i, j \in DOMAIN formed : i # j => formed[i] \cap formed[j] = {}
    /\ \A i \in DOMAIN formed : formed[i] \cap Waiting = {} /\ formed[i] \subseteq Added

(* A call has nothing due left in the buckets it has been through, and a   *)
(* flush nothing at all.                                                   *)
Bounded ==
    /\ ~ Running => \A r \in Waiting : age[r] < MaxWait + since
    /\ Running => since = 0
    /\ Running => \A m \in Models \ (visit \cup {current}) :
            \A r \in bucket[m] : call = "collect" /\ age[r] < MaxWait

-----------------------------------------------------------------------------
(* Buckets *)

(* Who waits is in some bucket, and the buckets are finite. *)
LEMMA WaitingBuckets ==
    ASSUME Types
    PROVE  /\ Waiting \subseteq Requests
           /\ IsFiniteSet(Waiting) /\ Cardinality(Waiting) \in Nat
           /\ Cardinality(Waiting) =< Cardinality(Requests)
           /\ Cardinality(Requests) \in Nat
           /\ \A r : r \in Waiting <=> \E m \in Models : r \in bucket[m]
           /\ \A m \in Models : IsFiniteSet(bucket[m]) /\ Cardinality(bucket[m]) \in Nat
<1>1. Waiting \subseteq Requests
  BY DEF Types, Waiting
<1>2. IsFiniteSet(Requests)
  BY RequestsAssumption
<1>3. IsFiniteSet(Waiting) /\ Cardinality(Waiting) =< Cardinality(Requests)
  BY <1>1, <1>2, FS_Subset
<1>4. Cardinality(Waiting) \in Nat /\ Cardinality(Requests) \in Nat
  BY <1>2, <1>3, FS_CardinalityType
<1>5. ASSUME NEW m \in Models
      PROVE  IsFiniteSet(bucket[m]) /\ Cardinality(bucket[m]) \in Nat
  <2>1. bucket[m] \in SUBSET Requests
    BY DEF Types
  <2>2. IsFiniteSet(bucket[m])
    BY <1>2, <2>1, FS_Subset
  <2> QED  BY <2>2, FS_CardinalityType
<1>6. \A r : r \in Waiting <=> \E m \in Models : r \in bucket[m]
  BY DEF Waiting
<1> QED  BY <1>1, <1>3, <1>4, <1>5, <1>6

(* The batch _flush_one takes out of a bucket with something in it *)
LEMMA ChosenBatch ==
    ASSUME Types, NEW m \in Models, bucket[m] # {}, NEW c \in Chosen(bucket[m])
    PROVE  /\ c \subseteq bucket[m] /\ c # {}
           /\ IsFiniteSet(c) /\ Cardinality(c) \in Nat
           /\ Cardinality(c) =< MaxBatch
           /\ Cardinality(c) = MaxBatch \/ (c = bucket[m] /\ Cardinality(c) < MaxBatch)
           /\ \A a \in c, b \in bucket[m] \ c : ~ Before(b, a)
<1>1. /\ c \subseteq bucket[m]
      /\ Cardinality(c) = IF Cardinality(bucket[m]) < MaxBatch
                          THEN Cardinality(bucket[m]) ELSE MaxBatch
      /\ \A a \in c, b \in bucket[m] \ c : ~ Before(b, a)
  BY DEF Chosen
<1>2. IsFiniteSet(bucket[m]) /\ Cardinality(bucket[m]) \in Nat
  BY WaitingBuckets
<1>3. /\ IsFiniteSet(c)
      /\ Cardinality(bucket[m]) = Cardinality(c) => c = bucket[m]
  BY <1>1, <1>2, FS_Subset
<1>4. Cardinality(c) \in Nat /\ MaxBatch \in Nat \ {0}
  BY <1>3, FS_CardinalityType, LimitsAssumption
<1>5. Cardinality(bucket[m]) # 0 /\ (c = {} => Cardinality(c) = 0)
  BY <1>2, FS_EmptySet
<1> QED  BY <1>1, <1>2, <1>3, <1>4, <1>5

(* An append: who was in the sequence, and in which order, stays. *)
LEMMA AddedGrows ==
    ASSUME Types, NEW r \in Requests, entered' = Append(entered, r)
    PROVE  /\ Added' = Added \cup {r}
           /\ \A a, b : Earlier(a, b) => Earlier(a, b)'
           /\ \A a \in Added : Earlier(a, r)'
<1>1. /\ entered \in Seq(Requests) /\ Len(entered) \in Nat
      /\ DOMAIN entered = 1 .. Len(entered)
      /\ DOMAIN entered' = 1 .. Len(entered) + 1
      /\ \A i \in 1 .. Len(entered) : entered'[i] = entered[i]
      /\ entered'[Len(entered) + 1] = r
  BY AppendProperties, LenProperties DEF Types
<1>2. ASSUME NEW x
      PROVE  x \in Added' <=> x \in Added \/ x = r
  <2>1. x \in Added' <=> \E i \in 1 .. Len(entered) + 1 : entered'[i] = x
    BY <1>1 DEF Added, ToSet
  <2>2. x \in Added <=> \E i \in 1 .. Len(entered) : entered[i] = x
    BY <1>1 DEF Added, ToSet
  <2>3. \A i \in 1 .. Len(entered) + 1 : i \in 1 .. Len(entered) \/ i = Len(entered) + 1
    BY <1>1
  <2>4. /\ 1 .. Len(entered) \subseteq 1 .. Len(entered) + 1
        /\ Len(entered) + 1 \in 1 .. Len(entered) + 1
    BY <1>1
  <2> QED  BY <1>1, <2>1, <2>2, <2>3, <2>4
<1>3. ASSUME NEW a, NEW b, Earlier(a, b)
      PROVE  Earlier(a, b)'
  <2>1. PICK i \in 1 .. Len(entered), j \in 1 .. Len(entered) :
                i < j /\ entered[i] = a /\ entered[j] = b
    BY <1>1, <1>3 DEF Earlier
  <2>2. i \in 1 .. Len(entered) + 1 /\ j \in 1 .. Len(entered) + 1
    BY <1>1, <2>1
  <2> QED  BY <1>1, <2>1, <2>2 DEF Earlier
<1>4. ASSUME NEW a \in Added
      PROVE  Earlier(a, r)'
  <2>1. PICK i \in 1 .. Len(entered) : entered[i] = a
    BY <1>1 DEF Added, ToSet
  <2>2. /\ i \in 1 .. Len(entered) + 1 /\ Len(entered) + 1 \in 1 .. Len(entered) + 1
        /\ i < Len(entered) + 1
    BY <1>1, <2>1
  <2> QED  BY <1>1, <2>1, <2>2 DEF Earlier
<1>5. Added' = Added \cup {r}
  BY <1>2
<1> QED  BY <1>3, <1>4, <1>5

(* Of two requests that were added one was added earlier. *)
LEMMA EarlierTotal ==
    ASSUME Types, NEW a \in Added, NEW b \in Added, a # b
    PROVE  Earlier(a, b) \/ Earlier(b, a)
<1>1. DOMAIN entered = 1 .. Len(entered) /\ Len(entered) \in Nat
  BY LenProperties DEF Types
<1>2. PICK i \in 1 .. Len(entered), j \in 1 .. Len(entered) :
            entered[i] = a /\ entered[j] = b
  BY <1>1 DEF Added, ToSet
<1>3. i < j \/ j < i
  BY <1>1, <1>2
<1> QED  BY <1>1, <1>2, <1>3 DEF Earlier

(* A batch leaves the bucket of its model, and no other one. *)
LEMMA FlushedOut ==
    ASSUME Types, Placed, FlushOne
    PROVE  \E c \in SUBSET Requests :
              /\ current \in Models /\ Triggered(current)
              /\ c \in Chosen(bucket[current]) /\ c \subseteq bucket[current]
              /\ c \subseteq Waiting
              /\ Waiting' = Waiting \ c
              /\ bucket'[current] = bucket[current] \ c
              /\ \A m \in Models \ {current} : bucket'[m] = bucket[m]
              /\ bucket' \in [Models -> SUBSET Requests]
              /\ size' = size - Cardinality(c)
              /\ formed' = Append(formed, c)
              /\ UNCHANGED <<strategy, entered, age, since, call, visit, current>>
<1>1. current \in Models /\ Triggered(current)
  BY DEF FlushOne, Draining, Types
<1>2. PICK c \in Chosen(bucket[current]) :
          /\ bucket' = [bucket EXCEPT ![current] = @ \ c]
          /\ size' = size - Cardinality(c)
          /\ formed' = Append(formed, c)
          /\ UNCHANGED <<strategy, entered, age, since, call, visit, current>>
  BY DEF FlushOne, clockVars
<1>3. c \subseteq bucket[current] /\ c \subseteq Waiting /\ c \in SUBSET Requests
  BY <1>1, <1>2, WaitingBuckets DEF Chosen
<1>4. /\ bucket'[current] = bucket[current] \ c
      /\ \A m \in Models \ {current} : bucket'[m] = bucket[m]
      /\ bucket' \in [Models -> SUBSET Requests]
  BY <1>1, <1>2 DEF Types
<1>5. \A m \in Models \ {current} : bucket[m] \cap c = {}
  BY <1>1, <1>3 DEF Placed
<1>6. Waiting' = Waiting \ c
  BY <1>1, <1>4, <1>5 DEF Waiting
<1> QED  BY <1>1, <1>2, <1>3, <1>4, <1>6

-----------------------------------------------------------------------------
(* The steps *)

(* Every step keeps the types, and each request in the bucket of its model. *)
LEMMA TypesStep ==
    ASSUME Types, Placed, [Next]_vars
    PROVE  Types' /\ Placed'
<1> USE DEF Types
<1>1. ASSUME NEW r \in Requests, Add(r)
      PROVE  Types' /\ Placed'
  <2>1. /\ bucket' = [bucket EXCEPT ![ModelOf[r]] = @ \cup {r}]
        /\ entered' = Append(entered, r) /\ ~ Contains(entered, r)
        /\ UNCHANGED <<strategy, age, since, call, visit, current, formed>>
    BY <1>1 DEF Add, clockVars, callVars
  <2>2. ModelOf[r] \in Models
    BY RequestsAssumption
  <2>3. Added' = Added \cup {r}
    BY <2>1, AddedGrows
  <2>4. entered' \in Seq(Requests)
    BY <2>1, AppendContents
  <2>5. \A m \in Models : \A x \in bucket'[m] : ModelOf[x] = m /\ x \in Added'
    BY <2>1, <2>2, <2>3 DEF Placed
  <2>6. \A i, j \in 1 .. Len(entered') : entered'[i] = entered'[j] => i = j
    <3>1. /\ Len(entered) \in Nat /\ Len(entered') = Len(entered) + 1
          /\ \A i \in 1 .. Len(entered) : entered'[i] = entered[i]
          /\ entered'[Len(entered) + 1] = r
      BY <2>1, AppendContents, LenProperties
    <3>2. \A i \in 1 .. Len(entered) : entered[i] # r
      BY <2>1 DEF Contains
    <3>3. \A i \in 1 .. Len(entered) + 1 : i \in 1 .. Len(entered) \/ i = Len(entered) + 1
      BY <3>1
    <3> QED  BY <3>1, <3>2, <3>3 DEF Placed
  <2>7. \A x \in Requests \ Added' : age'[x] = 0
    BY <2>1, <2>3 DEF Placed
  <2>8. Types'
    BY <2>1, <2>2, <2>4
  <2> QED  BY <2>5, <2>6, <2>7, <2>8 DEF Placed
<1>2. CASE Tick
  <2>1. /\ since < MaxGap /\ since' = since + 1
        /\ age' = [r \in Requests |-> IF r \in Waiting THEN age[r] + 1 ELSE 0]
        /\ UNCHANGED <<strategy, bucket, size, entered, call, visit, current, formed>>
    BY <1>2 DEF Tick, callVars
  <2>2. Types'
    BY <2>1, LimitsAssumption
  <2>3. Added' = Added
    BY <2>1 DEF Added
  <2>4. Waiting \subseteq Added
    BY DEF Placed, Waiting
  <2> QED  BY <2>1, <2>2, <2>3, <2>4 DEF Placed
<1>3. ASSUME NEW kind \in {"collect", "flush"}, Begin(kind)
      PROVE  Types' /\ Placed'
  <2>1. <<>> \in Seq(SUBSET Requests)
    BY EmptySeq
  <2> QED  BY <1>3, <2>1, LimitsAssumption DEF Begin, Placed, Added
<1>4. CASE NextBucket
  BY <1>4 DEF NextBucket, clockVars, Placed, Added
<1>5. CASE FlushOne
  <2>1. PICK c \in SUBSET Requests :
            /\ current \in Models
            /\ bucket'[current] = bucket[current] \ c
            /\ \A m \in Models \ {current} : bucket'[m] = bucket[m]
            /\ bucket' \in [Models -> SUBSET Requests]
            /\ formed' = Append(formed, c)
            /\ UNCHANGED <<strategy, entered, age, since, call, visit, current>>
    BY <1>5, FlushedOut
  <2>2. formed' \in Seq(SUBSET Requests)
    BY <2>1, AppendContents
  <2>3. \A m \in Models : bucket'[m] \subseteq bucket[m]
    BY <2>1
  <2> QED  BY <2>1, <2>2, <2>3 DEF Placed, Added
<1>6. CASE Return
  BY <1>6 DEF Return, clockVars, Placed, Added
<1>7. CASE UNCHANGED vars
  BY <1>7 DEF vars, clockVars, callVars, Placed, Added
<1> QED  BY <1>1, <1>2, <1>3, <1>4, <1>5, <1>6, <1>7 DEF Next, CollectReady, FlushAll

(* What is added is counted, what is flushed is counted down.              *)
LEMMA CountsStep ==
    ASSUME Types, Placed, Counts, [Next]_vars
    PROVE  Counts'
<1>0. /\ IsFiniteSet(Waiting) /\ Cardinality(Waiting) \in Nat
      /\ \A r : r \in Waiting <=> \E m \in Models : r \in bucket[m]
      /\ DOMAIN formed = 1 .. Len(formed) /\ Len(formed) \in Nat
  BY WaitingBuckets, LenProperties DEF Types
<1>1. ASSUME NEW r \in Requests, Add(r)
      PROVE  Counts'
  <2>1. /\ bucket' = [bucket EXCEPT ![ModelOf[r]] = @ \cup {r}]
        /\ ~ Contains(entered, r)
        /\ size' = size + 1 /\ formed' = formed /\ call = "none" /\ call' = call
    BY <1>1 DEF Add, callVars
  <2>2. ModelOf[r] \in Models
    BY RequestsAssumption
  <2>3. Waiting' = Waiting \cup {r}
    BY <2>1, <2>2 DEF Types, Waiting
  <2>4. \A x \in Added : Contains(entered, x)
    BY LenProperties DEF Types, Added, ToSet, Contains
  <2>5. r \notin Waiting
    BY <1>0, <2>1, <2>4 DEF Placed
  <2>6. Cardinality(Waiting') = Cardinality(Waiting) + 1
    BY <1>0, <2>3, <2>5, FS_AddElement
  <2>7. Added' = Added \cup {r}
    BY <1>1, AddedGrows DEF Add
  <2>8. r \notin Added
    BY <2>1, <2>4
  <2> QED  BY <2>1, <2>3, <2>6, <2>7, <2>8 DEF Counts
<1>2. CASE FlushOne
  <2>1. PICK c \in SUBSET Requests :
            /\ c \subseteq Waiting /\ Waiting' = Waiting \ c
            /\ size' = size - Cardinality(c)
            /\ formed' = Append(formed, c) /\ entered' = entered
    BY <1>2, FlushedOut
  <2>2. Cardinality(Waiting') = Cardinality(Waiting) - Cardinality(c)
    <3>1. Waiting \cap c = c
      BY <2>1
    <3>2. Cardinality(Waiting \ c) = Cardinality(Waiting) - Cardinality(Waiting \cap c)
      BY <1>0, FS_Difference
    <3> QED  BY <2>1, <3>1, <3>2
  <2>3. /\ DOMAIN formed' = 1 .. Len(formed) + 1
        /\ \A i \in 1 .. Len(formed) : formed'[i] = formed[i]
        /\ formed'[Len(formed) + 1] = c
    BY <2>1, AppendProperties DEF Types
  <2>4. Waiting \subseteq Added
    BY <1>0 DEF Placed
  <2>5. ASSUME NEW i \in 1 .. Len(formed) + 1
        PROVE  /\ formed'[i] \cap Waiting' = {} /\ formed'[i] \subseteq Added'
               /\ \A j \in 1 .. Len(formed) + 1 : i # j => formed'[i] \cap formed'[j] = {}
    <3>1. Added' = Added
      BY <2>1 DEF Added
    <3>2. \A j \in 1 .. Len(formed) + 1 : j \in 1 .. Len(formed) \/ j = Len(formed) + 1
      BY <1>0
    <3>3. \A j \in 1 .. Len(formed) : formed[j] \cap c = {}
      BY <1>0, <2>1 DEF Counts
    <3> QED  BY <1>0, <2>1, <2>3, <2>4, <3>1, <3>2, <3>3 DEF Counts
  <2>6. size' = Cardinality(Waiting')
    BY <2>1, <2>2 DEF Counts
  <2> QED  BY <2>3, <2>5, <2>6 DEF Counts
<1>3. ASSUME NEW kind, Begin(kind)
      PROVE  Counts'
  <2>1. formed' = <<>> /\ UNCHANGED <<bucket, size, entered>>
    BY <1>3 DEF Begin
  <2> QED  BY <2>1 DEF Counts, Waiting, Added
<1>4. ASSUME UNCHANGED <<bucket, size, entered, formed>>
      PROVE  Counts'
  BY <1>4 DEF Counts, Waiting, Added
<1>5. CASE Tick \/ NextBucket \/ Return \/ UNCHANGED vars
  BY <1>4, <1>5 DEF Tick, NextBucket, Return, vars, callVars
<1> QED  BY <1>1, <1>2, <1>3, <1>5 DEF Next, CollectReady, FlushAll

(* A call leaves a bucket when nothing in it is due, and begins with all   *)
(* the buckets there are; time passes between calls only.                  *)
LEMMA BoundedStep ==
    ASSUME Types, Placed, Bounded, [Next]_vars
    PROVE  Bounded'
<1>0. \A r : r \in Waiting <=> \E m \in Models : r \in bucket[m]
  BY WaitingBuckets
<1>1. ASSUME NEW r \in Requests, Add(r)
      PROVE  Bounded'
  <2>1. /\ bucket' = [bucket EXCEPT ![ModelOf[r]] = @ \cup {r}]
        /\ call = "none" /\ UNCHANGED <<age, since, call>>
        /\ ~ Contains(entered, r)
    BY <1>1 DEF Add, clockVars, callVars
  <2>2. ModelOf[r] \in Models
    BY RequestsAssumption
  <2>3. Waiting' = Waiting \cup {r}
    BY <2>1, <2>2 DEF Types, Waiting
  <2>4. r \notin Added
    BY <2>1, LenProperties DEF Types, Added, ToSet, Contains
  <2>5. age[r] = 0 /\ 0 < MaxWait + since
    BY <2>4, LimitsAssumption DEF Placed, Types
  <2> QED  BY <2>1, <2>3, <2>5 DEF Bounded, Running
<1>2. CASE Tick
  <2>1. /\ call = "none" /\ call' = call /\ since' = since + 1 /\ bucket' = bucket
        /\ age' = [r \in Requests |-> IF r \in Waiting THEN age[r] + 1 ELSE 0]
    BY <1>2 DEF Tick, callVars
  <2>2. Waiting' = Waiting /\ Waiting \subseteq Requests
    BY <2>1, WaitingBuckets DEF Waiting
  <2>3. ASSUME NEW r \in Waiting
        PROVE  age'[r] < MaxWait + since'
    <3>1. /\ r \in Requests /\ age'[r] = age[r] + 1 /\ age[r] < MaxWait + since
          /\ age[r] \in Nat /\ since \in Nat /\ MaxWait \in Nat
      BY <2>1, <2>2, <2>3, LimitsAssumption DEF Bounded, Running, Types
    <3> QED  BY <2>1, <3>1
  <2> QED  BY <2>1, <2>2, <2>3 DEF Bounded, Running
<1>3. ASSUME NEW kind \in {"collect", "flush"}, Begin(kind)
      PROVE  Bounded'
  BY <1>3 DEF Begin, Bounded, Running
<1>4. ASSUME Running, ~ Draining, current # NoModel
      PROVE  \A r \in bucket[current] : call = "collect" /\ age[r] < MaxWait
  <2>1. current \in Models /\ ~ Triggered(current)
    BY <1>4 DEF Draining, Types
  <2>2. SUFFICES ASSUME NEW r \in bucket[current]
                 PROVE  call = "collect" /\ age[r] < MaxWait
    OBVIOUS
  <2>3. call # "flush" /\ ~ age[r] >= MaxWait
    BY <2>1, <2>2 DEF Triggered, Due
  <2>4. r \in Requests /\ age[r] \in Nat /\ MaxWait \in Nat
    BY <2>1, <2>2, LimitsAssumption DEF Types
  <2> QED  BY <1>4, <2>3, <2>4 DEF Running
<1>5. CASE NextBucket
  <2>1. PICK m \in visit : current' = m /\ visit' = visit \ {m}
    BY <1>5 DEF NextBucket
  <2>2. ~ Draining /\ UNCHANGED <<bucket, age, since, call>>
    BY <1>5 DEF NextBucket, clockVars
  <2>3. CASE Running
    <3>1. ASSUME NEW n \in Models \ (visit' \cup {current'}), NEW r \in bucket[n]
          PROVE  call = "collect" /\ age[r] < MaxWait
      <4>1. (n = current /\ current # NoModel) \/ n \in Models \ (visit \cup {current})
        BY <2>1, RequestsAssumption
      <4> QED  BY <1>4, <2>2, <2>3, <4>1 DEF Bounded
    <3> QED  BY <2>2, <2>3, <3>1 DEF Bounded, Running
  <2>4. CASE ~ Running
    BY <2>2, <2>4 DEF Bounded, Running, Waiting
  <2> QED  BY <2>3, <2>4
<1>6. CASE FlushOne
  <2>1. /\ Waiting' \subseteq Waiting
        /\ \A m \in Models : bucket'[m] \subseteq bucket[m]
        /\ UNCHANGED <<age, since, call, visit, current>>
    BY <1>6, FlushedOut
  <2> QED  BY <2>1 DEF Bounded, Running
<1>7. CASE Return
  <2>1. /\ Running /\ ~ Draining /\ visit = {} /\ UNCHANGED <<bucket, age, since>>
        /\ call' \in {"none", "over"}
    BY <1>7 DEF Return, clockVars
  <2>2. ASSUME NEW r \in Waiting
        PROVE  age[r] < MaxWait
    <3>1. PICK m \in Models : r \in bucket[m]
      BY <1>0, <2>2
    <3>2. CASE m = current
      BY <1>4, <2>1, <3>1, <3>2, RequestsAssumption
    <3>3. CASE m # current
      BY <2>1, <3>1, <3>3 DEF Bounded
    <3> QED  BY <3>2, <3>3
  <2>3. since = 0 /\ MaxWait + 0 = MaxWait
    BY <2>1, LimitsAssumption DEF Bounded
  <2> QED  BY <2>1, <2>2, <2>3 DEF Bounded, Running, Waiting
<1>8. CASE UNCHANGED vars
  BY <1>8 DEF vars, clockVars, callVars, Bounded, Running, Waiting
<1> QED  BY <1>1, <1>2, <1>3, <1>5, <1>6, <1>7, <1>8 DEF Next, CollectReady, FlushAll

(* The flush triggers decide for each batch. *)
LEMMA FullOrDueStep ==
    ASSUME Types, Placed, FullOrDue, [Next]_vars
    PROVE  FullOrDue'
<1> SUFFICES ASSUME call' = "collect", NEW i \in DOMAIN formed'
             PROVE  /\ \A a, b \in formed'[i] : ModelOf[a] = ModelOf[b]
                    /\ Cardinality(formed'[i]) =< MaxBatch
                    /\ \/ Cardinality(formed'[i]) = MaxBatch
                       \/ \E r \in formed'[i] : age'[r] >= MaxWait
  BY DEF FullOrDue
<1>1. CASE UNCHANGED <<call, formed, age>>
  BY <1>1 DEF FullOrDue
<1>2. ASSUME NEW kind, Begin(kind)
      PROVE  FALSE
  BY <1>2 DEF Begin
<1>3. CASE FlushOne
  <2>0. formed \in Seq(SUBSET Requests) /\ Len(formed) \in Nat
        /\ DOMAIN formed = 1 .. Len(formed)
    BY LenProperties DEF Types
  <2>1. PICK c \in SUBSET Requests :
            /\ current \in Models /\ Triggered(current)
            /\ c \in Chosen(bucket[current])
            /\ formed' = Append(formed, c) /\ UNCHANGED <<age, call>>
    BY <1>3, FlushedOut
  <2>2. /\ DOMAIN formed' = 1 .. Len(formed) + 1
        /\ \A j \in 1 .. Len(formed) : formed'[j] = formed[j]
        /\ formed'[Len(formed) + 1] = c
    BY <2>0, <2>1, AppendProperties
  <2>3. CASE i \in DOMAIN formed
    BY <2>0, <2>1, <2>2, <2>3 DEF FullOrDue
  <2>4. CASE i = Len(formed) + 1
    <3>1. bucket[current] # {}
      BY <2>1 DEF Triggered
    <3>2. /\ c \subseteq bucket[current] /\ Cardinality(c) \in Nat
          /\ Cardinality(c) =< MaxBatch
          /\ Cardinality(c) = MaxBatch \/ (c = bucket[current] /\ Cardinality(c) < MaxBatch)
      BY <2>1, <3>1, ChosenBatch
    <3>3. Cardinality(c) = MaxBatch \/ \E r \in c : age[r] >= MaxWait
      BY <2>1, <3>2, LimitsAssumption DEF Triggered, Due
    <3>4. \A a, b \in c : ModelOf[a] = ModelOf[b]
      BY <2>1, <3>2 DEF Placed
    <3> QED  BY <2>1, <2>2, <2>4, <3>2, <3>3, <3>4
  <2> QED  BY <2>0, <2>2, <2>3, <2>4
<1>4. CASE UNCHANGED vars
  BY <1>1, <1>4 DEF vars, callVars, clockVars
<1>5. CASE NextBucket \/ \E r \in Requests : Add(r)
  BY <1>1, <1>5 DEF NextBucket, Add, callVars, clockVars
<1>6. CASE Tick \/ Return
  BY <1>6 DEF Tick, Return, callVars
<1> QED  BY <1>2, <1>3, <1>4, <1>5, <1>6 DEF Next, CollectReady, FlushAll

(* Who is chosen leaves nobody behind who should have come first.          *)
LEMMA OvertakingStep ==
    ASSUME Types, Placed, NoOvertaking, [Next]_vars
    PROVE  NoOvertaking'
<1> SUFFICES ASSUME NEW a \in Waiting', NEW b \in Added' \ Waiting',
                    ModelOf[a] = ModelOf[b],
                    \/ strategy' = "fifo"
                    \/ strategy' = "priority" /\ Priority[a] = Priority[b]
             PROVE  Earlier(b, a)'
  BY DEF NoOvertaking
<1>0. /\ strategy' = strategy /\ Waiting \subseteq Added
      /\ \A r : r \in Waiting <=> \E m \in Models : r \in bucket[m]
  <2>1. strategy' = strategy
    BY DEF Next, Add, Tick, CollectReady, FlushAll, Begin, NextBucket, FlushOne, Return, vars
  <2> QED  BY <2>1, WaitingBuckets DEF Placed
<1>1. CASE UNCHANGED <<bucket, entered>>
  <2>1. Waiting' = Waiting /\ Added' = Added /\ (Earlier(b, a)' <=> Earlier(b, a))
    BY <1>1 DEF Waiting, Added, Earlier
  <2> QED  BY <1>0, <2>1 DEF NoOvertaking
<1>2. ASSUME NEW r \in Requests, Add(r)
      PROVE  Earlier(b, a)'
  <2>1. /\ bucket' = [bucket EXCEPT ![ModelOf[r]] = @ \cup {r}]
        /\ entered' = Append(entered, r)
    BY <1>2 DEF Add
  <2>2. ModelOf[r] \in Models
    BY RequestsAssumption
  <2>3. Waiting' = Waiting \cup {r}
    BY <2>1, <2>2 DEF Types, Waiting
  <2>4. /\ Added' = Added \cup {r}
        /\ \A x, y : Earlier(x, y) => Earlier(x, y)'
        /\ \A x \in Added : Earlier(x, r)'
    BY <2>1, AddedGrows
  <2> QED  BY <1>0, <2>3, <2>4 DEF NoOvertaking
<1>3. CASE FlushOne
  <2>1. PICK c \in SUBSET Requests :
            /\ current \in Models /\ Triggered(current)
            /\ c \in Chosen(bucket[current]) /\ c \subseteq bucket[current]
            /\ Waiting' = Waiting \ c /\ entered' = entered
    BY <1>3, FlushedOut
  <2>2. Added' = Added /\ (Earlier(b, a)' <=> Earlier(b, a)) /\ a \in Waiting
    BY <2>1 DEF Added, Earlier
  <2>3. CASE b \notin c
    BY <1>0, <2>1, <2>2, <2>3 DEF NoOvertaking
  <2>4. CASE b \in c
    <3>1. a \in bucket[current] \ c
      BY <1>0, <2>1, <2>4 DEF Placed
    <3>2. ~ Before(a, b)
      BY <2>1, <2>4, <3>1 DEF Chosen
    <3>3. a # b /\ a \in Added /\ b \in Added
      BY <1>0, <2>2, <2>4, <3>1
    <3>4. ~ Earlier(a, b)
      BY <1>0, <3>2 DEF Before
    <3> QED  BY <2>2, <3>3, <3>4, EarlierTotal
  <2> QED  BY <2>3, <2>4
<1>4. CASE Tick \/ CollectReady \/ FlushAll \/ NextBucket \/ Return \/ UNCHANGED vars
  BY <1>1, <1>4 DEF Tick, CollectReady, FlushAll, Begin, NextBucket, Return, vars
<1> QED  BY <1>2, <1>3, <1>4 DEF Next

-----------------------------------------------------------------------------

(* No conjunct needs the counter; the two bounds need that a bucket holds  *)
(* what was added for its model, and that it was added once.               *)
IInv == Types /\ Placed /\ Counts /\ Bounded /\ FullOrDue /\ NoOvertaking

(* Nothing waits and nothing was added at first. *)
LEMMA InitIInv == Init => IInv
<1> SUFFICES ASSUME Init  PROVE IInv
  OBVIOUS
<1>1. /\ \A S : <<>> \in Seq(S)
      /\ DOMAIN <<>> = {} /\ Len(<<>>) = 0
  BY EmptySeq
<1>2. Waiting = {} /\ Added = {}
  BY <1>1 DEF Init, Waiting, Added, ToSet
<1>3. Types /\ Placed
  BY <1>1, <1>2, LimitsAssumption DEF Init, Types, Placed
<1>4. Counts
  BY <1>1, <1>2, FS_EmptySet DEF Init, Counts
<1>5. Bounded /\ FullOrDue /\ NoOvertaking
  BY <1>1, <1>2 DEF Init, Bounded, Running, FullOrDue, NoOvertaking
<1> QED  BY <1>3, <1>4, <1>5 DEF IInv

(* The inductive invariant is one. *)
LEMMA Inductive == Spec => []IInv
<1>1. IInv /\ [Next]_vars => IInv'
  BY TypesStep, CountsStep, BoundedStep, FullOrDueStep, OvertakingStep DEF IInv
<1> QED  BY <1>1, InitIInv, PTL DEF Spec

(* The batcher's variables keep their types, and "pending" stays between 0 *)
(* and the number of requests: _flush_one (batcher.py) never takes it below. *)
THEOREM TypeCorrect == Spec => []TypeOK
<1>1. ASSUME IInv
      PROVE  TypeOK
  <2>1. size \in 0 .. Cardinality(Requests)
    BY <1>1, WaitingBuckets DEF IInv, Counts
  <2> QED  BY <1>1, <2>1 DEF IInv, Types, TypeOK
<1> QED  BY <1>1, Inductive, PTL

(* collect_ready drains every bucket of what is due before it returns, so  *)
(* no strategy makes a request wait longer than max_wait_ms plus the time  *)
(* between two calls.                                                      *)
THEOREM NobodyStarves == Spec => []WaitBound
<1>1. IInv => WaitBound
  BY DEF IInv, Bounded, WaitBound
<1> QED  BY <1>1, Inductive, PTL

(* Within a model, order_items and the removal by identity never let a     *)
(* later request go first (fifo), or first in its class (priority).        *)
THEOREM NobodyOvertakes == Spec => []NoOvertaking
<1>1. IInv => NoOvertaking
  BY DEF IInv
<1> QED  BY <1>1, Inductive, PTL

(* No request is lost or repeated between the buckets and the batches.     *)
THEOREM NothingLost == Spec => []Conserved
<1>1. IInv => Conserved
  BY DEF IInv, Placed, Counts, Conserved
<1> QED  BY <1>1, Inductive, PTL

(* A batch of collect_ready is full or due, and of one model.              *)
THEOREM NoneEarly == Spec => []FullOrDue
<1>1. IInv => FullOrDue
  BY DEF IInv
<1> QED  BY <1>1, Inductive, PTL
-----------------------------------------------------------------------------
(* The oldest leads under fifo *)

(* What waited when the running call began: its batches and what is left. *)
Round == Waiting \cup UNION ToSet(formed)

Elder(o, S) == o \in S /\ \A r \in S : r = o \/ Earlier(o, r)

(* Who was added earlier has waited at least as long. *)
Ages ==
    /\ \A a, b \in Waiting : Earlier(a, b) => age[a] >= age[b]
    /\ call = "collect" => \A a, b \in Round : Earlier(a, b) => age[a] >= age[b]

(* If the request that has waited longest is due, collect_ready goes to    *)
(* its bucket first and puts it into the first batch.                      *)
Led ==
    (call = "collect" /\ strategy = "fifo") =>
        \A o : Elder(o, Round) /\ age[o] >= MaxWait =>
            \/ /\ formed = <<>> /\ current = NoModel
               /\ visit = {m \in Models : bucket[m] # {}}
            \/ formed = <<>> /\ current \in Models /\ o \in bucket[current]
            \/ formed # <<>> /\ o \in formed[1]

(* A set of natural numbers has a least one. *)
LEMMA Least ==
    ASSUME NEW T, T \subseteq Nat, T # {}
    PROVE  \E x \in T : \A y \in T : x =< y
<1>1. PICK x \in T : \A y \in T : ~ (<<y, x>> \in OpToRel(<, Nat))
  <2>1. IsWellFoundedOn(OpToRel(<, Nat), Nat)
    BY NatLessThanWellFounded
  <2> QED  BY <2>1, WFMin
<1>2. \A y \in T : ~ (y < x)
  BY <1>1 DEF OpToRel
<1>3. ASSUME NEW y \in T
      PROVE  x =< y
  <2>1. ~ (y < x) /\ x \in Nat /\ y \in Nat
    BY <1>2
  <2> QED  BY <2>1
<1> QED  BY <1>3

(* Of several requests that were added one was added first. *)
LEMMA ElderExists ==
    ASSUME Types, NEW S, S \subseteq Added, S # {}
    PROVE  \E o : Elder(o, S)
<1>1. DOMAIN entered = 1 .. Len(entered) /\ Len(entered) \in Nat
  BY LenProperties DEF Types
<1> DEFINE places == {i \in 1 .. Len(entered) : entered[i] \in S}
<1>2. \A r \in S : \E i \in places : entered[i] = r
  BY <1>1 DEF Added, ToSet
<1>3. places \subseteq Nat /\ places # {}
  BY <1>1, <1>2
<1>4. PICK i \in places : \A j \in places : i =< j
  BY <1>3, Least
<1>5. ASSUME NEW r \in S, r # entered[i]
      PROVE  Earlier(entered[i], r)
  <2>1. PICK j \in places : entered[j] = r
    BY <1>2
  <2>2. i < j
    BY <1>3, <1>4, <1>5, <2>1
  <2> QED  BY <1>1, <2>1, <2>2 DEF Earlier
<1> QED  BY <1>5 DEF Elder

(* Nobody was added before and after somebody else. *)
LEMMA EarlierOneWay ==
    ASSUME Types, Placed, NEW a, NEW b, Earlier(a, b), Earlier(b, a)
    PROVE  FALSE
<1>1. DOMAIN entered = 1 .. Len(entered) /\ Len(entered) \in Nat
  BY LenProperties DEF Types
<1>2. PICK i, j \in 1 .. Len(entered) : i < j /\ entered[i] = a /\ entered[j] = b
  BY <1>1 DEF Earlier
<1>3. PICK k, l \in 1 .. Len(entered) : k < l /\ entered[k] = b /\ entered[l] = a
  BY <1>1 DEF Earlier
<1>4. i = l /\ j = k
  BY <1>2, <1>3 DEF Placed
<1> QED  BY <1>1, <1>2, <1>3, <1>4

(* The oldest of a bucket, as rank_buckets sees it, is its elder. *)
LEMMA OldestIsElder ==
    ASSUME Types, Placed, NEW m \in Models, bucket[m] # {}
    PROVE  Oldest(m) \in bucket[m] /\ Elder(Oldest(m), bucket[m])
<1>1. bucket[m] \subseteq Added
  BY DEF Placed
<1>2. PICK o : Elder(o, bucket[m])
  BY <1>1, ElderExists
<1>3. o \in bucket[m] /\ \A r \in bucket[m] \ {o} : Earlier(o, r)
  BY <1>2 DEF Elder
<1> QED  BY <1>3 DEF Elder, Oldest

(* A bucket that holds the elder of all has it as its oldest. *)
LEMMA ElderIsOldest ==
    ASSUME Types, Placed, NEW m \in Models, NEW o \in bucket[m], Elder(o, Round)
    PROVE  Oldest(m) = o
<1>1. Oldest(m) \in bucket[m] /\ Elder(Oldest(m), bucket[m])
  BY OldestIsElder
<1>2. Oldest(m) \in Round
  BY <1>1 DEF Round, Waiting
<1>3. CASE Oldest(m) # o
  BY <1>1, <1>2, <1>3, EarlierOneWay DEF Elder
<1> QED  BY <1>3

(* A batch moves from the buckets to the batches: the round is the same. *)
LEMMA SameRound ==
    ASSUME Types, Placed, FlushOne
    PROVE  Round' = Round
<1>1. PICK c \in SUBSET Requests :
          c \subseteq Waiting /\ Waiting' = Waiting \ c /\ formed' = Append(formed, c)
  BY FlushedOut
<1>2. /\ DOMAIN formed = 1 .. Len(formed) /\ Len(formed) \in Nat
      /\ DOMAIN formed' = 1 .. Len(formed) + 1
      /\ \A i \in 1 .. Len(formed) : formed'[i] = formed[i]
      /\ formed'[Len(formed) + 1] = c
  BY <1>1, AppendProperties, LenProperties DEF Types
<1>3. ASSUME NEW x
      PROVE  x \in UNION ToSet(formed') <=> x \in UNION ToSet(formed) \/ x \in c
  <2>1. x \in UNION ToSet(formed') <=> \E i \in 1 .. Len(formed) + 1 : x \in formed'[i]
    BY <1>2 DEF ToSet
  <2>2. x \in UNION ToSet(formed) <=> \E i \in 1 .. Len(formed) : x \in formed[i]
    BY <1>2 DEF ToSet
  <2>3. \A i \in 1 .. Len(formed) + 1 : i \in 1 .. Len(formed) \/ i = Len(formed) + 1
    BY <1>2
  <2>4. /\ 1 .. Len(formed) \subseteq 1 .. Len(formed) + 1
        /\ Len(formed) + 1 \in 1 .. Len(formed) + 1
    BY <1>2
  <2> QED  BY <1>2, <2>1, <2>2, <2>3, <2>4
<1>4. UNION ToSet(formed') = (UNION ToSet(formed)) \cup c
  BY <1>3
<1> QED  BY <1>1, <1>4 DEF Round

(* Time passes for all who wait alike, and newcomers begin at zero. *)
LEMMA AgesStep ==
    ASSUME Types, Placed, Ages, [Next]_vars
    PROVE  Ages'
<1>1. ASSUME NEW r \in Requests, Add(r)
      PROVE  Ages'
  <2>1. /\ bucket' = [bucket EXCEPT ![ModelOf[r]] = @ \cup {r}]
        /\ entered' = Append(entered, r) /\ ~ Contains(entered, r)
        /\ UNCHANGED <<age, call>> /\ call = "none"
    BY <1>1 DEF Add, clockVars, callVars
  <2>2. Waiting' = Waiting \cup {r}
    BY <2>1, RequestsAssumption DEF Types, Waiting
  <2>3. /\ DOMAIN entered = 1 .. Len(entered) /\ Len(entered) \in Nat
        /\ DOMAIN entered' = 1 .. Len(entered) + 1
        /\ \A i \in 1 .. Len(entered) : entered'[i] = entered[i] /\ entered[i] # r
        /\ entered'[Len(entered) + 1] = r
    <3>1. /\ DOMAIN entered = 1 .. Len(entered) /\ Len(entered) \in Nat
          /\ DOMAIN entered' = 1 .. Len(entered) + 1
          /\ \A i \in 1 .. Len(entered) : entered'[i] = entered[i]
          /\ entered'[Len(entered) + 1] = r
      BY <2>1, AppendProperties, LenProperties DEF Types
    <3>2. \A i \in 1 .. Len(entered) : entered[i] # r
      BY <2>1 DEF Contains
    <3> QED  BY <3>1, <3>2
  <2>4. r \notin Added /\ age[r] = 0
    BY <2>3 DEF Added, ToSet, Placed
  <2>5. ASSUME NEW a \in Waiting', NEW b \in Waiting', Earlier(a, b)'
        PROVE  age[a] >= age[b]
    <3>1. a \in Requests /\ b \in Requests
      BY <2>2, WaitingBuckets
    <3>2. PICK i, j \in 1 .. Len(entered) + 1 : i < j /\ entered'[i] = a /\ entered'[j] = b
      BY <2>3, <2>5 DEF Earlier
    <3>3. i \in 1 .. Len(entered)
      BY <2>3, <3>2
    <3>4. a \in Waiting
      BY <2>2, <2>3, <3>2, <3>3
    <3>5. CASE j \in 1 .. Len(entered)
      <4>1. Earlier(a, b) /\ b \in Waiting
        BY <2>2, <2>3, <3>2, <3>3, <3>5 DEF Earlier
      <4> QED  BY <3>4, <4>1 DEF Ages
    <3>6. CASE j \notin 1 .. Len(entered)
      <4>1. j = Len(entered) + 1
        BY <2>3, <3>6
      <4>2. age[b] = 0 /\ age[a] \in Nat
        BY <2>3, <2>4, <3>1, <3>2, <4>1 DEF Types
      <4> QED  BY <4>2
    <3> QED  BY <3>5, <3>6
  <2> QED  BY <2>1, <2>5 DEF Ages
<1>2. CASE Tick
  <2>1. /\ age' = [r \in Requests |-> IF r \in Waiting THEN age[r] + 1 ELSE 0]
        /\ UNCHANGED <<bucket, entered, call>> /\ call = "none"
    BY <1>2 DEF Tick, callVars
  <2>2. Waiting \subseteq Requests
    BY WaitingBuckets
  <2>3. ASSUME NEW a \in Waiting, NEW b \in Waiting, Earlier(a, b)
        PROVE  age'[a] >= age'[b]
    <3>1. age[a] >= age[b] /\ age[a] \in Nat /\ age[b] \in Nat
      BY <2>2, <2>3 DEF Ages, Types
    <3> QED  BY <2>1, <2>2, <3>1
  <2> QED  BY <2>1, <2>3 DEF Ages, Waiting, Earlier
<1>3. CASE CollectReady \/ FlushAll
  <2>1. formed' = <<>> /\ UNCHANGED <<bucket, entered, age>>
    BY <1>3 DEF CollectReady, FlushAll, Begin
  <2>2. Waiting' = Waiting /\ Round' = Waiting
    BY <2>1 DEF Waiting, Round, ToSet
  <2> QED  BY <2>1, <2>2 DEF Ages, Earlier
<1>4. CASE FlushOne
  <2>1. Round' = Round /\ UNCHANGED <<entered, age, call>> /\ Waiting' \subseteq Waiting
    BY <1>4, SameRound, FlushedOut
  <2> QED  BY <2>1 DEF Ages, Earlier
<1>5. CASE NextBucket \/ UNCHANGED vars
  BY <1>5 DEF NextBucket, vars, clockVars, callVars, Ages, Earlier, Round, Waiting
<1>6. CASE Return
  <2>1. call' # "collect" /\ UNCHANGED <<bucket, entered, age>>
    BY <1>6 DEF Return, clockVars
  <2> QED  BY <2>1 DEF Ages, Earlier, Waiting
<1> QED  BY <1>1, <1>2, <1>3, <1>4, <1>5, <1>6 DEF Next
(* collect_ready begins with the bucket of the request that waited longest *)
(* and its first batch holds that request.                                 *)
LEMMA LedStep ==
    ASSUME Types, Placed, Led, [Next]_vars
    PROVE  Led'
<1>1. CASE CollectReady
  <2>1. /\ formed' = <<>> /\ current' = NoModel /\ bucket' = bucket
        /\ visit' = {m \in Models : bucket[m] # {}}
    BY <1>1 DEF CollectReady, Begin
  <2> QED  BY <2>1 DEF Led
<1>2. CASE call' # "collect"
  BY <1>2 DEF Led
<1>3. CASE UNCHANGED vars
  BY <1>3 DEF vars, callVars, clockVars, Led, Elder, Earlier, Round, Waiting
<1>4. CASE NextBucket
  <2> SUFFICES ASSUME call = "collect", strategy = "fifo",
                      NEW o, Elder(o, Round), age[o] >= MaxWait
               PROVE  \/ formed = <<>> /\ current' \in Models /\ o \in bucket[current']
                      \/ formed # <<>> /\ o \in formed[1]
    <3>1. UNCHANGED <<strategy, bucket, entered, age, call, formed>>
      BY <1>4 DEF NextBucket, clockVars
    <3>2. Round' = Round /\ \A a, b : Earlier(a, b)' <=> Earlier(a, b)
      BY <3>1 DEF Round, Waiting, Earlier
    <3>3. \A o : Elder(o, Round)' <=> Elder(o, Round)
      BY <3>2 DEF Elder
    <3> QED  BY <3>1, <3>3 DEF Led
  <2>1. PICK m \in visit : /\ \A n \in visit \ {m} : ~ Ranks(n, m)
                           /\ current' = m
    BY <1>4 DEF NextBucket
  <2>2. m \in Models /\ ~ Draining
    BY <1>4 DEF NextBucket, Types
  <2>3. CASE formed # <<>>
    BY <2>3 DEF Led
  <2>4. CASE formed = <<>> /\ current \in Models /\ o \in bucket[current]
    <3>1. Due(current)
      BY <2>4 DEF Due
    <3>2. Draining
      BY <2>4, <3>1, RequestsAssumption DEF Draining, Triggered
    <3> QED  BY <2>2, <3>2
  <2>5. CASE formed = <<>> /\ visit = {n \in Models : bucket[n] # {}}
    <3>1. ToSet(formed) = {}
      <4>1. DOMAIN <<>> = {}
        BY EmptySeq
      <4> QED  BY <2>5, <4>1 DEF ToSet
    <3>2. o \in Waiting
      BY <3>1 DEF Elder, Round
    <3>3. PICK n \in Models : o \in bucket[n]
      BY <3>2 DEF Waiting
    <3>4. CASE n = m
      BY <2>1, <2>2, <2>5, <3>3, <3>4
    <3>5. CASE n # m
      <4>1. Oldest(n) = o
        BY <3>3, ElderIsOldest
      <4>2. Oldest(m) \in bucket[m]
        BY <2>1, <2>2, <2>5, OldestIsElder
      <4>3. Oldest(m) \in Round /\ Oldest(m) # o
        BY <2>2, <3>3, <3>5, <4>2 DEF Placed, Round, Waiting
      <4>4. Earlier(Oldest(n), Oldest(m))
        BY <4>1, <4>3 DEF Elder
      <4>5. Ranks(n, m)
        BY <4>4 DEF Ranks
      <4>6. n \in visit \ {m}
        BY <2>5, <3>3, <3>5
      <4> QED  BY <2>1, <4>5, <4>6
    <3> QED  BY <3>4, <3>5
  <2> QED  BY <2>3, <2>4, <2>5 DEF Led
<1>5. CASE FlushOne
  <2>1. PICK c \in SUBSET Requests :
            /\ current \in Models /\ Triggered(current)
            /\ c \in Chosen(bucket[current]) /\ c \subseteq bucket[current]
            /\ formed' = Append(formed, c)
            /\ UNCHANGED <<strategy, entered, age, since, call, visit, current>>
    BY <1>5, FlushedOut
  <2>2. Round' = Round
    BY <1>5, SameRound
  <2>3. /\ formed' # <<>>
        /\ Len(formed) \in Nat
        /\ formed = <<>> => formed'[1] = c
        /\ formed # <<>> => formed'[1] = formed[1]
    <3>1. /\ Len(formed) \in Nat /\ Len(formed') = Len(formed) + 1
          /\ formed' # <<>>
          /\ \A k \in 1 .. Len(formed) : formed'[k] = formed[k]
          /\ formed'[Len(formed) + 1] = c
      BY <2>1, AppendContents, LenProperties DEF Types
    <3>2. formed = <<>> <=> Len(formed) = 0
      BY EmptySeq DEF Types
    <3> QED  BY <3>1, <3>2
  <2> SUFFICES ASSUME call = "collect", strategy = "fifo",
                      NEW o, Elder(o, Round), age[o] >= MaxWait
               PROVE  o \in formed'[1]
    BY <2>1, <2>2, <2>3 DEF Led, Elder, Earlier
  <2>4. CASE formed # <<>>
    BY <2>3, <2>4 DEF Led
  <2>5. CASE formed = <<>> /\ o \in bucket[current]
    <3>1. c # {} /\ \A a \in c, b \in bucket[current] \ c : ~ Before(b, a)
      BY <2>1, ChosenBatch DEF Triggered
    <3>2. ASSUME o \notin c
          PROVE  FALSE
      <4>1. PICK a : a \in c
        BY <3>1
      <4>2. a \in Round /\ a # o
        BY <2>1, <3>2, <4>1 DEF Round, Waiting
      <4>3. Earlier(o, a)
        BY <4>2 DEF Elder
      <4>4. Before(o, a)
        BY <4>3 DEF Before
      <4> QED  BY <2>5, <3>1, <3>2, <4>1, <4>4
    <3> QED  BY <2>3, <2>5, <3>2
  <2> QED  BY <2>1, <2>4, <2>5, RequestsAssumption DEF Led
<1>6. /\ \A r \in Requests : Add(r) => call' # "collect"
      /\ Tick \/ FlushAll \/ Return => call' # "collect"
  BY DEF Add, callVars, Tick, FlushAll, Begin, Return
<1> QED  BY <1>1, <1>2, <1>3, <1>4, <1>5, <1>6 DEF Next

(* Under fifo, if anything that waited when collect_ready was called is    *)
(* due, its first batch holds the request that waited longest.             *)
THEOREM OldestFirst == Spec => []OldestLeads
<1>1. Init => Ages /\ Led
  <2> SUFFICES ASSUME Init  PROVE Ages /\ Led
    OBVIOUS
  <2>1. Waiting = {} /\ call = "none"
    BY DEF Init, Waiting
  <2> QED  BY <2>1 DEF Ages, Led
<1>2. IInv /\ Ages /\ Led /\ [Next]_vars => Ages' /\ Led'
  BY AgesStep, LedStep DEF IInv
<1>3. ASSUME IInv, Ages, Led
      PROVE  OldestLeads
  <2> SUFFICES ASSUME call = "collect", strategy = "fifo", formed # <<>>,
                      NEW i \in DOMAIN formed, NEW r \in formed[i], age[r] >= MaxWait
               PROVE  \E o \in formed[1] : \A x \in Round : x = o \/ Earlier(o, x)
    BY DEF OldestLeads, Round
  <2>1. Types /\ Placed /\ Counts
    BY <1>3 DEF IInv
  <2>2. r \in Round
    BY DEF Round, ToSet
  <2>3. Round \subseteq Added
    BY <2>1 DEF Round, ToSet, Waiting, Placed, Counts
  <2>4. PICK o : Elder(o, Round)
    BY <2>1, <2>2, <2>3, ElderExists
  <2>5. age[o] >= MaxWait
    <3>1. CASE r = o
      BY <3>1
    <3>2. CASE Earlier(o, r)
      <4>1. o \in Round
        BY <2>4 DEF Elder
      <4>2. age[o] >= age[r]
        BY <1>3, <2>2, <3>2, <4>1 DEF Ages
      <4>3. Round \subseteq Requests
        BY <2>1 DEF Round, ToSet, Waiting, Types
      <4>4. age[o] \in Nat /\ age[r] \in Nat
        BY <2>1, <2>2, <4>1, <4>3 DEF Types
      <4> QED  BY <4>2, <4>4, LimitsAssumption
    <3> QED  BY <2>2, <2>4, <3>1, <3>2 DEF Elder
  <2>6. o \in formed[1]
    BY <1>3, <2>4, <2>5 DEF Led
  <2> QED  BY <2>4, <2>6 DEF Elder
<1> QED  BY <1>1, <1>2, <1>3, Inductive, PTL DEF Spec
-----------------------------------------------------------------------------
(* The contract of BatchBuffer *)

(* A call is through with a bucket when nothing triggers a flush of it,    *)
(* and between calls there is no bucket to look at.                        *)
Drained ==
    /\ Running => \A m \in Models \ (visit \cup {current}) : ~ Triggered(m)
    /\ ~ Running => visit = {} /\ current = NoModel

(* The trigger of a bucket is a matter of what is in it and of the call.   *)
LEMMA SameTrigger ==
    ASSUME NEW m, bucket'[m] = bucket[m], UNCHANGED <<age, call>>
    PROVE  Triggered(m)' <=> Triggered(m)
BY DEF Triggered, Due

(* collect_ready leaves a bucket only when it is not triggered any more,   *)
(* and nothing fills it meanwhile.                                         *)
LEMMA DrainedStep ==
    ASSUME Types, Placed, Drained, [Next]_vars
    PROVE  Drained'
<1>1. ASSUME call' \in {"none", "over"}, visit' = {}, current' = NoModel
      PROVE  Drained'
  BY <1>1 DEF Drained, Running
<1>2. ASSUME NEW r \in Requests, Add(r)
      PROVE  Drained'
  BY <1>1, <1>2 DEF Add, callVars, Drained, Running
<1>3. CASE CollectReady \/ FlushAll
  <2>1. bucket' = bucket /\ visit' = {m \in Models : bucket[m] # {}}
        /\ call' \in {"collect", "flush"}
    BY <1>3 DEF CollectReady, FlushAll, Begin
  <2> QED  BY <2>1 DEF Drained, Triggered, Running
<1>4. CASE NextBucket
  <2>1. /\ ~ Draining /\ UNCHANGED <<bucket, age, call>>
        /\ visit' = visit \ {current'} /\ current' \in visit
    BY <1>4 DEF NextBucket, clockVars
  <2>2. ASSUME Running, NEW m \in Models \ (visit' \cup {current'})
        PROVE  ~ Triggered(m)
    <3>1. m \notin visit
      BY <2>1, <2>2
    <3>2. CASE m = current
      BY <2>1, <2>2, <3>2, RequestsAssumption DEF Draining
    <3>3. CASE m # current
      BY <2>2, <3>1, <3>3 DEF Drained
    <3> QED  BY <3>2, <3>3
  <2>3. Running
    BY <2>1 DEF Drained
  <2> QED  BY <2>1, <2>2, <2>3, SameTrigger DEF Drained, Running
<1>5. CASE FlushOne
  <2>1. /\ \A m \in Models \ {current} : bucket'[m] = bucket[m]
        /\ UNCHANGED <<age, call, visit, current>>
    BY <1>5, FlushedOut
  <2> QED  BY <2>1, SameTrigger DEF Drained, Running
<1>6. CASE Return
  BY <1>1, <1>6 DEF Return
<1>7. CASE UNCHANGED vars
  BY <1>7, SameTrigger DEF vars, clockVars, callVars, Drained, Running
<1>8. CASE Tick
  BY <1>1, <1>8 DEF Tick, callVars, Drained, Running
<1> QED  BY <1>2, <1>3, <1>4, <1>5, <1>6, <1>7, <1>8 DEF Next

BufferInv == IInv /\ Drained

(* Nothing runs at first, and every step keeps what the contract needs.    *)
LEMMA BufferAlways == Spec => []BufferInv
<1>1. Init => Drained
  BY DEF Init, Drained, Running
<1>2. IInv /\ Drained /\ [Next]_vars => Drained'
  BY DrainedStep DEF IInv
<1> QED  BY <1>1, <1>2, Inductive, PTL DEF Spec, BufferInv

(* The contract counts as this module does.                                *)
LEMMA SameCount == \A S : Buffer!Cardinality(S) = Cardinality(S)
BY DEF Buffer!Cardinality, Cardinality

Group(m) == {r \in Requests : ModelOf[r] = m /\ PlaceOf(r) \in {"waiting", "due"}}

(* What the buffer groups by model is what is in the bucket of the model.  *)
LEMMA GroupIsBucket ==
    ASSUME Types, Placed, NEW m \in Models
    PROVE  Group(m) = bucket[m]
<1>1. /\ Waiting \subseteq Requests
      /\ \A r : r \in Waiting <=> \E n \in Models : r \in bucket[n]
  BY WaitingBuckets
<1>2. \A r \in Requests : PlaceOf(r) \in {"waiting", "due"} <=> r \in Waiting
  BY DEF PlaceOf
<1>3. \A r \in bucket[m] : ModelOf[r] = m /\ r \in Waiting
  BY <1>1 DEF Placed
<1>4. \A r \in Waiting : ModelOf[r] = m => r \in bucket[m]
  BY <1>1 DEF Placed
<1> QED  BY <1>1, <1>2, <1>3, <1>4 DEF Group

(* The buffer closes a group when the batcher triggers a bucket.           *)
LEMMA ClosedIsTriggered ==
    ASSUME Types, Placed, NEW m \in Models
    PROVE  /\ Buffer!Group(m) = bucket[m]
           /\ Buffer!Closed(m) <=> Triggered(m)
<1>1. Buffer!Group(m) = bucket[m]
  BY GroupIsBucket DEF Group, Buffer!Group
<1>2. \A r \in bucket[m] : PlaceOf(r) = "due" <=> age[r] >= MaxWait
  BY WaitingBuckets DEF PlaceOf
<1>3. \A r \in bucket[m] : r \in Requests
  BY DEF Types
<1> QED  BY <1>1, <1>2, <1>3, SameCount DEF Buffer!Closed, Triggered, Due

(* Where a request is depends on three things.                             *)
LEMMA SamePlace ==
    ASSUME NEW r, r \in Waiting' <=> r \in Waiting, r \in Added' <=> r \in Added,
           age'[r] = age[r]
    PROVE  PlaceOf(r)' = PlaceOf(r)
BY DEF PlaceOf

(* A new request is outside, and waits when it has been added.             *)
LEMMA AddContract ==
    ASSUME Types, Placed, NEW r \in Requests, Add(r)
    PROVE  Buffer!Add(r)
<1> DEFINE place == [q \in Requests |-> PlaceOf(q)]
<1>1. /\ call = "none" /\ ~ Contains(entered, r)
      /\ bucket' = [bucket EXCEPT ![ModelOf[r]] = @ \cup {r}]
      /\ entered' = Append(entered, r)
      /\ UNCHANGED <<age, call, formed>>
  BY DEF Add, clockVars, callVars
<1>2. ModelOf[r] \in Models
  BY RequestsAssumption
<1>3. Waiting' = Waiting \cup {r}
  BY <1>1, <1>2 DEF Types, Waiting
<1>4. Added' = Added \cup {r}
  BY <1>1, AddedGrows
<1>5. r \notin Added
  BY <1>1, LenProperties DEF Types, Added, ToSet, Contains
<1>6. r \notin Waiting
  BY <1>5, WaitingBuckets DEF Placed
<1>7. age[r] = 0 /\ MaxWait \in Nat /\ MaxWait # 0
  BY <1>5, LimitsAssumption DEF Placed
<1>8. PlaceOf(r) = "outside" /\ PlaceOf(r)' = "waiting"
  BY <1>1, <1>3, <1>5, <1>6, <1>7 DEF PlaceOf
<1>9. \A q \in Requests : q # r => PlaceOf(q)' = PlaceOf(q)
  BY <1>1, <1>3, <1>4, SamePlace
<1>10. place' = [place EXCEPT ![r] = "waiting"] /\ place[r] = "outside"
  BY <1>8, <1>9
<1> QED  BY <1>1, <1>10 DEF Buffer!Add

(* A millisecond makes some requests due.                                  *)
LEMMA TickContract ==
    ASSUME Types, Placed, Tick
    PROVE  \E rs \in SUBSET Requests : Buffer!Elapse(rs)
<1> DEFINE place == [q \in Requests |-> PlaceOf(q)]
<1>1. /\ call = "none" /\ UNCHANGED <<bucket, entered, call, formed>>
      /\ age' = [r \in Requests |-> IF r \in Waiting THEN age[r] + 1 ELSE 0]
  BY DEF Tick, callVars
<1>2. Waiting' = Waiting /\ Added' = Added
  BY <1>1 DEF Waiting, Added
<1> PICK rs : rs = {r \in Waiting : age[r] < MaxWait /\ age[r] + 1 >= MaxWait}
  OBVIOUS
<1>3. rs \in SUBSET Requests
  BY WaitingBuckets
<1>4. ASSUME NEW r \in Requests
      PROVE  /\ r \in rs => PlaceOf(r) = "waiting" /\ PlaceOf(r)' = "due"
             /\ r \notin rs => PlaceOf(r)' = PlaceOf(r)
  <2>1. age[r] \in Nat /\ MaxWait \in Nat
    BY LimitsAssumption DEF Types
  <2>2. CASE r \in Waiting
    <3>1. age'[r] = age[r] + 1
      BY <1>1, <2>2
    <3> QED  BY <1>2, <2>1, <2>2, <3>1 DEF PlaceOf
  <2>3. CASE r \notin Waiting
    BY <1>2, <2>3 DEF PlaceOf
  <2> QED  BY <2>2, <2>3
<1>5. place' = [r \in Requests |-> IF r \in rs THEN "due" ELSE place[r]]
  BY <1>4
<1>6. \A r \in rs : place[r] = "waiting"
  BY <1>3, <1>4
<1>7. Buffer!Elapse(rs)
  BY <1>1, <1>5, <1>6 DEF Buffer!Elapse
<1> QED  BY <1>3, <1>7

(* What _flush_one takes is a batch, and gone.                             *)
LEMMA FlushContract ==
    ASSUME Types, Placed, Running, FlushOne
    PROVE  \E m \in Models : \E rs \in SUBSET Buffer!Group(m) : Buffer!Form(m, rs)
<1> DEFINE place == [q \in Requests |-> PlaceOf(q)]
<1>1. PICK rs \in SUBSET Requests :
        /\ current \in Models /\ Triggered(current)
        /\ rs \in Chosen(bucket[current]) /\ rs \subseteq bucket[current]
        /\ rs \subseteq Waiting /\ Waiting' = Waiting \ rs
        /\ formed' = Append(formed, rs)
        /\ UNCHANGED <<entered, age, call>>
  BY FlushedOut
<1>2. PICK m \in Models : m = current
  BY <1>1
<1>3. Buffer!Group(m) = bucket[m] /\ Buffer!Closed(m)
  BY <1>1, <1>2, ClosedIsTriggered
<1>4. Cardinality(rs) = MaxBatch \/ (rs = bucket[m] /\ Cardinality(rs) < MaxBatch)
  BY <1>1, <1>2, ChosenBatch DEF Triggered
<1>5. Added' = Added
  BY <1>1 DEF Added
<1>6. \A r \in Waiting : r \in Added
  BY WaitingBuckets DEF Placed
<1>7. \A r \in rs : PlaceOf(r)' = "gone"
  BY <1>1, <1>5, <1>6 DEF PlaceOf
<1>8. \A r \in Requests \ rs : PlaceOf(r)' = PlaceOf(r)
  BY <1>1, <1>5, SamePlace
<1>9. place' = [r \in Requests |-> IF r \in rs THEN "gone" ELSE place[r]]
  BY <1>7, <1>8
<1>10. Buffer!Form(m, rs)
  BY <1>1, <1>3, <1>4, <1>9, SameCount DEF Buffer!Form, Running
<1> QED  BY <1>1, <1>2, <1>3, <1>10

(* The batcher of batcher.py with any of the strategies of strategies.py   *)
(* is a BatchBuffer: full or due batches of one model, everybody once, and *)
(* nothing full or due left when collect_ready returns.                    *)
THEOREM ImplementsBuffer == Spec => BufferContract
<1>1. Init => Buffer!Init
  <2> SUFFICES ASSUME Init  PROVE Buffer!Init
    OBVIOUS
  <2>1. DOMAIN <<>> = {}
    OBVIOUS
  <2>2. Waiting = {} /\ Added = {}
    BY <2>1 DEF Init, Waiting, Added, ToSet
  <2> QED  BY <2>2 DEF Init, Buffer!Init, PlaceOf
<1>2. ASSUME BufferInv, [Next]_vars
      PROVE  [Buffer!Next]_(Buffer!vars)
  <2>0. Types /\ Placed /\ Drained
    BY <1>2 DEF BufferInv, IInv
  <2>1. ASSUME UNCHANGED <<bucket, entered, age>>
        PROVE  [r \in Requests |-> PlaceOf(r)]' = [r \in Requests |-> PlaceOf(r)]
    BY <2>1 DEF PlaceOf, Waiting, Added
  <2>2. ASSUME NEW r \in Requests, Add(r)
        PROVE  [Buffer!Next]_(Buffer!vars)
    BY <2>0, <2>2, AddContract DEF Buffer!Next
  <2>3. CASE Tick
    BY <2>0, <2>3, TickContract DEF Buffer!Next
  <2>4. ASSUME NEW kind \in {"collect", "flush"}, Begin(kind)
        PROVE  [Buffer!Next]_(Buffer!vars)
    <3>1. Buffer!Begin(kind)
      BY <2>1, <2>4 DEF Begin, Buffer!Begin
    <3> QED  BY <2>4, <3>1 DEF Buffer!Next
  <2>5. CASE NextBucket
    BY <2>1, <2>5 DEF NextBucket, clockVars, Buffer!vars
  <2>6. CASE FlushOne
    <3>1. Running
      BY <2>0, <2>6 DEF FlushOne, Draining, Drained
    <3> QED  BY <2>0, <2>6, <3>1, FlushContract DEF Buffer!Next
  <2>7. CASE Return
    <3>1. /\ Running /\ ~ Draining /\ visit = {}
          /\ UNCHANGED <<bucket, entered, age, formed>>
          /\ call' = IF call = "collect" THEN "none" ELSE "over"
      BY <2>7 DEF Return, clockVars
    <3>2. ASSUME NEW m \in Models
          PROVE  ~ Triggered(m)
      <4>1. CASE m = current
        BY <3>1, <4>1, RequestsAssumption DEF Draining
      <4>2. CASE m # current
        BY <2>0, <3>1, <4>2 DEF Drained
      <4> QED  BY <4>1, <4>2
    <3>3. \A m \in Models : ~ Buffer!Closed(m)
      BY <2>0, <3>2, ClosedIsTriggered
    <3>4. Buffer!Return
      BY <2>1, <3>1, <3>3 DEF Buffer!Return, Running
    <3> QED  BY <3>4 DEF Buffer!Next
  <2>8. CASE UNCHANGED vars
    BY <2>1, <2>8 DEF vars, clockVars, callVars, Buffer!vars
  <2> QED  BY <1>2, <2>2, <2>3, <2>4, <2>5, <2>6, <2>7, <2>8
           DEF Next, CollectReady, FlushAll
<1> QED  BY <1>1, <1>2, BufferAlways, PTL DEF Spec, BufferContract, Buffer!Spec
=============================================================================
