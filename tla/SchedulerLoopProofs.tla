------------------------- MODULE SchedulerLoopProofs ------------------------
(***************************************************************************)
(* Theorems about SchedulerLoop, for any number of requests, models,       *)
(* replicas and faults: acknowledged is handled, nothing is handled twice, *)
(* and the whole implements RequestHandover.                               *)
(***************************************************************************)
EXTENDS SchedulerLoop, QueueLemmas, FiniteSetTheorems

USE DEF streamVars, loopVars, doneVars

-----------------------------------------------------------------------------
(* The stream *)

(* What follows position d of a stream. *)
LEMMA RestOfStream ==
    ASSUME NEW s \in Seq(Requests), NEW d \in 0 .. Len(s)
    PROVE  /\ SubSeq(s, d + 1, Len(s)) \in Seq(Requests)
           /\ Len(SubSeq(s, d + 1, Len(s))) = Len(s) - d
           /\ \A i \in 1 .. Len(s) - d : SubSeq(s, d + 1, Len(s))[i] = s[d + i]
           /\ \A x : Contains(SubSeq(s, d + 1, Len(s)), x) <=>
                        \E i \in d + 1 .. Len(s) : s[i] = x
<1>1. Len(s) \in Nat
  BY LenProperties
<1> DEFINE m == d + 1
<1>2. m \in 1 .. Len(s) + 1 /\ Len(s) \in m - 1 .. Len(s)
  BY <1>1
<1> HIDE DEF m
<1>3. /\ SubSeq(s, m, Len(s)) \in Seq(Requests)
      /\ Len(SubSeq(s, m, Len(s))) = Len(s) - m + 1
      /\ \A i \in 1 .. Len(s) - m + 1 : SubSeq(s, m, Len(s))[i] = s[m + i - 1]
      /\ \A x : Contains(SubSeq(s, m, Len(s)), x) <=>
                   \E i \in m .. Len(s) : s[i] = x
  BY <1>2, StretchContents
<1>4. /\ Len(s) - m + 1 = Len(s) - d
      /\ \A i \in 1 .. Len(s) - d : m + i - 1 = d + i
  BY <1>1 DEF m
<1> QED  BY <1>3, <1>4 DEF m

(* Unread holds what the stream has after the position delivered. *)
LEMMA UnreadEntries ==
    ASSUME stream \in Seq(Requests), delivered \in 0 .. Len(stream)
    PROVE  /\ Unread \in Seq(Requests)
           /\ Len(Unread) = Len(stream) - delivered
           /\ \A i \in 1 .. Len(Unread) : Unread[i] = stream[delivered + i]
           /\ \A x : Contains(Unread, x) <=>
                        \E i \in delivered + 1 .. Len(stream) : stream[i] = x
  BY RestOfStream DEF Unread

(* A read takes the oldest unread entries, at most MaxBatch of them. *)
LEMMA NextEntriesOldest ==
    ASSUME stream \in Seq(Requests), delivered \in 0 .. Len(stream)
    PROVE  /\ NextEntries \in Seq(Requests)
           /\ Len(NextEntries) \in 0 .. Len(stream) - delivered
           /\ \A i \in 1 .. Len(NextEntries) : NextEntries[i] = stream[delivered + i]
           /\ \A x : x \in ToSet(NextEntries) <=>
                        \E i \in delivered + 1 .. delivered + Len(NextEntries) :
                            stream[i] = x
<1>1. /\ Unread \in Seq(Requests)
      /\ Len(Unread) = Len(stream) - delivered
      /\ \A i \in 1 .. Len(Unread) : Unread[i] = stream[delivered + i]
  BY UnreadEntries
<1> DEFINE n == IF Len(Unread) < MaxBatch THEN Len(Unread) ELSE MaxBatch
<1>2. Len(stream) \in Nat /\ Len(Unread) \in Nat /\ n \in 0 .. Len(Unread)
  BY <1>1, LenProperties, LimitsAssumption
<1>3. 1 \in 1 .. Len(Unread) + 1 /\ n \in 1 - 1 .. Len(Unread)
  BY <1>2
<1> HIDE DEF n
<1>4. /\ SubSeq(Unread, 1, n) \in Seq(Requests)
      /\ Len(SubSeq(Unread, 1, n)) = n - 1 + 1
      /\ \A i \in 1 .. n - 1 + 1 : SubSeq(Unread, 1, n)[i] = Unread[1 + i - 1]
  BY <1>1, <1>3, StretchContents
<1>5. NextEntries = SubSeq(Unread, 1, n)
  BY DEF NextEntries, n
<1>6. Len(NextEntries) = n /\ \A i \in 1 .. n : NextEntries[i] = stream[delivered + i]
  <2>1. n - 1 + 1 = n /\ \A i \in 1 .. n : 1 + i - 1 = i /\ i \in 1 .. Len(Unread)
    BY <1>2
  <2> QED  BY <1>1, <1>4, <1>5, <2>1
<1>7. ASSUME NEW x
      PROVE  x \in ToSet(NextEntries) <=>
                \E i \in delivered + 1 .. delivered + Len(NextEntries) : stream[i] = x
  <2>1. x \in ToSet(NextEntries) <=> \E i \in 1 .. n : NextEntries[i] = x
    <3>1. DOMAIN NextEntries = 1 .. n
      BY <1>4, <1>5, <1>6, LenProperties
    <3> QED  BY <3>1 DEF ToSet
  <2>2. ASSUME NEW i \in 1 .. n, NextEntries[i] = x
        PROVE  delivered + i \in delivered + 1 .. delivered + n /\ stream[delivered + i] = x
    BY <2>2, <1>2, <1>6
  <2>3. ASSUME NEW i \in delivered + 1 .. delivered + n, stream[i] = x
        PROVE  i - delivered \in 1 .. n /\ NextEntries[i - delivered] = x
    <3>1. i - delivered \in 1 .. n /\ delivered + (i - delivered) = i
      BY <1>2
    <3> QED  BY <2>3, <3>1, <1>6
  <2> QED  BY <2>1, <2>2, <2>3, <1>6
<1> QED  BY <1>1, <1>2, <1>4, <1>5, <1>6, <1>7

(* XADD appends r and drops k entries at the old end, moving the position. *)
LEMMA EnqueueShifts ==
    ASSUME stream \in Seq(Requests), delivered \in 0 .. Len(stream),
           NEW r \in Requests, Enqueue(r)
    PROVE  /\ stream' \in Seq(Requests)
           /\ delivered' \in 0 .. Len(stream')
           /\ \E k \in 0 .. Len(stream) + 1 :
                /\ Len(stream') = Len(stream) + 1 - k
                /\ \A i \in 1 .. Len(stream') :
                      stream'[i] = IF i + k = Len(stream) + 1 THEN r ELSE stream[i + k]
                /\ delivered' = IF k < delivered THEN delivered - k ELSE 0
                /\ trimmed \subseteq trimmed'
                /\ \A x \in trimmed' \ trimmed : x = r \/ Contains(stream, x)
                /\ \A x \in trimmed' \ trimmed : \E i \in delivered + 1 .. k :
                      x = IF i = Len(stream) + 1 THEN r ELSE stream[i]
                /\ \A i \in delivered + 1 .. k :
                      (IF i = Len(stream) + 1 THEN r ELSE stream[i]) \in trimmed'
<1> DEFINE longer == Append(stream, r)
<1>1. Len(stream) \in Nat
  BY LenProperties
<1>2. /\ longer \in Seq(Requests)
      /\ Len(longer) = Len(stream) + 1
      /\ \A i \in 1 .. Len(stream) + 1 :
            longer[i] = IF i = Len(stream) + 1 THEN r ELSE stream[i]
  BY <1>1, AppendProperties
<1> DEFINE excess == IF Len(longer) > MaxLen THEN Len(longer) - MaxLen ELSE 0
<1>3. PICK k \in 0 .. excess :
        /\ stream' = SubSeq(longer, k + 1, Len(longer))
        /\ delivered' = IF k < delivered THEN delivered - k ELSE 0
        /\ trimmed' = trimmed \cup {longer[i] : i \in delivered + 1 .. k}
  BY DEF Enqueue
<1>4. k \in 0 .. Len(longer) /\ k =< Len(stream) + 1
  BY <1>1, <1>2, LimitsAssumption
<1> HIDE DEF longer, excess
<1>5. /\ stream' \in Seq(Requests)
      /\ Len(stream') = Len(longer) - k
      /\ \A i \in 1 .. Len(longer) - k : stream'[i] = longer[k + i]
  BY <1>2, <1>3, <1>4, RestOfStream
<1>6. delivered' \in 0 .. Len(stream')
  BY <1>1, <1>2, <1>3, <1>4, <1>5
<1>7. ASSUME NEW i \in 1 .. Len(stream')
      PROVE  stream'[i] = IF i + k = Len(stream) + 1 THEN r ELSE stream[i + k]
  <2>1. k + i \in 1 .. Len(stream) + 1 /\ k + i = i + k /\ i \in 1 .. Len(longer) - k
    BY <1>1, <1>2, <1>4, <1>5
  <2> QED  BY <1>2, <1>5, <2>1
<1>8. ASSUME NEW x \in trimmed' \ trimmed
      PROVE  x = r \/ Contains(stream, x)
  <2>1. PICK i \in delivered + 1 .. k : x = longer[i]
    BY <1>3, <1>8
  <2>2. i \in 1 .. Len(stream) + 1
    BY <1>1, <1>4, <2>1
  <2>3. x = r \/ (i \in 1 .. Len(stream) /\ stream[i] = x)
    BY <1>1, <1>2, <2>1, <2>2
  <2> QED  BY <2>3 DEF Contains
<1>9. ASSUME NEW i \in delivered + 1 .. k
      PROVE  (IF i = Len(stream) + 1 THEN r ELSE stream[i]) \in trimmed'
  <2>1. i \in 1 .. Len(stream) + 1
    BY <1>1, <1>4
  <2> QED  BY <1>2, <1>3, <2>1
<1>10. k \in 0 .. Len(stream) + 1 /\ Len(stream') = Len(stream) + 1 - k
  BY <1>1, <1>2, <1>4, <1>5
<1>11. ASSUME NEW x \in trimmed' \ trimmed
       PROVE  \E i \in delivered + 1 .. k : x = IF i = Len(stream) + 1 THEN r ELSE stream[i]
  <2>1. PICK i \in delivered + 1 .. k : x = longer[i]
    BY <1>3, <1>11
  <2>2. i \in 1 .. Len(stream) + 1
    BY <1>1, <1>4, <2>1
  <2> QED  BY <1>2, <2>1, <2>2
<1> QED  BY <1>3, <1>5, <1>6, <1>7, <1>8, <1>9, <1>10, <1>11

(* An entry that is published or unread stays unread or is trimmed. *)
LEMMA EnqueueKeeps ==
    ASSUME stream \in Seq(Requests), delivered \in 0 .. Len(stream),
           NEW r \in Requests, Enqueue(r),
           NEW x, x = r \/ Contains(Unread, x)
    PROVE  Contains(Unread', x) \/ x \in trimmed'
<1>1. Len(stream) \in Nat
  BY LenProperties
<1>2. stream' \in Seq(Requests) /\ delivered' \in 0 .. Len(stream')
  BY EnqueueShifts
<1>3. PICK k \in 0 .. Len(stream) + 1 :
        /\ Len(stream') = Len(stream) + 1 - k
        /\ \A i \in 1 .. Len(stream') :
              stream'[i] = IF i + k = Len(stream) + 1 THEN r ELSE stream[i + k]
        /\ delivered' = IF k < delivered THEN delivered - k ELSE 0
        /\ \A i \in delivered + 1 .. k :
              (IF i = Len(stream) + 1 THEN r ELSE stream[i]) \in trimmed'
  BY EnqueueShifts
<1>4. PICK i \in delivered + 1 .. Len(stream) + 1 :
            x = IF i = Len(stream) + 1 THEN r ELSE stream[i]
  <2>1. CASE x = r
    BY <1>1, <2>1
  <2>2. CASE Contains(Unread, x)
    <3>1. PICK i \in delivered + 1 .. Len(stream) : stream[i] = x
      BY <2>2, UnreadEntries
    <3> QED  BY <1>1, <3>1
  <2> QED  BY <2>1, <2>2
<1>5. CASE i =< k
  <2>1. i \in delivered + 1 .. k
    BY <1>1, <1>5
  <2> QED  BY <1>3, <1>4, <2>1
<1>6. CASE ~ i =< k
  <2>1. i - k \in delivered' + 1 .. Len(stream') /\ (i - k) + k = i
    BY <1>1, <1>3, <1>4, <1>6
  <2>2. stream'[i - k] = x
    BY <1>1, <1>3, <1>4, <2>1
  <2> QED  BY <1>2, <2>1, <2>2, RestOfStream DEF Unread
<1> QED  BY <1>5, <1>6

(* A read takes an unread entry onto the pending list, or leaves it. *)
LEMMA DeliverKeeps ==
    ASSUME stream \in Seq(Requests), delivered \in 0 .. Len(stream), Deliver,
           NEW x, Contains(Unread, x)
    PROVE  Contains(Unread', x) \/ x \in pel'
<1>1. Len(stream) \in Nat
  BY LenProperties
<1> DEFINE n == Len(NextEntries)
<1>2. /\ n \in 0 .. Len(stream) - delivered
      /\ \A y : y \in ToSet(NextEntries) <=>
                   \E i \in delivered + 1 .. delivered + n : stream[i] = y
  BY NextEntriesOldest
<1>3. delivered' = delivered + n /\ stream' = stream /\ pel' = pel \cup ToSet(NextEntries)
  BY DEF Deliver
<1>4. PICK i \in delivered + 1 .. Len(stream) : stream[i] = x
  BY UnreadEntries
<1> HIDE DEF n
<1>5. CASE i =< delivered + n
  BY <1>1, <1>2, <1>3, <1>4, <1>5
<1>6. CASE ~ i =< delivered + n
  <2>1. i \in delivered' + 1 .. Len(stream') /\ delivered' \in 0 .. Len(stream')
    BY <1>1, <1>2, <1>3, <1>4, <1>6
  <2> QED  BY <1>3, <1>4, <2>1, RestOfStream DEF Unread
<1> QED  BY <1>5, <1>6

-----------------------------------------------------------------------------
(* Types and the shape of the loop *)

(* The initial state has its types and its shape. *)
LEMMA InitType == Init => TypeOK /\ LoopShape
<1> SUFFICES ASSUME Init PROVE TypeOK /\ LoopShape
  OBVIOUS
<1>1. \A S : <<>> \in Seq(S)
  BY EmptySeq
<1>2. Len(stream) = 0 /\ delivered = 0
  BY EmptySeq DEF Init
<1>3. TypeOK
  BY <1>1, <1>2 DEF Init, TypeOK
<1>4. LoopShape
  BY DEF Init, LoopShape, Working
<1> QED  BY <1>3, <1>4

(* Removing the head of a slice, and where that leads. *)
LEMMA NextEntryShape ==
    ASSUME TypeOK, LoopShape, NEW c \in Replicas, pc[c] \in {"feed", "reject"},
           NextEntry(c)
    PROVE  /\ slice[c] # <<>>
           /\ Head(slice[c]) \in Requests
           /\ slice' \in [Replicas -> Seq(Requests)]
           /\ pc' \in [Replicas -> {"read", "feed", "reject", "collect", "push", "ack"}]
           /\ slice'[c] = Tail(slice[c])
           /\ pc'[c] \in {"collect", "feed"}
           /\ pc'[c] = "feed" <=> slice'[c] # <<>>
           /\ \A d \in Replicas : d # c => slice'[d] = slice[d] /\ pc'[d] = pc[d]
<1>1. slice[c] \in Seq(Requests) /\ slice[c] # <<>>
  BY DEF TypeOK, LoopShape
<1>2. /\ Head(slice[c]) \in Requests
      /\ Tail(slice[c]) \in Seq(Requests)
      /\ Len(Tail(slice[c])) = Len(slice[c]) - 1
      /\ Len(slice[c]) \in Nat
  BY <1>1, HeadTailProperties, LenProperties
<1>3. Tail(slice[c]) # <<>> <=> Len(slice[c]) # 1
  <2>1. Tail(slice[c]) = <<>> <=> Len(Tail(slice[c])) = 0
    BY <1>2, EmptySeq
  <2> QED  BY <1>2, <2>1
<1>4. /\ slice' = [slice EXCEPT ![c] = Tail(slice[c])]
      /\ pc' = [pc EXCEPT ![c] = IF Len(slice[c]) = 1 THEN "collect" ELSE "feed"]
  BY DEF NextEntry
<1> QED  BY <1>1, <1>2, <1>3, <1>4 DEF TypeOK

(* A read leaves the stream well-formed. *)
LEMMA DeliverType ==
    ASSUME TypeOK, Deliver
    PROVE  /\ stream' = stream /\ trimmed' = trimmed
           /\ delivered' \in 0 .. Len(stream')
           /\ pel' \subseteq Requests
           /\ NextEntries \in Seq(Requests)
<1>1. /\ stream \in Seq(Requests)
      /\ delivered \in 0 .. Len(stream)
      /\ Len(stream) \in Nat
  BY LenProperties DEF TypeOK
<1>2. /\ NextEntries \in Seq(Requests)
      /\ Len(NextEntries) \in 0 .. Len(stream) - delivered
  BY <1>1, NextEntriesOldest
<1>3. ToSet(NextEntries) \subseteq Requests
  <2>1. \A i \in DOMAIN NextEntries : NextEntries[i] \in Requests
    BY <1>2, ElementOfSeq, LenProperties
  <2> QED  BY <2>1 DEF ToSet
<1>4. /\ delivered' = delivered + Len(NextEntries)
      /\ pel' = pel \cup ToSet(NextEntries)
      /\ stream' = stream /\ trimmed' = trimmed
  BY DEF Deliver
<1> QED  BY <1>1, <1>2, <1>3, <1>4 DEF TypeOK

(* Dispatching a batch, rejecting a request: the counters stay numbers. *)
LEMMA CountsType ==
    ASSUME TypeOK, LoopShape, NEW c \in Replicas, CountBatch(c) \/ CountRejection(c)
    PROVE  batched' \in [Requests -> Nat] /\ rejected' \in [Requests -> Nat]
<1>1. CASE CountBatch(c)
  BY <1>1 DEF CountBatch, TypeOK
<1>2. CASE CountRejection(c)
  <2>1. slice[c] \in Seq(Requests) /\ slice[c] # <<>>
    BY <1>2 DEF CountRejection, TypeOK, LoopShape
  <2>2. Head(slice[c]) \in Requests
    BY <2>1, HeadTailProperties
  <2> QED  BY <1>2, <2>2 DEF CountRejection, TypeOK
<1> QED  BY <1>1, <1>2

(* An exception empties the local variables and ends the tick. *)
LEMMA RaiseShape ==
    ASSUME TypeOK, LoopShape, NEW c \in Replicas, Working(c), Raise(c)
    PROVE  /\ replica' \in [Replicas -> {"running", "stopping", "draining",
                                         "stopped", "down"}]
           /\ pc' \in [Replicas -> {"read", "feed", "reject", "collect", "push", "ack"}]
           /\ slice' \in [Replicas -> Seq(Requests)]
           /\ bucket' \in [Replicas -> SUBSET Requests]
           /\ formed' \in [Replicas -> Seq(SUBSET Requests)]
           /\ LoopShape'
<1>1. /\ <<>> \in Seq(Requests)
      /\ <<>> \in Seq(SUBSET Requests)
  BY EmptySeq
<1>2. /\ slice' = [slice EXCEPT ![c] = <<>>]
      /\ formed' = [formed EXCEPT ![c] = <<>>]
      /\ bucket' = [bucket EXCEPT ![c] = IF replica[c] = "draining" THEN {} ELSE @]
  BY DEF Raise
<1>3. /\ replica' = [replica EXCEPT ![c] =
              CASE @ = "running"  -> "running"
                [] @ = "stopping" -> "draining"
                [] @ = "draining" -> "stopped"]
      /\ pc' = [pc EXCEPT ![c] = IF replica[c] = "stopping" THEN "collect" ELSE "read"]
  BY DEF Raise, LeavesTick
<1>4. /\ replica' \in [Replicas -> {"running", "stopping", "draining",
                                    "stopped", "down"}]
      /\ pc' \in [Replicas -> {"read", "feed", "reject", "collect", "push", "ack"}]
      /\ replica[c] = "running" => replica'[c] = "running"
      /\ replica[c] = "stopping" => replica'[c] = "draining" /\ pc'[c] = "collect"
      /\ replica[c] # "stopping" => pc'[c] = "read"
      /\ \A d \in Replicas : d # c => replica'[d] = replica[d] /\ pc'[d] = pc[d]
  BY <1>3 DEF TypeOK, Working
<1>5. LoopShape'
  BY <1>2, <1>4 DEF TypeOK, LoopShape, Working
<1> QED  BY <1>1, <1>2, <1>4, <1>5 DEF TypeOK

(* Every step keeps the types, and the shape of the loop. *)
LEMMA TypeStep == TypeOK /\ LoopShape /\ [Next]_vars => TypeOK' /\ LoopShape'
<1> SUFFICES ASSUME TypeOK, LoopShape, [Next]_vars
             PROVE  TypeOK' /\ LoopShape'
  OBVIOUS
<1>0. /\ stream \in Seq(Requests)
      /\ delivered \in 0 .. Len(stream)
      /\ \A S : <<>> \in Seq(S)
  BY EmptySeq DEF TypeOK
<1>1. ASSUME NEW r \in Requests, CheckDepth(r) \/ Wait(r)
      PROVE  TypeOK' /\ LoopShape'
  BY <1>1 DEF CheckDepth, Wait, TypeOK, LoopShape, Working
<1>2. ASSUME NEW r \in Requests, Enqueue(r)
      PROVE  TypeOK' /\ LoopShape'
  <2>1. stream' \in Seq(Requests) /\ delivered' \in 0 .. Len(stream')
    BY <1>0, <1>2, EnqueueShifts
  <2>2. trimmed' \subseteq Requests
    <3>1. \A x \in trimmed' \ trimmed : x = r \/ Contains(stream, x)
      BY <1>0, <1>2, EnqueueShifts
    <3>2. \A x : Contains(stream, x) => x \in Requests
      BY <1>0, ElementOfSeq DEF Contains
    <3> QED  BY <3>1, <3>2 DEF TypeOK
  <2>3. /\ client' = [client EXCEPT ![r] = "accepted"]
        /\ UNCHANGED <<pel, loopVars, due, doneVars, faults>>
    BY <1>2 DEF Enqueue
  <2> QED  BY <2>1, <2>2, <2>3 DEF TypeOK, LoopShape, Working
<1>3. ASSUME NEW c \in Replicas, Read(c)
      PROVE  TypeOK' /\ LoopShape'
  <2>1. /\ stream' = stream /\ trimmed' = trimmed
        /\ delivered' \in 0 .. Len(stream')
        /\ pel' \subseteq Requests
        /\ NextEntries \in Seq(Requests)
    BY <1>3, DeliverType DEF Read
  <2>2. /\ slice' = [slice EXCEPT ![c] = NextEntries]
        /\ pc' = [pc EXCEPT ![c] = IF NextEntries = <<>> THEN "collect" ELSE "feed"]
        /\ pc[c] = "read" /\ replica[c] \in {"running", "stopping"}
        /\ UNCHANGED <<client, replica, bucket, formed, due, doneVars, faults>>
    BY <1>3 DEF Read
  <2>3. TypeOK'
    BY <2>1, <2>2 DEF TypeOK
  <2>4. LoopShape'
    BY <2>2 DEF TypeOK, LoopShape, Working
  <2> QED  BY <2>3, <2>4
<1>4. ASSUME NEW c \in Replicas, Feed(c)
      PROVE  TypeOK' /\ LoopShape'
  <2>1. /\ pc[c] = "feed" /\ NextEntry(c)
        /\ bucket' = [bucket EXCEPT ![c] = @ \cup {Head(slice[c])}]
        /\ UNCHANGED <<client, streamVars, replica, formed, due, doneVars, faults>>
    BY <1>4 DEF Feed
  <2>2. /\ Head(slice[c]) \in Requests
        /\ slice' \in [Replicas -> Seq(Requests)]
        /\ pc' \in [Replicas -> {"read", "feed", "reject", "collect", "push", "ack"}]
        /\ pc'[c] \in {"collect", "feed"}
        /\ pc'[c] = "feed" <=> slice'[c] # <<>>
        /\ \A d \in Replicas : d # c => slice'[d] = slice[d] /\ pc'[d] = pc[d]
    BY <2>1, NextEntryShape
  <2>3. TypeOK'
    BY <2>1, <2>2 DEF TypeOK
  <2>4. LoopShape'
    BY <2>1, <2>2 DEF LoopShape, Working
  <2> QED  BY <2>3, <2>4
<1>5. ASSUME NEW c \in Replicas, Reject(c)
      PROVE  TypeOK' /\ LoopShape'
  <2>1. /\ CountRejection(c) /\ pc[c] = "feed"
        /\ pc' = [pc EXCEPT ![c] = "reject"]
        /\ UNCHANGED <<client, streamVars, replica, slice, bucket, formed, due, faults>>
    BY <1>5 DEF Reject, CountRejection
  <2>2. batched' \in [Requests -> Nat] /\ rejected' \in [Requests -> Nat]
    BY <2>1, CountsType
  <2> QED  BY <2>1, <2>2 DEF TypeOK, LoopShape, Working
<1>6. ASSUME NEW c \in Replicas, AckRejected(c)
      PROVE  TypeOK' /\ LoopShape'
  <2>1. /\ pc[c] = "reject" /\ NextEntry(c)
        /\ Ack({Head(slice[c])})
        /\ UNCHANGED <<client, replica, bucket, formed, due, doneVars, faults>>
    BY <1>6 DEF AckRejected
  <2>2. /\ slice' \in [Replicas -> Seq(Requests)]
        /\ pc' \in [Replicas -> {"read", "feed", "reject", "collect", "push", "ack"}]
        /\ pc'[c] \in {"collect", "feed"}
        /\ pc'[c] = "feed" <=> slice'[c] # <<>>
        /\ \A d \in Replicas : d # c => slice'[d] = slice[d] /\ pc'[d] = pc[d]
    BY <2>1, NextEntryShape
  <2>3. TypeOK'
    BY <2>1, <2>2 DEF Ack, TypeOK
  <2>4. LoopShape'
    BY <2>1, <2>2 DEF LoopShape, Working
  <2> QED  BY <2>3, <2>4
<1>7. ASSUME NEW c \in Replicas, Flush(c)
      PROVE  TypeOK' /\ LoopShape'
  <2>1. PICK chosen \in SUBSET bucket[c] :
            /\ formed' = [formed EXCEPT ![c] = Append(@, chosen)]
            /\ bucket' = [bucket EXCEPT ![c] = @ \ chosen]
    BY <1>7 DEF Flush, BucketOf
  <2>2. /\ pc[c] = "collect"
        /\ UNCHANGED <<client, streamVars, replica, pc, slice, due, doneVars, faults>>
    BY <1>7 DEF Flush
  <2>3. formed' \in [Replicas -> Seq(SUBSET Requests)]
    <3>1. chosen \in SUBSET Requests /\ formed[c] \in Seq(SUBSET Requests)
      BY <2>1 DEF TypeOK
    <3>2. Append(formed[c], chosen) \in Seq(SUBSET Requests)
      BY <3>1, AppendProperties
    <3> QED  BY <2>1, <3>2 DEF TypeOK
  <2> QED  BY <2>1, <2>2, <2>3 DEF TypeOK, LoopShape, Working
<1>8. ASSUME NEW c \in Replicas, Collected(c)
      PROVE  TypeOK' /\ LoopShape'
  BY <1>8 DEF Collected, CollectDone, TypeOK, LoopShape, Working
<1>9. ASSUME NEW c \in Replicas, Push(c)
      PROVE  TypeOK' /\ LoopShape'
  <2>1. /\ CountBatch(c) /\ pc[c] = "push" /\ formed[c] # <<>>
        /\ pc' = [pc EXCEPT ![c] = "ack"]
        /\ UNCHANGED <<client, streamVars, replica, slice, bucket, formed, due, faults>>
    BY <1>9 DEF Push, CountBatch
  <2>2. batched' \in [Requests -> Nat] /\ rejected' \in [Requests -> Nat]
    BY <2>1, CountsType
  <2> QED  BY <2>1, <2>2 DEF TypeOK, LoopShape, Working
<1>10. ASSUME NEW c \in Replicas, AckPushed(c)
       PROVE  TypeOK' /\ LoopShape'
  <2>1. /\ pc[c] = "ack"
        /\ Ack(Head(formed[c]))
        /\ formed' = [formed EXCEPT ![c] = Tail(@)]
        /\ pc' = [pc EXCEPT ![c] = "push"]
        /\ UNCHANGED <<client, replica, slice, bucket, due, doneVars, faults>>
    BY <1>10 DEF AckPushed
  <2>2. Tail(formed[c]) \in Seq(SUBSET Requests)
    <3>1. formed[c] \in Seq(SUBSET Requests) /\ formed[c] # <<>>
      BY <2>1 DEF TypeOK, LoopShape
    <3> QED  BY <3>1, HeadTailProperties
  <2> QED  BY <2>1, <2>2 DEF Ack, TypeOK, LoopShape, Working
<1>11. ASSUME NEW c \in Replicas, EndTick(c)
       PROVE  TypeOK' /\ LoopShape'
  <2>1. /\ Working(c) /\ pc[c] = "push" /\ formed[c] = <<>>
        /\ replica' = [replica EXCEPT ![c] =
                CASE @ = "running"  -> "running"
                  [] @ = "stopping" -> "draining"
                  [] @ = "draining" -> "stopped"]
        /\ pc' = [pc EXCEPT ![c] = IF replica[c] = "stopping" THEN "collect"
                                                              ELSE "read"]
        /\ UNCHANGED <<client, streamVars, slice, bucket, formed, due, doneVars, faults>>
    BY <1>11 DEF EndTick, LeavesTick
  <2>2. /\ replica' \in [Replicas -> {"running", "stopping", "draining",
                                      "stopped", "down"}]
        /\ pc' \in [Replicas -> {"read", "feed", "reject", "collect", "push", "ack"}]
        /\ replica[c] = "running" => replica'[c] = "running"
        /\ replica[c] = "stopping" => replica'[c] = "draining" /\ pc'[c] = "collect"
        /\ replica[c] # "stopping" => pc'[c] = "read"
        /\ \A d \in Replicas : d # c => replica'[d] = replica[d] /\ pc'[d] = pc[d]
    BY <2>1 DEF TypeOK, Working
  <2>3. TypeOK'
    BY <2>1, <2>2 DEF TypeOK
  <2>4. LoopShape'
    BY <2>1, <2>2 DEF TypeOK, LoopShape, Working
  <2> QED  BY <2>3, <2>4
<1>12. ASSUME NEW kind, Fault(kind)
       PROVE  faults' \in [stops : Nat, failures : Nat]
  <2>1. \A f \in [stops : Nat, failures : Nat] :
            /\ [f EXCEPT !.stops = @ + 1] \in [stops : Nat, failures : Nat]
            /\ [f EXCEPT !.failures = @ + 1] \in [stops : Nat, failures : Nat]
    OBVIOUS
  <2> QED  BY <1>12, <2>1 DEF Fault, TypeOK
<1>13. ASSUME NEW c \in Replicas, TickError(c)
       PROVE  TypeOK' /\ LoopShape'
  <2>1. /\ Working(c) /\ Raise(c) /\ Fault("error")
        /\ UNCHANGED <<client, streamVars, due, doneVars>>
    BY <1>13 DEF TickError
  <2> QED  BY <1>12, <2>1, RaiseShape DEF TypeOK
<1>14. ASSUME NEW c \in Replicas, ReplyLost(c)
       PROVE  TypeOK' /\ LoopShape'
  <2>1. /\ Working(c) /\ Raise(c) /\ Fault("lost_reply")
        /\ UNCHANGED <<client, due>>
    BY <1>14 DEF ReplyLost
  <2>2. /\ stream' = stream /\ trimmed' = trimmed
        /\ delivered' \in 0 .. Len(stream')
        /\ pel' \subseteq Requests
        /\ batched' \in [Requests -> Nat] /\ rejected' \in [Requests -> Nat]
    <3>1. CASE Deliver /\ UNCHANGED doneVars
      BY <3>1, DeliverType DEF TypeOK
    <3>2. CASE CountRejection(c) /\ UNCHANGED streamVars
      BY <3>2, CountsType DEF TypeOK
    <3>3. CASE CountBatch(c) /\ UNCHANGED streamVars
      BY <3>3, CountsType DEF TypeOK
    <3>4. ASSUME NEW entries, Ack(entries), UNCHANGED doneVars
          PROVE  /\ stream' = stream /\ trimmed' = trimmed
                 /\ delivered' \in 0 .. Len(stream')
                 /\ pel' \subseteq Requests
                 /\ batched' \in [Requests -> Nat] /\ rejected' \in [Requests -> Nat]
      BY <3>4 DEF Ack, TypeOK
    <3> QED  BY <1>14, <3>1, <3>2, <3>3, <3>4 DEF ReplyLost
  <2> QED  BY <1>12, <2>1, <2>2, RaiseShape DEF TypeOK
<1>15. ASSUME NEW c \in Replicas, Stop(c)
       PROVE  TypeOK' /\ LoopShape'
  <2>1. /\ Fault("stop") /\ replica[c] = "running"
        /\ \/ /\ replica' = [replica EXCEPT ![c] = "stopping"]
              /\ pc' = pc
           \/ /\ pc[c] = "read"
              /\ replica' = [replica EXCEPT ![c] = "draining"]
              /\ pc' = [pc EXCEPT ![c] = "collect"]
        /\ UNCHANGED <<client, streamVars, slice, bucket, formed, due, doneVars>>
    BY <1>15 DEF Stop
  <2>2. faults' \in [stops : Nat, failures : Nat]
    BY <1>12, <2>1
  <2>3. TypeOK'
    BY <2>1, <2>2 DEF TypeOK
  <2>4. LoopShape'
    <3>1. /\ slice' = slice /\ formed' = formed
          /\ Working(c) /\ Working(c)'
          /\ pc[c] = "read" => pc'[c] \in {"read", "collect"}
          /\ pc[c] # "read" => pc'[c] = pc[c]
      BY <2>1 DEF TypeOK, Working
    <3>2. \A d \in Replicas \ {c} : pc'[d] = pc[d] /\ (Working(d)' <=> Working(d))
      BY <2>1 DEF TypeOK, Working
    <3>3. ASSUME NEW d \in Replicas
          PROVE  /\ ~ Working(d)' => pc'[d] = "read"
                 /\ slice'[d] # <<>> <=> pc'[d] \in {"feed", "reject"}
                 /\ formed'[d] # <<>> => pc'[d] \in {"collect", "push", "ack"}
                 /\ pc'[d] = "ack" => formed'[d] # <<>>
      <4>1. CASE d = c
        BY <3>1, <4>1 DEF LoopShape
      <4>2. CASE d # c
        BY <3>1, <3>2, <4>2 DEF LoopShape
      <4> QED  BY <4>1, <4>2
    <3> QED  BY <3>3 DEF LoopShape
  <2> QED  BY <2>3, <2>4
<1>16. ASSUME NEW c \in Replicas, Crash(c)
       PROVE  TypeOK' /\ LoopShape'
  <2>1. faults' \in [stops : Nat, failures : Nat]
    BY <1>12, <1>16 DEF Crash
  <2> QED  BY <1>0, <1>16, <2>1 DEF Crash, TypeOK, LoopShape, Working
<1>17. ASSUME NEW c \in Replicas, Start(c)
       PROVE  TypeOK' /\ LoopShape'
  BY <1>17 DEF Start, EnsureGroup, TypeOK, LoopShape, Working
<1>18. CASE UNCHANGED vars
  BY <1>18 DEF vars, TypeOK, LoopShape, Working
<1> QED  BY <1>1, <1>2, <1>3, <1>4, <1>5, <1>6, <1>7, <1>8, <1>9, <1>10, <1>11,
            <1>13, <1>14, <1>15, <1>16, <1>17, <1>18
         DEF Next, LoopStep, LoopFault

-----------------------------------------------------------------------------
(* What a step of a replica does to what it and the others have in hand *)

StepOf(c) == LoopStep(c) \/ LoopFault(c) \/ Start(c)

(* The entry a slice is about to deal with, and the batch about to be      *)
(* dispatched or acknowledged, are in hand.                                *)
LEMMA HeadsInHand ==
    ASSUME TypeOK, LoopShape, NEW c \in Replicas
    PROVE  /\ pc[c] \in {"feed", "reject"} =>
                /\ Head(slice[c]) = slice[c][1]
                /\ Head(slice[c]) \in Requests
                /\ 1 \in 1 .. Len(slice[c])
                /\ InSlice(c, Head(slice[c]))
           /\ formed[c] # <<>> =>
                /\ Head(formed[c]) = formed[c][1]
                /\ Head(formed[c]) \in SUBSET Requests
                /\ 1 \in 1 .. Len(formed[c])
                /\ \A r \in Head(formed[c]) : InFormed(c, r)
<1>1. /\ slice[c] \in Seq(Requests)
      /\ formed[c] \in Seq(SUBSET Requests)
  BY DEF TypeOK
<1>2. ASSUME pc[c] \in {"feed", "reject"}
      PROVE  /\ Head(slice[c]) = slice[c][1]
             /\ Head(slice[c]) \in Requests
             /\ 1 \in 1 .. Len(slice[c])
             /\ InSlice(c, Head(slice[c]))
  <2>1. slice[c] # <<>>
    BY <1>2 DEF LoopShape
  <2>2. Len(slice[c]) \in Nat \ {0} /\ Head(slice[c]) = slice[c][1]
    BY <1>1, <2>1, EmptySeq, LenProperties
  <2>3. Contains(slice[c], Head(slice[c])) /\ Head(slice[c]) \in Requests
    BY <1>1, <2>1, TailContents
  <2> QED  BY <2>2, <2>3 DEF InSlice
<1>3. ASSUME formed[c] # <<>>
      PROVE  /\ Head(formed[c]) = formed[c][1]
             /\ Head(formed[c]) \in SUBSET Requests
             /\ 1 \in 1 .. Len(formed[c])
             /\ \A r \in Head(formed[c]) : InFormed(c, r)
  <2>1. Len(formed[c]) \in Nat \ {0} /\ Head(formed[c]) = formed[c][1]
    BY <1>1, <1>3, EmptySeq, LenProperties
  <2>2. Head(formed[c]) \in SUBSET Requests
    BY <1>1, <1>3, TailContents
  <2>3. DOMAIN formed[c] = 1 .. Len(formed[c])
    BY <1>1, LenProperties
  <2> QED  BY <2>1, <2>2, <2>3 DEF InFormed
<1> QED  BY <1>2, <1>3

(* A step counts one request of its own slice, or one batch of its own. *)
LEMMA CountStep ==
    ASSUME TypeOK, LoopShape, EvidenceInv, NEW c \in Replicas, StepOf(c),
           NEW r \in Requests
    PROVE  \/ batched'[r] = batched[r] /\ rejected'[r] = rejected[r]
           \/ /\ InSlice(c, r) \/ InFormed(c, r)
              /\ Uncounted(r)
              /\ batched'[r] + rejected'[r] = 1
<1>1. CASE UNCHANGED doneVars
  BY <1>1
<1>2. CASE CountRejection(c)
  <2>1. /\ pc[c] = "feed"
        /\ rejected' = [rejected EXCEPT ![Head(slice[c])] = @ + 1]
        /\ batched' = batched
    BY <1>2 DEF CountRejection
  <2>2. InSlice(c, Head(slice[c])) /\ Uncounted(Head(slice[c]))
    BY <2>1, HeadsInHand DEF EvidenceInv, Evident
  <2> QED  BY <2>1, <2>2 DEF TypeOK, Uncounted
<1>3. CASE CountBatch(c)
  <2>1. /\ pc[c] = "push" /\ formed[c] # <<>>
        /\ batched'[r] = IF r \in Head(formed[c]) THEN batched[r] + 1 ELSE batched[r]
        /\ rejected' = rejected
    BY <1>3 DEF CountBatch
  <2>2. \A x \in Head(formed[c]) : InFormed(c, x) /\ Uncounted(x)
    BY <2>1, HeadsInHand DEF EvidenceInv, Evident
  <2> QED  BY <2>1, <2>2 DEF TypeOK, Uncounted
<1> QED  BY <1>1, <1>2, <1>3
         DEF StepOf, LoopStep, LoopFault, Read, Feed, Reject, AckRejected, Flush,
             Collected, Push, AckPushed, EndTick, TickError, ReplyLost, Stop, Crash,
             Start

(* Of the other replicas a step changes nothing. *)
LEMMA OthersUntouched ==
    ASSUME TypeOK, LoopShape, NEW c \in Replicas, StepOf(c)
    PROVE  /\ client' = client /\ stream' = stream /\ trimmed' = trimmed
           /\ \A d \in Replicas \ {c} :
                /\ slice'[d] = slice[d] /\ bucket'[d] = bucket[d]
                /\ formed'[d] = formed[d] /\ pc'[d] = pc[d]
<1>1. client' = client /\ stream' = stream /\ trimmed' = trimmed
  BY DEF StepOf, LoopStep, LoopFault, Read, Feed, Reject, AckRejected, Flush,
         Collected, Push, AckPushed, EndTick, TickError, ReplyLost, Stop, Crash,
         Start, EnsureGroup, Deliver, Ack
<1>2. ASSUME NEW d \in Replicas \ {c}
      PROVE  /\ slice'[d] = slice[d] /\ bucket'[d] = bucket[d]
             /\ formed'[d] = formed[d] /\ pc'[d] = pc[d]
  <2>1. CASE Read(c) \/ Feed(c) \/ Reject(c) \/ AckRejected(c)
    BY <2>1 DEF Read, Feed, Reject, AckRejected, NextEntry, TypeOK
  <2>2. CASE Flush(c) \/ Collected(c) \/ Push(c) \/ AckPushed(c) \/ EndTick(c)
    BY <2>2 DEF Flush, Collected, Push, AckPushed, EndTick, LeavesTick, TypeOK
  <2>3. CASE TickError(c) \/ ReplyLost(c)
    BY <2>3 DEF TickError, ReplyLost, Raise, LeavesTick, TypeOK
  <2>4. CASE Stop(c) \/ Crash(c) \/ Start(c)
    BY <2>4 DEF Stop, Crash, Start, EnsureGroup, TypeOK
  <2> QED  BY <2>1, <2>2, <2>3, <2>4 DEF StepOf, LoopStep, LoopFault
<1> QED  BY <1>1, <1>2

(* What the steps other than a read do with what their replica has.        *)
Kept(c) ==
    slice'[c] = slice[c] /\ bucket'[c] = bucket[c] /\ formed'[c] = formed[c]

Dropped(c) ==
    slice'[c] = <<>> /\ formed'[c] = <<>> /\ bucket'[c] \subseteq bucket[c]

Fed(c) ==
    /\ pc[c] = "feed" /\ slice'[c] = Tail(slice[c]) /\ pc'[c] \in {"collect", "feed"}
    /\ bucket'[c] = bucket[c] \cup {Head(slice[c])} /\ formed'[c] = formed[c]

Refused(c) ==
    /\ pc[c] = "reject" /\ slice'[c] = Tail(slice[c]) /\ pc'[c] \in {"collect", "feed"}
    /\ bucket'[c] = bucket[c] /\ formed'[c] = formed[c]

Flushed(c) ==
    /\ pc[c] = "collect" /\ pc'[c] = "collect" /\ slice'[c] = slice[c]
    /\ \E chosen \in SUBSET bucket[c] :
            /\ formed'[c] = Append(formed[c], chosen)
            /\ bucket'[c] = bucket[c] \ chosen

Sent(c) ==
    /\ pc[c] = "ack" /\ pc'[c] = "push" /\ slice'[c] = slice[c]
    /\ bucket'[c] = bucket[c] /\ formed'[c] = Tail(formed[c])

(* Those are all the steps other than a read, and each counts and          *)
(* acknowledges only what goes with it.                                    *)
LEMMA OwnEffect ==
    ASSUME TypeOK, LoopShape, NEW c \in Replicas, StepOf(c), ~ Read(c)
    PROVE  \/ /\ Kept(c) /\ UNCHANGED doneVars /\ UNCHANGED pel
              /\ pc[c] \notin {"reject", "ack"} /\ pc'[c] \notin {"reject", "ack"}
           \/ Kept(c) /\ UNCHANGED <<doneVars, pel, pc>>
           \/ Kept(c) /\ CountRejection(c) /\ UNCHANGED pel /\ pc'[c] = "reject"
           \/ Kept(c) /\ CountBatch(c) /\ UNCHANGED pel /\ pc'[c] = "ack"
           \/ Dropped(c)
           \/ Fed(c) /\ UNCHANGED doneVars /\ UNCHANGED pel
           \/ Refused(c) /\ UNCHANGED doneVars
           \/ Flushed(c) /\ UNCHANGED doneVars /\ UNCHANGED pel
           \/ Sent(c) /\ UNCHANGED doneVars
<1>1. CASE Feed(c)
  <2>1. /\ pc[c] = "feed" /\ NextEntry(c)
        /\ bucket' = [bucket EXCEPT ![c] = @ \cup {Head(slice[c])}]
        /\ formed' = formed /\ UNCHANGED doneVars /\ UNCHANGED pel
    BY <1>1 DEF Feed
  <2>2. slice'[c] = Tail(slice[c]) /\ pc'[c] \in {"collect", "feed"}
    BY <2>1, NextEntryShape
  <2> QED  BY <2>1, <2>2 DEF Fed, TypeOK
<1>2. CASE Reject(c)
  BY <1>2 DEF Reject, Kept, TypeOK
<1>3. CASE AckRejected(c)
  <2>1. /\ pc[c] = "reject" /\ NextEntry(c)
        /\ bucket' = bucket /\ formed' = formed /\ UNCHANGED doneVars
    BY <1>3 DEF AckRejected
  <2>2. slice'[c] = Tail(slice[c]) /\ pc'[c] \in {"collect", "feed"}
    BY <2>1, NextEntryShape
  <2> QED  BY <2>1, <2>2 DEF Refused, TypeOK
<1>4. CASE Flush(c)
  <2>1. PICK chosen \in SUBSET bucket[c] :
            /\ formed' = [formed EXCEPT ![c] = Append(@, chosen)]
            /\ bucket' = [bucket EXCEPT ![c] = @ \ chosen]
    BY <1>4 DEF Flush, BucketOf
  <2>2. /\ pc[c] = "collect" /\ pc' = pc /\ slice' = slice
        /\ UNCHANGED doneVars /\ UNCHANGED pel
    BY <1>4 DEF Flush
  <2> QED  BY <2>1, <2>2 DEF Flushed, TypeOK
<1>5. CASE Collected(c)
  BY <1>5 DEF Collected, CollectDone, Kept, TypeOK
<1>6. CASE Push(c)
  BY <1>6 DEF Push, Kept, TypeOK
<1>7. CASE AckPushed(c)
  BY <1>7 DEF AckPushed, Sent, TypeOK
<1>8. CASE EndTick(c)
  BY <1>8 DEF EndTick, LeavesTick, Kept, TypeOK
<1>9. CASE TickError(c) \/ ReplyLost(c)
  BY <1>9 DEF TickError, ReplyLost, Raise, Dropped, TypeOK
<1>10. CASE Stop(c)
  BY <1>10 DEF Stop, Kept, TypeOK
<1>11. CASE Crash(c)
  BY <1>11 DEF Crash, Dropped, TypeOK
<1>12. CASE Start(c)
  BY <1>12 DEF Start, EnsureGroup, Kept, TypeOK
<1> QED  BY <1>1, <1>2, <1>3, <1>4, <1>5, <1>6, <1>7, <1>8, <1>9, <1>10, <1>11, <1>12
         DEF StepOf, LoopStep, LoopFault

(* Only a read brings something new into hand. *)
LEMMA OwnShrinks ==
    ASSUME TypeOK, LoopShape, NEW c \in Replicas, StepOf(c), ~ Read(c),
           NEW r \in Requests, InHand(c, r)'
    PROVE  InHand(c, r)
<1>0. /\ slice[c] \in Seq(Requests) /\ formed[c] \in Seq(SUBSET Requests)
      /\ Len(slice[c]) \in Nat /\ Len(formed[c]) \in Nat
      /\ DOMAIN formed[c] = 1 .. Len(formed[c])
  BY LenProperties DEF TypeOK
<1>1. CASE Kept(c)
  BY <1>1 DEF Kept, InHand, InSlice, InFormed
<1>2. CASE Dropped(c)
  <2>1. ~ Contains(<<>>, r)
    BY DEF Contains
  <2>2. \A i \in DOMAIN <<>> : FALSE
    OBVIOUS
  <2> QED  BY <1>2, <2>1, <2>2 DEF Dropped, InHand, InSlice, InFormed
<1>3. CASE Fed(c) \/ Refused(c)
  <2>1. slice[c] # <<>>
    BY <1>3 DEF Fed, Refused, LoopShape
  <2>2. /\ Contains(slice[c], Head(slice[c]))
        /\ Contains(Tail(slice[c]), r) => Contains(slice[c], r)
    BY <1>0, <2>1, TailContents
  <2> QED  BY <1>3, <2>2 DEF Fed, Refused, InHand, InSlice, InFormed
<1>4. CASE Flushed(c)
  <2>1. PICK chosen \in SUBSET bucket[c] :
            /\ formed'[c] = Append(formed[c], chosen)
            /\ bucket'[c] = bucket[c] \ chosen
    BY <1>4 DEF Flushed
  <2>2. chosen \in SUBSET Requests
    BY <2>1 DEF TypeOK
  <2>3. /\ DOMAIN formed'[c] = 1 .. Len(formed[c]) + 1
        /\ \A i \in 1 .. Len(formed[c]) : formed'[c][i] = formed[c][i]
        /\ formed'[c][Len(formed[c]) + 1] = chosen
    BY <1>0, <2>1, <2>2, AppendProperties
  <2>4. ASSUME InFormed(c, r)'
        PROVE  InFormed(c, r) \/ r \in chosen
    <3>1. PICK i \in DOMAIN formed'[c] : r \in formed'[c][i]
      BY <2>4 DEF InFormed
    <3>2. i \in 1 .. Len(formed[c]) \/ i = Len(formed[c]) + 1
      BY <1>0, <2>3, <3>1
    <3> QED  BY <1>0, <2>3, <3>1, <3>2 DEF InFormed
  <2> QED  BY <1>4, <2>1, <2>4 DEF Flushed, InHand, InSlice
<1>5. CASE Sent(c)
  <2>1. formed[c] # <<>>
    BY <1>5 DEF Sent, LoopShape
  <2>2. /\ DOMAIN formed'[c] = 1 .. Len(formed[c]) - 1
        /\ \A i \in 1 .. Len(formed[c]) - 1 : formed'[c][i] = formed[c][i + 1]
    BY <1>0, <1>5, <2>1, HeadTailProperties, LenProperties DEF Sent
  <2>3. ASSUME InFormed(c, r)'
        PROVE  InFormed(c, r)
    <3>1. PICK i \in DOMAIN formed'[c] : r \in formed'[c][i]
      BY <2>3 DEF InFormed
    <3>2. i \in 1 .. Len(formed[c]) - 1 /\ r \in formed[c][i + 1]
      BY <2>2, <3>1
    <3>3. i + 1 \in DOMAIN formed[c]
      BY <1>0, <3>2
    <3> QED  BY <3>2, <3>3 DEF InFormed
  <2> QED  BY <1>5, <2>3 DEF Sent, InHand, InSlice
<1> QED  BY <1>1, <1>2, <1>3, <1>4, <1>5, OwnEffect

(* What a replica has in hand stays in one place of it. *)
LEMMA SeparateStep ==
    ASSUME TypeOK, LoopShape, NEW c \in Replicas, StepOf(c), ~ Read(c), Separate(c)
    PROVE  Separate(c)'
<1>0. /\ slice[c] \in Seq(Requests) /\ formed[c] \in Seq(SUBSET Requests)
      /\ Len(slice[c]) \in Nat /\ Len(formed[c]) \in Nat
      /\ DOMAIN formed[c] = 1 .. Len(formed[c])
  BY LenProperties DEF TypeOK
<1>1. CASE Kept(c)
  BY <1>1 DEF Kept, Separate, InSlice, InFormed
<1>2. CASE Dropped(c)
  <2>1. /\ \A r : ~ Contains(<<>>, r)
        /\ Len(<<>>) = 0 /\ DOMAIN <<>> = {}
    BY DEF Contains
  <2> QED  BY <1>2, <2>1 DEF Dropped, Separate, InSlice, InFormed
<1>3. CASE Fed(c) \/ Refused(c)
  <2>1. slice[c] # <<>> /\ formed[c] = <<>>
    BY <1>3 DEF Fed, Refused, LoopShape
  <2>2. /\ Len(Tail(slice[c])) = Len(slice[c]) - 1
        /\ \A i \in 1 .. Len(slice[c]) - 1 : Tail(slice[c])[i] = slice[c][i + 1]
        /\ Head(slice[c]) = slice[c][1] /\ Len(slice[c]) \in Nat \ {0}
    BY <1>0, <2>1, HeadTailProperties, EmptySeq
  <2>3. /\ \A r : Contains(Tail(slice[c]), r) => Contains(slice[c], r)
        /\ ~ Contains(Tail(slice[c]), Head(slice[c]))
    <3>1. \A r : Contains(Tail(slice[c]), r) => Contains(slice[c], r)
      BY <1>0, <2>1, TailContents
    <3>2. ASSUME Contains(Tail(slice[c]), Head(slice[c]))
          PROVE  FALSE
      <4>1. PICK i \in 1 .. Len(slice[c]) - 1 : slice[c][i + 1] = slice[c][1]
        BY <2>2, <3>2 DEF Contains
      <4>2. i + 1 \in 1 .. Len(slice[c]) /\ 1 \in 1 .. Len(slice[c]) /\ i + 1 # 1
        BY <2>2
      <4> QED  BY <4>1, <4>2 DEF Separate
    <3> QED  BY <3>1, <3>2
  <2>4. ASSUME NEW i \in 1 .. Len(slice'[c]), NEW j \in 1 .. Len(slice'[c]),
               slice'[c][i] = slice'[c][j]
        PROVE  i = j
    <3>0. slice'[c] = Tail(slice[c])
      BY <1>3 DEF Fed, Refused
    <3>1. /\ i \in 1 .. Len(slice[c]) - 1 /\ j \in 1 .. Len(slice[c]) - 1
          /\ slice[c][i + 1] = slice[c][j + 1]
      BY <2>2, <2>4, <3>0
    <3>2. /\ i + 1 \in 1 .. Len(slice[c]) /\ j + 1 \in 1 .. Len(slice[c])
          /\ i \in Nat /\ j \in Nat
      BY <1>0, <3>1
    <3>3. i + 1 = j + 1
      BY <3>1, <3>2 DEF Separate
    <3> QED  BY <3>2, <3>3
  <2>5. formed'[c] = <<>> /\ \A r : ~ InFormed(c, r)'
    BY <1>3, <2>1 DEF Fed, Refused, InFormed
  <2>6. \A r \in bucket'[c] : ~ InSlice(c, r)'
    BY <1>3, <2>3 DEF Fed, Refused, Separate, InSlice
  <2> QED  BY <2>4, <2>5, <2>6 DEF Separate
<1>4. CASE Flushed(c)
  <2>1. PICK chosen \in SUBSET bucket[c] :
            /\ formed'[c] = Append(formed[c], chosen)
            /\ bucket'[c] = bucket[c] \ chosen
    BY <1>4 DEF Flushed
  <2>2. chosen \in SUBSET Requests
    BY <2>1 DEF TypeOK
  <2> DEFINE n == Len(formed[c]) + 1
  <2>3. /\ Len(formed'[c]) = n /\ DOMAIN formed'[c] = 1 .. n
        /\ \A i \in 1 .. Len(formed[c]) : formed'[c][i] = formed[c][i]
        /\ formed'[c][n] = chosen
    BY <1>0, <2>1, <2>2, AppendProperties
  <2>4. slice'[c] = slice[c]
    BY <1>4 DEF Flushed
  <2>5. \A r \in chosen : \A i \in 1 .. Len(formed[c]) : r \notin formed[c][i]
    BY <1>0, <2>1 DEF Separate, InFormed
  <2>6. ASSUME NEW i \in 1 .. n, NEW j \in 1 .. n, NEW r \in formed'[c][i],
               r \in formed'[c][j]
        PROVE  i = j
    <3>1. CASE i \in 1 .. Len(formed[c]) /\ j \in 1 .. Len(formed[c])
      BY <2>3, <2>6, <3>1 DEF Separate
    <3>2. CASE i = n /\ j = n
      BY <3>2
    <3>3. CASE i = n /\ j \in 1 .. Len(formed[c])
      BY <2>3, <2>5, <2>6, <3>3
    <3>4. CASE j = n /\ i \in 1 .. Len(formed[c])
      BY <2>3, <2>5, <2>6, <3>4
    <3> QED  BY <1>0, <3>1, <3>2, <3>3, <3>4
  <2>7. ASSUME NEW r \in bucket'[c]
        PROVE  ~ InSlice(c, r)' /\ ~ InFormed(c, r)'
    <3>1. r \in bucket[c] /\ r \notin chosen
      BY <2>1
    <3>2. ~ InFormed(c, r)'
      BY <1>0, <2>3, <3>1 DEF Separate, InFormed
    <3> QED  BY <2>4, <3>1, <3>2 DEF Separate, InSlice
  <2> QED  BY <2>3, <2>4, <2>6, <2>7 DEF Separate
<1>5. CASE Sent(c)
  <2>1. formed[c] # <<>>
    BY <1>5 DEF Sent, LoopShape
  <2>2. /\ Len(formed'[c]) = Len(formed[c]) - 1
        /\ DOMAIN formed'[c] = 1 .. Len(formed[c]) - 1
        /\ \A i \in 1 .. Len(formed[c]) - 1 : formed'[c][i] = formed[c][i + 1]
    BY <1>0, <1>5, <2>1, HeadTailProperties, LenProperties DEF Sent
  <2>3. \A r : InFormed(c, r)' => InFormed(c, r)
    BY <1>0, <2>2 DEF InFormed
  <2>4. ASSUME NEW i \in 1 .. Len(formed'[c]), NEW j \in 1 .. Len(formed'[c]),
               NEW r \in formed'[c][i], r \in formed'[c][j]
        PROVE  i = j
    <3>1. /\ i + 1 \in 1 .. Len(formed[c]) /\ j + 1 \in 1 .. Len(formed[c])
          /\ r \in formed[c][i + 1] /\ r \in formed[c][j + 1]
          /\ i \in Nat /\ j \in Nat
      BY <1>0, <2>2, <2>4
    <3>2. i + 1 = j + 1
      BY <3>1 DEF Separate
    <3> QED  BY <3>1, <3>2
  <2> QED  BY <1>5, <2>3, <2>4 DEF Sent, Separate, InSlice
<1> QED  BY <1>1, <1>2, <1>3, <1>4, <1>5, OwnEffect

(* What is handled stays handled, what is not in a slice or a batch of the *)
(* acting replica keeps its counts.                                        *)
LEMMA CountsStay ==
    ASSUME TypeOK, LoopShape, EvidenceInv, NEW c \in Replicas, StepOf(c),
           NEW r \in Requests
    PROVE  /\ Handled(r) => Handled(r)'
           /\ ~ InSlice(c, r) /\ ~ InFormed(c, r) /\ Uncounted(r) => Uncounted(r)'
<1>1. batched[r] \in Nat /\ rejected[r] \in Nat
  BY DEF TypeOK
<1>2. \/ batched'[r] = batched[r] /\ rejected'[r] = rejected[r]
      \/ /\ InSlice(c, r) \/ InFormed(c, r)
         /\ Uncounted(r)
         /\ batched'[r] + rejected'[r] = 1
  BY CountStep
<1> QED  BY <1>1, <1>2 DEF Handled, Uncounted

(* What a replica has in hand is counted exactly when it is about to be    *)
(* acknowledged.                                                           *)
LEMMA EvidentStep ==
    ASSUME TypeOK, LoopShape, EvidenceInv, NEW c \in Replicas, StepOf(c), ~ Read(c),
           Separate(c)
    PROVE  Evident(c)'
<1>0. /\ slice[c] \in Seq(Requests) /\ formed[c] \in Seq(SUBSET Requests)
      /\ Len(slice[c]) \in Nat /\ Len(formed[c]) \in Nat
      /\ DOMAIN formed[c] = 1 .. Len(formed[c])
      /\ bucket[c] \subseteq Requests
  BY LenProperties DEF TypeOK
<1>1. Evident(c)
  BY DEF EvidenceInv
<1>2. \A r \in bucket[c] : Uncounted(r)'
  BY <1>0, <1>1, CountsStay DEF Evident, Separate
<1>3. CASE Kept(c) /\ UNCHANGED doneVars /\ (\/ pc[c] \notin {"reject", "ack"}
                                                /\ pc'[c] \notin {"reject", "ack"}
                                             \/ UNCHANGED pc)
  BY <1>1, <1>3 DEF Kept, Evident, Uncounted, Handled
<1>4. CASE Kept(c) /\ CountRejection(c) /\ pc'[c] = "reject"
  <2>1. /\ formed[c] = <<>> /\ slice[c] # <<>> /\ pc[c] = "feed"
        /\ rejected' = [rejected EXCEPT ![Head(slice[c])] = @ + 1]
        /\ batched' = batched
    BY <1>4 DEF CountRejection, LoopShape
  <2>2. /\ Head(slice[c]) = slice[c][1] /\ Head(slice[c]) \in Requests
        /\ 1 \in 1 .. Len(slice[c])
    BY <2>1, HeadsInHand
  <2>3. /\ batched \in [Requests -> Nat] /\ rejected \in [Requests -> Nat]
        /\ Uncounted(slice[c][1])
    BY <1>1, <2>1, <2>2 DEF Evident, TypeOK
  <2>4. ASSUME NEW i \in 1 .. Len(slice[c]), i # 1, NEW r, r = slice[c][i]
        PROVE  Uncounted(r)'
    <3>1. r # Head(slice[c]) /\ r \in Requests
      BY <1>0, <2>2, <2>4, ElementOfSeq DEF Separate
    <3>2. Uncounted(r)
      BY <1>1, <2>4 DEF Evident
    <3> QED  BY <2>1, <2>3, <3>1, <3>2 DEF Uncounted
  <2>5. /\ slice'[c] = slice[c] /\ bucket'[c] = bucket[c] /\ formed'[c] = <<>>
        /\ pc'[c] = "reject" /\ Len(<<>>) = 0
    BY <1>4, <2>1 DEF Kept
  <2>6. batched'[slice'[c][1]] + rejected'[slice'[c][1]] > 0
    BY <2>1, <2>2, <2>3, <2>5 DEF Uncounted
  <2> QED  BY <1>2, <2>4, <2>5, <2>6 DEF Evident, Handled, Uncounted
<1>5. CASE Kept(c) /\ CountBatch(c) /\ pc'[c] = "ack"
  <2>1. /\ slice[c] = <<>> /\ pc[c] = "push" /\ formed[c] # <<>>
        /\ batched' = [r \in Requests |-> IF r \in Head(formed[c]) THEN batched[r] + 1
                                          ELSE batched[r]]
        /\ rejected' = rejected
    BY <1>5 DEF CountBatch, LoopShape
  <2>2. /\ Head(formed[c]) = formed[c][1] /\ formed[c][1] \in SUBSET Requests
        /\ 1 \in 1 .. Len(formed[c])
    BY <2>1, HeadsInHand
  <2>3. batched \in [Requests -> Nat] /\ rejected \in [Requests -> Nat]
    BY DEF TypeOK
  <2>4. ASSUME NEW i \in 1 .. Len(formed[c]), NEW r \in formed[c][i]
        PROVE  IF i = 1 THEN Handled(r)' ELSE Uncounted(r)'
    <3>1. r \in Requests /\ (r \in Head(formed[c]) <=> i = 1)
      BY <1>0, <2>2, <2>4, ElementOfSeq DEF Separate
    <3>2. Uncounted(r)
      BY <1>1, <2>1, <2>4 DEF Evident
    <3> QED  BY <2>1, <2>3, <3>1, <3>2 DEF Uncounted, Handled
  <2>5. /\ slice'[c] = <<>> /\ bucket'[c] = bucket[c] /\ formed'[c] = formed[c]
        /\ pc'[c] = "ack" /\ Len(<<>>) = 0
    BY <1>5, <2>1 DEF Kept
  <2> QED  BY <1>2, <2>4, <2>5 DEF Evident, Handled, Uncounted
<1>6. CASE Dropped(c)
  <2>1. Len(<<>>) = 0
    OBVIOUS
  <2> QED  BY <1>2, <1>6, <2>1 DEF Dropped, Evident, Uncounted
<1>7. CASE (Fed(c) \/ Refused(c)) /\ UNCHANGED doneVars
  <2>1. slice[c] # <<>> /\ formed[c] = <<>>
    BY <1>7 DEF Fed, Refused, LoopShape
  <2>2. /\ Len(Tail(slice[c])) = Len(slice[c]) - 1
        /\ \A i \in 1 .. Len(slice[c]) - 1 : Tail(slice[c])[i] = slice[c][i + 1]
        /\ Head(slice[c]) = slice[c][1] /\ Len(slice[c]) \in Nat \ {0}
    BY <1>0, <2>1, HeadTailProperties, EmptySeq
  <2>3. /\ slice'[c] = Tail(slice[c]) /\ pc'[c] \in {"collect", "feed"}
        /\ formed'[c] = <<>> /\ Len(<<>>) = 0
    BY <1>7, <2>1 DEF Fed, Refused
  <2>4. ASSUME NEW i \in 1 .. Len(slice'[c])
        PROVE  Uncounted(slice'[c][i])
    <3>1. i \in 1 .. Len(slice[c]) - 1 /\ slice'[c][i] = slice[c][i + 1]
      BY <2>2, <2>3
    <3>2. i + 1 \in 1 .. Len(slice[c]) /\ i + 1 # 1
      BY <1>0, <3>1
    <3> QED  BY <1>1, <3>1, <3>2 DEF Evident
  <2>5. ASSUME NEW r \in bucket'[c]
        PROVE  Uncounted(r)
    <3>1. 1 \in 1 .. Len(slice[c])
      BY <2>2
    <3> QED  BY <1>1, <1>7, <2>2, <3>1 DEF Fed, Refused, Evident
  <2> QED  BY <1>7, <2>3, <2>4, <2>5 DEF Evident, Uncounted
<1>8. CASE Flushed(c) /\ UNCHANGED doneVars
  <2>1. PICK chosen \in SUBSET bucket[c] :
            /\ formed'[c] = Append(formed[c], chosen)
            /\ bucket'[c] = bucket[c] \ chosen
    BY <1>8 DEF Flushed
  <2>2. chosen \in SUBSET Requests
    BY <1>0, <2>1
  <2> DEFINE n == Len(formed[c]) + 1
  <2>3. /\ Len(formed'[c]) = n
        /\ \A i \in 1 .. Len(formed[c]) : formed'[c][i] = formed[c][i]
        /\ formed'[c][n] = chosen
    BY <1>0, <2>1, <2>2, AppendProperties
  <2>4. pc[c] = "collect" /\ pc'[c] = "collect" /\ slice'[c] = slice[c]
    BY <1>8 DEF Flushed
  <2>5. ASSUME NEW i \in 1 .. n, NEW r \in formed'[c][i]
        PROVE  Uncounted(r)
    <3>1. CASE i = n
      BY <1>1, <2>1, <2>3, <3>1 DEF Evident
    <3>2. CASE i \in 1 .. Len(formed[c])
      BY <1>1, <2>3, <2>4, <3>2 DEF Evident
    <3> QED  BY <1>0, <3>1, <3>2
  <2> QED  BY <1>1, <1>8, <2>1, <2>3, <2>4, <2>5 DEF Evident, Uncounted
<1>9. CASE Sent(c) /\ UNCHANGED doneVars
  <2>1. formed[c] # <<>> /\ slice[c] = <<>>
    BY <1>9 DEF Sent, LoopShape
  <2>2. /\ Len(formed'[c]) = Len(formed[c]) - 1
        /\ \A i \in 1 .. Len(formed[c]) - 1 : formed'[c][i] = formed[c][i + 1]
    BY <1>0, <1>9, <2>1, HeadTailProperties DEF Sent
  <2>3. ASSUME NEW i \in 1 .. Len(formed'[c]), NEW r \in formed'[c][i]
        PROVE  Uncounted(r)
    <3>1. i + 1 \in 1 .. Len(formed[c]) /\ i + 1 # 1 /\ r \in formed[c][i + 1]
      BY <1>0, <2>2, <2>3
    <3> QED  BY <1>1, <3>1 DEF Evident
  <2>4. /\ slice'[c] = <<>> /\ Len(<<>>) = 0 /\ bucket'[c] = bucket[c]
        /\ pc'[c] = "push"
    BY <1>9, <2>1 DEF Sent
  <2> QED  BY <1>1, <1>9, <2>3, <2>4 DEF Evident, Uncounted
<1> QED  BY <1>3, <1>4, <1>5, <1>6, <1>7, <1>8, <1>9, OwnEffect

(* A step acknowledges only what it had in hand, has handled, and lets go. *)
LEMMA AckStep ==
    ASSUME TypeOK, LoopShape, EvidenceInv, NEW c \in Replicas, StepOf(c), Separate(c)
    PROVE  \/ Deliver
           \/ /\ UNCHANGED <<stream, delivered>>
              /\ pel' \subseteq pel
              /\ \A r \in pel \ pel' : InHand(c, r) /\ Handled(r) /\ ~ InHand(c, r)'
<1>0. /\ slice[c] \in Seq(Requests) /\ formed[c] \in Seq(SUBSET Requests)
      /\ Len(slice[c]) \in Nat /\ Len(formed[c]) \in Nat
      /\ DOMAIN formed[c] = 1 .. Len(formed[c])
      /\ \A r : ~ Contains(<<>>, r)
      /\ DOMAIN <<>> = {}
  BY LenProperties DEF TypeOK, Contains
<1>1. CASE UNCHANGED <<stream, delivered, pel>>
  BY <1>1
<1>2. CASE Deliver
  BY <1>2
<1>3. ASSUME pc[c] = "reject", Ack({Head(slice[c])}),
             \/ Dropped(c)
             \/ Refused(c)
      PROVE  /\ UNCHANGED <<stream, delivered>> /\ pel' \subseteq pel
             /\ \A r \in pel \ pel' : InHand(c, r) /\ Handled(r) /\ ~ InHand(c, r)'
  <2>1. slice[c] # <<>> /\ formed[c] = <<>>
    BY <1>3 DEF LoopShape
  <2>2. UNCHANGED <<stream, delivered>> /\ pel' = pel \ {Head(slice[c])}
    BY <1>3 DEF Ack
  <2>3. /\ Head(slice[c]) = slice[c][1] /\ 1 \in 1 .. Len(slice[c])
        /\ InSlice(c, Head(slice[c]))
    BY <1>3, HeadsInHand
  <2>4. Handled(Head(slice[c]))
    BY <1>3, <2>3 DEF EvidenceInv, Evident
  <2>5. Head(slice[c]) \notin bucket[c]
    BY <2>3 DEF Separate
  <2>6. ~ Contains(Tail(slice[c]), Head(slice[c]))
    <3>1. /\ Len(Tail(slice[c])) = Len(slice[c]) - 1
          /\ \A i \in 1 .. Len(slice[c]) - 1 : Tail(slice[c])[i] = slice[c][i + 1]
      BY <1>0, <2>1, HeadTailProperties
    <3>2. SUFFICES ASSUME NEW i \in 1 .. Len(slice[c]) - 1, slice[c][i + 1] = slice[c][1]
                   PROVE  FALSE
      BY <2>3, <3>1 DEF Contains
    <3>3. i + 1 \in 1 .. Len(slice[c]) /\ i + 1 # 1
      BY <1>0
    <3> QED  BY <2>3, <3>2, <3>3 DEF Separate
  <2>7. ASSUME NEW r, r = Head(slice[c])
        PROVE  ~ InHand(c, r)'
    BY <1>0, <1>3, <2>1, <2>5, <2>6, <2>7
       DEF Dropped, Refused, InHand, InSlice, InFormed
  <2> QED  BY <2>2, <2>3, <2>4, <2>7 DEF InHand
<1>4. ASSUME pc[c] = "ack", Ack(Head(formed[c])),
             \/ Dropped(c)
             \/ Sent(c)
      PROVE  /\ UNCHANGED <<stream, delivered>> /\ pel' \subseteq pel
             /\ \A r \in pel \ pel' : InHand(c, r) /\ Handled(r) /\ ~ InHand(c, r)'
  <2>1. formed[c] # <<>> /\ slice[c] = <<>>
    BY <1>4 DEF LoopShape
  <2>2. UNCHANGED <<stream, delivered>> /\ pel' = pel \ Head(formed[c])
    BY <1>4 DEF Ack
  <2>3. /\ Head(formed[c]) = formed[c][1] /\ 1 \in 1 .. Len(formed[c])
        /\ \A r \in Head(formed[c]) : InFormed(c, r)
    BY <2>1, HeadsInHand
  <2>4. ASSUME NEW r, r \in Head(formed[c])
        PROVE  InHand(c, r) /\ Handled(r) /\ ~ InHand(c, r)'
    <3>1. Handled(r) /\ r \notin bucket[c]
      BY <1>4, <2>3, <2>4 DEF EvidenceInv, Evident, Separate
    <3>2. /\ Len(Tail(formed[c])) = Len(formed[c]) - 1
          /\ DOMAIN Tail(formed[c]) = 1 .. Len(formed[c]) - 1
          /\ \A i \in 1 .. Len(formed[c]) - 1 : Tail(formed[c])[i] = formed[c][i + 1]
      BY <1>0, <2>1, HeadTailProperties, LenProperties
    <3>3. ASSUME NEW i \in 1 .. Len(formed[c]) - 1
          PROVE  r \notin formed[c][i + 1]
      <4>1. i + 1 \in 1 .. Len(formed[c]) /\ i + 1 # 1
        BY <1>0
      <4> QED  BY <2>3, <2>4, <4>1 DEF Separate
    <3>4. \A i \in DOMAIN Tail(formed[c]) : r \notin Tail(formed[c])[i]
      BY <3>2, <3>3
    <3>5. ~ InHand(c, r)'
      BY <1>0, <1>4, <2>1, <3>1, <3>4
         DEF Dropped, Sent, InHand, InSlice, InFormed
    <3> QED  BY <2>3, <2>4, <3>1, <3>5 DEF InHand
  <2> QED  BY <2>2, <2>4
<1>5. CASE AckRejected(c)
  <2>1. /\ pc[c] = "reject" /\ NextEntry(c) /\ Ack({Head(slice[c])})
        /\ bucket' = bucket /\ formed' = formed
    BY <1>5 DEF AckRejected
  <2>2. slice'[c] = Tail(slice[c]) /\ pc'[c] \in {"collect", "feed"}
    BY <2>1, NextEntryShape
  <2> QED  BY <1>3, <2>1, <2>2 DEF Refused
<1>6. CASE AckPushed(c)
  BY <1>4, <1>6 DEF AckPushed, Sent, TypeOK
<1>7. CASE ReplyLost(c)
  <2>1. Dropped(c)
    BY <1>7 DEF ReplyLost, Raise, Dropped, TypeOK
  <2> QED  BY <1>1, <1>2, <1>3, <1>4, <1>7, <2>1 DEF ReplyLost
<1>8. CASE Feed(c) \/ Reject(c) \/ Flush(c) \/ Collected(c) \/ Push(c) \/ EndTick(c)
  BY <1>1, <1>8 DEF Feed, Reject, Flush, Collected, Push, EndTick
<1>9. CASE TickError(c) \/ Stop(c) \/ Crash(c) \/ Start(c)
  BY <1>1, <1>9 DEF TickError, Stop, Crash, Start, EnsureGroup
<1>10. CASE Read(c)
  BY <1>2, <1>10 DEF Read
<1> QED  BY <1>5, <1>6, <1>7, <1>8, <1>9, <1>10 DEF StepOf, LoopStep, LoopFault

(* What a read brings is new: distinct, pending for nobody, not counted.   *)
LEMMA ReadStep ==
    ASSUME TypeOK, LoopShape, StreamInv, HandsInv, EvidenceInv,
           NEW c \in Replicas, Read(c)
    PROVE  /\ Separate(c)' /\ Evident(c)'
           /\ \A r \in Requests : InHand(c, r)' =>
                    \/ InHand(c, r)
                    \/ r \in ToSet(NextEntries) /\ r \notin pel
<1> DEFINE n == Len(NextEntries)
<1>1. /\ stream \in Seq(Requests) /\ delivered \in 0 .. Len(stream)
      /\ Len(stream) \in Nat /\ bucket[c] \subseteq Requests
  BY LenProperties DEF TypeOK
<1>2. /\ NextEntries \in Seq(Requests)
      /\ n \in 0 .. Len(stream) - delivered
      /\ \A i \in 1 .. n : NextEntries[i] = stream[delivered + i]
  BY <1>1, NextEntriesOldest
<1>3. /\ slice[c] = <<>> /\ formed[c] = <<>>
      /\ slice'[c] = NextEntries /\ bucket'[c] = bucket[c] /\ formed'[c] = <<>>
      /\ pc'[c] \in {"collect", "feed"}
      /\ UNCHANGED doneVars
  BY DEF Read, LoopShape, TypeOK
<1>4. /\ \A r : ~ Contains(<<>>, r)
      /\ DOMAIN <<>> = {} /\ Len(<<>>) = 0
  BY DEF Contains
<1> HIDE DEF n
<1>5. ASSUME NEW i \in 1 .. n
      PROVE  /\ delivered + i \in delivered + 1 .. Len(stream)
             /\ delivered + i \in 1 .. Len(stream)
             /\ NextEntries[i] = stream[delivered + i]
             /\ NextEntries[i] \in Requests
             /\ NextEntries[i] \notin pel /\ Uncounted(NextEntries[i])
  <2>1. /\ delivered + i \in delivered + 1 .. Len(stream)
        /\ delivered + i \in 1 .. Len(stream)
    BY <1>1, <1>2
  <2> QED  BY <1>1, <1>2, <2>1, ElementOfSeq DEF StreamInv
<1>6. ASSUME NEW i \in 1 .. n, NEW j \in 1 .. n, NextEntries[i] = NextEntries[j]
      PROVE  i = j
  <2>1. delivered + i = delivered + j
    BY <1>5, <1>6 DEF StreamInv
  <2> QED  BY <1>1, <2>1
<1>7. ASSUME NEW r, Contains(NextEntries, r)
      PROVE  r \notin pel /\ r \in ToSet(NextEntries)
  <2>1. PICK i \in 1 .. n : NextEntries[i] = r
    BY <1>7 DEF Contains, n
  <2>2. DOMAIN NextEntries = 1 .. n
    BY <1>2, LenProperties DEF n
  <2> QED  BY <1>5, <2>1, <2>2 DEF ToSet
<1>8. \A r \in bucket[c] : r \in pel
  BY <1>1 DEF HandsInv, InHand
<1>9. Separate(c)'
  BY <1>3, <1>4, <1>6, <1>7, <1>8 DEF Separate, InSlice, InFormed, n
<1>10. Evident(c)'
  BY <1>3, <1>4, <1>5 DEF EvidenceInv, Evident, Uncounted, n
<1>11. \A r \in Requests : InHand(c, r)' =>
            \/ InHand(c, r)
            \/ r \in ToSet(NextEntries) /\ r \notin pel
  BY <1>3, <1>4, <1>7 DEF InHand, InSlice, InFormed
<1> QED  BY <1>9, <1>10, <1>11

(* Every step of a replica keeps what is known of everybody's hands.       *)
LEMMA HandsStep ==
    ASSUME TypeOK, LoopShape, StreamInv, HandsInv, EvidenceInv,
           NEW c \in Replicas, StepOf(c)
    PROVE  HandsInv' /\ EvidenceInv'
<1>0. Separate(c) /\ Evident(c)
  BY DEF HandsInv, EvidenceInv
<1>1. Separate(c)' /\ Evident(c)'
  BY <1>0, ReadStep, SeparateStep, EvidentStep
<1>2. ASSUME NEW r \in Requests, InHand(c, r)'
      PROVE  InHand(c, r) \/ (Read(c) /\ r \in ToSet(NextEntries) /\ r \notin pel)
  BY <1>2, ReadStep, OwnShrinks
<1>3. ASSUME NEW d \in Replicas \ {c}
      PROVE  /\ slice'[d] = slice[d] /\ bucket'[d] = bucket[d]
             /\ formed'[d] = formed[d] /\ pc'[d] = pc[d]
             /\ \A r : InHand(d, r)' <=> InHand(d, r)
  <2>1. /\ slice'[d] = slice[d] /\ bucket'[d] = bucket[d]
        /\ formed'[d] = formed[d] /\ pc'[d] = pc[d]
    BY OthersUntouched
  <2> QED  BY <2>1 DEF InHand, InSlice, InFormed
<1>4. ASSUME NEW d \in Replicas, NEW r \in Requests, InHand(d, r)'
      PROVE  r \in pel'
  <2>1. CASE Deliver
    <3>1. pel' = pel \cup ToSet(NextEntries)
      BY <2>1 DEF Deliver
    <3> QED  BY <1>2, <1>3, <1>4, <3>1 DEF HandsInv
  <2>2. CASE \A x \in pel \ pel' : InHand(c, x) /\ ~ InHand(c, x)'
    <3>1. CASE d = c
      <4>1. CASE InHand(c, r)
        BY <1>4, <2>2, <3>1, <4>1 DEF HandsInv
      <4>2. CASE Read(c) /\ r \in ToSet(NextEntries)
        BY <4>2 DEF Read, Deliver
      <4> QED  BY <1>2, <1>4, <3>1, <4>1, <4>2
    <3>2. CASE d # c
      BY <1>3, <1>4, <2>2, <3>2 DEF HandsInv
    <3> QED  BY <3>1, <3>2
  <2> QED  BY <1>0, <2>1, <2>2, AckStep
<1>5. ASSUME NEW d \in Replicas, NEW e \in Replicas, NEW r \in Requests,
             InHand(d, r)', InHand(e, r)'
      PROVE  d = e
  <2>1. ASSUME NEW b \in Replicas \ {c}, InHand(c, r)', InHand(b, r)'
        PROVE  FALSE
    BY <1>2, <1>3, <2>1 DEF HandsInv
  <2>2. CASE d # c /\ e # c
    BY <1>3, <1>5, <2>2 DEF HandsInv
  <2> QED  BY <1>5, <2>1, <2>2
<1>6. ASSUME NEW d \in Replicas
      PROVE  Separate(d)'
  <2>1. CASE d # c
    BY <1>3, <2>1 DEF HandsInv, Separate, InSlice, InFormed
  <2> QED  BY <1>1, <2>1
<1>7. ASSUME NEW d \in Replicas
      PROVE  Evident(d)'
  <2>1. ASSUME d # c, NEW r \in Requests, InHand(d, r)
        PROVE  batched'[r] = batched[r] /\ rejected'[r] = rejected[r]
    <3>1. ~ InHand(c, r)
      BY <2>1 DEF HandsInv
    <3> QED  BY <3>1, CountStep DEF InHand
  <2>2. CASE d # c
    <3>1. /\ slice[d] \in Seq(Requests) /\ formed[d] \in Seq(SUBSET Requests)
          /\ DOMAIN formed[d] = 1 .. Len(formed[d])
          /\ bucket[d] \subseteq Requests
      BY LenProperties DEF TypeOK
    <3>2. \A r \in bucket[d] : Uncounted(r)'
      BY <2>1, <2>2, <3>1 DEF EvidenceInv, Evident, InHand, Uncounted
    <3>3. ASSUME NEW i \in 1 .. Len(slice[d]), NEW r, r = slice[d][i]
          PROVE  IF i = 1 /\ pc[d] = "reject" THEN Handled(r)' ELSE Uncounted(r)'
      <4>1. r \in Requests /\ InHand(d, r)
        BY <3>1, <3>3, ElementOfSeq DEF InHand, InSlice, Contains
      <4> QED  BY <2>1, <2>2, <3>3, <4>1 DEF EvidenceInv, Evident, Handled, Uncounted
    <3>4. ASSUME NEW i \in 1 .. Len(formed[d]), NEW r \in formed[d][i]
          PROVE  IF i = 1 /\ pc[d] = "ack" THEN Handled(r)' ELSE Uncounted(r)'
      <4>1. r \in Requests /\ InHand(d, r)
        BY <3>1, ElementOfSeq DEF InHand, InFormed
      <4> QED  BY <2>1, <2>2, <4>1 DEF EvidenceInv, Evident, Handled, Uncounted
    <3>5. /\ slice'[d] = slice[d] /\ bucket'[d] = bucket[d]
          /\ formed'[d] = formed[d] /\ pc'[d] = pc[d]
      BY <1>3, <2>2
    <3> QED  BY <3>2, <3>3, <3>4, <3>5 DEF Evident, Handled, Uncounted
  <2> QED  BY <1>1, <2>2
<1>8. HandsInv'
  BY <1>4, <1>5, <1>6 DEF HandsInv
<1>9. EvidenceInv'
  BY <1>7 DEF EvidenceInv
<1> QED  BY <1>8, <1>9

-----------------------------------------------------------------------------
(* The stream and the pending list *)

(* A step of a replica reads from the stream, it does not change it.       *)
LEMMA StreamLoopStep ==
    ASSUME TypeOK, LoopShape, StreamInv, HandsInv, EvidenceInv,
           NEW c \in Replicas, StepOf(c)
    PROVE  StreamInv'
<1> DEFINE n == Len(NextEntries)
<1>1. /\ stream \in Seq(Requests) /\ delivered \in 0 .. Len(stream)
      /\ Len(stream) \in Nat
  BY LenProperties DEF TypeOK
<1>2. /\ n \in 0 .. Len(stream) - delivered
      /\ \A x : x \in ToSet(NextEntries) <=>
                   \E i \in delivered + 1 .. delivered + n : stream[i] = x
  BY <1>1, NextEntriesOldest
<1>3. client' = client /\ stream' = stream
  BY OthersUntouched
<1>4. \/ delivered' = delivered + n /\ pel' = pel \cup ToSet(NextEntries)
      \/ delivered' = delivered /\ pel' \subseteq pel
  BY AckStep DEF HandsInv, Deliver
<1> HIDE DEF n
<1>5. ASSUME NEW r \in Requests, r \notin pel, Uncounted(r)
      PROVE  Uncounted(r)'
  BY <1>5, CountsStay DEF HandsInv, InHand
<1>6. ASSUME NEW i \in delivered' + 1 .. Len(stream), NEW r, r = stream[i]
      PROVE  r \notin pel' /\ Uncounted(r)'
  <2>1. i \in delivered + 1 .. Len(stream) /\ i \in 1 .. Len(stream)
    BY <1>1, <1>2, <1>4
  <2>2. r \in Requests /\ r \notin pel /\ Uncounted(r)
    BY <1>1, <1>6, <2>1, ElementOfSeq DEF StreamInv
  <2>3. CASE delivered' = delivered /\ pel' \subseteq pel
    BY <1>5, <2>2, <2>3
  <2>4. CASE delivered' = delivered + n /\ pel' = pel \cup ToSet(NextEntries)
    <3>1. ASSUME NEW j \in delivered + 1 .. delivered + n, stream[j] = r
          PROVE  FALSE
      <4>1. j \in 1 .. Len(stream) /\ j # i
        BY <1>1, <1>2, <2>4, <3>1
      <4> QED  BY <1>6, <2>1, <3>1, <4>1 DEF StreamInv
    <3> QED  BY <1>2, <1>5, <2>2, <2>4, <3>1
  <2> QED  BY <1>4, <2>3, <2>4
<1>7. ASSUME NEW r \in Requests, client[r] # "accepted"
      PROVE  ~ Contains(stream, r) /\ r \notin pel' /\ Uncounted(r)'
  <2>1. ~ Contains(stream, r) /\ r \notin pel /\ Uncounted(r)
    BY <1>7 DEF StreamInv
  <2>2. r \notin ToSet(NextEntries)
    <3>1. ASSUME NEW j \in delivered + 1 .. delivered + n, stream[j] = r
          PROVE  FALSE
      <4>1. j \in 1 .. Len(stream)
        BY <1>1, <1>2
      <4> QED  BY <2>1, <3>1, <4>1 DEF Contains
    <3> QED  BY <1>2, <3>1
  <2> QED  BY <1>4, <1>5, <2>1, <2>2
<1> QED  BY <1>3, <1>6, <1>7 DEF StreamInv, Uncounted

(* A publication appends a request that is nowhere yet.                    *)
LEMMA StreamEnqueue ==
    ASSUME TypeOK, StreamInv, NEW r \in Requests, Enqueue(r)
    PROVE  StreamInv'
<1>1. /\ stream \in Seq(Requests) /\ delivered \in 0 .. Len(stream)
      /\ Len(stream) \in Nat
  BY LenProperties DEF TypeOK
<1>2. /\ client[r] = "checked" /\ client' = [client EXCEPT ![r] = "accepted"]
      /\ pel' = pel /\ UNCHANGED doneVars
  BY DEF Enqueue
<1>3. PICK k \in 0 .. Len(stream) + 1 :
        /\ Len(stream') = Len(stream) + 1 - k
        /\ \A i \in 1 .. Len(stream') :
              stream'[i] = IF i + k = Len(stream) + 1 THEN r ELSE stream[i + k]
        /\ delivered' = IF k < delivered THEN delivered - k ELSE 0
  BY <1>1, EnqueueShifts
<1>4. ~ Contains(stream, r) /\ r \notin pel /\ Uncounted(r)
  BY <1>2 DEF StreamInv
<1>5. ASSUME NEW i \in 1 .. Len(stream')
      PROVE  \/ i + k = Len(stream) + 1 /\ stream'[i] = r
             \/ /\ i + k \in 1 .. Len(stream) /\ stream'[i] = stream[i + k]
                /\ stream'[i] # r
  <2>1. CASE i + k = Len(stream) + 1
    BY <1>3, <2>1
  <2>2. CASE i + k # Len(stream) + 1
    <3>1. i + k \in 1 .. Len(stream)
      BY <1>1, <1>3, <2>2
    <3> QED  BY <1>3, <1>4, <2>2, <3>1 DEF Contains
  <2> QED  BY <2>1, <2>2
<1>6. ASSUME NEW i \in 1 .. Len(stream'), NEW j \in 1 .. Len(stream'),
             stream'[i] = stream'[j]
      PROVE  i = j
  <2>1. CASE stream'[i] = r
    <3>1. i + k = Len(stream) + 1 /\ j + k = Len(stream) + 1
      BY <1>5, <1>6, <2>1
    <3> QED  BY <1>1, <1>3, <3>1
  <2>2. CASE stream'[i] # r
    <3>1. /\ i + k \in 1 .. Len(stream) /\ j + k \in 1 .. Len(stream)
          /\ stream[i + k] = stream[j + k]
      BY <1>5, <1>6, <2>2
    <3>2. i + k = j + k
      BY <3>1 DEF StreamInv
    <3> QED  BY <1>1, <1>3, <3>2
  <2> QED  BY <2>1, <2>2
<1>7. ASSUME NEW i \in delivered' + 1 .. Len(stream')
      PROVE  stream'[i] \notin pel /\ Uncounted(stream'[i])
  <2>1. i \in 1 .. Len(stream')
    BY <1>1, <1>3
  <2>2. CASE stream'[i] = r
    BY <1>4, <2>2
  <2>3. CASE stream'[i] # r
    <3>1. i + k \in 1 .. Len(stream) /\ stream'[i] = stream[i + k]
      BY <1>5, <2>1, <2>3
    <3>2. i + k \in delivered + 1 .. Len(stream)
      BY <1>1, <1>3, <3>1
    <3> QED  BY <3>1, <3>2 DEF StreamInv
  <2> QED  BY <2>2, <2>3
<1>8. ASSUME NEW x \in Requests, client'[x] # "accepted"
      PROVE  ~ Contains(stream', x) /\ x \notin pel /\ Uncounted(x)
  <2>1. x # r /\ client[x] # "accepted"
    BY <1>2, <1>8 DEF TypeOK
  <2>2. ~ Contains(stream, x) /\ x \notin pel /\ Uncounted(x)
    BY <2>1 DEF StreamInv
  <2>3. ~ Contains(stream', x)
    BY <1>5, <2>1, <2>2 DEF Contains
  <2> QED  BY <2>2, <2>3
<1> QED  BY <1>2, <1>6, <1>7, <1>8 DEF StreamInv, Uncounted

-----------------------------------------------------------------------------
(* The inductive invariant *)

IInv == TypeOK /\ HandlingInv /\ HandledOnce /\ AckedIsHandled

(* Nothing is published, read or handled in the beginning. *)
LEMMA InitIInv == Init => IInv
<1> SUFFICES ASSUME Init PROVE IInv
  OBVIOUS
<1>1. /\ Len(<<>>) = 0 /\ DOMAIN <<>> = {}
      /\ \A x : ~ Contains(<<>>, x)
  BY DEF Contains
<1>2. StreamInv
  BY <1>1 DEF Init, StreamInv, Uncounted
<1>3. HandsInv
  BY <1>1 DEF Init, HandsInv, Separate, InHand, InSlice, InFormed
<1>4. EvidenceInv
  BY <1>1 DEF Init, EvidenceInv, Evident
<1>5. HandledOnce /\ AckedIsHandled
  BY DEF Init, HandledOnce, AckedIsHandled
<1> QED  BY <1>2, <1>3, <1>4, <1>5, InitType DEF IInv, HandlingInv

(* A step counts a request at most once, and only one not counted before.  *)
LEMMA HandledOnceStep ==
    ASSUME TypeOK, LoopShape, EvidenceInv, HandledOnce, NEW c \in Replicas, StepOf(c)
    PROVE  HandledOnce'
<1>1. ASSUME NEW r \in Requests
      PROVE  batched'[r] + rejected'[r] =< 1
  <2>1. batched[r] + rejected[r] =< 1
    BY DEF HandledOnce
  <2>2. CASE batched'[r] = batched[r] /\ rejected'[r] = rejected[r]
    BY <2>1, <2>2
  <2>3. CASE batched'[r] + rejected'[r] = 1
    BY <2>3
  <2> QED  BY <2>2, <2>3, CountStep
<1> QED  BY <1>1 DEF HandledOnce

(* An entry leaves the stream for the pending list, and the pending list   *)
(* only when it has been handled.                                          *)
LEMMA AckedStep ==
    ASSUME TypeOK, HandlingInv, AckedIsHandled, NEW c \in Replicas, StepOf(c)
    PROVE  AckedIsHandled'
<1>1. stream \in Seq(Requests) /\ delivered \in 0 .. Len(stream)
  BY DEF TypeOK
<1>2. /\ LoopShape /\ EvidenceInv /\ Separate(c)
      /\ client' = client /\ stream' = stream /\ trimmed' = trimmed
  BY OthersUntouched DEF HandlingInv, HandsInv
<1>3. SUFFICES ASSUME NEW r \in Requests, client[r] = "accepted"
               PROVE  Contains(Unread', r) \/ r \in pel' \/ r \in trimmed \/ Handled(r)'
  BY <1>2 DEF AckedIsHandled
<1>4. CASE Handled(r)
  BY <1>2, <1>4, CountsStay
<1>5. CASE r \in trimmed
  BY <1>5
<1>6. CASE Contains(Unread, r)
  <2>1. CASE Deliver
    BY <1>1, <1>6, <2>1, DeliverKeeps
  <2>2. CASE UNCHANGED <<stream, delivered>>
    BY <1>6, <2>2 DEF Unread
  <2> QED  BY <1>2, <2>1, <2>2, AckStep
<1>7. CASE r \in pel
  <2>1. r \in pel' \/ Handled(r)
    BY <1>2, <1>7, AckStep DEF Deliver
  <2> QED  BY <1>2, <2>1, CountsStay
<1> QED  BY <1>3, <1>4, <1>5, <1>6, <1>7 DEF AckedIsHandled

(* Every step keeps the inductive invariant. *)
LEMMA IInvStep == IInv /\ [Next]_vars => IInv'
<1> SUFFICES ASSUME IInv, [Next]_vars PROVE IInv'
  OBVIOUS
<1>0. /\ TypeOK /\ LoopShape /\ StreamInv /\ HandsInv /\ EvidenceInv
      /\ HandledOnce /\ AckedIsHandled /\ HandlingInv
      /\ stream \in Seq(Requests) /\ delivered \in 0 .. Len(stream)
  BY DEF IInv, HandlingInv, TypeOK
<1>1. TypeOK' /\ LoopShape'
  BY <1>0, TypeStep
<1>2. ASSUME NEW c \in Replicas, StepOf(c)
      PROVE  IInv'
  <2>1. HandsInv' /\ EvidenceInv'
    BY <1>0, <1>2, HandsStep
  <2>2. StreamInv'
    BY <1>0, <1>2, StreamLoopStep
  <2>3. HandledOnce' /\ AckedIsHandled'
    BY <1>0, <1>2, HandledOnceStep, AckedStep
  <2> QED  BY <1>1, <2>1, <2>2, <2>3 DEF IInv, HandlingInv
<1>3. ASSUME UNCHANGED <<loopVars, pel, doneVars>>
      PROVE  HandsInv' /\ EvidenceInv' /\ HandledOnce'
  BY <1>0, <1>3 DEF HandsInv, EvidenceInv, HandledOnce, Separate, Evident, InHand,
                    InSlice, InFormed, Uncounted, Handled
<1>4. ASSUME NEW r \in Requests, Enqueue(r)
      PROVE  IInv'
  <2>1. StreamInv'
    BY <1>0, <1>4, StreamEnqueue
  <2>2. HandsInv' /\ EvidenceInv' /\ HandledOnce'
    BY <1>3, <1>4 DEF Enqueue
  <2>3. AckedIsHandled'
    <3>1. /\ client' = [client EXCEPT ![r] = "accepted"]
          /\ pel' = pel /\ UNCHANGED doneVars
      BY <1>4 DEF Enqueue
    <3>2. trimmed \subseteq trimmed'
      BY <1>0, <1>4, EnqueueShifts
    <3>3. \A x : x = r \/ Contains(Unread, x) => Contains(Unread', x) \/ x \in trimmed'
      BY <1>0, <1>4, EnqueueKeeps
    <3>4. \A x \in Requests \ {r} : client'[x] = client[x]
      BY <1>0, <3>1 DEF TypeOK
    <3>5. \A x \in Requests : Handled(x) => Handled(x)'
      BY <3>1 DEF Handled
    <3> QED  BY <1>0, <3>1, <3>2, <3>3, <3>4, <3>5 DEF AckedIsHandled
  <2> QED  BY <1>1, <2>1, <2>2, <2>3 DEF IInv, HandlingInv
<1>5. ASSUME NEW r \in Requests, CheckDepth(r) \/ Wait(r)
      PROVE  IInv'
  <2>1. /\ UNCHANGED <<streamVars, loopVars, doneVars>>
        /\ \A x \in Requests : client'[x] = "accepted" <=> client[x] = "accepted"
    BY <1>0, <1>5 DEF CheckDepth, Wait, TypeOK
  <2>2. HandsInv' /\ EvidenceInv' /\ HandledOnce'
    BY <1>3, <2>1
  <2>3. StreamInv' /\ AckedIsHandled'
    BY <1>0, <2>1 DEF StreamInv, AckedIsHandled, Unread, Uncounted, Handled
  <2> QED  BY <1>1, <2>2, <2>3 DEF IInv, HandlingInv
<1>6. CASE UNCHANGED vars
  <2>1. HandsInv' /\ EvidenceInv' /\ HandledOnce'
    BY <1>3, <1>6 DEF vars
  <2>2. StreamInv' /\ AckedIsHandled'
    BY <1>0, <1>6 DEF vars, StreamInv, AckedIsHandled, Unread, Uncounted, Handled
  <2> QED  BY <1>1, <2>1, <2>2 DEF IInv, HandlingInv
<1> QED  BY <1>2, <1>4, <1>5, <1>6 DEF Next, StepOf

(* The inductive invariant is one. *)
LEMMA Inductive == Spec => []IInv
  BY InitIInv, IInvStep, PTL DEF Spec

(* The variables of the ingest side keep their types. *)
THEOREM TypeCorrect == Spec => []TypeOK
<1>1. IInv => TypeOK
  BY DEF IInv
<1> QED  BY <1>1, Inductive, PTL

(* XACK comes after the LPUSH or the REJECTED result on every path of the  *)
(* loop, whatever command fails and whatever replica dies.                 *)
THEOREM AckedAfterHandled == Spec => []AckedIsHandled
<1>1. IInv => AckedIsHandled
  BY DEF IInv
<1> QED  BY <1>1, Inductive, PTL

(* No request is dispatched twice, dispatched and rejected, or rejected    *)
(* twice, by any number of replicas.                                       *)
THEOREM AtMostOnce == Spec => []HandledOnce
<1>1. IInv => HandledOnce
  BY DEF IInv
<1> QED  BY <1>1, Inductive, PTL

(* No two replicas, and no two places of one replica, hold the same        *)
(* request, and what is held is pending.                                   *)
THEOREM OneHolder == Spec => []HeldOnce
<1>1. IInv => HeldOnce
  BY DEF IInv, HandlingInv, HandsInv, Separate, HeldOnce, Holds, InHand
<1> QED  BY <1>1, Inductive, PTL

(* The local variables, the pending list and the counts agree at every     *)
(* await of the loop.                                                      *)
THEOREM HandlingAgrees == Spec => []HandlingInv
<1>1. IInv => HandlingInv
  BY DEF IInv
<1> QED  BY <1>1, Inductive, PTL

-----------------------------------------------------------------------------
(* Nothing is left behind without a fault *)

(* What is pending is in somebody's hands, a replica that has stopped holds *)
(* nothing, and one that drains dispatches the last of what it had.        *)
Owned ==
    faults.failures = 0 =>
        /\ \A r \in pel : \E c \in Replicas : InHand(c, r)
        /\ \A c \in Replicas : ~ Working(c) => bucket[c] = {}
        /\ \A c \in Replicas :
               replica[c] = "draining" /\ pc[c] \in {"push", "ack"} => bucket[c] = {}

(* Who has stopped has nothing in hand. *)
LEMMA OwnedIsHeld == TypeOK /\ LoopShape /\ Owned => NothingOrphaned
<1> SUFFICES ASSUME TypeOK, LoopShape, Owned, faults.failures = 0, NEW r \in pel
             PROVE  \E c \in Replicas : Holds(c, r)
  BY DEF NothingOrphaned, Orphans
<1>1. PICK c \in Replicas : InHand(c, r)
  BY DEF Owned
<1>2. ASSUME ~ Working(c)
      PROVE  FALSE
  <2>1. slice[c] = <<>> /\ formed[c] = <<>> /\ bucket[c] = {}
    BY <1>2 DEF LoopShape, Owned
  <2>2. ~ Contains(<<>>, r) /\ DOMAIN <<>> = {}
    BY DEF Contains
  <2> QED  BY <1>1, <2>1, <2>2 DEF InHand, InSlice, InFormed
<1> QED  BY <1>1, <1>2 DEF Holds, InHand

(* A step that does not fail lets go of nothing it does not acknowledge. *)
LEMMA OwnKeeps ==
    ASSUME TypeOK, LoopShape, NEW c \in Replicas, LoopStep(c), ~ Read(c),
           NEW r \in pel', InHand(c, r)
    PROVE  InHand(c, r)'
<1>0. /\ slice[c] \in Seq(Requests) /\ formed[c] \in Seq(SUBSET Requests)
      /\ Len(slice[c]) \in Nat /\ Len(formed[c]) \in Nat
      /\ DOMAIN formed[c] = 1 .. Len(formed[c])
  BY LenProperties DEF TypeOK
<1>1. CASE Reject(c) \/ Collected(c) \/ Push(c) \/ EndTick(c)
  BY <1>1 DEF Reject, Collected, Push, EndTick, InHand, InSlice, InFormed
<1>2. CASE Feed(c) \/ AckRejected(c)
  <2>1. /\ NextEntry(c) /\ formed' = formed
        /\ pc[c] \in {"feed", "reject"}
        /\ \/ bucket'[c] = bucket[c] \cup {Head(slice[c])}
           \/ bucket'[c] = bucket[c] /\ Head(slice[c]) \notin pel'
    BY <1>2 DEF Feed, AckRejected, Ack, TypeOK
  <2>2. slice[c] # <<>> /\ slice'[c] = Tail(slice[c])
    BY <2>1, NextEntryShape
  <2>3. Contains(slice[c], r) => r = Head(slice[c]) \/ Contains(Tail(slice[c]), r)
    BY <1>0, <2>2, TailContents
  <2> QED  BY <2>1, <2>2, <2>3 DEF InHand, InSlice, InFormed
<1>3. CASE Flush(c)
  <2>1. PICK chosen \in SUBSET bucket[c] :
            /\ formed'[c] = Append(formed[c], chosen)
            /\ bucket'[c] = bucket[c] \ chosen
    BY <1>3 DEF Flush, BucketOf, TypeOK
  <2>2. slice' = slice /\ chosen \in SUBSET Requests
    BY <1>3, <2>1 DEF Flush, TypeOK
  <2>3. /\ DOMAIN formed'[c] = 1 .. Len(formed[c]) + 1
        /\ \A i \in 1 .. Len(formed[c]) : formed'[c][i] = formed[c][i]
        /\ formed'[c][Len(formed[c]) + 1] = chosen
    BY <1>0, <2>1, <2>2, AppendProperties
  <2>4. Len(formed[c]) + 1 \in DOMAIN formed'[c] /\ DOMAIN formed[c] \subseteq DOMAIN formed'[c]
    BY <1>0, <2>3
  <2>5. CASE r \in chosen
    BY <2>3, <2>4, <2>5 DEF InHand, InFormed
  <2>6. CASE InFormed(c, r)
    BY <1>0, <2>3, <2>4, <2>6 DEF InHand, InFormed
  <2>7. CASE (r \notin chosen /\ r \in bucket[c]) \/ InSlice(c, r)
    BY <2>1, <2>2, <2>7 DEF InHand, InSlice
  <2> QED  BY <2>5, <2>6, <2>7 DEF InHand
<1>4. CASE AckPushed(c)
  <2>1. /\ formed[c] # <<>> /\ formed'[c] = Tail(formed[c])
        /\ r \notin Head(formed[c])
        /\ bucket' = bucket /\ slice' = slice
    BY <1>4 DEF AckPushed, Ack, LoopShape, TypeOK
  <2>2. /\ DOMAIN formed'[c] = 1 .. Len(formed[c]) - 1
        /\ \A i \in 1 .. Len(formed[c]) - 1 : formed'[c][i] = formed[c][i + 1]
        /\ Head(formed[c]) = formed[c][1]
    BY <1>0, <2>1, HeadTailProperties, LenProperties
  <2>3. ASSUME InFormed(c, r)
        PROVE  InFormed(c, r)'
    <3>1. PICK i \in 1 .. Len(formed[c]) : r \in formed[c][i]
      BY <1>0, <2>3 DEF InFormed
    <3>2. i # 1
      BY <2>1, <2>2, <3>1
    <3>3. i - 1 \in 1 .. Len(formed[c]) - 1 /\ (i - 1) + 1 = i
      BY <1>0, <3>2
    <3>4. i - 1 \in DOMAIN formed'[c] /\ r \in formed'[c][i - 1]
      BY <2>2, <3>1, <3>3
    <3> QED  BY <3>4 DEF InFormed
  <2> QED  BY <2>1, <2>3 DEF InHand, InSlice
<1> QED  BY <1>1, <1>2, <1>3, <1>4 DEF LoopStep

(* When no trigger is left, a replica that drains has nothing buffered. *)
LEMMA DrainsAll ==
    ASSUME TypeOK, NEW c \in Replicas, CollectDone(c), replica[c] = "draining"
    PROVE  bucket[c] = {}
<1> SUFFICES ASSUME NEW r \in bucket[c]
             PROVE  FALSE
  OBVIOUS
<1>1. r \in Requests /\ ModelOf[r] \in Models
  BY RequestsAssumption DEF TypeOK
<1>2. r \in BucketOf(c, ModelOf[r])
  BY DEF BucketOf
<1>3. Triggered(c, ModelOf[r])
  BY <1>2 DEF Triggered
<1> QED  BY <1>1, <1>3 DEF CollectDone

(* The loop of a replica goes from one await to the next, stops or starts. *)
LEMMA OwnedLoopStep ==
    ASSUME TypeOK, LoopShape, HandlingInv, Owned, NEW c \in Replicas,
           LoopStep(c) \/ Stop(c) \/ Start(c), faults'.failures = 0
    PROVE  Owned'
<1>1. StepOf(c)
  BY DEF StepOf, LoopFault
<1>2. faults.failures = 0
  <2>1. faults' = faults \/ Fault("stop")
    BY DEF LoopStep, Read, Feed, Reject, AckRejected, Flush, Collected, Push, AckPushed,
           EndTick, Stop, Start
  <2> QED  BY <2>1 DEF Fault, TypeOK
<1>3. /\ \A r \in pel : \E d \in Replicas : InHand(d, r)
      /\ \A d \in Replicas : ~ Working(d) => bucket[d] = {}
      /\ \A d \in Replicas :
             replica[d] = "draining" /\ pc[d] \in {"push", "ack"} => bucket[d] = {}
  BY <1>2 DEF Owned
<1>4. ASSUME NEW d \in Replicas \ {c}
      PROVE  /\ slice'[d] = slice[d] /\ bucket'[d] = bucket[d]
             /\ formed'[d] = formed[d] /\ pc'[d] = pc[d]
             /\ replica'[d] = replica[d]
             /\ \A r : InHand(d, r) => InHand(d, r)'
  <2>1. /\ slice'[d] = slice[d] /\ bucket'[d] = bucket[d]
        /\ formed'[d] = formed[d] /\ pc'[d] = pc[d]
    BY <1>1, OthersUntouched
  <2>2. replica'[d] = replica[d]
    BY DEF LoopStep, Read, Feed, Reject, AckRejected, Flush, Collected, Push, AckPushed,
           EndTick, LeavesTick, Stop, Start, TypeOK
  <2> QED  BY <2>1, <2>2 DEF InHand, InSlice, InFormed
<1>5. ASSUME NEW r \in pel'
      PROVE  \E d \in Replicas : InHand(d, r)'
  <2>1. CASE Read(c)
    <3>1. /\ pel' = pel \cup ToSet(NextEntries)
          /\ slice[c] = <<>> /\ slice'[c] = NextEntries
          /\ bucket' = bucket /\ formed' = formed
      BY <2>1 DEF Read, Deliver, LoopShape, TypeOK
    <3>2. CASE r \in ToSet(NextEntries)
      <4>1. NextEntries \in Seq(Requests)
        BY NextEntriesOldest DEF TypeOK
      <4>2. Contains(NextEntries, r)
        BY <3>2, <4>1, LenProperties DEF ToSet, Contains
      <4> QED  BY <3>1, <4>2 DEF InHand, InSlice
    <3>3. CASE r \in pel
      <4>1. PICK d \in Replicas : InHand(d, r)
        BY <1>3, <3>3
      <4>2. CASE d = c
        <5>1. ~ Contains(<<>>, r)
          BY DEF Contains
        <5> QED  BY <3>1, <4>1, <4>2, <5>1 DEF InHand, InSlice, InFormed
      <4> QED  BY <1>4, <4>1, <4>2
    <3> QED  BY <3>1, <3>2, <3>3
  <2>2. CASE LoopStep(c) /\ ~ Read(c)
    <3>1. r \in pel
      BY <2>2 DEF LoopStep, Feed, Reject, AckRejected, Flush, Collected, Push, AckPushed,
                  EndTick, Ack
    <3>2. PICK d \in Replicas : InHand(d, r)
      BY <1>3, <3>1
    <3> QED  BY <1>4, <2>2, <3>2, OwnKeeps
  <2>3. CASE Stop(c) \/ Start(c)
    <3>1. UNCHANGED <<pel, slice, bucket, formed>>
      BY <2>3 DEF Stop, Start, EnsureGroup
    <3>2. PICK d \in Replicas : InHand(d, r)
      BY <1>3, <3>1
    <3> QED  BY <3>1, <3>2 DEF InHand, InSlice, InFormed
  <2> QED  BY <2>1, <2>2, <2>3
<1>6. /\ ~ Working(c)' => bucket'[c] = {}
      /\ replica'[c] = "draining" /\ pc'[c] \in {"push", "ack"} => bucket'[c] = {}
  <2>1. CASE Read(c) \/ Feed(c) \/ Reject(c) \/ AckRejected(c)
    <3>1. Working(c) /\ replica' = replica
      BY <2>1 DEF Read, Feed, Reject, CountRejection, AckRejected, LoopShape, Working
    <3>2. pc'[c] \notin {"push", "ack"}
      BY <2>1 DEF Read, Feed, Reject, AckRejected, NextEntry, TypeOK
    <3> QED  BY <3>1, <3>2 DEF Working
  <2>2. CASE Flush(c)
    <3>1. Working(c) /\ replica' = replica /\ pc'[c] = "collect"
      BY <2>2 DEF Flush, LoopShape, Working
    <3> QED  BY <3>1 DEF Working
  <2>3. CASE Collected(c)
    <3>1. Working(c) /\ replica' = replica /\ bucket' = bucket /\ CollectDone(c)
      BY <2>3 DEF Collected, CollectDone, LoopShape, Working
    <3> QED  BY <3>1, DrainsAll DEF Working
  <2>4. CASE Push(c) \/ AckPushed(c)
    <3>1. /\ Working(c) /\ replica' = replica /\ bucket' = bucket
          /\ pc[c] \in {"push", "ack"}
      BY <2>4 DEF Push, CountBatch, AckPushed, LoopShape, Working
    <3> QED  BY <1>3, <3>1 DEF Working
  <2>5. CASE EndTick(c)
    <3>1. /\ Working(c) /\ bucket' = bucket /\ pc[c] = "push"
          /\ replica[c] = "running" => replica'[c] = "running"
          /\ replica[c] = "stopping" => replica'[c] = "draining" /\ pc'[c] = "collect"
      BY <2>5 DEF EndTick, LeavesTick, TypeOK
    <3> QED  BY <1>3, <3>1 DEF Working
  <2>6. CASE Stop(c)
    <3>1. \/ replica'[c] = "stopping"
          \/ replica'[c] = "draining" /\ pc'[c] = "collect"
      BY <2>6 DEF Stop, TypeOK
    <3> QED  BY <3>1 DEF Working
  <2>7. CASE Start(c)
    <3>1. replica'[c] = "running"
      BY <2>7 DEF Start, TypeOK
    <3> QED  BY <3>1 DEF Working
  <2> QED  BY <2>1, <2>2, <2>3, <2>4, <2>5, <2>6, <2>7 DEF LoopStep
<1>7. ASSUME NEW d \in Replicas
      PROVE  /\ ~ Working(d)' => bucket'[d] = {}
             /\ replica'[d] = "draining" /\ pc'[d] \in {"push", "ack"} => bucket'[d] = {}
  BY <1>3, <1>4, <1>6 DEF Working
<1> QED  BY <1>5, <1>7 DEF Owned

(* Every step keeps it, for a step that fails is counted. *)
LEMMA OwnedStep ==
    ASSUME TypeOK, LoopShape, HandlingInv, Owned, [Next]_vars
    PROVE  Owned'
<1> SUFFICES ASSUME faults'.failures = 0  PROVE Owned'
  BY DEF Owned
<1>1. ASSUME NEW c \in Replicas, TickError(c) \/ ReplyLost(c) \/ Crash(c)
      PROVE  FALSE
  <2>1. PICK kind \in {"error", "lost_reply", "crash"} : Fault(kind)
    BY <1>1 DEF TickError, ReplyLost, Crash
  <2>2. faults'.failures = faults.failures + 1 /\ faults.failures \in Nat
    BY <2>1 DEF Fault, TypeOK
  <2> QED  BY <2>2
<1>2. ASSUME UNCHANGED <<faults, pel, slice, bucket, formed, replica, pc>>
      PROVE  Owned'
  BY <1>2 DEF Owned, InHand, InSlice, InFormed, Working
<1>3. ASSUME NEW r \in Requests, CheckDepth(r) \/ Enqueue(r) \/ Wait(r)
      PROVE  Owned'
  BY <1>2, <1>3 DEF CheckDepth, Enqueue, Wait
<1>4. CASE UNCHANGED vars
  BY <1>2, <1>4 DEF vars
<1> QED  BY <1>1, <1>3, <1>4, OwnedLoopStep DEF Next, LoopFault

(* Replicas may be stopped at any point of a tick, any number of them and  *)
(* any number of times: as long as no command fails and none is killed, no *)
(* entry stays pending with nobody to acknowledge it.                      *)
THEOREM GracefulStopsLoseNothing == Spec => []NothingOrphaned
<1>1. Init => Owned
  BY DEF Init, Owned, Working
<1>2. TypeOK /\ LoopShape /\ HandlingInv /\ Owned /\ [Next]_vars => Owned'
  BY OwnedStep
<1>3. IInv => TypeOK /\ LoopShape /\ HandlingInv
  BY DEF IInv, HandlingInv
<1>4. Spec => []Owned
  BY <1>1, <1>2, <1>3, Inductive, PTL DEF Spec
<1> QED  BY <1>3, <1>4, Inductive, OwnedIsHeld, PTL

-----------------------------------------------------------------------------
(* The contract of RequestHandover *)

Batchable(rs) ==
    /\ rs # {} /\ Cardinality(rs) =< MaxBatch
    /\ \A r, q \in rs : ModelOf[r] = ModelOf[q]

(* What a replica is about to dispatch may be dispatched.                  *)
FormedInv == \A c \in Replicas : \A i \in 1 .. Len(formed[c]) : Batchable(formed[c][i])

(* A trimmed entry is gone for good: nobody reads it or deals with it.     *)
TrimmedInv ==
    \A r \in trimmed :
        client[r] = "accepted" /\ ~ Contains(stream, r) /\ r \notin pel /\ Uncounted(r)

(* _flush_one (batcher.py) takes a full batch or a whole bucket that is    *)
(* not empty, and buckets are by model.                                    *)
LEMMA FormedStep ==
    ASSUME TypeOK, LoopShape, FormedInv, NEW c \in Replicas, StepOf(c)
    PROVE  FormedInv'
<1>0. /\ formed[c] \in Seq(SUBSET Requests) /\ Len(formed[c]) \in Nat
      /\ DOMAIN formed[c] = 1 .. Len(formed[c])
  BY LenProperties DEF TypeOK
<1> SUFFICES ASSUME NEW i \in 1 .. Len(formed'[c])
             PROVE  Batchable(formed'[c][i])
  BY OthersUntouched DEF FormedInv
<1>1. CASE formed'[c] = formed[c]
  BY <1>1 DEF FormedInv
<1>2. CASE formed'[c] = <<>>
  BY <1>2
<1>3. CASE Flush(c)
  <2>0. PICK m \in Models : \E chosen \in SUBSET BucketOf(c, m) :
            /\ Triggered(c, m)
            /\ \/ Cardinality(chosen) = MaxBatch
               \/ chosen = BucketOf(c, m) /\ Cardinality(chosen) < MaxBatch
            /\ formed' = [formed EXCEPT ![c] = Append(@, chosen)]
    BY <1>3 DEF Flush
  <2>1. PICK chosen \in SUBSET BucketOf(c, m) :
            /\ Triggered(c, m)
            /\ \/ Cardinality(chosen) = MaxBatch
               \/ chosen = BucketOf(c, m) /\ Cardinality(chosen) < MaxBatch
            /\ formed' = [formed EXCEPT ![c] = Append(@, chosen)]
    BY <2>0
  <2>2. chosen \in SUBSET Requests /\ formed'[c] = Append(formed[c], chosen)
    BY <2>1 DEF BucketOf, TypeOK
  <2>3. chosen # {}
    <3>1. Cardinality({}) = 0
      BY FS_EmptySet
    <3> QED  BY <2>1, <3>1, LimitsAssumption DEF Triggered
  <2>4. Cardinality(chosen) =< MaxBatch
    <3>1. IsFiniteSet(chosen)
      BY <2>2, FS_Subset, RequestsAssumption
    <3>2. Cardinality(chosen) \in Nat
      BY <3>1, FS_CardinalityType
    <3> QED  BY <2>1, <3>2, LimitsAssumption
  <2>5. Batchable(chosen)
    BY <2>1, <2>3, <2>4 DEF Batchable, BucketOf
  <2>6. /\ Len(formed'[c]) = Len(formed[c]) + 1
        /\ \A k \in 1 .. Len(formed[c]) : formed'[c][k] = formed[c][k]
        /\ formed'[c][Len(formed[c]) + 1] = chosen
    BY <1>0, <2>2, AppendProperties
  <2>7. i \in 1 .. Len(formed[c]) \/ i = Len(formed[c]) + 1
    BY <1>0, <2>6
  <2> QED  BY <2>5, <2>6, <2>7 DEF FormedInv
<1>4. CASE AckPushed(c)
  <2>1. formed[c] # <<>> /\ formed'[c] = Tail(formed[c])
    BY <1>4 DEF AckPushed, LoopShape, TypeOK
  <2>2. /\ Len(formed'[c]) = Len(formed[c]) - 1
        /\ \A k \in 1 .. Len(formed[c]) - 1 : formed'[c][k] = formed[c][k + 1]
    BY <1>0, <2>1, HeadTailProperties
  <2>3. i + 1 \in 1 .. Len(formed[c]) /\ formed'[c][i] = formed[c][i + 1]
    BY <1>0, <2>2
  <2> QED  BY <2>3 DEF FormedInv
<1>5. formed'[c] \in {formed[c], <<>>} \/ Flush(c) \/ AckPushed(c)
  BY DEF StepOf, LoopStep, LoopFault, Read, Feed, Reject, AckRejected, Collected, Push,
         EndTick, TickError, ReplyLost, Raise, Stop, Crash, Start, TypeOK
<1> QED  BY <1>1, <1>2, <1>3, <1>4, <1>5

(* The stream drops only what was published and not read, and forgets it   *)
(* (XADD MAXLEN, queues.py:82).                                            *)
LEMMA TrimmedEnqueue ==
    ASSUME TypeOK, StreamInv, TrimmedInv, NEW r \in Requests, Enqueue(r)
    PROVE  /\ TrimmedInv'
           /\ \A x \in trimmed' \ trimmed : x = r \/ Contains(Unread, x)
<1>1. /\ stream \in Seq(Requests) /\ delivered \in 0 .. Len(stream)
      /\ Len(stream) \in Nat
      /\ \A x : Contains(stream, x) => x \in Requests
  BY LenProperties, ElementOfSeq DEF TypeOK, Contains
<1>2. /\ client[r] = "checked" /\ client' = [client EXCEPT ![r] = "accepted"]
      /\ pel' = pel /\ UNCHANGED doneVars
  BY DEF Enqueue
<1>3. PICK k \in 0 .. Len(stream) + 1 :
        /\ Len(stream') = Len(stream) + 1 - k
        /\ \A i \in 1 .. Len(stream') :
              stream'[i] = IF i + k = Len(stream) + 1 THEN r ELSE stream[i + k]
        /\ trimmed \subseteq trimmed'
        /\ \A x \in trimmed' \ trimmed : \E i \in delivered + 1 .. k :
              x = IF i = Len(stream) + 1 THEN r ELSE stream[i]
  BY <1>1, EnqueueShifts
<1>4. ~ Contains(stream, r) /\ r \notin pel /\ Uncounted(r)
  BY <1>2 DEF StreamInv
<1>5. ASSUME NEW x, Contains(stream', x)
      PROVE  \E j \in k + 1 .. Len(stream) + 1 :
                 x = IF j = Len(stream) + 1 THEN r ELSE stream[j]
  <2>1. PICK i \in 1 .. Len(stream') : stream'[i] = x
    BY <1>5 DEF Contains
  <2>2. i + k \in k + 1 .. Len(stream) + 1
    BY <1>1, <1>3, <2>1
  <2> QED  BY <1>3, <2>1, <2>2
<1>6. ASSUME NEW x \in trimmed' \ trimmed
      PROVE  /\ x = r \/ Contains(Unread, x)
             /\ client'[x] = "accepted" /\ x \notin pel /\ Uncounted(x)
             /\ ~ Contains(stream', x)
  <2>1. PICK i \in delivered + 1 .. k : x = IF i = Len(stream) + 1 THEN r ELSE stream[i]
    BY <1>3, <1>6
  <2>2. i \in 1 .. Len(stream) + 1
    BY <1>1, <2>1
  <2>3. CASE i = Len(stream) + 1
    <3>1. k + 1 > Len(stream) + 1
      BY <1>1, <2>1, <2>3
    <3>2. ~ Contains(stream', x)
      BY <1>1, <1>5, <3>1
    <3> QED  BY <1>2, <1>4, <2>1, <2>3, <3>2 DEF TypeOK
  <2>4. CASE i # Len(stream) + 1
    <3>1. i \in delivered + 1 .. Len(stream) /\ i \in 1 .. Len(stream) /\ x = stream[i]
      BY <1>1, <2>1, <2>2, <2>4
    <3>2. Contains(Unread, x) /\ Contains(stream, x) /\ x \in Requests /\ x # r
      BY <1>1, <1>4, <3>1, UnreadEntries DEF Contains
    <3>3. client[x] = "accepted" /\ x \notin pel /\ Uncounted(x)
      BY <3>1, <3>2 DEF StreamInv
    <3>4. ASSUME Contains(stream', x)
          PROVE  FALSE
      <4>1. PICK j \in k + 1 .. Len(stream) + 1 :
                x = IF j = Len(stream) + 1 THEN r ELSE stream[j]
        BY <1>5, <3>4
      <4>2. j \in 1 .. Len(stream) /\ stream[j] = stream[i] /\ j # i
        BY <1>1, <2>1, <3>1, <3>2, <4>1
      <4> QED  BY <3>1, <4>2 DEF StreamInv
    <3> QED  BY <1>2, <3>2, <3>3, <3>4 DEF TypeOK
  <2> QED  BY <2>3, <2>4
<1>7. ASSUME NEW x \in trimmed
      PROVE  /\ client'[x] = "accepted" /\ x \notin pel /\ Uncounted(x)
             /\ ~ Contains(stream', x)
  <2>1. client[x] = "accepted" /\ x \notin pel /\ Uncounted(x) /\ ~ Contains(stream, x)
    BY <1>7 DEF TrimmedInv
  <2>2. x # r /\ x \in Requests
    BY <1>2, <1>7, <2>1 DEF TypeOK
  <2>3. ASSUME Contains(stream', x)
        PROVE  FALSE
    <3>1. PICK j \in k + 1 .. Len(stream) + 1 :
              x = IF j = Len(stream) + 1 THEN r ELSE stream[j]
      BY <1>5, <2>3
    <3>2. j \in 1 .. Len(stream) /\ stream[j] = x
      BY <1>1, <1>3, <2>2, <3>1
    <3> QED  BY <2>1, <3>2 DEF Contains
  <2> QED  BY <1>2, <2>1, <2>2, <2>3 DEF TypeOK
<1> QED  BY <1>2, <1>6, <1>7 DEF TrimmedInv, Uncounted

(* Nobody reads what is not in the stream, or counts what is not pending.  *)
LEMMA TrimmedStep ==
    ASSUME TypeOK, HandlingInv, TrimmedInv, NEW c \in Replicas, StepOf(c)
    PROVE  TrimmedInv'
<1>1. /\ LoopShape /\ EvidenceInv /\ HandsInv /\ Separate(c)
      /\ client' = client /\ stream' = stream /\ trimmed' = trimmed
      /\ stream \in Seq(Requests) /\ delivered \in 0 .. Len(stream)
      /\ Len(stream) \in Nat
  BY OthersUntouched, LenProperties DEF HandlingInv, HandsInv, TypeOK
<1> SUFFICES ASSUME NEW r \in trimmed
             PROVE  r \notin pel' /\ Uncounted(r)'
  BY <1>1 DEF TrimmedInv
<1>2. ~ Contains(stream, r) /\ r \notin pel /\ Uncounted(r) /\ r \in Requests
  BY DEF TrimmedInv, TypeOK
<1>3. Uncounted(r)'
  BY <1>1, <1>2, CountsStay DEF HandsInv, InHand
<1>4. r \notin ToSet(NextEntries)
  <2> DEFINE n == Len(NextEntries)
  <2>1. /\ n \in 0 .. Len(stream) - delivered
        /\ \A x : x \in ToSet(NextEntries) <=>
                     \E i \in delivered + 1 .. delivered + n : stream[i] = x
    BY <1>1, NextEntriesOldest
  <2> HIDE DEF n
  <2>2. \A i \in delivered + 1 .. delivered + n : i \in 1 .. Len(stream)
    BY <1>1, <2>1
  <2> QED  BY <1>2, <2>1, <2>2 DEF Contains
<1>5. r \notin pel'
  BY <1>1, <1>2, <1>4, AckStep DEF Deliver
<1> QED  BY <1>3, <1>5

HandoverInv == IInv /\ FormedInv /\ TrimmedInv

(* Nothing is formed or trimmed in the beginning, and every step keeps what *)
(* the contract needs.                                                     *)
LEMMA HandoverAlways == Spec => []HandoverInv
<1>1. Init => FormedInv /\ TrimmedInv
  <2>1. Len(<<>>) = 0
    OBVIOUS
  <2> QED  BY <2>1 DEF Init, FormedInv, TrimmedInv
<1>2. ASSUME IInv, FormedInv, TrimmedInv, [Next]_vars
      PROVE  FormedInv' /\ TrimmedInv'
  <2>0. /\ TypeOK /\ LoopShape /\ StreamInv /\ HandsInv /\ EvidenceInv
        /\ HandlingInv /\ trimmed \subseteq Requests
    BY <1>2 DEF IInv, HandlingInv, TypeOK
  <2>1. ASSUME NEW c \in Replicas, StepOf(c)
        PROVE  FormedInv' /\ TrimmedInv'
    BY <1>2, <2>0, <2>1, FormedStep, TrimmedStep
  <2>2. ASSUME NEW r \in Requests, Enqueue(r)
        PROVE  FormedInv' /\ TrimmedInv'
    BY <1>2, <2>0, <2>2, TrimmedEnqueue DEF Enqueue, FormedInv
  <2>3. ASSUME NEW r \in Requests, CheckDepth(r) \/ Wait(r)
        PROVE  FormedInv' /\ TrimmedInv'
    <3>1. /\ UNCHANGED <<streamVars, formed, doneVars>>
          /\ \A x \in Requests : client[x] = "accepted" => client'[x] = "accepted"
      BY <2>0, <2>3 DEF CheckDepth, Wait, TypeOK
    <3> QED  BY <1>2, <2>0, <3>1 DEF FormedInv, TrimmedInv, Uncounted
  <2>4. CASE UNCHANGED vars
    BY <1>2, <2>4 DEF vars, FormedInv, TrimmedInv, Uncounted
  <2> QED  BY <1>2, <2>1, <2>2, <2>3, <2>4 DEF Next, StepOf
<1> QED  BY <1>1, <1>2, Inductive, PTL DEF Spec, HandoverInv

Open == ToSet(Unread) \cup pel

(* What is open is unread or pending. *)
LEMMA OpenIs ==
    ASSUME stream \in Seq(Requests), delivered \in 0 .. Len(stream)
    PROVE  \A r : r \in Open <=> Contains(Unread, r) \/ r \in pel
<1>1. Unread \in Seq(Requests)
  BY UnreadEntries
<1>2. DOMAIN Unread = 1 .. Len(Unread)
  BY <1>1, LenProperties
<1> QED  BY <1>2 DEF Open, ToSet, Contains

(* An unread entry is in the stream.                                       *)
LEMMA UnreadInStream ==
    ASSUME stream \in Seq(Requests), delivered \in 0 .. Len(stream),
           NEW x, Contains(Unread, x)
    PROVE  Contains(stream, x)
<1>1. PICK i \in delivered + 1 .. Len(stream) : stream[i] = x
  BY UnreadEntries
<1> QED  BY <1>1, LenProperties DEF Contains

(* The same of the state after a step.                                     *)
LEMMA OpenAfter ==
    ASSUME stream' \in Seq(Requests), delivered' \in 0 .. Len(stream')
    PROVE  /\ \A r : r \in Open' <=> Contains(Unread', r) \/ r \in pel'
           /\ \A r : Contains(Unread', r) => Contains(stream', r)
<1>1. /\ Unread' \in Seq(Requests)
      /\ \A x : Contains(Unread', x) <=>
                   \E i \in delivered' + 1 .. Len(stream') : stream'[i] = x
  BY RestOfStream DEF Unread
<1>2. DOMAIN Unread' = 1 .. Len(Unread')
  BY <1>1, LenProperties
<1>3. \A r : Contains(Unread', r) => Contains(stream', r)
  <2>1. Len(stream') \in Nat /\ delivered' \in Nat
    BY LenProperties
  <2>2. \A d, n \in Nat : \A i \in d + 1 .. n : i \in 1 .. n
    OBVIOUS
  <2>3. \A i \in delivered' + 1 .. Len(stream') : i \in 1 .. Len(stream')
    BY <2>1, <2>2
  <2> QED  BY <1>1, <2>3 DEF Contains
<1> QED  BY <1>2, <1>3 DEF Open, ToSet, Contains

(* An entry that is open and not counted is accepted and no more than that. *)
LEMMA OpenAccepted ==
    ASSUME TypeOK, StreamInv, TrimmedInv, NEW r \in Requests, r \in Open, Uncounted(r)
    PROVE  StateOf(r) = "accepted"
<1>1. stream \in Seq(Requests) /\ delivered \in 0 .. Len(stream) /\ Len(stream) \in Nat
  BY LenProperties DEF TypeOK
<1>2. Contains(stream, r) \/ r \in pel
  <2>1. Contains(Unread, r) => \E i \in delivered + 1 .. Len(stream) : stream[i] = r
    BY <1>1, UnreadEntries
  <2>2. \A i \in delivered + 1 .. Len(stream) : i \in 1 .. Len(stream)
    BY <1>1
  <2> QED  BY <1>1, <2>1, <2>2, OpenIs DEF Contains
<1>3. client[r] = "accepted" /\ r \notin trimmed
  BY <1>2 DEF StreamInv, TrimmedInv
<1> QED  BY <1>3 DEF StateOf, Uncounted

(* A request that is counted, and was counted once, is batched or rejected. *)
LEMMA CountedIs ==
    ASSUME TypeOK, HandledOnce, StreamInv, TrimmedInv, NEW r \in Requests, Handled(r)
    PROVE  StateOf(r) \in {"batched", "rejected"}
<1>1. /\ batched[r] \in Nat /\ rejected[r] \in Nat
      /\ batched[r] + rejected[r] =< 1 /\ batched[r] + rejected[r] > 0
  BY DEF TypeOK, HandledOnce, Handled
<1>2. client[r] = "accepted" /\ r \notin trimmed
  BY <1>1 DEF StreamInv, TrimmedInv, Uncounted
<1>3. \/ batched[r] = 1 /\ rejected[r] = 0
      \/ batched[r] = 0 /\ rejected[r] = 1
  BY <1>1
<1> QED  BY <1>2, <1>3 DEF StateOf

(* The state of a request is a matter of its own variables only.           *)
LEMMA SameState ==
    ASSUME NEW r, client'[r] = client[r], r \in trimmed' <=> r \in trimmed,
           batched'[r] = batched[r], rejected'[r] = rejected[r]
    PROVE  StateOf(r)' = StateOf(r)
BY DEF StateOf, Handled

(* A step counts, or moves entries, not both.                              *)
LEMMA CountsOrMoves ==
    ASSUME NEW c \in Replicas, StepOf(c)
    PROVE  \/ UNCHANGED doneVars
           \/ CountRejection(c) /\ UNCHANGED <<stream, delivered, pel>>
           \/ CountBatch(c) /\ UNCHANGED <<stream, delivered, pel>>
BY DEF StepOf, LoopStep, LoopFault, Read, Feed, Reject, AckRejected, Flush,
       Collected, Push, AckPushed, EndTick, TickError, ReplyLost, Stop, Crash, Start

(* The contract counts as this module does.                                *)
LEMMA SameCount == \A S : Handover!Cardinality(S) = Cardinality(S)
BY DEF Handover!Cardinality, Cardinality

(* The step of a replica is a rejection, a dispatch or an acknowledgement  *)
(* as the contract has them, or none of its business.                      *)
LEMMA ReplicaContract ==
    ASSUME HandoverInv, NEW c \in Replicas, StepOf(c)
    PROVE  [Handover!Next]_(Handover!vars)
<1>0. /\ TypeOK /\ LoopShape /\ StreamInv /\ HandsInv /\ EvidenceInv /\ Separate(c)
      /\ HandledOnce /\ FormedInv /\ TrimmedInv
      /\ client' = client /\ stream' = stream /\ trimmed' = trimmed
      /\ stream \in Seq(Requests) /\ delivered \in 0 .. Len(stream)
      /\ Len(stream) \in Nat
  BY OthersUntouched, LenProperties DEF HandoverInv, IInv, HandlingInv, HandsInv, TypeOK
<1> DEFINE state == [r \in Requests |-> StateOf(r)]
<1>1. CASE UNCHANGED doneVars
  <2>1. state' = state
    BY <1>0, <1>1, SameState
  <2>2. CASE Deliver
    <3>1. /\ Len(NextEntries) \in 0 .. Len(stream) - delivered
          /\ \A x : x \in ToSet(NextEntries) <=>
                \E i \in delivered + 1 .. delivered + Len(NextEntries) : stream[i] = x
          /\ delivered' = delivered + Len(NextEntries)
          /\ pel' = pel \cup ToSet(NextEntries)
      BY <1>0, <2>2, NextEntriesOldest DEF Deliver
    <3>2. delivered' \in 0 .. Len(stream')
      BY <1>0, <3>1
    <3>3. ASSUME NEW x
          PROVE  x \in Open' <=> x \in Open
      <4>1. Contains(Unread, x) <=> \E i \in delivered + 1 .. Len(stream) : stream[i] = x
        BY <1>0, UnreadEntries
      <4>2. Contains(Unread', x) <=> \E i \in delivered' + 1 .. Len(stream) : stream[i] = x
        BY <1>0, <3>2, RestOfStream DEF Unread
      <4>3. x \in Open' <=> Contains(Unread', x) \/ x \in pel'
        <5>1. Unread' \in Seq(Requests)
          BY <1>0, <3>2, RestOfStream DEF Unread
        <5>2. DOMAIN Unread' = 1 .. Len(Unread')
          BY <5>1, LenProperties
        <5> QED  BY <5>2 DEF Open, ToSet, Contains
      <4>4. \A i \in Int : i \in delivered + 1 .. Len(stream) <=>
                \/ i \in delivered + 1 .. delivered'
                \/ i \in delivered' + 1 .. Len(stream)
        BY <1>0, <3>1
      <4> QED  BY <1>0, <3>1, <4>1, <4>2, <4>3, <4>4, OpenIs
    <3>4. Open' = Open
      BY <3>3
    <3> QED  BY <2>1, <3>4 DEF Handover!vars, Open
  <2>3. ASSUME UNCHANGED <<stream, delivered>>, pel' \subseteq pel,
               \A r \in pel \ pel' : Handled(r)
        PROVE  [Handover!Next]_(Handover!vars)
    <3> DEFINE acked == pel \ pel'
    <3>1. acked \in SUBSET Requests
      BY <1>0 DEF TypeOK
    <3>2. \A r \in acked : state[r] \in {"batched", "rejected"}
      BY <1>0, <2>3, <3>1, CountedIs
    <3>3. Open' = Open \ acked
      <4>1. Unread' = Unread
        BY <2>3 DEF Unread
      <4>2. \A r \in acked : ~ Contains(Unread, r)
        BY <1>0, UnreadEntries DEF StreamInv
      <4>3. \A r \in acked : r \notin ToSet(Unread)
        <5>1. Unread \in Seq(Requests)
          BY <1>0, UnreadEntries
        <5>2. DOMAIN Unread = 1 .. Len(Unread)
          BY <5>1, LenProperties
        <5> QED  BY <4>2, <5>2 DEF ToSet, Contains
      <4> QED  BY <2>3, <4>1, <4>3 DEF Open
    <3> HIDE DEF acked
    <3>4. Handover!Close(acked)
      BY <2>1, <3>2, <3>3 DEF Handover!Close, Open
    <3> QED  BY <3>1, <3>4 DEF Handover!Next
  <2> QED  BY <1>0, <2>2, <2>3, AckStep
<1>2. ASSUME UNCHANGED <<stream, delivered, pel>>
      PROVE  Open' = Open
  BY <1>2 DEF Open, Unread
<1>3. ASSUME NEW r \in Requests, InHand(c, r), Uncounted(r)
      PROVE  r \in Open /\ StateOf(r) = "accepted" /\ client[r] = "accepted" /\ r \notin trimmed
  <2>1. r \in pel /\ r \in Open
    BY <1>3 DEF HandsInv, Open, HandoverInv, IInv, HandlingInv
  <2>2. StateOf(r) = "accepted"
    BY <1>0, <1>3, <2>1, OpenAccepted
  <2> QED  BY <1>0, <2>1, <2>2 DEF StreamInv, TrimmedInv
<1>4. CASE CountRejection(c) /\ UNCHANGED <<stream, delivered, pel>>
  <2> PICK r : r = Head(slice[c])
    OBVIOUS
  <2>1. /\ pc[c] = "feed" /\ batched' = batched
        /\ rejected' = [rejected EXCEPT ![r] = @ + 1]
    BY <1>4 DEF CountRejection
  <2>2. r \in Requests /\ InHand(c, r) /\ Uncounted(r)
    BY <1>0, <2>1, HeadsInHand DEF EvidenceInv, Evident, InHand
  <2>3. r \in Open /\ state[r] = "accepted" /\ client[r] = "accepted" /\ r \notin trimmed
    BY <1>3, <2>2
  <2>4. \A q \in Requests : q # r => StateOf(q)' = StateOf(q)
    BY <1>0, <2>1, SameState DEF TypeOK
  <2>5. StateOf(r)' = "rejected"
    <3>1. batched'[r] = 0 /\ rejected'[r] = 1
      BY <1>0, <2>1, <2>2 DEF TypeOK, Uncounted
    <3>2. client'[r] = "accepted" /\ r \notin trimmed'
      BY <1>0, <2>3
    <3> QED  BY <3>1, <3>2 DEF StateOf
  <2>6. state' = [state EXCEPT ![r] = "rejected"]
    <3>1. \A q \in Requests : StateOf(q)' = IF q = r THEN "rejected" ELSE StateOf(q)
      BY <2>4, <2>5
    <3>2. state' = [q \in Requests |-> IF q = r THEN "rejected" ELSE StateOf(q)]
      BY <3>1
    <3> QED  BY <2>2, <3>2
  <2>7. Handover!Reject(r)
    BY <1>2, <1>4, <2>2, <2>3, <2>6 DEF Handover!Reject, Open
  <2> QED  BY <2>2, <2>7 DEF Handover!Next
<1>5. CASE CountBatch(c) /\ UNCHANGED <<stream, delivered, pel>>
  <2> DEFINE rs == Head(formed[c])
  <2>1. /\ pc[c] = "push" /\ formed[c] # <<>> /\ rejected' = rejected
        /\ batched' = [r \in Requests |-> IF r \in rs THEN batched[r] + 1 ELSE batched[r]]
    BY <1>5 DEF CountBatch
  <2>2. /\ rs \in SUBSET Requests
        /\ \A r \in rs : InHand(c, r) /\ Uncounted(r)
    BY <1>0, <2>1, HeadsInHand DEF EvidenceInv, Evident, InHand
  <2>3. Batchable(rs)
    BY <1>0, <2>1, HeadsInHand DEF FormedInv
  <2> HIDE DEF rs
  <2>4. \A r \in rs : r \in Open /\ state[r] = "accepted"
    BY <1>3, <2>2
  <2>5. \A r \in Requests \ rs : StateOf(r)' = StateOf(r)
    BY <1>0, <2>1, SameState
  <2>6. ASSUME NEW r \in rs
        PROVE  StateOf(r)' = "batched"
    <3>1. batched'[r] = 1 /\ rejected'[r] = 0
      BY <2>1, <2>2 DEF Uncounted
    <3>2. client'[r] = "accepted" /\ r \notin trimmed'
      BY <1>0, <1>3, <2>2
    <3> QED  BY <3>1, <3>2 DEF StateOf
  <2>7. state' = [r \in Requests |-> IF r \in rs THEN "batched" ELSE state[r]]
    BY <2>2, <2>5, <2>6
  <2>8. Open' = Open
    BY <1>2, <1>5
  <2>9. rs # {} /\ Cardinality(rs) =< MaxBatch /\ \A r, q \in rs : ModelOf[r] = ModelOf[q]
    BY <2>3 DEF Batchable
  <2> HIDE DEF state
  <2>10. Handover!Batch(rs)
    BY <2>4, <2>7, <2>8, <2>9, SameCount DEF Handover!Batch, Open, state
  <2> QED  BY <2>2, <2>10 DEF Handover!Next
<1> QED  BY <1>1, <1>4, <1>5, CountsOrMoves

(* What is trimmed and was not handled, and what was accepted and not      *)
(* handled, is just that.                                                  *)
LEMMA TrimmedIs ==
    ASSUME NEW r, client'[r] = "accepted", r \in trimmed', Uncounted(r)'
    PROVE  StateOf(r)' = "trimmed"
BY DEF StateOf, Uncounted, Handled

LEMMA AcceptedIs ==
    ASSUME NEW r, client'[r] = "accepted", r \notin trimmed', Uncounted(r)'
    PROVE  StateOf(r)' = "accepted"
BY DEF StateOf, Uncounted

(* Appending to the stream makes no other entry unread.                    *)
LEMMA EnqueueAdds ==
    ASSUME stream \in Seq(Requests), delivered \in 0 .. Len(stream),
           NEW r \in Requests, Enqueue(r), NEW x, Contains(Unread', x)
    PROVE  x = r \/ Contains(Unread, x)
<1>1. Len(stream) \in Nat /\ delivered \in Nat
  BY LenProperties
<1>2. stream' \in Seq(Requests) /\ delivered' \in 0 .. Len(stream')
  BY EnqueueShifts
<1>3. PICK k \in 0 .. Len(stream) + 1 :
        /\ Len(stream') = Len(stream) + 1 - k
        /\ \A i \in 1 .. Len(stream') :
              stream'[i] = IF i + k = Len(stream) + 1 THEN r ELSE stream[i + k]
        /\ delivered' = IF k < delivered THEN delivered - k ELSE 0
  BY EnqueueShifts
<1>4. PICK i \in delivered' + 1 .. Len(stream') : stream'[i] = x
  BY <1>2, RestOfStream DEF Unread
<1>5. /\ i \in 1 .. Len(stream')
      /\ i + k = Len(stream) + 1 \/ i + k \in delivered + 1 .. Len(stream)
  <2>1. \A n, m, d, e, j \in Nat :
            /\ m = n + 1 - k /\ e = (IF k < d THEN d - k ELSE 0) /\ j \in e + 1 .. m
            => j \in 1 .. m /\ (j + k = n + 1 \/ j + k \in d + 1 .. n)
    OBVIOUS
  <2>2. Len(stream') \in Nat /\ delivered' \in Nat
    BY <1>2, LenProperties
  <2>3. i \in Nat
    <3>1. \A d, n \in Nat : \A j \in d + 1 .. n : j \in Nat
      OBVIOUS
    <3> QED  BY <2>2, <3>1
  <2> QED  BY <1>1, <1>3, <1>4, <2>1, <2>2, <2>3
<1>6. x = IF i + k = Len(stream) + 1 THEN r ELSE stream[i + k]
  BY <1>3, <1>4, <1>5
<1>7. CASE i + k \in delivered + 1 .. Len(stream) /\ i + k # Len(stream) + 1
  BY <1>6, <1>7, UnreadEntries
<1> QED  BY <1>1, <1>5, <1>6, <1>7

(* Appending to the stream accepts a request, and drops unread ones.       *)
LEMMA EnqueueContract ==
    ASSUME HandoverInv, TrimmedInv', NEW r \in Requests, Enqueue(r)
    PROVE  \E dropped \in SUBSET Requests : Handover!Accept(r, dropped)
<1>0. /\ TypeOK /\ StreamInv /\ TrimmedInv
      /\ stream \in Seq(Requests) /\ delivered \in 0 .. Len(stream)
      /\ client[r] = "checked" /\ client' = [client EXCEPT ![r] = "accepted"]
      /\ client \in [Requests -> {"new", "checked", "accepted", "refused"}]
      /\ pel' = pel /\ batched' = batched /\ rejected' = rejected
      /\ trimmed \subseteq Requests
  BY DEF HandoverInv, IInv, HandlingInv, TypeOK, Enqueue
<1> DEFINE state == [q \in Requests |-> StateOf(q)]
<1> PICK dropped : dropped = trimmed' \ trimmed
  OBVIOUS
<1>1. \A x : Contains(Unread, x) => x \in Requests
  BY <1>0, UnreadEntries, ElementOfSeq DEF Contains
<1>2. \A x \in dropped : x = r \/ Contains(Unread, x)
  BY <1>0, TrimmedEnqueue
<1>3. dropped \in SUBSET Requests /\ trimmed' \subseteq Requests
  BY <1>0, <1>1, <1>2
<1>4. trimmed \subseteq trimmed'
  BY <1>0, EnqueueShifts
<1>5. ~ Contains(Unread, r) /\ r \notin pel /\ Uncounted(r) /\ r \notin trimmed
  BY <1>0, UnreadInStream DEF StreamInv, TrimmedInv
<1>6. ASSUME NEW d \in dropped \ {r}
      PROVE  /\ d \in Open /\ StateOf(d) = "accepted"
             /\ client[d] = "accepted" /\ Uncounted(d)
  <2>1. d \in Requests /\ Contains(Unread, d)
    BY <1>2, <1>3, <1>6
  <2>2. PICK i \in delivered + 1 .. Len(stream) : stream[i] = d
    BY <1>0, <2>1, UnreadEntries
  <2>3. i \in 1 .. Len(stream)
    BY <1>0, LenProperties
  <2>4. Contains(stream, d) /\ Uncounted(d)
    BY <1>0, <2>2, <2>3 DEF StreamInv, Contains
  <2>5. d \in Open /\ client[d] = "accepted"
    BY <1>0, <2>1, <2>4, OpenIs DEF StreamInv
  <2> QED  BY <1>0, <2>1, <2>4, <2>5, OpenAccepted
<1>7. \A q \in dropped : q \in Requests /\ Uncounted(q) /\ client'[q] = "accepted"
  BY <1>0, <1>3, <1>5, <1>6
<1>8. \A q \in dropped : StateOf(q)' = "trimmed"
  BY <1>0, <1>7, TrimmedIs DEF Uncounted
<1>9. r \notin dropped => StateOf(r)' = "accepted"
  BY <1>0, <1>5, AcceptedIs DEF Uncounted
<1>10. \A q \in Requests : q # r /\ q \notin dropped => StateOf(q)' = StateOf(q)
  BY <1>0, <1>4, SameState
<1>11. state' = [q \in Requests |-> IF q \in dropped THEN "trimmed"
                                    ELSE IF q = r THEN "accepted" ELSE state[q]]
  BY <1>8, <1>9, <1>10
<1>12. StateOf(r) = "new"
  BY <1>0 DEF StateOf
<1>13. \A x : x \in Open' <=> Contains(Unread', x) \/ x \in pel
  BY <1>0, OpenAfter, EnqueueShifts
<1>14. ASSUME NEW x
       PROVE  x \in Open' <=> (x \in Open \/ x = r) /\ x \notin dropped
  <2>1. Contains(Unread', x) => x = r \/ Contains(Unread, x)
    BY <1>0, EnqueueAdds
  <2>2. x = r \/ Contains(Unread, x) => Contains(Unread', x) \/ x \in trimmed'
    BY <1>0, EnqueueKeeps
  <2>3. Contains(Unread, x) => x \notin trimmed
    BY <1>0, UnreadInStream DEF TrimmedInv
  <2>4. x \in dropped => ~ Contains(Unread', x) /\ x \notin pel
    BY <1>0, <1>3, EnqueueShifts, OpenAfter DEF TrimmedInv
  <2>5. x \in pel => x \notin dropped
    BY <2>4
  <2> QED  BY <1>0, <1>5, <1>13, <2>1, <2>2, <2>3, <2>4, OpenIs
<1>15. Open' = (Open \cup {r}) \ dropped
  BY <1>14
<1>16. state[r] = "new" /\ \A d \in dropped \ {r} : d \in Open /\ state[d] = "accepted"
  BY <1>3, <1>6, <1>12
<1> HIDE DEF state
<1>17. Handover!Accept(r, dropped)
  BY <1>11, <1>15, <1>16 DEF Handover!Accept, Open, state
<1> QED  BY <1>3, <1>17

(* The loops and the gateways keep the contract of RequestHandover: with   *)
(* several replicas and any faults every request leaves the stream at most *)
(* once, in one batch that may be dispatched or rejected, and its entry is *)
(* acknowledged after that (SchedulerLoop._dispatch, _reject).             *)
THEOREM ImplementsHandover == Spec => HandoverContract
<1>1. Init => Handover!Init
  <2> SUFFICES ASSUME Init  PROVE Handover!Init
    OBVIOUS
  <2>1. stream = <<>> /\ delivered = 0 /\ pel = {} /\ trimmed = {}
        /\ client = [r \in Requests |-> "new"]
    BY DEF Init
  <2>2. Open = {}
    <3>1. stream \in Seq(Requests) /\ Len(stream) = 0
      BY <2>1
    <3>2. \A x : ~ Contains(Unread, x)
      <4>1. delivered \in 0 .. Len(stream) /\ \A x : ~ Contains(stream, x)
        BY <2>1, <3>1 DEF Contains
      <4> QED  BY <3>1, <4>1, UnreadInStream
    <3> QED  BY <2>1, <3>1, <3>2, OpenIs
  <2>3. \A r \in Requests : StateOf(r) = "new"
    BY <2>1 DEF StateOf
  <2> QED  BY <2>2, <2>3 DEF Handover!Init, Open
<1>2. ASSUME HandoverInv, HandoverInv', [Next]_vars
      PROVE  [Handover!Next]_(Handover!vars)
  <2>1. ASSUME NEW c \in Replicas, StepOf(c)
        PROVE  [Handover!Next]_(Handover!vars)
    BY <1>2, <2>1, ReplicaContract
  <2>2. ASSUME NEW r \in Requests, Enqueue(r)
        PROVE  [Handover!Next]_(Handover!vars)
    BY <1>2, <2>2, EnqueueContract DEF HandoverInv, Handover!Next
  <2>3. ASSUME NEW r \in Requests, CheckDepth(r)
        PROVE  [Handover!Next]_(Handover!vars)
    <3> DEFINE state == [q \in Requests |-> StateOf(q)]
    <3>1. /\ client[r] = "new" /\ client'[r] \in {"refused", "checked"}
          /\ \A q \in Requests : q # r => client'[q] = client[q]
          /\ UNCHANGED <<streamVars, doneVars>>
      BY <1>2, <2>3 DEF CheckDepth, HandoverInv, IInv, HandlingInv, TypeOK
    <3>2. Open' = Open
      BY <3>1 DEF Open, Unread, streamVars
    <3>3. \A q \in Requests : q # r => StateOf(q)' = StateOf(q)
      BY <3>1, SameState DEF streamVars, doneVars
    <3>4. StateOf(r) = "new" /\ StateOf(r)' \in {"new", "refused"}
      BY <3>1 DEF StateOf
    <3>5. CASE StateOf(r)' = "new"
      <4>1. state' = state
        BY <3>3, <3>4, <3>5
      <4> QED  BY <3>2, <4>1 DEF Handover!vars, Open
    <3>6. CASE StateOf(r)' = "refused"
      <4>1. state' = [state EXCEPT ![r] = "refused"]
        BY <3>3, <3>6
      <4>2. Handover!Refuse(r)
        BY <3>2, <3>4, <4>1 DEF Handover!Refuse, Open
      <4> QED  BY <4>2 DEF Handover!Next
    <3> QED  BY <3>4, <3>5, <3>6
  <2>4. ASSUME UNCHANGED <<client, streamVars, doneVars>>
        PROVE  [Handover!Next]_(Handover!vars)
    <3>1. Open' = Open
      BY <2>4 DEF Open, Unread, streamVars
    <3>2. \A q \in Requests : StateOf(q)' = StateOf(q)
      BY <2>4, SameState DEF streamVars, doneVars
    <3>3. [q \in Requests |-> StateOf(q)]' = [q \in Requests |-> StateOf(q)]
      BY <3>2
    <3> QED  BY <3>1, <3>3 DEF Handover!vars, Open
  <2>5. ASSUME NEW r \in Requests, Wait(r)
        PROVE  [Handover!Next]_(Handover!vars)
    BY <2>4, <2>5 DEF Wait
  <2>6. CASE UNCHANGED vars
    BY <2>4, <2>6 DEF vars
  <2> QED  BY <1>2, <2>1, <2>2, <2>3, <2>5, <2>6 DEF Next, StepOf
<1> QED  BY <1>1, <1>2, HandoverAlways, PTL DEF Spec, HandoverContract, Handover!Spec
=============================================================================
