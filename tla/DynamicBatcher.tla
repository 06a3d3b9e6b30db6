--------------------------- MODULE DynamicBatcher ---------------------------
(***************************************************************************)
(* The DynamicBatcher of the scheduler with its three strategies, on a     *)
(* clock of integer milliseconds.                                          *)
(*                                                                         *)
(* The class is synchronous: nothing is added and no time passes inside    *)
(* collect_ready or flush_all.  Such a call is taken apart into its rounds *)
(* here, one formed batch per step, and "call" says that it is running.    *)
(***************************************************************************)
EXTENDS Integers, FiniteSets, SequencesExt

CONSTANTS
    Requests, Models,
    ModelOf,     \* the model a request asks for
    Priority,    \* the priority of a request: 0 LOW, 1 NORMAL, 2 HIGH
    Weight,      \* class weight of a priority
    MaxBatch,    \* max_batch_size
    MaxWait,     \* max_wait_ms
    MaxGap,      \* bound on the time between two calls of collect_ready
    NoModel

ASSUME RequestsAssumption ==
    /\ IsFiniteSet(Requests)
    /\ ModelOf \in [Requests -> Models]
    /\ Priority \in [Requests -> 0 .. 2]
    /\ Weight \in [0 .. 2 -> Nat]
    /\ NoModel \notin Models
ASSUME LimitsAssumption ==
    /\ MaxBatch \in Nat \ {0}
    /\ MaxWait \in Nat \ {0}
    /\ MaxGap \in Nat

VARIABLES
    strategy,  \* SCHEDULER_STRATEGY, fixed at start
    bucket,    \* waiting requests by model
    size,      \* the counter behind the property "pending"
    entered,   \* the requests in the order in which they were added
    age,       \* milliseconds since arrived_ms
    since,     \* milliseconds since the last call
    call,      \* the running call, "over" once flush_all has returned
    visit,     \* buckets the running call has still to look at
    current,   \* the bucket it is draining
    formed     \* the batches the last call has formed, in order

clockVars == <<age, since>>
callVars  == <<call, visit, current, formed>>
vars == <<strategy, bucket, size, entered, clockVars, callVars>>

Strategies == {"fifo", "priority", "weighted"}

Waiting == UNION {bucket[m] : m \in Models}

TypeOK ==
    /\ strategy \in Strategies
    /\ bucket \in [Models -> SUBSET Requests]
    /\ size \in 0 .. Cardinality(Requests)
    /\ entered \in Seq(Requests)
    /\ age \in [Requests -> Nat]
    /\ since \in 0 .. MaxGap
    /\ call \in {"none", "collect", "flush", "over"}
    /\ visit \subseteq Models
    /\ current \in Models \cup {NoModel}
    /\ formed \in Seq(SUBSET Requests)

Init ==
    /\ strategy \in Strategies
    /\ bucket = [m \in Models |-> {}]
    /\ size = 0
    /\ entered = <<>>
    /\ age = [r \in Requests |-> 0]
    /\ since = 0
    /\ call = "none"
    /\ visit = {}
    /\ current = NoModel
    /\ formed = <<>>

-----------------------------------------------------------------------------
(* strategies.py *)

(* a was added before b. *)
Earlier(a, b) ==
    \E i, j \in DOMAIN entered : i < j /\ entered[i] = a /\ entered[j] = b

Urgency(r) == Weight[Priority[r]] * (1 + age[r])

(* A slip: reverse = TRUE on the whole key, youngest first in a class. *)
BeforeReversed(a, b) ==
    CASE strategy = "fifo" -> Earlier(b, a)
      [] strategy = "priority" ->
            \/ Priority[a] > Priority[b]
            \/ Priority[a] = Priority[b] /\ Earlier(b, a)
      [] strategy = "weighted" -> Urgency(a) > Urgency(b)

(* order_items puts a before b.  The weighted key reads the clock once per *)
(* item, so items of equal urgency come in either order.                   *)
Before(a, b) ==
    CASE strategy = "fifo" -> Earlier(a, b)
      [] strategy = "priority" ->
            \/ Priority[a] > Priority[b]
            \/ Priority[a] = Priority[b] /\ Earlier(a, b)
      [] strategy = "weighted" -> Urgency(a) > Urgency(b)

TopPriority(m) ==
    CHOOSE p \in 0 .. 2 : /\ \E r \in bucket[m] : Priority[r] = p
                          /\ \A r \in bucket[m] : Priority[r] =< p
Oldest(m) ==
    CHOOSE r \in bucket[m] : \A o \in bucket[m] \ {r} : Earlier(r, o)

(* A slip: the buckets are sorted by their age, youngest first. *)
RanksYoungest(m, n) == Earlier(Oldest(n), Oldest(m))

(* rank_buckets puts m before n. *)
Ranks(m, n) ==
    CASE strategy = "fifo" -> Earlier(Oldest(m), Oldest(n))
      [] strategy = "priority" ->
            \/ TopPriority(m) > TopPriority(n)
            \/ TopPriority(m) = TopPriority(n) /\ Earlier(Oldest(m), Oldest(n))
      [] strategy = "weighted" ->
            Weight[TopPriority(m)] * (1 + age[Oldest(m)])
                > Weight[TopPriority(n)] * (1 + age[Oldest(n)])

-----------------------------------------------------------------------------
(* batcher.py *)

Add(r) ==
    /\ call = "none"
    /\ ~ Contains(entered, r)
    /\ bucket' = [bucket EXCEPT ![ModelOf[r]] = @ \cup {r}]
    /\ size' = size + 1
    /\ entered' = Append(entered, r)
    /\ UNCHANGED <<strategy, clockVars, callVars>>

(* One millisecond; the scheduler loop calls again within MaxGap of them. *)
Tick ==
    /\ call = "none"
    /\ since < MaxGap
    /\ since' = since + 1
    /\ age' = [r \in Requests |-> IF r \in Waiting THEN age[r] + 1 ELSE 0]
    /\ UNCHANGED <<strategy, bucket, size, entered, callVars>>

Begin(kind) ==
    /\ call = "none"
    /\ call' = kind
    /\ visit' = {m \in Models : bucket[m] # {}}
    /\ current' = NoModel
    /\ formed' = <<>>
    /\ since' = 0
    /\ UNCHANGED <<strategy, bucket, size, entered, age>>

CollectReady == Begin("collect")

FlushAll == Begin("flush")

(* A slip: the age of a bucket is that of its newest item. *)
NewestDue(m) ==
    /\ bucket[m] # {}
    /\ \A r \in bucket[m] : age[r] >= MaxWait

(* _bucket_age_ms against max_wait_ms. *)
Due(m) == \E r \in bucket[m] : age[r] >= MaxWait

(* A slip: the time trigger is read once, before the loop over the bucket. *)
TriggeredOnce(m) ==
    /\ bucket[m] # {}
    /\ \/ call = "flush"
       \/ Cardinality(bucket[m]) >= MaxBatch
       \/ Due(m)
       \/ formed # <<>> /\ \E r \in Last(formed) : ModelOf[r] = m

Triggered(m) ==
    /\ bucket[m] # {}
    /\ \/ call = "flush"
       \/ Cardinality(bucket[m]) >= MaxBatch
       \/ Due(m)

Draining == current # NoModel /\ Triggered(current)

(* On to the next bucket: collect_ready goes by rank, flush_all does not. *)
NextBucket ==
    /\ ~ Draining
    /\ \E m \in visit :
        /\ call = "collect" => \A n \in visit \ {m} : ~ Ranks(n, m)
        /\ current' = m
        /\ visit' = visit \ {m}
    /\ UNCHANGED <<strategy, bucket, size, entered, clockVars, call, formed>>

(* ordered[: max_batch]: as many as fit, and none that an item left behind *)
(* comes before.                                                           *)
Chosen(items) ==
    {c \in SUBSET items :
        /\ Cardinality(c) = IF Cardinality(items) < MaxBatch
                            THEN Cardinality(items) ELSE MaxBatch
        /\ \A a \in c, b \in items \ c : ~ Before(b, a)}

(* A slip: the chosen items are cut off the bucket by position. *)
FlushOneBySlice ==
    /\ Draining
    /\ \E c \in Chosen(bucket[current]), cut \in SUBSET bucket[current] :
        /\ Cardinality(cut) = Cardinality(c)
        /\ \A a \in cut, b \in bucket[current] \ cut : Earlier(a, b)
        /\ bucket' = [bucket EXCEPT ![current] = @ \ cut]
        /\ size' = size - Cardinality(c)
        /\ formed' = Append(formed, c)
    /\ UNCHANGED <<strategy, entered, clockVars, call, visit, current>>

(* A slip: the counter goes down by max_batch_size. *)
FlushOneMiscounted ==
    /\ Draining
    /\ \E c \in Chosen(bucket[current]) :
        /\ bucket' = [bucket EXCEPT ![current] = @ \ c]
        /\ size' = size - MaxBatch
        /\ formed' = Append(formed, c)
    /\ UNCHANGED <<strategy, entered, clockVars, call, visit, current>>

(* _flush_one *)
FlushOne ==
    /\ Draining
    /\ \E c \in Chosen(bucket[current]) :
        /\ bucket' = [bucket EXCEPT ![current] = @ \ c]
        /\ size' = size - Cardinality(c)
        /\ formed' = Append(formed, c)
    /\ UNCHANGED <<strategy, entered, clockVars, call, visit, current>>

Running == call \in {"collect", "flush"}

(* flush_all is called last, when the scheduler loop has ended. *)
Return ==
    /\ Running
    /\ ~ Draining
    /\ visit = {}
    /\ call' = IF call = "collect" THEN "none" ELSE "over"
    /\ current' = NoModel
    /\ UNCHANGED <<strategy, bucket, size, entered, clockVars, visit, formed>>

Next ==
    \/ \E r \in Requests : Add(r)
    \/ Tick \/ CollectReady \/ FlushAll
    \/ NextBucket \/ FlushOne \/ Return

Spec == Init /\ [][Next]_vars

-----------------------------------------------------------------------------

Added == ToSet(entered)

(* Whatever the strategy, no request waits longer than max_wait_ms plus    *)
(* the time to the next call: when a call returns, nothing due is left.    *)
(* strategies.py warns of the contrary for strict priority ("low-priority  *)
(* starvation under sustained high-priority load", lines 9 and 87), but a  *)
(* strategy only orders what one call flushes: collect_ready goes through  *)
(* every bucket that is due, until nothing in it is.                       *)
WaitBound ==
    ~ Running => \A r \in Waiting : age[r] < MaxWait + since

(* Within a model, a request never leaves before one that was added        *)
(* earlier (fifo), or earlier in the same priority class (priority), even  *)
(* across the batches of one call and across calls.                        *)
NoOvertaking ==
    \A a \in Waiting, b \in Added \ Waiting :
        /\ ModelOf[a] = ModelOf[b]
        /\ \/ strategy = "fifo"
           \/ strategy = "priority" /\ Priority[a] = Priority[b]
        => Earlier(b, a)

(* The identity-based removal of _flush_one loses and repeats nothing: the *)
(* batches of a call are disjoint, hold nothing that still waits, and the  *)
(* pending counter is the number of waiting requests.                      *)
Conserved ==
    /\ size = Cardinality(Waiting)
    /\ \A i, j \in DOMAIN formed : i # j => formed[i] \cap formed[j] = {}
    /\ \A i \in DOMAIN formed : formed[i] \cap Waiting = {}
    /\ \A m \in Models : \A r \in bucket[m] : ModelOf[r] = m /\ r \in Added

(* No batch leaves early: collect_ready forms a batch that is full or      *)
(* holds a request that has waited max_wait_ms, for one model.             *)
FullOrDue ==
    call = "collect" =>
        \A i \in DOMAIN formed :
            /\ \A a, b \in formed[i] : ModelOf[a] = ModelOf[b]
            /\ Cardinality(formed[i]) =< MaxBatch
            /\ \/ Cardinality(formed[i]) = MaxBatch
               \/ \E r \in formed[i] : age[r] >= MaxWait

(* Under fifo, when the timer has fired for a request, the first batch of  *)
(* the call holds the request that has waited longest over all models.     *)
OldestLeads ==
    (call = "collect" /\ strategy = "fifo" /\ formed # <<>>) =>
        \A i \in DOMAIN formed :
            (\E r \in formed[i] : age[r] >= MaxWait) =>
                \E o \in formed[1] :
                    \A r \in Waiting \cup UNION ToSet(formed) :
                        r = o \/ Earlier(o, r)

PlaceOf(r) ==
    IF r \in Waiting THEN IF age[r] >= MaxWait THEN "due" ELSE "waiting"
    ELSE IF r \in Added THEN "gone" ELSE "outside"

Buffer == INSTANCE BatchBuffer
          WITH place <- [r \in Requests |-> PlaceOf(r)], batches <- formed

(* Whatever the strategy and its weights, the batcher is the buffer the    *)
(* scheduler loop expects: every batch is of one model, and full unless    *)
(* its whole bucket is closed by a timer or a flush; a request leaves in   *)
(* one batch, and a call returns when nothing is full or due any more,     *)
(* in whichever order it went through the buckets.                         *)
BufferContract == Buffer!Spec
=============================================================================
