---------------------------- MODULE SchedulerLoop ---------------------------
(***************************************************************************)
(* The ingest side of the platform: gateways publish into the request      *)
(* stream (RequestStream), scheduler replicas read it through one consumer *)
(* group, batch, dispatch and acknowledge (SchedulerLoop).                 *)
(*                                                                         *)
(* Every await of _tick, _dispatch, _reject and publish ends a step.  Of   *)
(* the batcher this module keeps which requests wait in it and when a      *)
(* bucket is flushed; DynamicBatcher has its clock and its order.          *)
(***************************************************************************)
EXTENDS Integers, FiniteSets, SequencesExt

CONSTANTS
    Requests, Models, ModelOf,
    Replicas,    \* scheduler processes
    MaxBatch,    \* max_batch_size, also the count of a read
    MaxLen,      \* queue_maxlen
    Faults,      \* the kinds of fault this instance exercises
    MaxFaults    \* bound on the number of faults in a behaviour

FaultKinds == {"crash", "stop", "error", "lost_reply"}

ASSUME RequestsAssumption ==
    IsFiniteSet(Requests) /\ ModelOf \in [Requests -> Models]
ASSUME LimitsAssumption ==
    /\ MaxBatch \in Nat \ {0} /\ MaxLen \in Nat
    /\ Faults \subseteq FaultKinds /\ MaxFaults \in Nat

VARIABLES
    client,     \* progress of the publish call of a request
    stream,     \* the entries of pip:requests, oldest first
    delivered,  \* how many of them the group has delivered
    pel,        \* delivered and not acknowledged
    trimmed,    \* entries that left the stream before they were delivered
    replica,    \* life cycle of a scheduler process
    pc,         \* where its loop is
    slice,      \* entries read and not yet handed to the batcher
    bucket,     \* requests waiting in its batcher
    formed,     \* batches formed and not yet dispatched and acknowledged
    due,        \* requests that have waited max_wait_ms
    batched,    \* how often a request was pushed to pip:batches
    rejected,   \* how often it was answered REJECTED
    faults      \* how many stops and how many failures so far

streamVars == <<stream, delivered, pel, trimmed>>
loopVars   == <<replica, pc, slice, bucket, formed>>
doneVars   == <<batched, rejected>>
vars == <<client, streamVars, loopVars, due, doneVars, faults>>

TypeOK ==
    /\ client \in [Requests -> {"new", "checked", "accepted", "refused"}]
    /\ stream \in Seq(Requests)
    /\ delivered \in 0 .. Len(stream)
    /\ pel \subseteq Requests
    /\ trimmed \subseteq Requests
    /\ replica \in [Replicas -> {"running", "stopping", "draining", "stopped",
                             "down"}]
    /\ pc \in [Replicas -> {"read", "feed", "reject", "collect", "push", "ack"}]
    /\ slice \in [Replicas -> Seq(Requests)]
    /\ bucket \in [Replicas -> SUBSET Requests]
    /\ formed \in [Replicas -> Seq(SUBSET Requests)]
    /\ due \subseteq Requests
    /\ batched \in [Requests -> Nat]
    /\ rejected \in [Requests -> Nat]
    /\ faults \in [stops : Nat, failures : Nat]

Init ==
    /\ client = [r \in Requests |-> "new"]
    /\ stream = <<>> /\ delivered = 0 /\ pel = {} /\ trimmed = {}
    /\ replica = [c \in Replicas |-> "running"]
    /\ pc = [c \in Replicas |-> "read"]
    /\ slice = [c \in Replicas |-> <<>>]
    /\ bucket = [c \in Replicas |-> {}]
    /\ formed = [c \in Replicas |-> <<>>]
    /\ due = {}
    /\ batched = [r \in Requests |-> 0]
    /\ rejected = [r \in Requests |-> 0]
    /\ faults = [stops |-> 0, failures |-> 0]

Fault(kind) ==
    /\ kind \in Faults
    /\ faults.stops + faults.failures < MaxFaults
    /\ faults' = IF kind = "stop" THEN [faults EXCEPT !.stops = @ + 1]
                                  ELSE [faults EXCEPT !.failures = @ + 1]

-----------------------------------------------------------------------------
(* RequestStream *)

(* publish, first half: XLEN, which counts what was served long ago too.   *)
CheckDepth(r) ==
    /\ client[r] = "new"
    /\ client' = [client EXCEPT ![r] = IF Len(stream) >= MaxLen THEN "refused"
                                       ELSE "checked"]
    /\ UNCHANGED <<streamVars, loopVars, due, doneVars, faults>>

(* XADD MAXLEN ~: beyond the limit the server may drop entries at the old  *)
(* end, down to the limit, whether they were delivered or not.             *)
Enqueue(r) ==
    /\ client[r] = "checked"
    /\ client' = [client EXCEPT ![r] = "accepted"]
    /\ LET longer == Append(stream, r)
           excess == IF Len(longer) > MaxLen THEN Len(longer) - MaxLen ELSE 0
       IN \E k \in 0 .. excess :
            /\ stream' = SubSeq(longer, k + 1, Len(longer))
            /\ delivered' = IF k < delivered THEN delivered - k ELSE 0
            /\ trimmed' = trimmed \cup {longer[i] : i \in delivered + 1 .. k}
    /\ UNCHANGED <<pel, loopVars, due, doneVars, faults>>

(* XREADGROUP ">": the next entries that nobody was given.  They are on the *)
(* pending list from now on, and only XACK takes them off.                 *)
Unread == SubSeq(stream, delivered + 1, Len(stream))

NextEntries == SubSeq(Unread, 1, IF Len(Unread) < MaxBatch THEN Len(Unread)
                                                           ELSE MaxBatch)

(* A slip: the group's position moves on by count, however few were there. *)
DeliverFullCount ==
    /\ delivered' = delivered + MaxBatch
    /\ pel' = pel \cup ToSet(NextEntries)
    /\ UNCHANGED <<stream, trimmed>>

(* A slip: XREAD in place of XREADGROUP, every reader sees every entry. *)
DeliverToAll ==
    /\ pel' = pel \cup ToSet(NextEntries)
    /\ UNCHANGED <<stream, delivered, trimmed>>

Deliver ==
    /\ delivered' = delivered + Len(NextEntries)
    /\ pel' = pel \cup ToSet(NextEntries)
    /\ UNCHANGED <<stream, trimmed>>

Ack(entries) ==
    /\ pel' = pel \ entries
    /\ UNCHANGED <<stream, delivered, trimmed>>

-----------------------------------------------------------------------------
(* SchedulerLoop: _tick *)

Working(c) == replica[c] \in {"running", "stopping", "draining"}

(* Goes on at "collect" when nothing was read.  A stopping replica is here *)
(* only for the read it was waiting in when stop was called.               *)
Read(c) ==
    /\ replica[c] \in {"running", "stopping"}
    /\ pc[c] = "read"
    /\ Deliver
    /\ slice' = [slice EXCEPT ![c] = NextEntries]
    /\ pc' = [pc EXCEPT ![c] = IF NextEntries = <<>> THEN "collect" ELSE "feed"]
    /\ UNCHANGED <<client, replica, bucket, formed, due, doneVars, faults>>

(* The rest of the slice after its head has been dealt with. *)
NextEntry(c) ==
    /\ slice' = [slice EXCEPT ![c] = Tail(@)]
    /\ pc' = [pc EXCEPT ![c] = IF Len(slice[c]) = 1 THEN "collect" ELSE "feed"]

(* The deadline has not passed: add to the batcher. *)
Feed(c) ==
    /\ pc[c] = "feed"
    /\ bucket' = [bucket EXCEPT ![c] = @ \cup {Head(slice[c])}]
    /\ NextEntry(c)
    /\ UNCHANGED <<client, streamVars, replica, formed, due, doneVars, faults>>

CountRejection(c) ==
    /\ pc[c] = "feed"
    /\ rejected' = [rejected EXCEPT ![Head(slice[c])] = @ + 1]
    /\ UNCHANGED batched

(* _reject: the deadline has passed, a REJECTED result is published ... *)
Reject(c) ==
    /\ CountRejection(c)
    /\ pc' = [pc EXCEPT ![c] = "reject"]
    /\ UNCHANGED <<client, streamVars, replica, slice, bucket, formed, due, faults>>

(* ... and the entry acknowledged. *)
AckRejected(c) ==
    /\ pc[c] = "reject"
    /\ Ack({Head(slice[c])})
    /\ NextEntry(c)
    /\ UNCHANGED <<client, replica, bucket, formed, due, doneVars, faults>>

BucketOf(c, m) == {r \in bucket[c] : ModelOf[r] = m}

(* A slip: the timer of a bucket that never fills is forgotten. *)
TriggeredBySize(c, m) ==
    /\ BucketOf(c, m) # {}
    /\ \/ replica[c] = "draining"
       \/ Cardinality(BucketOf(c, m)) >= MaxBatch

(* The flush triggers of collect_ready; flush_all needs none. *)
Triggered(c, m) ==
    /\ BucketOf(c, m) # {}
    /\ \/ replica[c] = "draining"
       \/ Cardinality(BucketOf(c, m)) >= MaxBatch
       \/ BucketOf(c, m) \cap due # {}

(* A slip: the batch is a copy of the first items of the bucket. *)
FlushCopy(c) ==
    /\ pc[c] = "collect"
    /\ \E m \in Models : \E chosen \in SUBSET BucketOf(c, m) :
        /\ Triggered(c, m)
        /\ chosen # {} /\ Cardinality(chosen) =< MaxBatch
        /\ formed' = [formed EXCEPT ![c] = Append(@, chosen)]
        /\ bucket' = [bucket EXCEPT ![c] = IF Cardinality(chosen) > 1
                                           THEN @ \ chosen ELSE @]
    /\ pc' = [pc EXCEPT ![c] = "push"]
    /\ UNCHANGED <<client, streamVars, replica, slice, due, doneVars, faults>>

(* One round of collect_ready or flush_all: a full batch, or all there is. *)
Flush(c) ==
    /\ pc[c] = "collect"
    /\ \E m \in Models : \E chosen \in SUBSET BucketOf(c, m) :
        /\ Triggered(c, m)
        /\ \/ Cardinality(chosen) = MaxBatch
           \/ chosen = BucketOf(c, m) /\ Cardinality(chosen) < MaxBatch
        /\ formed' = [formed EXCEPT ![c] = Append(@, chosen)]
        /\ bucket' = [bucket EXCEPT ![c] = @ \ chosen]
    /\ UNCHANGED <<client, streamVars, replica, pc, slice, due, doneVars, faults>>

CollectDone(c) == pc[c] = "collect" /\ \A m \in Models : ~ Triggered(c, m)

(* A slip: the stream ids are acknowledged before the batches are pushed. *)
AckCollected(c) ==
    /\ CollectDone(c)
    /\ Ack(UNION ToSet(formed[c]))
    /\ pc' = [pc EXCEPT ![c] = "push"]
    /\ UNCHANGED <<client, replica, slice, bucket, formed, due, doneVars, faults>>

Collected(c) ==
    /\ CollectDone(c)
    /\ pc' = [pc EXCEPT ![c] = "push"]
    /\ UNCHANGED <<client, streamVars, replica, slice, bucket, formed, due, doneVars,
                   faults>>

CountBatch(c) ==
    /\ pc[c] = "push"
    /\ formed[c] # <<>>
    /\ batched' = [r \in Requests |-> IF r \in Head(formed[c]) THEN batched[r] + 1
                                      ELSE batched[r]]
    /\ UNCHANGED rejected

(* _dispatch: LPUSH ... *)
Push(c) ==
    /\ CountBatch(c)
    /\ pc' = [pc EXCEPT ![c] = "ack"]
    /\ UNCHANGED <<client, streamVars, replica, slice, bucket, formed, due, faults>>

(* ... then XACK. *)
AckPushed(c) ==
    /\ pc[c] = "ack"
    /\ Ack(Head(formed[c]))
    /\ formed' = [formed EXCEPT ![c] = Tail(@)]
    /\ pc' = [pc EXCEPT ![c] = "push"]
    /\ UNCHANGED <<client, replica, slice, bucket, due, doneVars, faults>>

(* A slip: stop() does not flush what is still buffered. *)
LeavesBuffered(c) ==
    /\ replica' = [replica EXCEPT ![c] = IF @ = "running" THEN @ ELSE "stopped"]
    /\ pc' = [pc EXCEPT ![c] = "read"]

(* The end of a tick.  A stopping loop ends here and stop() flushes what   *)
(* the batcher holds; when that is dispatched the replica has stopped.     *)
LeavesTick(c) ==
    /\ replica' = [replica EXCEPT ![c] =
            CASE @ = "running"  -> "running"
              [] @ = "stopping" -> "draining"
              [] @ = "draining" -> "stopped"]
    /\ pc' = [pc EXCEPT ![c] = IF replica[c] = "stopping" THEN "collect"
                                                          ELSE "read"]

EndTick(c) ==
    /\ Working(c)
    /\ pc[c] = "push" /\ formed[c] = <<>>
    /\ LeavesTick(c)
    /\ UNCHANGED <<client, streamVars, slice, bucket, formed, due, doneVars, faults>>

(* max_wait_ms have passed for a request in a batcher.  collect_ready      *)
(* reads the clock once.                                                   *)
Wait(r) ==
    /\ r \notin due
    /\ \E c \in Replicas : r \in bucket[c] /\ pc[c] # "collect"
    /\ due' = due \cup {r}
    /\ UNCHANGED <<client, streamVars, loopVars, doneVars, faults>>

-----------------------------------------------------------------------------
(* Errors, stop, crash *)

(* An exception leaves _tick: what it had in its local variables is gone,  *)
(* and stop() itself does not catch one.                                   *)
Raise(c) ==
    /\ slice' = [slice EXCEPT ![c] = <<>>]
    /\ formed' = [formed EXCEPT ![c] = <<>>]
    /\ LeavesTick(c)
    /\ bucket' = [bucket EXCEPT ![c] = IF replica[c] = "draining" THEN {} ELSE @]

(* The command of the await failed without effect. *)
TickError(c) ==
    /\ Fault("error")
    /\ Working(c)
    /\ \/ pc[c] \in {"feed", "reject", "ack"}
       \/ pc[c] = "push" /\ formed[c] # <<>>
    /\ Raise(c)
    /\ UNCHANGED <<client, streamVars, due, doneVars>>

(* It took effect, but the reply did not arrive. *)
ReplyLost(c) ==
    /\ Fault("lost_reply")
    /\ Working(c)
    /\ Raise(c)
    /\ \/ pc[c] = "read" /\ Deliver /\ UNCHANGED doneVars
       \/ CountRejection(c) /\ UNCHANGED streamVars
       \/ pc[c] = "reject" /\ Ack({Head(slice[c])}) /\ UNCHANGED doneVars
       \/ CountBatch(c) /\ UNCHANGED streamVars
       \/ pc[c] = "ack" /\ Ack(Head(formed[c])) /\ UNCHANGED doneVars
    /\ UNCHANGED <<client, due>>

(* stop: the loop is told to end.  Waiting in a read it still gets the     *)
(* reply, sleeping after an error it does not read again.                  *)
Stop(c) ==
    /\ Fault("stop")
    /\ replica[c] = "running"
    /\ \/ /\ replica' = [replica EXCEPT ![c] = "stopping"]
          /\ UNCHANGED pc
       \/ /\ pc[c] = "read"
          /\ replica' = [replica EXCEPT ![c] = "draining"]
          /\ pc' = [pc EXCEPT ![c] = "collect"]
    /\ UNCHANGED <<client, streamVars, slice, bucket, formed, due, doneVars>>

Crash(c) ==
    /\ Fault("crash")
    /\ Working(c)
    /\ replica' = [replica EXCEPT ![c] = "down"]
    /\ pc' = [pc EXCEPT ![c] = "read"]
    /\ slice' = [slice EXCEPT ![c] = <<>>]
    /\ bucket' = [bucket EXCEPT ![c] = {}]
    /\ formed' = [formed EXCEPT ![c] = <<>>]
    /\ UNCHANGED <<client, streamVars, due, doneVars>>

(* The group is there, at the start of the stream, from the first start on; *)
(* XGROUP CREATE of a later one is refused with BUSYGROUP.                  *)
EnsureGroup == UNCHANGED streamVars

(* A restarted process has a consumer name of its own, and reads only new  *)
(* entries in any case.                                                    *)
Start(c) ==
    /\ replica[c] \in {"stopped", "down"}
    /\ replica' = [replica EXCEPT ![c] = "running"]
    /\ EnsureGroup
    /\ UNCHANGED <<client, pc, slice, bucket, formed, due, doneVars, faults>>

-----------------------------------------------------------------------------

LoopStep(c) ==
    \/ Read(c) \/ Feed(c) \/ Reject(c) \/ AckRejected(c)
    \/ Flush(c) \/ Collected(c) \/ Push(c) \/ AckPushed(c) \/ EndTick(c)

LoopFault(c) == TickError(c) \/ ReplyLost(c) \/ Stop(c) \/ Crash(c)

Next ==
    \/ \E r \in Requests : CheckDepth(r) \/ Enqueue(r) \/ Wait(r)
    \/ \E c \in Replicas : LoopStep(c) \/ LoopFault(c) \/ Start(c)

Spec == Init /\ [][Next]_vars

(* The loop task is scheduled and replicas are restarted.  The clock       *)
(* advances between any two reads of it: strong fairness, because Wait is  *)
(* disabled while a call of collect_ready runs.                            *)
FairSpec ==
    /\ Spec
    /\ \A r \in Requests : SF_vars(Wait(r))
    /\ \A c \in Replicas : WF_vars(LoopStep(c)) /\ WF_vars(Start(c))

-----------------------------------------------------------------------------

InSlice(c, r)  == Contains(slice[c], r)
InFormed(c, r) == \E i \in DOMAIN formed[c] : r \in formed[c][i]
Holds(c, r)    ==
    Working(c) /\ (InSlice(c, r) \/ r \in bucket[c] \/ InFormed(c, r))

Handled(r) == batched[r] + rejected[r] > 0

(* Read from the stream, not acknowledged, and in nobody's memory. *)
Orphans == {r \in pel : \A c \in Replicas : ~ Holds(c, r)}

(* XACK only after the LPUSH or the REJECTED result: an entry that is off  *)
(* the stream and off the pending list has been handled, whatever fails.   *)
AckedIsHandled ==
    \A r \in Requests :
        client[r] = "accepted" =>
            Contains(Unread, r) \/ r \in pel \/ r \in trimmed \/ Handled(r)

(* A request is put into one batch or rejected, never both and never twice *)
(* -- not even when a reply is lost between LPUSH and XACK, because a tick *)
(* that failed is not repeated.                                            *)
HandledOnce == \A r \in Requests : batched[r] + rejected[r] =< 1

(* The group gives an entry to one replica, and inside it the entry is in  *)
(* one place; it stays pending for as long as somebody works on it.        *)
HeldOnce ==
    /\ \A c, d \in Replicas, r \in Requests :
        Holds(c, r) /\ Holds(d, r) => c = d
    /\ \A c \in Replicas, r \in Requests :
        /\ Holds(c, r) => r \in pel
        /\ ~ (InSlice(c, r) /\ r \in bucket[c])
        /\ ~ (r \in bucket[c] /\ InFormed(c, r))

(* What has become of a request: of the states of RequestHandover, or, if  *)
(* it has been handled more than once or after it was trimmed, of none.    *)
StateOf(r) ==
    CASE client[r] \in {"new", "checked"} -> "new"
      [] client[r] = "refused" -> "refused"
      [] client[r] = "accepted" /\ r \in trimmed ->
            IF Handled(r) THEN "handled and trimmed" ELSE "trimmed"
      [] client[r] = "accepted" /\ r \notin trimmed ->
            CASE batched[r] = 0 /\ rejected[r] = 0 -> "accepted"
              [] batched[r] = 1 /\ rejected[r] = 0 -> "batched"
              [] batched[r] = 0 /\ rejected[r] = 1 -> "rejected"
              [] OTHER -> "handled twice"

Handover == INSTANCE RequestHandover
            WITH state <- [r \in Requests |-> StateOf(r)],
                 open  <- ToSet(Unread) \cup pel

(* Replicas that share a group, fail in the middle of a tick and stop in   *)
(* the middle of a read promise together what one scheduler without faults *)
(* would: every request leaves once, in one batch of its model that is not *)
(* too large or rejected, and its entry is acknowledged only after that.   *)
HandoverContract == Handover!Spec

(* What makes the three invariants above inductive.  First, what the loop  *)
(* has in its local variables follows from where it is.                    *)
LoopShape ==
    \A c \in Replicas :
        /\ ~ Working(c) => pc[c] = "read"
        /\ slice[c] # <<>> <=> pc[c] \in {"feed", "reject"}
        /\ formed[c] # <<>> => pc[c] \in {"collect", "push", "ack"}
        /\ pc[c] = "ack" => formed[c] # <<>>

Uncounted(r) == batched[r] = 0 /\ rejected[r] = 0

(* Second, an entry is in the stream once, and nobody has dealt with it    *)
(* before it was published or before it was read.                          *)
StreamInv ==
    /\ \A i, j \in 1 .. Len(stream) : stream[i] = stream[j] => i = j
    /\ \A i \in delivered + 1 .. Len(stream) :
            stream[i] \notin pel /\ Uncounted(stream[i])
    /\ \A r \in Requests : client[r] # "accepted" =>
            ~ Contains(stream, r) /\ r \notin pel /\ Uncounted(r)

InHand(c, r) == InSlice(c, r) \/ r \in bucket[c] \/ InFormed(c, r)

(* Third, what a replica has in hand is pending, is in hand only there,    *)
(* and is in one place there.                                              *)
Separate(c) ==
    /\ \A i, j \in 1 .. Len(slice[c]) : slice[c][i] = slice[c][j] => i = j
    /\ \A i, j \in 1 .. Len(formed[c]) : \A r \in formed[c][i] :
            r \in formed[c][j] => i = j
    /\ \A r \in bucket[c] : ~ InSlice(c, r) /\ ~ InFormed(c, r)

HandsInv ==
    /\ \A c \in Replicas, r \in Requests : InHand(c, r) => r \in pel
    /\ \A c, d \in Replicas, r \in Requests : InHand(c, r) /\ InHand(d, r) => c = d
    /\ \A c \in Replicas : Separate(c)

(* Fourth, it is not counted as handled, but for what the loop is about to *)
(* acknowledge, and that is.                                               *)
Evident(c) ==
    /\ \A r \in bucket[c] : Uncounted(r)
    /\ \A i \in 1 .. Len(slice[c]) :
            IF i = 1 /\ pc[c] = "reject" THEN Handled(slice[c][i])
                                         ELSE Uncounted(slice[c][i])
    /\ \A i \in 1 .. Len(formed[c]) : \A r \in formed[c][i] :
            IF i = 1 /\ pc[c] = "ack" THEN Handled(r) ELSE Uncounted(r)

EvidenceInv == \A c \in Replicas : Evident(c)

(* At every await of _tick the local variables of the loop, the pending    *)
(* list and the results given out agree: an entry in hand is pending, in   *)
(* hand once over all replicas, and not handled until just before its XACK.*)
HandlingInv == LoopShape /\ StreamInv /\ HandsInv /\ EvidenceInv

(* Stopping replicas gracefully, at any point of a tick and one after the  *)
(* other, leaves no request unacknowledged without an owner: what a read   *)
(* still brought and what was buffered is dispatched before the end.       *)
NothingOrphaned ==
    faults.failures = 0 => Orphans = {}

(* Every accepted request is batched or rejected, unless the replica that  *)
(* had read it failed: replicas that stop or crash hold up nobody else's.  *)
HandledOrOrphaned ==
    \A r \in Requests :
        client[r] = "accepted" ~> Handled(r) \/ r \in Orphans \cup trimmed

-----------------------------------------------------------------------------
(* What the documentation says and the code does not do *)

(* scheduler_loop.py:13-15: a replica may die, unacked entries are          *)
(* reclaimed.                                                              *)
UnackedReclaimed == \A r \in Requests : r \in Orphans ~> r \notin Orphans

(* queues.py:73-75: work is refused when the stream is at capacity, to keep *)
(* the queue bounded -- here, when nothing in it still waits.              *)
RefusedOnlyWhenBehind ==
    [][ \A r \in Requests :
            client[r] = "new" /\ client'[r] = "refused" =>
                Unread # <<>> \/ pel # {} ]_vars
=============================================================================
