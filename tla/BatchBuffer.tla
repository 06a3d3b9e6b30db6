----------------------------- MODULE BatchBuffer ----------------------------
(***************************************************************************)
(* What a scheduler loop may expect of its batcher (the docstring of       *)
(* batcher.py): a batch is of one model and full, unless a timer or a      *)
(* flush closes it, and then it is all there is for the model; a call      *)
(* leaves nothing behind that is full or due.  SchedulerLoop has a buffer  *)
(* of this kind in each replica, without the strategy and the clock.       *)
(***************************************************************************)
EXTENDS Naturals, FiniteSets, Sequences

CONSTANTS Requests, Models, ModelOf, MaxBatch

VARIABLES
    place,    \* where a request is
    call,     \* what the batcher is doing
    batches   \* what the last call has formed so far

vars == <<place, call, batches>>

Init ==
    /\ place = [r \in Requests |-> "outside"]
    /\ call = "none"
    /\ batches = <<>>

Group(m) == {r \in Requests : ModelOf[r] = m /\ place[r] \in {"waiting", "due"}}

Add(r) ==
    /\ call = "none" /\ place[r] = "outside"
    /\ place' = [place EXCEPT ![r] = "waiting"]
    /\ UNCHANGED <<call, batches>>

(* max_wait_ms have passed for some requests.                              *)
Elapse(rs) ==
    /\ call = "none" /\ \A r \in rs : place[r] = "waiting"
    /\ place' = [r \in Requests |-> IF r \in rs THEN "due" ELSE place[r]]
    /\ UNCHANGED <<call, batches>>

Begin(kind) ==
    /\ call = "none" /\ call' = kind
    /\ batches' = <<>>
    /\ UNCHANGED place

Closed(m) ==
    /\ Group(m) # {}
    /\ \/ call = "flush"
       \/ Cardinality(Group(m)) >= MaxBatch
       \/ \E r \in Group(m) : place[r] = "due"

Form(m, rs) ==
    /\ call \in {"collect", "flush"} /\ Closed(m)
    /\ \/ Cardinality(rs) = MaxBatch
       \/ rs = Group(m) /\ Cardinality(rs) < MaxBatch
    /\ place' = [r \in Requests |-> IF r \in rs THEN "gone" ELSE place[r]]
    /\ batches' = Append(batches, rs)
    /\ UNCHANGED call

Return ==
    /\ call \in {"collect", "flush"} /\ \A m \in Models : ~ Closed(m)
    /\ call' = IF call = "collect" THEN "none" ELSE "over"
    /\ UNCHANGED <<place, batches>>

Next ==
    \/ \E r \in Requests : Add(r)
    \/ \E rs \in SUBSET Requests : Elapse(rs)
    \/ Begin("collect") \/ Begin("flush")
    \/ \E m \in Models : \E rs \in SUBSET Group(m) : Form(m, rs)
    \/ Return

Spec == Init /\ [][Next]_vars
=============================================================================
