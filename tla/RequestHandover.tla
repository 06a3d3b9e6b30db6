--------------------------- MODULE RequestHandover --------------------------
(***************************************************************************)
(* What the request stream and the schedulers behind it promise a gateway  *)
(* (the docstrings of RequestStream, messaging/queues.py, and of           *)
(* scheduler_loop.py): a request that was accepted leaves the scheduler    *)
(* once, in one batch of one model or with a REJECTED result, and its      *)
(* entry is open until then.  It may stay accepted for ever if a replica   *)
(* fails, and an entry nobody has read may be trimmed.                     *)
(***************************************************************************)
EXTENDS Integers, FiniteSets

CONSTANTS Requests, ModelOf, MaxBatch

VARIABLES
    state,  \* what has become of a request
    open    \* requests with an entry that is unread or pending

vars == <<state, open>>

Init ==
    /\ state = [r \in Requests |-> "new"]
    /\ open = {}

Refuse(r) ==
    /\ state[r] = "new"
    /\ state' = [state EXCEPT ![r] = "refused"]
    /\ UNCHANGED open

(* A stream at its limit may drop entries when a new one is appended.      *)
Accept(r, dropped) ==
    /\ state[r] = "new"
    /\ \A d \in dropped \ {r} : d \in open /\ state[d] = "accepted"
    /\ state' = [q \in Requests |-> IF q \in dropped THEN "trimmed"
                                    ELSE IF q = r THEN "accepted" ELSE state[q]]
    /\ open' = (open \cup {r}) \ dropped

Reject(r) ==
    /\ state[r] = "accepted" /\ r \in open
    /\ state' = [state EXCEPT ![r] = "rejected"]
    /\ UNCHANGED open

(* All requests of a batch are handed over at once. *)
Batch(rs) ==
    /\ rs # {} /\ Cardinality(rs) =< MaxBatch
    /\ \A r, q \in rs : ModelOf[r] = ModelOf[q]
    /\ \A r \in rs : state[r] = "accepted" /\ r \in open
    /\ state' = [r \in Requests |-> IF r \in rs THEN "batched" ELSE state[r]]
    /\ UNCHANGED open

Close(rs) ==
    /\ \A r \in rs : state[r] \in {"batched", "rejected"}
    /\ open' = open \ rs
    /\ UNCHANGED state

Next ==
    \/ \E r \in Requests : Refuse(r) \/ Reject(r)
    \/ \E r \in Requests : \E dropped \in SUBSET Requests : Accept(r, dropped)
    \/ \E rs \in SUBSET Requests : Batch(rs) \/ Close(rs)

Spec == Init /\ [][Next]_vars
=============================================================================
