-------------------------- MODULE AtLeastOnceQueue --------------------------
(***************************************************************************)
(* What the dispatch queue promises its users (messaging/queues.py, the    *)
(* docstring of BatchQueue): a batch is in one place at a time, a batch    *)
(* that was taken can come back, and it leaves for good only when each of  *)
(* its requests has been answered.                                         *)
(***************************************************************************)
CONSTANTS Batches, Requests, Members

VARIABLES state, answered

vars == <<state, answered>>

Init ==
    /\ state = [b \in Batches |-> "new"]
    /\ answered = {}

Moves(b, from, to) ==
    /\ state[b] = from
    /\ state' = [state EXCEPT ![b] = to]
    /\ UNCHANGED answered

Enqueue(b) == Moves(b, "new", "queued")

Take(b) == Moves(b, "queued", "held")

Return(b) == Moves(b, "held", "queued")

Finish(b) == Members[b] \subseteq answered /\ Moves(b, "held", "done")

(* Whoever took the batch once may still answer after it was returned. *)
Answer(r) ==
    /\ \E b \in Batches : r \in Members[b] /\ state[b] # "new"
    /\ answered' = answered \cup {r}
    /\ UNCHANGED state

Next ==
    \/ \E b \in Batches : Enqueue(b) \/ Take(b) \/ Return(b) \/ Finish(b)
    \/ \E r \in Requests : Answer(r)

Spec == Init /\ [][Next]_vars
=============================================================================
