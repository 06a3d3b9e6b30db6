--------------------------- MODULE MetricsSnapshot --------------------------
(***************************************************************************)
(* PlatformStateCollector.collect and the AggregatorLoop that calls it:    *)
(* a snapshot is taken by several commands, while schedulers, workers and  *)
(* janitors move batches and write heartbeats.  Of those this module has   *)
(* the single commands (WorkerPool has who gives them when).  The length   *)
(* of the request stream and the number of fresh heartbeats are read at    *)
(* once and left out.                                                      *)
(***************************************************************************)
EXTENDS Integers, FiniteSets

CONSTANTS
    Workers, Batches,
    Attempts,   \* attempts of ping_redis
    MaxMoves,   \* bound on the moves during one collect
    MaxErrors   \* bound on the commands that fail

ASSUME SnapshotAssumption ==
    /\ IsFiniteSet(Workers) /\ IsFiniteSet(Batches)
    /\ {"none", "queue", "done"} \cap Workers = {}
    /\ Attempts \in Nat \ {0} /\ MaxMoves \in Nat /\ MaxErrors \in Nat

VARIABLES
    place,     \* where a batch is: in pip:batches or in a worker's list
    recorded,  \* workers with a heartbeat record
    pc,        \* where the process and its sampling loop are
    attempt,   \* failed attempts of retry_async
    depth,     \* batch_queue_depth and in_flight as collected so far
    inFlight,
    counted,   \* the workers of the HGETALL whose lists have been counted,
    left,      \* and those whose lists have not
    moved,     \* history: batches moved since the LLEN of the queue
    errors     \* failed commands so far

worldVars == <<place, recorded>>
localVars == <<depth, inFlight, counted, left>>
vars == <<worldVars, pc, attempt, localVars, moved, errors>>

TypeOK ==
    /\ place \in [Batches -> {"none", "queue", "done"} \cup Workers]
    /\ recorded \subseteq Workers
    /\ pc \in {"stopped", "ping", "wait", "workers", "lists"}
    /\ attempt \in 0 .. Attempts - 1
    /\ depth \in 0 .. Cardinality(Batches)
    /\ inFlight \in Nat
    /\ counted \subseteq Workers /\ left \subseteq Workers \ counted
    /\ moved \in 0 .. MaxMoves
    /\ errors \in 0 .. MaxErrors

Init ==
    /\ place = [b \in Batches |-> "none"]
    /\ recorded = {}
    /\ pc = "stopped" /\ attempt = 0
    /\ depth = 0 /\ inFlight = 0 /\ counted = {} /\ left = {}
    /\ moved = 0 /\ errors = 0

At(places) == {b \in Batches : place[b] \in places}

Collecting == pc \in {"workers", "lists"}

-----------------------------------------------------------------------------
(* The platform *)

Moves(b, from, to) ==
    /\ place[b] = from
    /\ place' = [place EXCEPT ![b] = to]
    /\ IF Collecting THEN moved < MaxMoves /\ moved' = moved + 1 ELSE UNCHANGED moved
    /\ UNCHANGED <<recorded, pc, attempt, localVars, errors>>

(* dispatch; reserve, complete and recover_orphans *)
Dispatched(b) == Moves(b, "none", "queue")
Reserved(b)   == \E w \in Workers : Moves(b, "queue", w)
Completed(b)  == \E w \in Workers : Moves(b, w, "done")
Recovered(b)  == \E w \in Workers : Moves(b, w, "queue")

(* HSET of _heartbeat_loop, HDEL of stop and of janitors *)
Beats(w) ==
    /\ recorded' \in {recorded \cup {w}, recorded \ {w}}
    /\ UNCHANGED <<place, pc, attempt, localVars, moved, errors>>

-----------------------------------------------------------------------------
(* collect *)

CountQueue ==
    /\ pc = "wait"
    /\ depth' = Cardinality(At({"queue"}))
    /\ pc' = "workers"
    /\ UNCHANGED <<worldVars, attempt, inFlight, counted, left, moved, errors>>

CountWorkers ==
    /\ pc = "workers"
    /\ left' = recorded
    /\ pc' = "lists"
    /\ UNCHANGED <<worldVars, attempt, depth, inFlight, counted, moved, errors>>

(* A slip: the queue is counted once more with every list. *)
Recount(w) == Cardinality(At({"queue", w}))

InFlightOf(w) == Cardinality(At({w}))

CountList(w) ==
    /\ pc = "lists" /\ w \in left
    /\ inFlight' = inFlight + InFlightOf(w)
    /\ left' = left \ {w} /\ counted' = counted \cup {w}
    /\ UNCHANGED <<worldVars, pc, attempt, depth, moved, errors>>

-----------------------------------------------------------------------------
(* The process *)

CommandError == errors < MaxErrors /\ errors' = errors + 1

(* lifespan: the first thing is a ping. *)
Start ==
    /\ pc = "stopped"
    /\ pc' = "ping" /\ attempt' = 0
    /\ UNCHANGED <<worldVars, localVars, moved, errors>>

Ping ==
    /\ pc = "ping"
    /\ pc' = "wait" /\ attempt' = 0
    /\ UNCHANGED <<worldVars, localVars, moved, errors>>

(* retry_async gives up after the last attempt, and with it the process. *)
PingFails ==
    /\ pc = "ping" /\ CommandError
    /\ IF attempt = Attempts - 1
       THEN pc' = "stopped" /\ attempt' = 0
       ELSE attempt' = attempt + 1 /\ UNCHANGED pc
    /\ UNCHANGED <<worldVars, localVars, moved>>

-----------------------------------------------------------------------------
(* AggregatorLoop *)

(* collect has returned or raised: its local variables are gone. *)
Leaves(where) ==
    /\ pc' = where
    /\ depth' = 0 /\ inFlight' = 0 /\ counted' = {} /\ left' = {}
    /\ moved' = 0
    /\ UNCHANGED <<worldVars, attempt>>

(* The numbers go into the gauges, which nothing in the platform reads. *)
Publish == pc = "lists" /\ left = {} /\ Leaves("wait") /\ UNCHANGED errors

(* A slip: the exception of a failed command ends the task. *)
EndsLoop == Leaves("ended")

KeepsSampling == Leaves("wait")

CommandFails ==
    /\ pc \in {"wait", "workers"} \/ (pc = "lists" /\ left # {})
    /\ CommandError
    /\ KeepsSampling

(* stop cancels the loop at whatever await it is in. *)
Stop == pc \in {"wait", "workers", "lists"} /\ Leaves("stopped") /\ UNCHANGED errors

-----------------------------------------------------------------------------

Sample == CountQueue \/ CountWorkers \/ (\E w \in Workers : CountList(w)) \/ Publish

Next ==
    \/ Start \/ Ping \/ PingFails
    \/ Sample \/ CommandFails \/ Stop
    \/ \E b \in Batches : Dispatched(b) \/ Reserved(b) \/ Completed(b) \/ Recovered(b)
    \/ \E w \in Workers : Beats(w)

Spec == Init /\ [][Next]_vars

(* The event loop goes on with the tasks of a process. *)
FairSpec == Spec /\ WF_vars(Sample) /\ WF_vars(Ping)

-----------------------------------------------------------------------------

(* A torn snapshot is off by no more than the batches that moved while it  *)
(* was taken: one that stayed where it was is neither missed nor counted   *)
(* twice, and every move costs one, however long the collector takes.      *)
OffByMoves ==
    Collecting => depth + inFlight - Cardinality(At({"queue"} \cup counted))
                    \in -moved .. moved

(* "never let the sampler die": until it is stopped, it ends every collect *)
(* and begins another one, after a failed command too.                     *)
SamplesForEver == []<>(pc \in {"wait", "stopped"}) /\ []<>(pc \in {"workers", "stopped"})
=============================================================================
