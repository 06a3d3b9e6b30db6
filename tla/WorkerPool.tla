----------------------------- MODULE WorkerPool -----------------------------
(***************************************************************************)
(* The inference-worker pool: the reliable list between the scheduler and  *)
(* the workers (BatchQueue), the serving slots of every worker process     *)
(* (WorkerLoop), the DeadWorkerJanitor that runs beside them, the image    *)
(* store and the one-shot result mailboxes.                                *)
(*                                                                         *)
(* A Redis command is one step; whatever an await separates is separate.   *)
(* Index 1 of a sequence is the LEFT end of the Redis list.                *)
(***************************************************************************)
EXTENDS SequencesExt

CONSTANTS
    Workers,     \* worker ids; a restarted container keeps its id
    Slots,       \* serving slots (WORKER_CONCURRENCY of them per worker)
    Host,        \* the worker a slot belongs to
    Janitors,    \* workers whose process runs a janitor (main.py always does)
    Batches, Requests,
    Members,     \* the requests of a batch
    Poison,      \* batches for a model the catalog does not know
    Corrupt,     \* requests whose image does not decode
    Faults,      \* the kinds of fault this instance exercises
    MaxFaults,   \* bound on the number of faults in a behaviour
    NoBatch, NoWorker, NoAnswer

Status == {"ok", "error", "timeout"}
FaultKinds == {"crash", "stop", "exception", "scan_error", "heartbeat_dies",
               "stall", "lost_reply", "expiry"}

ASSUME HostAssumption == Host \in [Slots -> Workers]
ASSUME MembersAssumption ==
    /\ Members \in [Batches -> (SUBSET Requests) \ {{}}]
    /\ \A b, c \in Batches : b # c => Members[b] \cap Members[c] = {}
ASSUME SubsetsAssumption ==
    /\ Janitors \subseteq Workers
    /\ Poison \subseteq Batches
    /\ Corrupt \subseteq Requests
    /\ Faults \subseteq FaultKinds
    /\ MaxFaults \in Nat
ASSUME NullAssumption ==
    NoBatch \notin Batches /\ NoWorker \notin Workers /\ NoAnswer \notin Status

VARIABLES
    batchQueue,  \* pip:batches
    processing,  \* pip:processing:{worker}
    heartbeat,   \* pip:workers:heartbeat, reduced to absent, fresh or stale
    images,      \* requests whose image is in the store
    answer,      \* first result put into a request's mailbox
    again,       \* requests whose mailbox received a further result
    spoiled,     \* history: requests an attempt was given up on before they
                 \* had an answer, or whose image ran out its TTL
    worker,      \* life cycle of a worker process
    beating,     \* does the heartbeat task of the process still run?
    pc, job,     \* where a slot is in _serve_loop/_process, and with what batch
    fetched,     \* images a slot holds in memory
    outbox,      \* results a slot has still to publish
    janitor,     \* progress of a janitor through its snapshot
    dispatched,  \* batches the scheduler has pushed
    faults       \* faults so far

queueVars  == <<batchQueue, processing>>
storeVars  == <<images, answer, again, spoiled>>
workerVars == <<worker, beating, heartbeat>>
slotVars   == <<pc, job, fetched, outbox>>
vars == <<queueVars, storeVars, workerVars, slotVars, janitor, dispatched, faults>>

Resting == [stale |-> {}, target |-> NoWorker, drained |-> FALSE]

TypeOK ==
    /\ batchQueue \in Seq(Batches)
    /\ processing \in [Workers -> Seq(Batches)]
    /\ heartbeat \in [Workers -> {"none", "fresh", "stale"}]
    /\ images \subseteq Requests
    /\ answer \in [Requests -> Status \cup {NoAnswer}]
    /\ again \subseteq Requests
    /\ spoiled \subseteq Requests
    /\ worker \in [Workers -> {"recovering", "up", "stopping", "stopped", "down"}]
    /\ beating \in [Workers -> BOOLEAN]
    /\ pc \in [Slots -> {"idle", "fetch", "execute", "publish", "complete",
                         "cleanup", "ended"}]
    /\ job \in [Slots -> Batches \cup {NoBatch}]
    /\ \A s \in Slots : job[s] = NoBatch <=> pc[s] \in {"idle", "ended"}
    /\ fetched \in [Slots -> SUBSET Requests]
    /\ outbox \in [Slots -> SUBSET (Requests \X Status)]
    /\ janitor \in [Workers -> [stale : SUBSET Workers,
                                target : Workers \cup {NoWorker},
                                drained : BOOLEAN]]
    /\ dispatched \subseteq Batches
    /\ faults \in 0 .. MaxFaults

(* The gateway stores an image before it enqueues the request, so every    *)
(* image a batch needs is there when the batch is formed.                  *)
Init ==
    /\ batchQueue = <<>>
    /\ processing = [w \in Workers |-> <<>>]
    /\ heartbeat = [w \in Workers |-> "none"]
    /\ images = Requests
    /\ answer = [r \in Requests |-> NoAnswer]
    /\ again = {}
    /\ spoiled = {}
    /\ worker = [w \in Workers |-> "recovering"]
    /\ beating = [w \in Workers |-> FALSE]
    /\ pc = [s \in Slots |-> "ended"]
    /\ job = [s \in Slots |-> NoBatch]
    /\ fetched = [s \in Slots |-> {}]
    /\ outbox = [s \in Slots |-> {}]
    /\ janitor = [w \in Workers |-> Resting]
    /\ dispatched = {}
    /\ faults = 0

Fault(kind) ==
    /\ kind \in Faults
    /\ faults < MaxFaults
    /\ faults' = faults + 1

-----------------------------------------------------------------------------
(* BatchQueue *)

(* dispatch: LPUSH.  The scheduler pushes a batch once. *)
Dispatch(b) ==
    /\ b \notin dispatched
    /\ dispatched' = dispatched \cup {b}
    /\ batchQueue' = Cons(b, batchQueue)
    /\ UNCHANGED <<processing, storeVars, workerVars, slotVars, janitor, faults>>

(* A slip to test the properties with: BRPOP in place of BLMOVE. *)
TakeRightUnreliably(w) ==
    /\ batchQueue # <<>>
    /\ batchQueue' = Front(batchQueue)
    /\ UNCHANGED processing

(* reserve: BLMOVE from the RIGHT of the queue to the LEFT of w's list. *)
TakeRight(w) ==
    /\ batchQueue # <<>>
    /\ batchQueue' = Front(batchQueue)
    /\ processing' = [processing EXCEPT ![w] = Cons(Last(batchQueue), @)]

(* A slip: LINDEX and LPUSH in place of LMOVE. *)
RecoverByCopy(w) ==
    /\ processing[w] # <<>>
    /\ batchQueue' = Cons(Head(processing[w]), batchQueue)
    /\ UNCHANGED processing

(* A slip: LPOP in place of LREM, another slot's batch may be on top. *)
PopFrom(w, b) ==
    /\ UNCHANGED batchQueue
    /\ processing[w] # <<>>
    /\ processing' = [processing EXCEPT ![w] = Tail(@)]

(* complete: LREM 1 of b from w's list, nothing when it is not there. *)
RemoveFrom(w, b) ==
    LET list == processing[w] IN
    /\ UNCHANGED batchQueue
    /\ \/ /\ ~ Contains(list, b)
          /\ UNCHANGED processing
       \/ \E i \in 1 .. Len(list) :
            /\ list[i] = b
            /\ \A j \in 1 .. i - 1 : list[j] # b
            /\ processing' = [processing EXCEPT ![w] = RemoveAt(list, i)]

(* One round of recover_orphans: LMOVE from LEFT to LEFT. *)
RecoverOne(w) ==
    /\ processing[w] # <<>>
    /\ batchQueue' = Cons(Head(processing[w]), batchQueue)
    /\ processing' = [processing EXCEPT ![w] = Tail(@)]

-----------------------------------------------------------------------------
(* The serving slots of a worker: _serve_loop and _process *)

Reserve(s) ==
    /\ worker[Host[s]] = "up"
    /\ pc[s] = "idle"
    /\ TakeRight(Host[s])
    /\ pc' = [pc EXCEPT ![s] = "fetch"]
    /\ job' = [job EXCEPT ![s] = Last(batchQueue)]
    /\ UNCHANGED <<fetched, outbox, storeVars, workerVars, janitor, dispatched,
                   faults>>

(* The server moved the batch, the reply never arrived: reserve raises and *)
(* the slot goes round its loop without the batch.                         *)
ReserveReplyLost(s) ==
    /\ Fault("lost_reply")
    /\ worker[Host[s]] = "up"
    /\ pc[s] = "idle"
    /\ TakeRight(Host[s])
    /\ UNCHANGED <<slotVars, storeVars, workerVars, janitor, dispatched>>

(* A slip: GETDEL in place of MGET, leaving nothing for a redelivery. *)
FetchAndDelete(s) ==
    /\ pc[s] = "fetch"
    /\ fetched' = [fetched EXCEPT ![s] = images \cap Members[job[s]]]
    /\ images' = images \ Members[job[s]]
    /\ pc' = [pc EXCEPT ![s] = "execute"]
    /\ UNCHANGED <<job, outbox, answer, again, spoiled, queueVars, workerVars,
                   janitor, dispatched, faults>>

FetchImages(s) ==
    /\ pc[s] = "fetch"
    /\ fetched' = [fetched EXCEPT ![s] = images \cap Members[job[s]]]
    /\ pc' = [pc EXCEPT ![s] = "execute"]
    /\ UNCHANGED <<job, outbox, queueVars, storeVars, workerVars, janitor,
                   dispatched, faults>>

Executed(s, results) ==
    /\ pc[s] = "execute"
    /\ job[s] \notin Poison
    /\ outbox' = [outbox EXCEPT ![s] = results]
    /\ fetched' = [fetched EXCEPT ![s] = {}]
    /\ pc' = [pc EXCEPT ![s] = "publish"]
    /\ UNCHANGED <<job, queueVars, storeVars, workerVars, janitor, dispatched,
                   faults>>

(* What decode_to_chw makes a tensor of *)
Kept(s) == fetched[s] \ Corrupt

(* A missing or undecodable image fails its own request only. *)
Execute(s) ==
    Executed(s, {<<r, IF r \in Kept(s) THEN "ok" ELSE "error">> :
                    r \in Members[job[s]]})

ExecuteTimesOut(s) == Executed(s, Members[job[s]] \X {"timeout"})

(* The history of requests whose batch a slot leaves half done: nothing   *)
(* reads it but FirstAnswerGood.                                          *)
GiveUp(quitting) ==
    spoiled' = spoiled \cup {r \in UNION {Members[job[s]] : s \in quitting} :
                                answer[r] = NoAnswer}

(* registry.get raises for a model the catalog does not know; the finally  *)
(* clause runs, no result is made.                                         *)
ExecuteRaises(s) ==
    /\ pc[s] = "execute"
    /\ job[s] \in Poison
    /\ pc' = [pc EXCEPT ![s] = "cleanup"]
    /\ fetched' = [fetched EXCEPT ![s] = {}]
    /\ GiveUp({s})
    /\ UNCHANGED <<job, outbox, queueVars, images, answer, again, workerVars,
                   janitor, dispatched, faults>>

(* One RPUSH.  The gateway pops the head of the mailbox and no more, so    *)
(* the first result is the one the client gets.                            *)
PublishResult(s) ==
    /\ pc[s] = "publish"
    /\ \E res \in outbox[s] :
        LET r == res[1] IN
        /\ IF answer[r] = NoAnswer
           THEN /\ answer' = [answer EXCEPT ![r] = res[2]]
                /\ UNCHANGED again
           ELSE /\ again' = again \cup {r}
                /\ UNCHANGED answer
        /\ outbox' = [outbox EXCEPT ![s] = @ \ {res}]
        /\ pc' = [pc EXCEPT ![s] = IF outbox[s] = {res} THEN "complete"
                                                        ELSE "publish"]
    /\ UNCHANGED <<job, fetched, images, spoiled, queueVars, workerVars, janitor,
                   dispatched, faults>>

(* The slot completes on its own list, wherever the batch is by now. *)
Complete(s) ==
    /\ pc[s] = "complete"
    /\ RemoveFrom(Host[s], job[s])
    /\ pc' = [pc EXCEPT ![s] = "cleanup"]
    /\ UNCHANGED <<job, fetched, outbox, storeVars, workerVars, janitor,
                   dispatched, faults>>

(* A Redis or backend error between reserve and the end of _process: the   *)
(* remaining steps are skipped, the finally clause is not.                 *)
SlotError(s) ==
    /\ Fault("exception")
    /\ pc[s] \in {"fetch", "execute", "publish", "complete"}
    /\ pc' = [pc EXCEPT ![s] = "cleanup"]
    /\ fetched' = [fetched EXCEPT ![s] = {}]
    /\ outbox' = [outbox EXCEPT ![s] = {}]
    /\ GiveUp({s})
    /\ UNCHANGED <<job, queueVars, images, answer, again, workerVars, janitor,
                   dispatched>>

(* A slip: the slot goes round its loop with the old batch in hand. *)
EndJobKeepsBatch(s) ==
    /\ pc[s] = "cleanup"
    /\ pc' = [pc EXCEPT ![s] = IF worker[Host[s]] = "up" THEN "idle" ELSE "ended"]
    /\ UNCHANGED <<job, fetched, outbox, queueVars, answer, again, spoiled,
                   workerVars, janitor, dispatched>>

EndJob(s) ==
    /\ pc[s] = "cleanup"
    /\ pc' = [pc EXCEPT ![s] = IF worker[Host[s]] = "up" THEN "idle" ELSE "ended"]
    /\ job' = [job EXCEPT ![s] = NoBatch]
    /\ UNCHANGED <<fetched, outbox, queueVars, answer, again, spoiled, workerVars,
                   janitor, dispatched>>

Cleanup(s) ==
    /\ EndJob(s)
    /\ images' = images \ Members[job[s]]
    /\ UNCHANGED faults

(* _cleanup_images suppresses a failing DELETE. *)
CleanupFails(s) ==
    /\ Fault("exception")
    /\ EndJob(s)
    /\ UNCHANGED images

ImageExpires(r) ==
    /\ Fault("expiry")
    /\ r \in images
    /\ images' = images \ {r}
    /\ spoiled' = spoiled \cup {r}
    /\ UNCHANGED <<answer, again, queueVars, workerVars, slotVars, janitor,
                   dispatched>>

-----------------------------------------------------------------------------
(* Heartbeats.  2 s between beats against 10 s before a record is stale:   *)
(* the record of a worker that beats goes stale only when the process or   *)
(* Redis stalls for that long.                                             *)

Beat(w) ==
    /\ worker[w] = "up"
    /\ beating[w]
    /\ heartbeat' = [heartbeat EXCEPT ![w] = "fresh"]
    /\ UNCHANGED <<worker, beating, queueVars, storeVars, slotVars, janitor,
                   dispatched, faults>>

GoesStale(v) ==
    /\ heartbeat[v] = "fresh"
    /\ heartbeat' = [heartbeat EXCEPT ![v] = "stale"]
    /\ UNCHANGED <<worker, beating, queueVars, storeVars, slotVars, janitor,
                   dispatched>>

(* A slip: stale_after_s not larger than the heartbeat interval. *)
ExpireTooSoon(v) == GoesStale(v) /\ UNCHANGED faults

Expire(v) ==
    /\ ~ (worker[v] = "up" /\ beating[v])
    /\ GoesStale(v)
    /\ UNCHANGED faults

Stall(v) ==
    /\ Fault("stall")
    /\ worker[v] = "up" /\ beating[v]
    /\ GoesStale(v)

(* _heartbeat_loop catches nothing: one failing HSET ends the task. *)
HeartbeatTaskDies(w) ==
    /\ Fault("heartbeat_dies")
    /\ worker[w] = "up"
    /\ beating[w]
    /\ beating' = [beating EXCEPT ![w] = FALSE]
    /\ UNCHANGED <<worker, heartbeat, queueVars, storeVars, slotVars, janitor,
                   dispatched>>

-----------------------------------------------------------------------------
(* DeadWorkerJanitor: _scan_once *)

(* What the loop over a snapshot does next: the ids come in any order. *)
NextVisits(stale) ==
    IF stale = {} THEN {Resting}
    ELSE {[stale |-> stale \ {v}, target |-> v, drained |-> FALSE] : v \in stale}

(* HGETALL, and the ids in it that have been silent for too long. *)
JanitorScan(w) ==
    /\ w \in Janitors
    /\ worker[w] = "up"
    /\ janitor[w] = Resting
    /\ LET stale == {v \in Workers \ {w} : heartbeat[v] = "stale"} IN
       /\ stale # {}
       /\ \E visit \in NextVisits(stale) : janitor' = [janitor EXCEPT ![w] = visit]
    /\ UNCHANGED <<queueVars, storeVars, workerVars, slotVars, dispatched, faults>>

JanitorMove(w) ==
    LET v == janitor[w].target IN
    /\ v # NoWorker
    /\ ~ janitor[w].drained
    /\ RecoverOne(v)
    /\ UNCHANGED <<storeVars, workerVars, slotVars, janitor, dispatched, faults>>

(* A slip: the janitor recovers one batch, or none, per dead worker. *)
JanitorSatisfied(w) ==
    /\ janitor[w].target # NoWorker
    /\ ~ janitor[w].drained
    /\ janitor' = [janitor EXCEPT ![w].drained = TRUE]
    /\ UNCHANGED <<queueVars, storeVars, workerVars, slotVars, dispatched, faults>>

JanitorDrained(w) ==
    LET v == janitor[w].target IN
    /\ v # NoWorker
    /\ ~ janitor[w].drained
    /\ processing[v] = <<>>
    /\ janitor' = [janitor EXCEPT ![w].drained = TRUE]
    /\ UNCHANGED <<queueVars, storeVars, workerVars, slotVars, dispatched, faults>>

(* HDEL, then on to the next id of the snapshot. *)
JanitorForget(w) ==
    /\ janitor[w].drained
    /\ heartbeat' = [heartbeat EXCEPT ![janitor[w].target] = "none"]
    /\ \E visit \in NextVisits(janitor[w].stale) :
            janitor' = [janitor EXCEPT ![w] = visit]
    /\ UNCHANGED <<worker, beating, queueVars, storeVars, slotVars, dispatched,
                   faults>>

(* _loop suppresses an error of _scan_once and starts afresh. *)
JanitorError(w) ==
    /\ Fault("scan_error")
    /\ janitor[w] # Resting
    /\ janitor' = [janitor EXCEPT ![w] = Resting]
    /\ UNCHANGED <<queueVars, storeVars, workerVars, slotVars, dispatched>>

-----------------------------------------------------------------------------
(* The life cycle of a worker process *)

SlotsOf(w) == {s \in Slots : Host[s] = w}

Start(w) ==
    /\ worker[w] \in {"down", "stopped"}
    /\ worker' = [worker EXCEPT ![w] = "recovering"]
    /\ UNCHANGED <<beating, heartbeat, queueVars, storeVars, slotVars, janitor,
                   dispatched, faults>>

(* start: recover_orphans on the worker's own id, one LMOVE at a time. *)
RecoverOwn(w) ==
    /\ worker[w] = "recovering"
    /\ RecoverOne(w)
    /\ UNCHANGED <<storeVars, workerVars, slotVars, janitor, dispatched, faults>>

(* A slip: the slots are created before the orphans are requeued. *)
LaunchUnrecovered(w) ==
    /\ worker[w] = "recovering"
    /\ worker' = [worker EXCEPT ![w] = "up"]
    /\ beating' = [beating EXCEPT ![w] = TRUE]
    /\ pc' = [s \in Slots |-> IF s \in SlotsOf(w) THEN "idle" ELSE pc[s]]
    /\ UNCHANGED <<job, fetched, outbox, heartbeat, queueVars, storeVars, janitor,
                   dispatched, faults>>

(* The last LMOVE found nothing: heartbeat task and slots are created.  The *)
(* first HSET and the first BLMOVE may reach Redis in either order.         *)
Launch(w) ==
    /\ worker[w] = "recovering"
    /\ processing[w] = <<>>
    /\ worker' = [worker EXCEPT ![w] = "up"]
    /\ beating' = [beating EXCEPT ![w] = TRUE]
    /\ pc' = [s \in Slots |-> IF s \in SlotsOf(w) THEN "idle" ELSE pc[s]]
    /\ UNCHANGED <<job, fetched, outbox, heartbeat, queueVars, storeVars, janitor,
                   dispatched, faults>>

(* Everything the process held in memory is gone. *)
Crash(w) ==
    /\ Fault("crash")
    /\ worker[w] \in {"recovering", "up", "stopping"}
    /\ worker' = [worker EXCEPT ![w] = "down"]
    /\ beating' = [beating EXCEPT ![w] = FALSE]
    /\ pc' = [s \in Slots |-> IF s \in SlotsOf(w) THEN "ended" ELSE pc[s]]
    /\ job' = [s \in Slots |-> IF s \in SlotsOf(w) THEN NoBatch ELSE job[s]]
    /\ fetched' = [s \in Slots |-> IF s \in SlotsOf(w) THEN {} ELSE fetched[s]]
    /\ outbox' = [s \in Slots |-> IF s \in SlotsOf(w) THEN {} ELSE outbox[s]]
    /\ janitor' = [janitor EXCEPT ![w] = Resting]
    /\ UNCHANGED <<heartbeat, queueVars, storeVars, dispatched>>

(* The lifespan's finally clause stops the janitor and cancels the tasks of *)
(* the worker.  A slot cancelled inside _process still runs its finally     *)
(* clause; one cancelled inside that clause may or may not have deleted.    *)
(* With a janitor, janitor.stop() itself re-raises the cancellation, so     *)
(* worker.stop() is skipped and the tasks are cancelled by the closing loop.*)
Stop(w) ==
    /\ Fault("stop")
    /\ worker[w] = "up"
    /\ worker' = [worker EXCEPT ![w] = "stopping"]
    /\ beating' = [beating EXCEPT ![w] = FALSE]
    /\ janitor' = [janitor EXCEPT ![w] = Resting]
    /\ LET mine     == SlotsOf(w)
           quiet    == {s \in mine : pc[s] \in {"idle", "cleanup"}}
           cleaning == {s \in mine : pc[s] = "cleanup"}
       IN  /\ pc' = [s \in Slots |-> IF s \in quiet THEN "ended"
                                     ELSE IF s \in mine THEN "cleanup" ELSE pc[s]]
           /\ job' = [s \in Slots |-> IF s \in quiet THEN NoBatch ELSE job[s]]
           /\ fetched' = [s \in Slots |-> IF s \in mine THEN {} ELSE fetched[s]]
           /\ outbox' = [s \in Slots |-> IF s \in mine THEN {} ELSE outbox[s]]
           /\ \E done \in SUBSET cleaning :
                images' = images \ UNION {Members[job[s]] : s \in done}
           /\ GiveUp({s \in mine \ quiet : job[s] # NoBatch})
    /\ UNCHANGED <<answer, again, heartbeat, queueVars, dispatched>>

(* Only WorkerLoop.stop() deletes the heartbeat. *)
Stopped(w) ==
    /\ worker[w] = "stopping"
    /\ \A s \in SlotsOf(w) : pc[s] = "ended"
    /\ worker' = [worker EXCEPT ![w] = "stopped"]
    /\ heartbeat' = IF w \in Janitors THEN heartbeat
                    ELSE [heartbeat EXCEPT ![w] = "none"]
    /\ UNCHANGED <<beating, queueVars, storeVars, slotVars, janitor, dispatched,
                   faults>>

-----------------------------------------------------------------------------

SlotStep(s) ==
    \/ Reserve(s) \/ FetchImages(s)
    \/ Execute(s) \/ ExecuteTimesOut(s) \/ ExecuteRaises(s)
    \/ PublishResult(s) \/ Complete(s) \/ Cleanup(s)

SlotFault(s) == ReserveReplyLost(s) \/ SlotError(s) \/ CleanupFails(s)

JanitorStep(w) ==
    JanitorScan(w) \/ JanitorMove(w) \/ JanitorDrained(w) \/ JanitorForget(w)

LifeStep(w) == RecoverOwn(w) \/ Launch(w) \/ Stopped(w)

WorkerFault(w) ==
    Stall(w) \/ HeartbeatTaskDies(w) \/ JanitorError(w) \/ Crash(w) \/ Stop(w)

Next ==
    \/ \E b \in Batches : Dispatch(b)
    \/ \E s \in Slots : SlotStep(s) \/ SlotFault(s)
    \/ \E w \in Workers : \/ Beat(w) \/ Expire(w) \/ JanitorStep(w)
                          \/ LifeStep(w) \/ Start(w) \/ WorkerFault(w)
    \/ \E r \in Requests : ImageExpires(r)

Spec == Init /\ [][Next]_vars

(* Every task of a live process is scheduled, and clocks advance.          *)
TaskFairness ==
    /\ \A s \in Slots : WF_vars(SlotStep(s))
    /\ \A w \in Workers : /\ WF_vars(JanitorStep(w)) /\ WF_vars(LifeStep(w))
                          /\ WF_vars(Beat(w)) /\ WF_vars(Expire(w))

FairSpec == Spec /\ TaskFairness

(* The container runtime restarts what died (compose, Kubernetes): not part *)
(* of FairSpec, the properties that rely on it say so.                     *)
Restarts == \A w \in Workers : WF_vars(Start(w))

-----------------------------------------------------------------------------
(* Safety *)

Answered(b) == \A r \in Members[b] : answer[r] # NoAnswer

Held(b) == \E w \in Workers : Contains(processing[w], b)

InRedis(b) == Contains(batchQueue, b) \/ Held(b)

(* A batch disappears from the queue and from every processing list only   *)
(* after each of its requests got a result, whatever crashes, errors and   *)
(* recoveries happen: publish results first, complete() after.             *)
AnsweredBeforeForgotten ==
    \A b \in dispatched : InRedis(b) \/ Answered(b)

(* The steps that make the previous invariant inductive: what a slot has   *)
(* published and what it still holds cover the whole batch, and at         *)
(* complete() nothing is left.                                             *)
SlotCoversJob ==
    \A s \in Slots :
        /\ pc[s] = "publish" =>
            \A r \in Members[job[s]] :
                answer[r] # NoAnswer \/ \E st \in Status : <<r, st>> \in outbox[s]
        /\ pc[s] = "complete" => Answered(job[s])

(* Slots run exactly in live processes: no batch is served by a slot that  *)
(* outlived its worker, and no slot of a live worker has died.             *)
SlotsFollowWorker ==
    \A s \in Slots :
        /\ worker[Host[s]] \in {"recovering", "stopped", "down"} => pc[s] = "ended"
        /\ worker[Host[s]] = "up" => pc[s] # "ended"

(* A slot serves only in a live process, and what it has published and     *)
(* still holds answers its whole batch by the time it calls complete(),    *)
(* however a crash, a stop or an exception cuts _process short.            *)
SlotInv == SlotsFollowWorker /\ SlotCoversJob

Copies(list, b) == Cardinality({i \in DOMAIN list : list[i] = b})

(* However many janitors and restarting workers drain the same processing  *)
(* list, BLMOVE and LMOVE never leave two copies of a batch in Redis.      *)
OneCopy ==
    \A b \in Batches :
        LET places == {w \in Workers : Contains(processing[w], b)} IN
        /\ Copies(batchQueue, b) + Cardinality(places) =< 1
        /\ \A w \in places : Copies(processing[w], b) = 1

(* The first result of a decodable request is "image missing" only when    *)
(* its image ran out its TTL or an attempt at its batch ended early, by an *)
(* exception or by stop(): that attempt's finally clause deletes images    *)
(* which the redelivered batch still needs.  Crashes, stalls, lost replies *)
(* and recoveries, and early ends of OTHER batches, never cost an image.   *)
FirstAnswerGood ==
    \A r \in Requests \ (Corrupt \cup spoiled) : answer[r] # "error"

(* Without a fault no request is served twice and no janitor touches a     *)
(* list: recovery never mistakes a live worker for a dead one.             *)
NoFaultNoDuplicate ==
    faults = 0 => again = {} /\ \A w \in Workers : janitor[w] = Resting

-----------------------------------------------------------------------------
(* The dispatch queue implements the at-least-once queue *)

Abstract == INSTANCE AtLeastOnceQueue WITH
    state <- [b \in Batches |->
                IF Contains(batchQueue, b) THEN "queued"
                ELSE IF Held(b) THEN "held"
                ELSE IF b \in dispatched THEN "done" ELSE "new"],
    answered <- {r \in Requests : answer[r] # NoAnswer}

(* Every step of the pool is a step of the promised queue or none.         *)
QueueContract == Abstract!Spec

-----------------------------------------------------------------------------
(* Liveness *)

(* Crashes, stalls and dead heartbeat tasks only delay an answer: where    *)
(* workers are restarted, every dispatched batch of a known model is       *)
(* answered in the end.                                                    *)
EveryBatchAnswered ==
    Restarts => \A b \in Batches \ Poison : b \in dispatched ~> Answered(b)

Stranded(w, b) == worker[w] = "down" /\ Contains(processing[w], b)

(* Whether a janitor is at work on w, or will be after its last HGETALL    *)
Visited(w) ==
    \E v \in Janitors : w \in janitor[v].stale \/ janitor[v].target = w

ASurvivor == \E v \in Janitors : <>[](worker[v] = "up")

(* Without any restart, a survivor's janitor takes a dead worker's batches *)
(* back, provided the dead worker has a heartbeat record at all (one that  *)
(* died between its first reserve and its first beat has none) and no      *)
(* janitor was on its way to delete that record when it died.              *)
RecordedDeadRecovered ==
    ASurvivor =>
        \A w \in Workers, b \in Batches :
            Stranded(w, b) /\ heartbeat[w] # "none" /\ ~ Visited(w)
                ~> ~ Stranded(w, b)

-----------------------------------------------------------------------------
(* What the documentation says and the code does not do *)

(* janitor.py:3-7: once a worker's heartbeat goes stale any surviving       *)
(* worker's janitor moves its batches back -- here, after two crashes.      *)
SurvivorRecovers ==
    ASurvivor =>
        \A w \in Workers, b \in Batches :
            Stranded(w, b) /\ heartbeat[w] # "none" ~> ~ Stranded(w, b)
=============================================================================
