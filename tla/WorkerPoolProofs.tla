-------------------------- MODULE WorkerPoolProofs --------------------------
(***************************************************************************)
(* Theorems about WorkerPool, for every number of workers, slots, batches  *)
(* and faults: no batch leaves Redis before all its requests are answered, *)
(* none is there twice, the pool implements AtLeastOnceQueue, the first    *)
(* answer is a good one, nothing happens twice without a fault, and what a *)
(* survivor's janitor can find stays there to be found.                    *)
(***************************************************************************)
EXTENDS WorkerPool, QueueLemmas, FiniteSetTheorems

USE DEF queueVars, storeVars, workerVars, slotVars

-----------------------------------------------------------------------------
(* The list operations keep every batch in Redis *)

(* BLMOVE only moves a batch. *)
LEMMA TakeRightKeeps ==
    ASSUME batchQueue \in Seq(Batches), processing \in [Workers -> Seq(Batches)],
           NEW w \in Workers, TakeRight(w)
    PROVE  /\ batchQueue' \in Seq(Batches)
           /\ processing' \in [Workers -> Seq(Batches)]
           /\ Last(batchQueue) \in Batches
           /\ \A b : InRedis(b) => InRedis(b)'
<1>1. /\ batchQueue # <<>>
      /\ batchQueue' = Front(batchQueue)
      /\ processing' = [processing EXCEPT ![w] = Cons(Last(batchQueue), @)]
  BY DEF TakeRight
<1>2. /\ Last(batchQueue) \in Batches
      /\ Front(batchQueue) \in Seq(Batches)
      /\ \A b : Contains(batchQueue, b) =>
                    b = Last(batchQueue) \/ Contains(Front(batchQueue), b)
  BY <1>1, FrontContents
<1> DEFINE new == Cons(Last(batchQueue), processing[w])
<1>3. /\ new \in Seq(Batches)
      /\ Contains(new, Last(batchQueue))
      /\ \A b : Contains(processing[w], b) => Contains(new, b)
  BY <1>2, ConsContents
<1>4. /\ processing' \in [Workers -> Seq(Batches)]
      /\ processing'[w] = new
      /\ \A v \in Workers : v # w => processing'[v] = processing[v]
  BY <1>1, <1>3
<1> HIDE DEF new
<1>5. ASSUME NEW b, InRedis(b)
      PROVE  InRedis(b)'
  <2>1. CASE Contains(batchQueue, b)
    BY <1>1, <1>2, <1>3, <1>4, <2>1 DEF InRedis, Held
  <2>2. CASE Held(b)
    BY <1>3, <1>4, <2>2 DEF InRedis, Held
  <2> QED  BY <1>5, <2>1, <2>2 DEF InRedis
<1> QED  BY <1>1, <1>2, <1>4, <1>5

(* LMOVE only moves a batch. *)
LEMMA RecoverOneKeeps ==
    ASSUME batchQueue \in Seq(Batches), processing \in [Workers -> Seq(Batches)],
           NEW w \in Workers, RecoverOne(w)
    PROVE  /\ batchQueue' \in Seq(Batches)
           /\ processing' \in [Workers -> Seq(Batches)]
           /\ \A b : InRedis(b) => InRedis(b)'
<1>1. /\ processing[w] # <<>>
      /\ batchQueue' = Cons(Head(processing[w]), batchQueue)
      /\ processing' = [processing EXCEPT ![w] = Tail(processing[w])]
  BY DEF RecoverOne
<1>2. /\ Head(processing[w]) \in Batches
      /\ Tail(processing[w]) \in Seq(Batches)
      /\ \A b : Contains(processing[w], b) =>
                    b = Head(processing[w]) \/ Contains(Tail(processing[w]), b)
  BY <1>1, TailContents
<1>3. /\ batchQueue' \in Seq(Batches)
      /\ Contains(batchQueue', Head(processing[w]))
      /\ \A b : Contains(batchQueue, b) => Contains(batchQueue', b)
  BY <1>1, <1>2, ConsContents
<1>4. /\ processing' \in [Workers -> Seq(Batches)]
      /\ processing'[w] = Tail(processing[w])
      /\ \A v \in Workers : v # w => processing'[v] = processing[v]
  BY <1>1, <1>2
<1>5. ASSUME NEW b, InRedis(b)
      PROVE  InRedis(b)'
  BY <1>2, <1>3, <1>4, <1>5 DEF InRedis, Held
<1> QED  BY <1>3, <1>4, <1>5

(* LREM takes out at most the batch that is completed. *)
LEMMA RemoveFromKeeps ==
    ASSUME batchQueue \in Seq(Batches), processing \in [Workers -> Seq(Batches)],
           NEW w \in Workers, NEW c, RemoveFrom(w, c)
    PROVE  /\ batchQueue' = batchQueue
           /\ processing' \in [Workers -> Seq(Batches)]
           /\ \A b : InRedis(b) /\ b # c => InRedis(b)'
<1>1. batchQueue' = batchQueue
  BY DEF RemoveFrom
<1>2. CASE UNCHANGED processing
  BY <1>1, <1>2 DEF InRedis, Held
<1>3. ASSUME NEW i \in 1 .. Len(processing[w]),
             processing[w][i] = c,
             processing' = [processing EXCEPT ![w] = RemoveAt(processing[w], i)]
      PROVE  /\ processing' \in [Workers -> Seq(Batches)]
             /\ \A b : InRedis(b) /\ b # c => InRedis(b)'
  <2> DEFINE shorter == RemoveAt(processing[w], i)
  <2>1. /\ shorter \in Seq(Batches)
        /\ \A b : Contains(processing[w], b) /\ b # c => Contains(shorter, b)
    BY <1>3, RemoveAtContents
  <2>2. /\ processing' \in [Workers -> Seq(Batches)]
        /\ processing'[w] = shorter
        /\ \A v \in Workers : v # w => processing'[v] = processing[v]
    BY <1>3, <2>1
  <2> HIDE DEF shorter
  <2> QED  BY <1>1, <2>1, <2>2 DEF InRedis, Held
<1> QED  BY <1>1, <1>2, <1>3 DEF RemoveFrom

-----------------------------------------------------------------------------
(* Type correctness *)

(* The initial state has its types, and no slot runs in it. *)
LEMMA InitType == Init => TypeOK /\ SlotsFollowWorker
<1>1. \A S : <<>> \in Seq(S)
  BY EmptySeq
<1>2. Init => TypeOK
  <2> SUFFICES ASSUME Init PROVE TypeOK
    OBVIOUS
  <2>1. /\ batchQueue \in Seq(Batches)
        /\ processing \in [Workers -> Seq(Batches)]
    BY <1>1 DEF Init
  <2>2. janitor \in [Workers -> [stale : SUBSET Workers,
                                target : Workers \cup {NoWorker},
                                drained : BOOLEAN]]
    BY DEF Init, Resting
  <2>3. faults \in 0 .. MaxFaults
    BY SubsetsAssumption DEF Init
  <2> QED  BY <2>1, <2>2, <2>3 DEF Init, TypeOK
<1>3. Init => SlotsFollowWorker
  BY HostAssumption DEF Init, SlotsFollowWorker
<1> QED  BY <1>2, <1>3

(* A janitor's next visit is a well-formed janitor record. *)
LEMMA VisitType ==
    ASSUME NEW stale \in SUBSET Workers, NEW visit \in NextVisits(stale)
    PROVE  visit \in [stale : SUBSET Workers, target : Workers \cup {NoWorker},
                      drained : BOOLEAN]
<1>1. CASE stale = {}
  <2>1. visit = [stale |-> {}, target |-> NoWorker, drained |-> FALSE]
    BY <1>1 DEF NextVisits, Resting
  <2> QED  BY <2>1
<1>2. CASE stale # {}
  <2>1. PICK v \in stale : visit = [stale |-> stale \ {v}, target |-> v, drained |-> FALSE]
    BY <1>2 DEF NextVisits
  <2> QED  BY <2>1
<1> QED  BY <1>1, <1>2

(* Only requests are spoiled. *)
LEMMA GiveUpType ==
    ASSUME TypeOK, NEW quitting \in SUBSET Slots, GiveUp(quitting),
           \A s \in quitting : job[s] # NoBatch
    PROVE  spoiled' \subseteq Requests
<1>1. \A s \in quitting : job[s] \in Batches
  BY DEF TypeOK
<1>2. \A s \in quitting : Members[job[s]] \subseteq Requests
  BY <1>1, MembersAssumption
<1> QED  BY <1>2 DEF GiveUp, TypeOK

(* Every step keeps the types, and keeps slots out of dead processes. *)
LEMMA TypeStep ==
    TypeOK /\ SlotsFollowWorker /\ [Next]_vars => TypeOK' /\ SlotsFollowWorker'
<1> SUFFICES ASSUME TypeOK, SlotsFollowWorker, [Next]_vars
             PROVE  TypeOK' /\ SlotsFollowWorker'
  OBVIOUS
<1> USE HostAssumption, MembersAssumption, SubsetsAssumption, NullAssumption
<1>0. /\ batchQueue \in Seq(Batches)
      /\ processing \in [Workers -> Seq(Batches)]
  BY DEF TypeOK
<1>1. ASSUME NEW b \in Batches, Dispatch(b)
      PROVE  TypeOK' /\ SlotsFollowWorker'
  <2>1. batchQueue' \in Seq(Batches)
    BY <1>0, <1>1, ConsContents DEF Dispatch
  <2> QED  BY <1>1, <2>1 DEF Dispatch, TypeOK, SlotsFollowWorker
<1>2. ASSUME NEW s \in Slots, Reserve(s)
      PROVE  TypeOK' /\ SlotsFollowWorker'
  <2>1. /\ batchQueue' \in Seq(Batches)
        /\ processing' \in [Workers -> Seq(Batches)]
        /\ Last(batchQueue) \in Batches
    BY <1>0, <1>2, TakeRightKeeps DEF Reserve
  <2> QED  BY <1>2, <2>1 DEF Reserve, TypeOK, SlotsFollowWorker
<1>3. ASSUME NEW s \in Slots, ReserveReplyLost(s)
      PROVE  TypeOK' /\ SlotsFollowWorker'
  <2>1. /\ batchQueue' \in Seq(Batches)
        /\ processing' \in [Workers -> Seq(Batches)]
    BY <1>0, <1>3, TakeRightKeeps DEF ReserveReplyLost
  <2> QED  BY <1>3, <2>1 DEF ReserveReplyLost, Fault, TypeOK, SlotsFollowWorker
<1>4. ASSUME NEW s \in Slots, FetchImages(s)
      PROVE  TypeOK' /\ SlotsFollowWorker'
  BY <1>4 DEF FetchImages, TypeOK, SlotsFollowWorker
<1>5. ASSUME NEW s \in Slots, Execute(s)
      PROVE  TypeOK' /\ SlotsFollowWorker'
  <2> DEFINE results == {<<r, IF r \in Kept(s) THEN "ok" ELSE "error">> :
                            r \in Members[job[s]]}
  <2>1. job[s] \in Batches
    BY <1>5 DEF Execute, Executed, TypeOK
  <2>2. results \subseteq Requests \X Status
    BY <2>1 DEF Status
  <2>3. Executed(s, results)
    BY <1>5 DEF Execute
  <2> HIDE DEF results
  <2> QED  BY <2>2, <2>3 DEF Executed, TypeOK, SlotsFollowWorker
<1>6. ASSUME NEW s \in Slots, ExecuteTimesOut(s)
      PROVE  TypeOK' /\ SlotsFollowWorker'
  <2> DEFINE results == Members[job[s]] \X {"timeout"}
  <2>1. job[s] \in Batches
    BY <1>6 DEF ExecuteTimesOut, Executed, TypeOK
  <2>2. results \subseteq Requests \X Status
    BY <2>1 DEF Status
  <2>3. Executed(s, results)
    BY <1>6 DEF ExecuteTimesOut
  <2> HIDE DEF results
  <2> QED  BY <2>2, <2>3 DEF Executed, TypeOK, SlotsFollowWorker
<1>7. ASSUME NEW s \in Slots, ExecuteRaises(s)
      PROVE  TypeOK' /\ SlotsFollowWorker'
  <2>1. job[s] # NoBatch
    BY <1>7 DEF ExecuteRaises, TypeOK
  <2>2. spoiled' \subseteq Requests
    BY <1>7, <2>1, GiveUpType DEF ExecuteRaises
  <2> QED  BY <1>7, <2>1, <2>2 DEF ExecuteRaises, TypeOK, SlotsFollowWorker
<1>8. ASSUME NEW s \in Slots, PublishResult(s)
      PROVE  TypeOK' /\ SlotsFollowWorker'
  <2>1. PICK res \in outbox[s] :
            /\ \/ /\ answer' = [answer EXCEPT ![res[1]] = res[2]]
                  /\ again' = again
               \/ /\ again' = again \cup {res[1]}
                  /\ answer' = answer
            /\ outbox' = [outbox EXCEPT ![s] = @ \ {res}]
            /\ pc' = [pc EXCEPT ![s] = IF outbox[s] = {res} THEN "complete"
                                                            ELSE "publish"]
    BY <1>8 DEF PublishResult
  <2>2. res[1] \in Requests /\ res[2] \in Status
    BY <2>1 DEF TypeOK
  <2> QED  BY <1>8, <2>1, <2>2 DEF PublishResult, TypeOK, SlotsFollowWorker
<1>9. ASSUME NEW s \in Slots, Complete(s)
      PROVE  TypeOK' /\ SlotsFollowWorker'
  <2>1. batchQueue' = batchQueue /\ processing' \in [Workers -> Seq(Batches)]
    BY <1>0, <1>9, RemoveFromKeeps DEF Complete
  <2> QED  BY <1>9, <2>1 DEF Complete, TypeOK, SlotsFollowWorker
<1>10. ASSUME NEW s \in Slots, SlotError(s)
       PROVE  TypeOK' /\ SlotsFollowWorker'
  <2>1. job[s] # NoBatch
    BY <1>10 DEF SlotError, TypeOK
  <2>2. spoiled' \subseteq Requests
    BY <1>10, <2>1, GiveUpType DEF SlotError
  <2> QED  BY <1>10, <2>1, <2>2 DEF SlotError, Fault, TypeOK, SlotsFollowWorker
<1>11. ASSUME NEW s \in Slots, Cleanup(s) \/ CleanupFails(s)
       PROVE  TypeOK' /\ SlotsFollowWorker'
  <2>1. EndJob(s) /\ images' \in SUBSET Requests /\ faults' \in 0 .. MaxFaults
    BY <1>11 DEF Cleanup, CleanupFails, Fault, TypeOK
  <2> QED  BY <2>1 DEF EndJob, TypeOK, SlotsFollowWorker
<1>12. ASSUME NEW r \in Requests, ImageExpires(r)
       PROVE  TypeOK' /\ SlotsFollowWorker'
  BY <1>12 DEF ImageExpires, Fault, TypeOK, SlotsFollowWorker
<1>13. ASSUME NEW w \in Workers, Beat(w) \/ HeartbeatTaskDies(w)
       PROVE  TypeOK' /\ SlotsFollowWorker'
  <2>1. CASE Beat(w)
    BY <2>1 DEF Beat, TypeOK, SlotsFollowWorker
  <2>2. CASE HeartbeatTaskDies(w)
    BY <2>2 DEF HeartbeatTaskDies, Fault, TypeOK, SlotsFollowWorker
  <2> QED  BY <1>13, <2>1, <2>2
<1>14. ASSUME NEW w \in Workers, Expire(w) \/ Stall(w)
       PROVE  TypeOK' /\ SlotsFollowWorker'
  <2>1. GoesStale(w) /\ faults' \in 0 .. MaxFaults
    BY <1>14 DEF Expire, Stall, Fault, TypeOK
  <2> QED  BY <2>1 DEF GoesStale, TypeOK, SlotsFollowWorker
<1>15. ASSUME NEW w \in Workers, JanitorScan(w)
       PROVE  TypeOK' /\ SlotsFollowWorker'
  <2>1. PICK visit \in NextVisits({v \in Workers \ {w} : heartbeat[v] = "stale"}) :
            janitor' = [janitor EXCEPT ![w] = visit]
    BY <1>15 DEF JanitorScan
  <2> QED  BY <1>15, <2>1, VisitType DEF JanitorScan, TypeOK, SlotsFollowWorker
<1>16. ASSUME NEW w \in Workers, JanitorMove(w)
       PROVE  TypeOK' /\ SlotsFollowWorker'
  <2>1. janitor[w].target \in Workers
    BY <1>16 DEF JanitorMove, TypeOK
  <2>2. /\ batchQueue' \in Seq(Batches)
        /\ processing' \in [Workers -> Seq(Batches)]
    BY <1>0, <1>16, <2>1, RecoverOneKeeps DEF JanitorMove
  <2> QED  BY <1>16, <2>2 DEF JanitorMove, TypeOK, SlotsFollowWorker
<1>17. ASSUME NEW w \in Workers, JanitorDrained(w)
       PROVE  TypeOK' /\ SlotsFollowWorker'
  <2>1. janitor' = [janitor EXCEPT ![w] = [janitor[w] EXCEPT !.drained = TRUE]]
    BY <1>17 DEF JanitorDrained
  <2>2. [janitor[w] EXCEPT !.drained = TRUE] \in
            [stale : SUBSET Workers, target : Workers \cup {NoWorker},
             drained : BOOLEAN]
    <3>1. ASSUME NEW j \in [stale : SUBSET Workers, target : Workers \cup {NoWorker},
                            drained : BOOLEAN]
          PROVE  [j EXCEPT !.drained = TRUE] \in
                    [stale : SUBSET Workers, target : Workers \cup {NoWorker},
                     drained : BOOLEAN]
      OBVIOUS
    <3> QED  BY <3>1 DEF TypeOK
  <2>3. janitor' \in [Workers -> [stale : SUBSET Workers,
                                 target : Workers \cup {NoWorker},
                                 drained : BOOLEAN]]
    BY <2>1, <2>2 DEF TypeOK
  <2> QED  BY <1>17, <2>3 DEF JanitorDrained, TypeOK, SlotsFollowWorker
<1>18. ASSUME NEW w \in Workers, JanitorForget(w)
       PROVE  TypeOK' /\ SlotsFollowWorker'
  <2>1. PICK visit \in NextVisits(janitor[w].stale) :
            janitor' = [janitor EXCEPT ![w] = visit]
    BY <1>18 DEF JanitorForget
  <2>2. janitor[w].stale \in SUBSET Workers
    BY DEF TypeOK
  <2> QED  BY <1>18, <2>1, <2>2, VisitType DEF JanitorForget, TypeOK, SlotsFollowWorker
<1>19. ASSUME NEW w \in Workers, JanitorError(w)
       PROVE  TypeOK' /\ SlotsFollowWorker'
  BY <1>19 DEF JanitorError, Fault, Resting, TypeOK, SlotsFollowWorker
<1>20. ASSUME NEW w \in Workers, Start(w)
       PROVE  TypeOK' /\ SlotsFollowWorker'
  BY <1>20 DEF Start, TypeOK, SlotsFollowWorker
<1>21. ASSUME NEW w \in Workers, RecoverOwn(w)
       PROVE  TypeOK' /\ SlotsFollowWorker'
  <2>1. /\ batchQueue' \in Seq(Batches)
        /\ processing' \in [Workers -> Seq(Batches)]
    BY <1>0, <1>21, RecoverOneKeeps DEF RecoverOwn
  <2> QED  BY <1>21, <2>1 DEF RecoverOwn, TypeOK, SlotsFollowWorker
<1>22. ASSUME NEW w \in Workers, Launch(w)
       PROVE  TypeOK' /\ SlotsFollowWorker'
  BY <1>22 DEF Launch, SlotsOf, TypeOK, SlotsFollowWorker
<1>23. ASSUME NEW w \in Workers, Crash(w)
       PROVE  TypeOK' /\ SlotsFollowWorker'
  BY <1>23 DEF Crash, SlotsOf, Fault, Resting, TypeOK, SlotsFollowWorker
<1>24. ASSUME NEW w \in Workers, Stop(w)
       PROVE  TypeOK' /\ SlotsFollowWorker'
  <2>1. /\ images' \in SUBSET Requests
        /\ faults' \in 0 .. MaxFaults
        /\ worker' = [worker EXCEPT ![w] = "stopping"]
        /\ beating' = [beating EXCEPT ![w] = FALSE]
        /\ janitor' = [janitor EXCEPT ![w] = Resting]
        /\ UNCHANGED <<answer, again, heartbeat, queueVars, dispatched>>
    BY <1>24 DEF Stop, Fault, TypeOK
  <2>2. /\ fetched' \in [Slots -> SUBSET Requests]
        /\ outbox' \in [Slots -> SUBSET (Requests \X Status)]
    BY <1>24 DEF Stop, TypeOK
  <2> DEFINE quiet == {s \in SlotsOf(w) : pc[s] \in {"idle", "cleanup"}}
  <2>3. /\ pc' = [s \in Slots |-> IF s \in quiet THEN "ended"
                                  ELSE IF s \in SlotsOf(w) THEN "cleanup" ELSE pc[s]]
        /\ job' = [s \in Slots |-> IF s \in quiet THEN NoBatch ELSE job[s]]
    BY <1>24 DEF Stop
  <2>4. /\ \A s \in SlotsOf(w) \ quiet : pc[s] \notin {"idle", "cleanup"}
        /\ quiet \subseteq SlotsOf(w)
    OBVIOUS
  <2> HIDE DEF quiet
  <2>5. /\ pc' \in [Slots -> {"idle", "fetch", "execute", "publish", "complete",
                              "cleanup", "ended"}]
        /\ job' \in [Slots -> Batches \cup {NoBatch}]
        /\ \A s \in Slots : Host[s] # w => pc'[s] = pc[s]
    BY <2>3, <2>4 DEF SlotsOf, TypeOK
  <2>6. \A s \in Slots : job'[s] = NoBatch <=> pc'[s] \in {"idle", "ended"}
    <3>1. \A s \in SlotsOf(w) : pc[s] # "ended"
      BY <1>24 DEF Stop, SlotsOf, SlotsFollowWorker
    <3> QED  BY <2>3, <2>4, <3>1 DEF TypeOK
  <2>7. worker[w] = "up"
    BY <1>24 DEF Stop
  <2>8. spoiled' \subseteq Requests
    <3> DEFINE busy == {s \in SlotsOf(w) \ {s \in SlotsOf(w) :
                                pc[s] \in {"idle", "cleanup"}} : job[s] # NoBatch}
    <3>1. busy \in SUBSET Slots /\ \A s \in busy : job[s] # NoBatch
      BY DEF SlotsOf
    <3>2. GiveUp(busy)
      BY <1>24 DEF Stop
    <3> HIDE DEF busy
    <3> QED  BY <3>1, <3>2, GiveUpType
  <2>9. TypeOK'
    BY <2>1, <2>2, <2>5, <2>6, <2>8 DEF TypeOK, Resting
  <2>10. SlotsFollowWorker'
    BY <2>1, <2>5, <2>7 DEF SlotsFollowWorker, TypeOK
  <2> QED  BY <2>9, <2>10
<1>25. ASSUME NEW w \in Workers, Stopped(w)
       PROVE  TypeOK' /\ SlotsFollowWorker'
  BY <1>25 DEF Stopped, SlotsOf, TypeOK, SlotsFollowWorker
<1>26. CASE UNCHANGED vars
  BY <1>26 DEF vars, TypeOK, SlotsFollowWorker
<1> QED
  BY <1>1, <1>2, <1>3, <1>4, <1>5, <1>6, <1>7, <1>8, <1>9, <1>10, <1>11,
     <1>12, <1>13, <1>14, <1>15, <1>16, <1>17, <1>18, <1>19, <1>20, <1>21,
     <1>22, <1>23, <1>24, <1>25, <1>26
     DEF Next, SlotStep, SlotFault, JanitorStep, LifeStep, WorkerFault

(* Every reachable state of the pool has its types. *)
THEOREM TypeCorrect == Spec => [](TypeOK /\ SlotsFollowWorker)
BY InitType, TypeStep, PTL DEF Spec

-----------------------------------------------------------------------------
(* No batch is forgotten before it is answered *)

IInv == TypeOK /\ SlotInv /\ AnsweredBeforeForgotten

(* A mailbox that received a result has received it for good. *)
LEMMA AnswersStay ==
    ASSUME TypeOK, [Next]_vars, NEW r \in Requests, answer[r] # NoAnswer
    PROVE  answer'[r] # NoAnswer
<1>1. ASSUME NEW s \in Slots, PublishResult(s)
      PROVE  answer'[r] # NoAnswer
  <2>1. PICK res \in outbox[s] :
            \/ answer' = [answer EXCEPT ![res[1]] = res[2]]
            \/ answer' = answer
    BY <1>1 DEF PublishResult
  <2>2. res[2] # NoAnswer
    BY <2>1, NullAssumption DEF TypeOK
  <2> QED  BY <2>1, <2>2 DEF TypeOK
<1>2. CASE UNCHANGED answer
  BY <1>2
<1>3. (\E s \in Slots : PublishResult(s)) \/ UNCHANGED answer
  BY DEF Next, vars, Dispatch, SlotStep, Reserve, FetchImages, Execute,
         ExecuteTimesOut, Executed, ExecuteRaises, Complete, Cleanup, EndJob,
         SlotFault, ReserveReplyLost, SlotError, CleanupFails, Beat, Expire, Stall,
         GoesStale, HeartbeatTaskDies, JanitorStep, JanitorScan, JanitorMove,
         JanitorDrained, JanitorForget, JanitorError, LifeStep, RecoverOwn, Launch,
         Stopped, Start, WorkerFault, Crash, Stop, ImageExpires
<1> QED  BY <1>1, <1>2, <1>3

(* What a step does to a slot that is publishing or completing after it:   *)
(* nothing, or it is the slot's own execution or publication.              *)
LEMMA BusyFrame ==
    ASSUME TypeOK, [Next]_vars, NEW s \in Slots, pc'[s] \in {"publish", "complete"}
    PROVE  \/ pc'[s] = pc[s] /\ job'[s] = job[s] /\ outbox'[s] = outbox[s]
           \/ Execute(s) \/ ExecuteTimesOut(s) \/ PublishResult(s)
<1> DEFINE Frame == pc'[s] = pc[s] /\ job'[s] = job[s] /\ outbox'[s] = outbox[s]
<1>1. CASE UNCHANGED <<pc, job, outbox>>
  BY <1>1
<1>2. ASSUME NEW t \in Slots, SlotStep(t) \/ SlotFault(t), t # s
      PROVE  Frame
  <2>1. CASE Reserve(t)
    BY <1>2, <2>1 DEF Reserve, TypeOK
  <2>2. CASE FetchImages(t)
    BY <1>2, <2>2 DEF FetchImages, TypeOK
  <2>3. CASE Execute(t) \/ ExecuteTimesOut(t)
    BY <1>2, <2>3 DEF Execute, ExecuteTimesOut, Executed, TypeOK
  <2>4. CASE ExecuteRaises(t)
    BY <1>2, <2>4 DEF ExecuteRaises, TypeOK
  <2>5. CASE PublishResult(t)
    <3>1. /\ job' = job
          /\ \E res : outbox' = [outbox EXCEPT ![t] = @ \ {res}]
          /\ \E new : pc' = [pc EXCEPT ![t] = new]
      BY <2>5 DEF PublishResult
    <3> QED  BY <1>2, <3>1 DEF TypeOK
  <2>6. CASE Complete(t)
    BY <1>2, <2>6 DEF Complete, TypeOK
  <2>7. CASE Cleanup(t) \/ CleanupFails(t)
    <3>1. EndJob(t)
      BY <2>7 DEF Cleanup, CleanupFails
    <3> QED  BY <1>2, <3>1 DEF EndJob, TypeOK
  <2>8. CASE ReserveReplyLost(t)
    BY <2>8 DEF ReserveReplyLost
  <2>9. CASE SlotError(t)
    BY <1>2, <2>9 DEF SlotError, TypeOK
  <2> QED  BY <1>2, <2>1, <2>2, <2>3, <2>4, <2>5, <2>6, <2>7, <2>8, <2>9
           DEF SlotStep, SlotFault
<1>3. ASSUME SlotStep(s) \/ SlotFault(s)
      PROVE  Frame \/ Execute(s) \/ ExecuteTimesOut(s) \/ PublishResult(s)
  <2>1. CASE ReserveReplyLost(s)
    BY <2>1 DEF ReserveReplyLost
  <2>2. CASE Reserve(s) \/ FetchImages(s) \/ ExecuteRaises(s) \/ Complete(s) \/ SlotError(s)
    <3>1. pc'[s] \in {"fetch", "execute", "cleanup"}
      BY <2>2 DEF Reserve, FetchImages, ExecuteRaises, Complete, SlotError, TypeOK
    <3> QED  BY <3>1
  <2>3. CASE Cleanup(s) \/ CleanupFails(s)
    <3>1. EndJob(s)
      BY <2>3 DEF Cleanup, CleanupFails
    <3>2. pc'[s] \in {"idle", "ended"}
      BY <3>1 DEF EndJob, TypeOK
    <3> QED  BY <3>2
  <2> QED  BY <1>3, <2>1, <2>2, <2>3 DEF SlotStep, SlotFault
<1>4. ASSUME NEW w \in Workers, Launch(w) \/ Crash(w) \/ Stop(w)
      PROVE  Frame
  <2>1. CASE Launch(w)
    BY <2>1 DEF Launch, TypeOK
  <2>2. CASE Crash(w)
    BY <2>2 DEF Crash, TypeOK
  <2>3. CASE Stop(w)
    BY <2>3 DEF Stop, TypeOK
  <2> QED  BY <1>4, <2>1, <2>2, <2>3
<1>5. \/ \E t \in Slots : SlotStep(t) \/ SlotFault(t)
      \/ \E w \in Workers : Launch(w) \/ Crash(w) \/ Stop(w)
      \/ UNCHANGED <<pc, job, outbox>>
  BY DEF Next, vars, Dispatch, Beat, Expire, Stall, GoesStale, HeartbeatTaskDies,
         JanitorStep, JanitorScan, JanitorMove, JanitorDrained, JanitorForget,
         JanitorError, LifeStep, RecoverOwn, Stopped, Start, WorkerFault,
         ImageExpires
<1> HIDE DEF Frame
<1> QED
  <2>1. Frame => pc'[s] = pc[s] /\ job'[s] = job[s] /\ outbox'[s] = outbox[s]
    BY DEF Frame
  <2>2. UNCHANGED <<pc, job, outbox>> => Frame
    BY DEF Frame
  <2> QED  BY <1>2, <1>3, <1>4, <1>5, <2>1, <2>2

(* Published and still-to-publish results go on covering the whole batch. *)
LEMMA CoversStep ==
    ASSUME TypeOK, SlotCoversJob, [Next]_vars
    PROVE  SlotCoversJob'
<1> SUFFICES ASSUME NEW s \in Slots
             PROVE  /\ pc'[s] = "publish" =>
                        \A r \in Members[job'[s]] :
                            \/ answer'[r] # NoAnswer
                            \/ \E st \in Status : <<r, st>> \in outbox'[s]
                    /\ pc'[s] = "complete" =>
                        \A r \in Members[job'[s]] : answer'[r] # NoAnswer
  BY DEF SlotCoversJob, Answered
<1>1. CASE pc'[s] \notin {"publish", "complete"}
  BY <1>1
<1>2. CASE pc'[s] = pc[s] /\ job'[s] = job[s] /\ outbox'[s] = outbox[s]
  <2>1. pc[s] \in {"publish", "complete"} => Members[job[s]] \subseteq Requests
    BY MembersAssumption DEF TypeOK
  <2> QED  BY <1>2, <2>1, AnswersStay DEF SlotCoversJob, Answered
<1>3. CASE Execute(s) \/ ExecuteTimesOut(s)
  <2>1. PICK results : Executed(s, results) /\
            \A r \in Members[job[s]] : \E st \in Status : <<r, st>> \in results
    <3>1. CASE Execute(s)
      <4> DEFINE results ==
            {<<r, IF r \in Kept(s) THEN "ok" ELSE "error">> :
                r \in Members[job[s]]}
      <4>1. Executed(s, results)
        BY <3>1 DEF Execute
      <4>2. ASSUME NEW r \in Members[job[s]]
            PROVE  \E st \in Status : <<r, st>> \in results
        BY DEF Status
      <4> HIDE DEF results
      <4> QED  BY <4>1, <4>2
    <3>2. CASE ExecuteTimesOut(s)
      <4>1. Executed(s, Members[job[s]] \X {"timeout"})
        BY <3>2 DEF ExecuteTimesOut
      <4>2. \A r \in Members[job[s]] : <<r, "timeout">> \in Members[job[s]] \X {"timeout"}
        OBVIOUS
      <4> QED  BY <4>1, <4>2 DEF Status
    <3> QED  BY <1>3, <3>1, <3>2
  <2>2. pc'[s] = "publish" /\ job'[s] = job[s] /\ outbox'[s] = results
    BY <2>1 DEF Executed, TypeOK
  <2> QED  BY <2>1, <2>2
<1>4. CASE PublishResult(s)
  <2>1. PICK res \in outbox[s] :
            /\ \/ /\ answer[res[1]] = NoAnswer
                  /\ answer' = [answer EXCEPT ![res[1]] = res[2]]
               \/ /\ answer[res[1]] # NoAnswer
                  /\ answer' = answer
            /\ outbox' = [outbox EXCEPT ![s] = @ \ {res}]
            /\ pc' = [pc EXCEPT ![s] = IF outbox[s] = {res} THEN "complete"
                                                            ELSE "publish"]
    BY <1>4 DEF PublishResult
  <2>2. /\ pc[s] = "publish" /\ job'[s] = job[s]
        /\ outbox'[s] = outbox[s] \ {res}
        /\ pc'[s] = IF outbox[s] = {res} THEN "complete" ELSE "publish"
    BY <1>4, <2>1 DEF PublishResult, TypeOK
  <2>3. res[1] \in Requests /\ res[2] \in Status /\ res = <<res[1], res[2]>>
    BY <2>1 DEF TypeOK
  <2>4. answer'[res[1]] # NoAnswer
    BY <2>1, <2>3, NullAssumption DEF TypeOK
  <2>5. job[s] \in Batches /\ Members[job[s]] \subseteq Requests
    BY <2>2, MembersAssumption DEF TypeOK
  <2>6. ASSUME NEW r \in Members[job[s]]
        PROVE  answer'[r] # NoAnswer \/ \E st \in Status : <<r, st>> \in outbox'[s]
    <3>1. CASE answer[r] # NoAnswer
      BY <2>5, <3>1, AnswersStay
    <3>2. CASE answer[r] = NoAnswer
      <4>1. PICK st \in Status : <<r, st>> \in outbox[s]
        BY <2>2, <3>2 DEF SlotCoversJob
      <4>2. CASE <<r, st>> = res
        BY <2>4, <4>2
      <4>3. CASE <<r, st>> # res
        BY <2>2, <4>1, <4>3
      <4> QED  BY <4>2, <4>3
    <3> QED  BY <3>1, <3>2
  <2>7. pc'[s] = "complete" => outbox'[s] = {}
    BY <2>2
  <2> QED  BY <2>2, <2>6, <2>7
<1> QED  BY <1>1, <1>2, <1>3, <1>4, BusyFrame

(* The scheduler pushes, workers and janitors move, complete() removes;    *)
(* no other step touches the lists.                                        *)
LEMMA QueueFrame ==
    ASSUME [Next]_vars
    PROVE  \/ UNCHANGED <<batchQueue, processing, dispatched>>
           \/ \E c \in Batches : Dispatch(c)
           \/ \E s \in Slots : TakeRight(Host[s]) /\ dispatched' = dispatched
           \/ \E s \in Slots : Complete(s)
           \/ \E w \in Workers : RecoverOne(w) /\ dispatched' = dispatched
           \/ \E w \in Workers : /\ janitor[w].target # NoWorker
                                 /\ RecoverOne(janitor[w].target)
                                 /\ dispatched' = dispatched
BY DEF Next, vars, SlotStep, Reserve, FetchImages, Execute, ExecuteTimesOut,
       Executed, ExecuteRaises, PublishResult, Cleanup, EndJob, SlotFault,
       ReserveReplyLost, SlotError, CleanupFails, Beat, Expire, Stall, GoesStale,
       HeartbeatTaskDies, JanitorStep, JanitorScan, JanitorMove, JanitorDrained,
       JanitorForget, JanitorError, LifeStep, RecoverOwn, Launch, Stopped, Start,
       WorkerFault, Crash, Stop, ImageExpires

(* Only complete() takes a batch out of Redis, and then it is answered. *)
LEMMA AnsweredStep ==
    ASSUME TypeOK, TypeOK', SlotCoversJob, AnsweredBeforeForgotten, [Next]_vars
    PROVE  AnsweredBeforeForgotten'
<1>1. /\ batchQueue \in Seq(Batches)
      /\ processing \in [Workers -> Seq(Batches)]
      /\ dispatched \subseteq Batches
      /\ dispatched' \subseteq Batches
  BY DEF TypeOK
<1>2. ASSUME NEW b \in Batches, Answered(b)
      PROVE  Answered(b)'
  BY <1>2, AnswersStay, MembersAssumption DEF Answered
<1>3. SUFFICES ASSUME NEW b \in dispatched', ~ Answered(b)
               PROVE  InRedis(b)'
  BY <1>1, <1>2 DEF AnsweredBeforeForgotten
<1>4. CASE UNCHANGED <<batchQueue, processing, dispatched>>
  BY <1>3, <1>4 DEF AnsweredBeforeForgotten, InRedis, Held
<1>5. ASSUME NEW c \in Batches, Dispatch(c)
      PROVE  InRedis(b)'
  <2>1. /\ Contains(batchQueue', c)
        /\ \A x : Contains(batchQueue, x) => Contains(batchQueue', x)
    BY <1>1, <1>5, ConsContents DEF Dispatch
  <2>2. processing' = processing /\ dispatched' = dispatched \cup {c}
    BY <1>5 DEF Dispatch
  <2> QED  BY <1>3, <2>1, <2>2 DEF AnsweredBeforeForgotten, InRedis, Held
<1>6. ASSUME NEW w \in Workers, TakeRight(w), dispatched' = dispatched
      PROVE  InRedis(b)'
  BY <1>1, <1>3, <1>6, TakeRightKeeps DEF AnsweredBeforeForgotten
<1>7. ASSUME NEW w \in Workers, RecoverOne(w), dispatched' = dispatched
      PROVE  InRedis(b)'
  BY <1>1, <1>3, <1>7, RecoverOneKeeps DEF AnsweredBeforeForgotten
<1>8. ASSUME NEW s \in Slots, Complete(s)
      PROVE  InRedis(b)'
  <2>1. Answered(job[s]) /\ dispatched' = dispatched
    BY <1>8 DEF Complete, SlotCoversJob
  <2>2. b # job[s] /\ InRedis(b)
    BY <1>3, <2>1 DEF AnsweredBeforeForgotten
  <2>3. RemoveFrom(Host[s], job[s]) /\ Host[s] \in Workers
    BY <1>8, HostAssumption DEF Complete
  <2> QED  BY <1>1, <2>2, <2>3, RemoveFromKeeps
<1>9. /\ \A s \in Slots : Host[s] \in Workers
      /\ \A w \in Workers : janitor[w].target # NoWorker => janitor[w].target \in Workers
  BY HostAssumption DEF TypeOK
<1> QED  BY <1>4, <1>5, <1>6, <1>7, <1>8, <1>9, QueueFrame

(* The inductive invariant is one. *)
LEMMA Inductive == Spec => []IInv
<1>1. Init => IInv
  <2>1. Init => SlotCoversJob /\ AnsweredBeforeForgotten
    BY DEF Init, SlotCoversJob, AnsweredBeforeForgotten
  <2> QED  BY <2>1, InitType DEF IInv, SlotInv
<1>2. IInv /\ [Next]_vars => IInv'
  <2> SUFFICES ASSUME IInv, [Next]_vars PROVE IInv'
    OBVIOUS
  <2>1. TypeOK' /\ SlotsFollowWorker'
    BY TypeStep DEF IInv, SlotInv
  <2>2. SlotCoversJob'
    BY CoversStep DEF IInv, SlotInv
  <2>3. AnsweredBeforeForgotten'
    BY <2>1, AnsweredStep DEF IInv, SlotInv
  <2> QED  BY <2>1, <2>2, <2>3 DEF IInv, SlotInv
<1> QED  BY <1>1, <1>2, PTL DEF Spec

(* Whatever crashes, stops, errors and recoveries happen, a dispatched     *)
(* batch is in Redis until every one of its requests has a result.         *)
THEOREM NothingForgotten == Spec => []AnsweredBeforeForgotten
<1>1. IInv => AnsweredBeforeForgotten
  BY DEF IInv
<1> QED  BY <1>1, Inductive, PTL

(* Slots run exactly in live processes, and a slot that is publishing has  *)
(* a result, published or in hand, for every request of its batch.         *)
THEOREM SlotsCover == Spec => []SlotInv
<1>1. IInv => SlotInv
  BY DEF IInv
<1> QED  BY <1>1, Inductive, PTL
-----------------------------------------------------------------------------
(* A batch is in one place *)

Lists ==
    /\ batchQueue \in Seq(Batches)
    /\ processing \in [Workers -> Seq(Batches)]

(* A batch is in one list, once, and only if the scheduler pushed it. *)
Sole ==
    /\ NoRepeats(batchQueue)
    /\ \A w \in Workers : NoRepeats(processing[w])
    /\ \A w \in Workers, b \in Batches :
            Contains(processing[w], b) => ~ Contains(batchQueue, b)
    /\ \A v, w \in Workers, b \in Batches :
            Contains(processing[v], b) /\ Contains(processing[w], b) => v = w
    /\ \A b \in Batches : InRedis(b) => b \in dispatched

(* BLMOVE takes the rightmost batch from the queue to one list. *)
LEMMA TakeRightMoves ==
    ASSUME Lists, Sole, NEW w \in Workers, TakeRight(w)
    PROVE  /\ Last(batchQueue) \in Batches
           /\ Contains(batchQueue, Last(batchQueue))
           /\ NoRepeats(batchQueue')
           /\ \A v \in Workers : NoRepeats(processing'[v])
           /\ \A b : Contains(batchQueue', b) <=>
                        Contains(batchQueue, b) /\ b # Last(batchQueue)
           /\ \A v \in Workers : \A b :
                 Contains(processing'[v], b) <=>
                    Contains(processing[v], b) \/ (v = w /\ b = Last(batchQueue))
<1>1. /\ batchQueue # <<>>
      /\ batchQueue' = Front(batchQueue)
      /\ processing' = [processing EXCEPT ![w] = Cons(Last(batchQueue), processing[w])]
  BY DEF TakeRight
<1>2. /\ Last(batchQueue) \in Batches
      /\ \A b : Contains(batchQueue, b) <=>
                    b = Last(batchQueue) \/ Contains(Front(batchQueue), b)
  BY <1>1, FrontContents DEF Lists
<1>3. NoRepeats(Front(batchQueue)) /\ ~ Contains(Front(batchQueue), Last(batchQueue))
  BY <1>1, FrontNoRepeats DEF Lists, Sole
<1> DEFINE new == Cons(Last(batchQueue), processing[w])
<1>4. /\ NoRepeats(new)
      /\ \A b : Contains(new, b) <=> b = Last(batchQueue) \/ Contains(processing[w], b)
  <2>1. processing[w] \in Seq(Batches) /\ NoRepeats(processing[w])
    BY DEF Lists, Sole
  <2>2. ~ Contains(processing[w], Last(batchQueue))
    BY <1>2 DEF Sole
  <2> QED  BY <1>2, <2>1, <2>2, ConsContents, ConsNoRepeats
<1>5. /\ processing'[w] = new
      /\ \A v \in Workers : v # w => processing'[v] = processing[v]
  BY <1>1 DEF Lists
<1> HIDE DEF new
<1>6. \A v \in Workers : NoRepeats(processing'[v])
  BY <1>4, <1>5 DEF Sole
<1>7. \A v \in Workers : \A b :
            Contains(processing'[v], b) <=>
                Contains(processing[v], b) \/ (v = w /\ b = Last(batchQueue))
  BY <1>4, <1>5
<1> QED  BY <1>1, <1>2, <1>3, <1>6, <1>7

(* LMOVE takes the leftmost batch of one list to the queue. *)
LEMMA RecoverOneMoves ==
    ASSUME Lists, Sole, NEW w \in Workers, RecoverOne(w)
    PROVE  /\ Head(processing[w]) \in Batches
           /\ Contains(processing[w], Head(processing[w]))
           /\ NoRepeats(batchQueue')
           /\ \A v \in Workers : NoRepeats(processing'[v])
           /\ \A b : Contains(batchQueue', b) <=>
                        Contains(batchQueue, b) \/ b = Head(processing[w])
           /\ \A v \in Workers : \A b :
                 Contains(processing'[v], b) <=>
                    Contains(processing[v], b) /\ ~ (v = w /\ b = Head(processing[w]))
<1>1. /\ processing[w] # <<>>
      /\ batchQueue' = Cons(Head(processing[w]), batchQueue)
      /\ processing' = [processing EXCEPT ![w] = Tail(processing[w])]
  BY DEF RecoverOne
<1>2. /\ Head(processing[w]) \in Batches
      /\ \A b : Contains(processing[w], b) <=>
                    b = Head(processing[w]) \/ Contains(Tail(processing[w]), b)
  BY <1>1, TailContents DEF Lists
<1>3. /\ NoRepeats(Tail(processing[w]))
      /\ ~ Contains(Tail(processing[w]), Head(processing[w]))
  BY <1>1, TailNoRepeats DEF Lists, Sole
<1>4. /\ NoRepeats(batchQueue')
      /\ \A b : Contains(batchQueue', b) <=>
                    b = Head(processing[w]) \/ Contains(batchQueue, b)
  <2>1. ~ Contains(batchQueue, Head(processing[w]))
    BY <1>2 DEF Sole
  <2>2. batchQueue \in Seq(Batches) /\ NoRepeats(batchQueue)
    BY DEF Lists, Sole
  <2> QED  BY <1>1, <1>2, <2>1, <2>2, ConsContents, ConsNoRepeats
<1>5. /\ processing'[w] = Tail(processing[w])
      /\ \A v \in Workers : v # w => processing'[v] = processing[v]
  BY <1>1 DEF Lists
<1>6. \A v \in Workers : NoRepeats(processing'[v])
  BY <1>3, <1>5 DEF Sole
<1>7. \A v \in Workers : \A b :
            Contains(processing'[v], b) <=>
                Contains(processing[v], b) /\ ~ (v = w /\ b = Head(processing[w]))
  BY <1>2, <1>3, <1>5
<1> QED  BY <1>2, <1>4, <1>6, <1>7

(* LREM takes out a batch altogether, if it is in the list. *)
LEMMA RemoveFromMoves ==
    ASSUME Lists, Sole, NEW w \in Workers, NEW c, RemoveFrom(w, c)
    PROVE  /\ batchQueue' = batchQueue
           /\ \A v \in Workers : NoRepeats(processing'[v])
           /\ \A v \in Workers : \A b :
                 Contains(processing'[v], b) <=>
                    Contains(processing[v], b) /\ ~ (v = w /\ b = c)
<1>1. batchQueue' = batchQueue
  BY DEF RemoveFrom
<1>2. CASE ~ Contains(processing[w], c) /\ UNCHANGED processing
  BY <1>1, <1>2 DEF Sole
<1>3. ASSUME NEW i \in 1 .. Len(processing[w]),
             processing[w][i] = c,
             processing' = [processing EXCEPT ![w] = RemoveAt(processing[w], i)]
      PROVE  /\ \A v \in Workers : NoRepeats(processing'[v])
             /\ \A v \in Workers : \A b :
                   Contains(processing'[v], b) <=>
                      Contains(processing[v], b) /\ ~ (v = w /\ b = c)
  <2> DEFINE shorter == RemoveAt(processing[w], i)
  <2>1. /\ NoRepeats(shorter)
        /\ \A b : Contains(shorter, b) <=> Contains(processing[w], b) /\ b # c
    <3>1. /\ processing[w] \in Seq(Batches)
          /\ \A j, k \in 1 .. Len(processing[w]) :
                processing[w][j] = processing[w][k] => j = k
      BY DEF Lists, Sole, NoRepeats
    <3>2. /\ \A j, k \in 1 .. Len(RemoveAt(processing[w], i)) :
                RemoveAt(processing[w], i)[j] = RemoveAt(processing[w], i)[k] => j = k
          /\ \A b : Contains(RemoveAt(processing[w], i), b) <=>
                        Contains(processing[w], b) /\ b # processing[w][i]
      BY <3>1, RemoveFromDistinct
    <3> QED  BY <1>3, <3>2 DEF NoRepeats
  <2>2. /\ processing'[w] = shorter
        /\ \A v \in Workers : v # w => processing'[v] = processing[v]
    BY <1>3 DEF Lists
  <2> HIDE DEF shorter
  <2> QED  BY <2>1, <2>2 DEF Sole
<1> QED  BY <1>1, <1>2, <1>3 DEF RemoveFrom

(* LPUSH adds a batch that was not pushed before. *)
LEMMA DispatchMoves ==
    ASSUME Lists, Sole, NEW c \in Batches, Dispatch(c)
    PROVE  /\ ~ InRedis(c) /\ c \notin dispatched
           /\ dispatched' = dispatched \cup {c}
           /\ NoRepeats(batchQueue')
           /\ processing' = processing
           /\ \A b : Contains(batchQueue', b) <=> Contains(batchQueue, b) \/ b = c
<1>1. ~ Contains(batchQueue, c) /\ ~ InRedis(c)
  BY DEF Dispatch, Sole, InRedis
<1>2. batchQueue \in Seq(Batches) /\ NoRepeats(batchQueue)
  BY DEF Lists, Sole
<1> QED  BY <1>1, <1>2, ConsContents, ConsNoRepeats DEF Dispatch

(* No step brings a batch into two places. *)
LEMMA SoleStep ==
    ASSUME TypeOK, Sole, [Next]_vars
    PROVE  Sole'
<1>0. Lists
  BY DEF TypeOK, Lists
<1>1. CASE UNCHANGED <<batchQueue, processing, dispatched>>
  BY <1>1 DEF Sole, InRedis, Held
<1>2. ASSUME NEW c \in Batches, Dispatch(c)
      PROVE  Sole'
  BY <1>0, <1>2, DispatchMoves DEF Sole, InRedis, Held
<1>3. ASSUME NEW w \in Workers, TakeRight(w), dispatched' = dispatched
      PROVE  Sole'
  BY <1>0, <1>3, TakeRightMoves DEF Sole, InRedis, Held
<1>4. ASSUME NEW w \in Workers, RecoverOne(w), dispatched' = dispatched
      PROVE  Sole'
  BY <1>0, <1>4, RecoverOneMoves DEF Sole, InRedis, Held
<1>5. ASSUME NEW s \in Slots, Complete(s)
      PROVE  Sole'
  <2>1. /\ RemoveFrom(Host[s], job[s]) /\ Host[s] \in Workers
        /\ dispatched' = dispatched
    BY <1>5, HostAssumption DEF Complete
  <2>2. /\ batchQueue' = batchQueue
        /\ \A v \in Workers : NoRepeats(processing'[v])
        /\ \A v \in Workers : \A b :
              Contains(processing'[v], b) => Contains(processing[v], b)
    BY <1>0, <2>1, RemoveFromMoves
  <2> QED  BY <2>1, <2>2 DEF Sole, InRedis, Held
<1>6. /\ \A s \in Slots : Host[s] \in Workers
      /\ \A w \in Workers : janitor[w].target # NoWorker => janitor[w].target \in Workers
  BY HostAssumption DEF TypeOK
<1> QED  BY <1>1, <1>2, <1>3, <1>4, <1>5, <1>6, QueueFrame

(* No batch is anywhere at first. *)
LEMMA InitSole == Init => Sole
<1> SUFFICES ASSUME Init  PROVE Sole
  OBVIOUS
<1>1. Len(<<>>) = 0
  OBVIOUS
<1> QED  BY <1>1 DEF Init, Sole, NoRepeats, InRedis, Held, Contains
(* With a batch once in one list, counting its copies gives one or none.   *)
LEMMA Counted ==
    ASSUME Lists, Sole
    PROVE  OneCopy
<1>1. ASSUME NEW list \in Seq(Batches), NoRepeats(list), NEW b \in Batches
      PROVE  Copies(list, b) = IF Contains(list, b) THEN 1 ELSE 0
  <2>1. DOMAIN list = 1 .. Len(list)
    BY <1>1, LenProperties
  <2>2. CASE ~ Contains(list, b)
    <3>1. {i \in DOMAIN list : list[i] = b} = {}
      BY <2>1, <2>2 DEF Contains
    <3> QED  BY <2>2, <3>1, FS_EmptySet DEF Copies
  <2>3. CASE Contains(list, b)
    <3>1. PICK i \in 1 .. Len(list) : list[i] = b
      BY <2>3 DEF Contains
    <3>2. {k \in DOMAIN list : list[k] = b} = {i}
      BY <1>1, <2>1, <3>1 DEF NoRepeats
    <3> QED  BY <2>3, <3>2, FS_Singleton DEF Copies
  <2> QED  BY <2>2, <2>3
<1>2. ASSUME NEW b \in Batches
      PROVE  LET places == {w \in Workers : Contains(processing[w], b)} IN
             /\ Copies(batchQueue, b) + Cardinality(places) =< 1
             /\ \A w \in places : Copies(processing[w], b) = 1
  <2> DEFINE places == {w \in Workers : Contains(processing[w], b)}
  <2>1. Copies(batchQueue, b) = IF Contains(batchQueue, b) THEN 1 ELSE 0
    BY <1>1 DEF Lists, Sole
  <2>2. \A w \in places : Copies(processing[w], b) = 1
    BY <1>1 DEF Lists, Sole
  <2>3. CASE places = {}
    <3>1. Cardinality(places) = 0
      BY <2>3, FS_EmptySet
    <3> QED  BY <2>1, <2>2, <3>1
  <2>4. CASE places # {}
    <3>1. PICK w \in Workers : w \in places
      BY <2>4
    <3>2. places = {w}
      BY <3>1 DEF Sole
    <3>3. Cardinality(places) = 1
      BY <3>2, FS_Singleton
    <3>4. ~ Contains(batchQueue, b)
      BY <3>1 DEF Sole
    <3> QED  BY <2>1, <2>2, <3>3, <3>4
  <2> QED  BY <2>3, <2>4
<1> QED  BY <1>2 DEF OneCopy

(* Sole is an invariant. *)
LEMMA AlwaysSole == Spec => [](IInv /\ Sole)
<1>1. IInv => TypeOK
  BY DEF IInv
<1> QED  BY <1>1, Inductive, InitSole, SoleStep, PTL DEF Spec

(* However many janitors and restarted workers drain the same lists, and   *)
(* however late a slot completes, a batch is never in Redis twice.         *)
THEOREM NeverTwice == Spec => []OneCopy
<1>1. IInv /\ Sole => OneCopy
  BY Counted DEF IInv, TypeOK, Lists
<1> QED  BY <1>1, AlwaysSole, PTL
-----------------------------------------------------------------------------
(* The pool implements the at-least-once queue *)

(* A slot works on a pushed batch and publishes for its members only.      *)
Jobs ==
    \A s \in Slots :
        /\ job[s] # NoBatch => job[s] \in dispatched
        /\ pc[s] = "publish" => \A res \in outbox[s] : res[1] \in Members[job[s]]

(* Where a slot gets a batch from: from the queue, and nowhere else.       *)
LEMMA JobFrame ==
    ASSUME TypeOK, [Next]_vars, NEW s \in Slots, job'[s] # NoBatch
    PROVE  job'[s] = job[s] \/ Reserve(s)
<1>1. CASE UNCHANGED job
  BY <1>1
<1>2. ASSUME NEW t \in Slots, Reserve(t)
      PROVE  job'[s] = job[s] \/ Reserve(s)
  BY <1>2 DEF Reserve, TypeOK
<1>3. ASSUME NEW t \in Slots, EndJob(t)
      PROVE  job'[s] = job[s]
  BY <1>3 DEF EndJob, TypeOK
<1>4. ASSUME NEW w \in Workers, Crash(w)
      PROVE  job'[s] = job[s]
  BY <1>4 DEF Crash
<1>5. ASSUME NEW w \in Workers, Stop(w)
      PROVE  job'[s] = job[s]
  <2>1. \E quiet : job' = [t \in Slots |-> IF t \in quiet THEN NoBatch ELSE job[t]]
    BY <1>5 DEF Stop
  <2> QED  BY <2>1
<1>6. \/ UNCHANGED job
      \/ \E t \in Slots : Reserve(t) \/ EndJob(t)
      \/ \E w \in Workers : Crash(w) \/ Stop(w)
  BY DEF Next, vars, Dispatch, SlotStep, FetchImages, Execute, ExecuteTimesOut,
         Executed, ExecuteRaises, PublishResult, Complete, Cleanup, SlotFault,
         ReserveReplyLost, SlotError, CleanupFails, Beat, Expire, Stall, GoesStale,
         HeartbeatTaskDies, JanitorStep, JanitorScan, JanitorMove, JanitorDrained,
         JanitorForget, JanitorError, LifeStep, RecoverOwn, Launch, Stopped, Start,
         WorkerFault, ImageExpires
<1> QED  BY <1>1, <1>2, <1>3, <1>4, <1>5, <1>6

(* What was pushed stays pushed. *)
LEMMA DispatchedStays == ASSUME [Next]_vars  PROVE dispatched \subseteq dispatched'
BY QueueFrame DEF Dispatch, Complete

(* The jobs of the slots stay what they are said to be. *)
LEMMA JobsStep ==
    ASSUME TypeOK, Sole, Jobs, [Next]_vars
    PROVE  Jobs'
<1>1. ASSUME NEW s \in Slots, job'[s] # NoBatch
      PROVE  job'[s] \in dispatched'
  <2>1. CASE job'[s] = job[s]
    BY <1>1, <2>1, DispatchedStays DEF Jobs
  <2>2. CASE Reserve(s)
    <3>1. job'[s] = Last(batchQueue) /\ dispatched' = dispatched
      BY <2>2 DEF Reserve, TypeOK
    <3>2. Lists /\ TakeRight(Host[s]) /\ Host[s] \in Workers
      BY <2>2, HostAssumption DEF Reserve, TypeOK, Lists
    <3>3. Last(batchQueue) \in Batches /\ Contains(batchQueue, Last(batchQueue))
      BY <3>2, TakeRightMoves
    <3> QED  BY <3>1, <3>3 DEF Sole, InRedis
  <2> QED  BY <1>1, <2>1, <2>2, JobFrame
<1>2. ASSUME NEW s \in Slots, pc'[s] = "publish", NEW res \in outbox'[s]
      PROVE  res[1] \in Members[job'[s]]
  <2>1. CASE pc'[s] = pc[s] /\ job'[s] = job[s] /\ outbox'[s] = outbox[s]
    BY <1>2, <2>1 DEF Jobs
  <2>2. CASE Execute(s)
    <3>1. /\ job'[s] = job[s]
          /\ outbox'[s] = {<<r, IF r \in Kept(s) THEN "ok" ELSE "error">> :
                              r \in Members[job[s]]}
      BY <2>2 DEF Execute, Executed, TypeOK
    <3> QED  BY <1>2, <3>1
  <2>3. CASE ExecuteTimesOut(s)
    <3>1. job'[s] = job[s] /\ outbox'[s] = Members[job[s]] \X {"timeout"}
      BY <2>3 DEF ExecuteTimesOut, Executed, TypeOK
    <3> QED  BY <1>2, <3>1
  <2>4. CASE PublishResult(s)
    <3>1. pc[s] = "publish" /\ job' = job /\ outbox'[s] \subseteq outbox[s]
      BY <2>4 DEF PublishResult, TypeOK
    <3> QED  BY <1>2, <3>1 DEF Jobs
  <2> QED  BY <1>2, <2>1, <2>2, <2>3, <2>4, BusyFrame
<1> QED  BY <1>1, <1>2 DEF Jobs

(* Where the abstract queue sees a batch *)
Where(b) ==
    IF Contains(batchQueue, b) THEN "queued"
    ELSE IF Held(b) THEN "held"
    ELSE IF b \in dispatched THEN "done" ELSE "new"

AnsweredOnes == {r \in Requests : answer[r] # NoAnswer}

(* A step that changes where one batch is, and no answer. *)
LEMMA OneMoves ==
    ASSUME NEW b \in Batches, NEW from, NEW to, Where(b) = from, Where(b)' = to,
           \A c \in Batches : c # b => Where(c)' = Where(c),
           UNCHANGED answer
    PROVE  Abstract!Moves(b, from, to)
BY DEF Abstract!Moves, Where

(* Every step of the pool is one of the abstract queue, or none. *)
LEMMA ContractStep ==
    ASSUME TypeOK, SlotCoversJob, Sole, Jobs, [Next]_vars
    PROVE  [Abstract!Next]_(Abstract!vars)
<1>0. Lists
  BY DEF TypeOK, Lists
<1>1. ASSUME UNCHANGED answer, \A b \in Batches : Where(b)' = Where(b)
      PROVE  UNCHANGED Abstract!vars
  BY <1>1 DEF Abstract!vars, Where
<1>2. CASE UNCHANGED <<batchQueue, processing, dispatched, answer>>
  <2>1. \A b \in Batches : Where(b)' = Where(b)
    BY <1>2 DEF Where, Held
  <2> QED  BY <1>1, <1>2, <2>1
<1>3. ASSUME NEW s \in Slots, PublishResult(s)
      PROVE  [Abstract!Next]_(Abstract!vars)
  <2>1. PICK res \in outbox[s] :
            \/ answer' = [answer EXCEPT ![res[1]] = res[2]]
            \/ answer' = answer
    BY <1>3 DEF PublishResult
  <2>2. /\ UNCHANGED <<batchQueue, processing, dispatched>>
        /\ pc[s] = "publish"
    BY <1>3 DEF PublishResult
  <2>3. \A b \in Batches : Where(b)' = Where(b)
    BY <2>2 DEF Where, Held
  <2>4. CASE answer' = answer
    BY <1>1, <2>3, <2>4
  <2>5. CASE answer' = [answer EXCEPT ![res[1]] = res[2]]
    <3>1. res[1] \in Requests /\ res[2] \in Status
      BY <2>1 DEF TypeOK
    <3>2. AnsweredOnes' = AnsweredOnes \cup {res[1]}
      BY <2>5, <3>1, NullAssumption DEF AnsweredOnes, TypeOK
    <3>3. /\ job[s] \in Batches /\ res[1] \in Members[job[s]]
          /\ job[s] \in dispatched
      BY <2>1, <2>2 DEF Jobs, TypeOK
    <3>4. Where(job[s]) # "new"
      BY <3>3 DEF Where
    <3>5. Abstract!Answer(res[1])
      BY <2>3, <3>2, <3>3, <3>4 DEF Abstract!Answer, AnsweredOnes, Where
    <3> QED  BY <3>1, <3>5 DEF Abstract!Next
  <2> QED  BY <2>1, <2>4, <2>5
<1>4. ASSUME NEW b \in Batches, Dispatch(b)
      PROVE  Abstract!Enqueue(b)
  <2>1. Where(b) = "new" /\ Where(b)' = "queued"
    BY <1>0, <1>4, DispatchMoves DEF Where, InRedis
  <2>2. \A c \in Batches : c # b => Where(c)' = Where(c)
    BY <1>0, <1>4, DispatchMoves DEF Where, Held
  <2>3. answer' = answer
    BY <1>4 DEF Dispatch
  <2> QED  BY <2>1, <2>2, <2>3, OneMoves DEF Abstract!Enqueue
<1>5. ASSUME NEW w \in Workers, TakeRight(w), UNCHANGED <<dispatched, answer>>
      PROVE  \E b \in Batches : Abstract!Take(b)
  <2>0. PICK b \in Batches : b = Last(batchQueue)
    BY <1>0, <1>5, TakeRightMoves
  <2>1. /\ Contains(batchQueue, b)
        /\ \A c : Contains(batchQueue', c) <=> Contains(batchQueue, c) /\ c # b
        /\ \A v \in Workers : \A c : Contains(processing'[v], c) <=>
                Contains(processing[v], c) \/ (v = w /\ c = b)
    BY <1>0, <1>5, <2>0, TakeRightMoves
  <2>2. Where(b) = "queued" /\ Where(b)' = "held"
    BY <1>5, <2>1 DEF Where, Held
  <2>3. \A c \in Batches : c # b => Where(c)' = Where(c)
    BY <1>5, <2>1 DEF Where, Held
  <2> QED  BY <1>5, <2>1, <2>2, <2>3, OneMoves DEF Abstract!Take
<1>6. ASSUME NEW w \in Workers, RecoverOne(w), UNCHANGED <<dispatched, answer>>
      PROVE  \E b \in Batches : Abstract!Return(b)
  <2>0. PICK b \in Batches : b = Head(processing[w])
    BY <1>0, <1>6, RecoverOneMoves
  <2>1. /\ Contains(processing[w], b)
        /\ \A c : Contains(batchQueue', c) <=> Contains(batchQueue, c) \/ c = b
        /\ \A v \in Workers : \A c : Contains(processing'[v], c) <=>
                Contains(processing[v], c) /\ ~ (v = w /\ c = b)
    BY <1>0, <1>6, <2>0, RecoverOneMoves
  <2>2. Where(b) = "held" /\ Where(b)' = "queued"
    BY <1>6, <2>1 DEF Where, Held, Sole
  <2>3. \A c \in Batches : c # b => Where(c)' = Where(c)
    BY <1>6, <2>1 DEF Where, Held
  <2> QED  BY <1>6, <2>1, <2>2, <2>3, OneMoves DEF Abstract!Return
<1>7. ASSUME NEW s \in Slots, Complete(s)
      PROVE  [Abstract!Next]_(Abstract!vars)
  <2>1. /\ job[s] \in Batches /\ Host[s] \in Workers
        /\ job[s] \in dispatched /\ Answered(job[s])
        /\ RemoveFrom(Host[s], job[s]) /\ UNCHANGED <<dispatched, answer>>
    BY <1>7, NullAssumption, HostAssumption DEF Complete, TypeOK, Jobs, SlotCoversJob
  <2>0. PICK b \in Batches, w \in Workers : b = job[s] /\ w = Host[s]
    BY <2>1
  <2>2. /\ batchQueue' = batchQueue
        /\ \A v \in Workers : \A c : Contains(processing'[v], c) <=>
                Contains(processing[v], c) /\ ~ (v = w /\ c = b)
    BY <1>0, <2>0, <2>1, RemoveFromMoves
  <2>3. \A c \in Batches : c # b => Where(c)' = Where(c)
    BY <2>0, <2>1, <2>2 DEF Where, Held
  <2>4. CASE Contains(processing[w], b)
    <3>1. Where(b) = "held" /\ Where(b)' = "done"
      BY <2>0, <2>1, <2>2, <2>4 DEF Where, Held, Sole
    <3>2. Members[b] \subseteq AnsweredOnes
      BY <2>0, <2>1, MembersAssumption DEF Answered, AnsweredOnes
    <3>3. Abstract!Moves(b, "held", "done")
      BY <2>1, <2>3, <3>1, OneMoves
    <3>4. Abstract!Finish(b)
      BY <3>2, <3>3 DEF Abstract!Finish, AnsweredOnes
    <3> QED  BY <2>1, <3>4 DEF Abstract!Next
  <2>5. CASE ~ Contains(processing[w], b)
    <3>1. Where(b)' = Where(b)
      BY <2>0, <2>1, <2>2, <2>5 DEF Where, Held
    <3>2. UNCHANGED Abstract!vars
      BY <1>1, <2>1, <2>3, <3>1
    <3> QED  BY <3>2
  <2> QED  BY <2>4, <2>5
<1>8. \/ UNCHANGED <<batchQueue, processing, dispatched, answer>>
      \/ \E s \in Slots : PublishResult(s) \/ Complete(s)
      \/ \E b \in Batches : Dispatch(b)
      \/ \E w \in Workers : (TakeRight(w) \/ RecoverOne(w))
                            /\ UNCHANGED <<dispatched, answer>>
  <2>1. \A w \in Workers : janitor[w].target # NoWorker => janitor[w].target \in Workers
    BY DEF TypeOK
  <2> QED  BY <2>1, HostAssumption
     DEF Next, vars, SlotStep, Reserve, FetchImages, Execute, ExecuteTimesOut,
         Executed, ExecuteRaises, Cleanup, EndJob, SlotFault,
         ReserveReplyLost, SlotError, CleanupFails, Beat, Expire, Stall, GoesStale,
         HeartbeatTaskDies, JanitorStep, JanitorScan, JanitorMove, JanitorDrained,
         JanitorForget, JanitorError, LifeStep, RecoverOwn, Launch, Stopped, Start,
         WorkerFault, Crash, Stop, ImageExpires
<1>9. ASSUME NEW b \in Batches,
             Abstract!Enqueue(b) \/ Abstract!Take(b) \/ Abstract!Return(b)
      PROVE  [Abstract!Next]_(Abstract!vars)
  BY <1>9 DEF Abstract!Next
<1> QED  BY <1>2, <1>3, <1>4, <1>5, <1>6, <1>7, <1>8, <1>9

(* The worker pool implements the at-least-once queue: through any crashes *)
(* and recoveries a batch comes from nowhere only once, goes from list to  *)
(* list, and leaves for good only when all its requests are answered.      *)
THEOREM ImplementsQueue == Spec => QueueContract
<1> DEFINE Inv == IInv /\ Sole /\ Jobs
<1>1. Init => Jobs
  BY DEF Init, Jobs
<1>2. IInv /\ Sole /\ Jobs /\ [Next]_vars => Jobs'
  BY JobsStep DEF IInv
<1>3. Spec => []Inv
  BY <1>1, <1>2, AlwaysSole, PTL DEF Spec
<1>4. Init => Abstract!Init
  <2> SUFFICES ASSUME Init  PROVE Abstract!Init
    OBVIOUS
  <2>1. Len(<<>>) = 0
    OBVIOUS
  <2> QED  BY <2>1 DEF Init, Abstract!Init, Held, Contains
<1>5. Inv /\ [Next]_vars => [Abstract!Next]_(Abstract!vars)
  BY ContractStep DEF IInv, SlotInv
<1> QED  BY <1>3, <1>4, <1>5, PTL DEF Spec, QueueContract, Abstract!Spec
-----------------------------------------------------------------------------
(* The first answer is a good one *)

(* Unless it is spoiled, a request's image stays while it waits for an     *)
(* answer, what a slot has in hand of it is good or there is an answer     *)
(* already, and a slot that cleans up has answered it.                     *)
Good ==
    /\ \A b \in Batches : \A r \in Members[b] \ spoiled :
            answer[r] = NoAnswer => r \in images
    /\ \A s \in Slots :
        /\ pc[s] = "execute" =>
            \A r \in Members[job[s]] \ spoiled :
                r \in fetched[s] \/ answer[r] # NoAnswer
        /\ pc[s] = "cleanup" =>
            \A r \in Members[job[s]] \ spoiled : answer[r] # NoAnswer
        /\ pc[s] = "publish" => \A res \in outbox[s] :
            res[2] = "error" =>
                res[1] \in Corrupt \cup spoiled \/ answer[res[1]] # NoAnswer
    /\ FirstAnswerGood

(* A slot that gives its batch up spoils what of it has no answer, and     *)
(* changes nothing for the other slots.                                    *)
LEMMA GivesUpWell ==
    ASSUME TypeOK, Good, NEW s \in Slots,
           pc[s] \in {"fetch", "execute", "publish", "complete"},
           GiveUp({s}),
           pc' = [pc EXCEPT ![s] = "cleanup"],
           UNCHANGED <<images, answer, job>>,
           \A t \in Slots : t # s => fetched'[t] = fetched[t] /\ outbox'[t] = outbox[t]
    PROVE  Good'
<1> USE HostAssumption, MembersAssumption, SubsetsAssumption, NullAssumption
<1>1. /\ spoiled \subseteq spoiled'
      /\ \A r \in Members[job[s]] \ spoiled' : answer[r] # NoAnswer
  BY DEF GiveUp
<1>2. \A t \in Slots : t # s => pc'[t] = pc[t]
  BY DEF TypeOK
<1>3. pc'[s] = "cleanup"
  BY DEF TypeOK
<1> QED  BY <1>1, <1>2, <1>3 DEF Good, FirstAnswerGood

(* So does a process that stops in the middle of its batches.              *)
LEMMA StopsWell ==
    ASSUME TypeOK, SlotsFollowWorker, Good, NEW w \in Workers, Stop(w)
    PROVE  Good'
<1> USE HostAssumption, MembersAssumption, SubsetsAssumption, NullAssumption
<1> DEFINE mine     == SlotsOf(w)
           quiet    == {s \in mine : pc[s] \in {"idle", "cleanup"}}
           cleaning == {s \in mine : pc[s] = "cleanup"}
           busy     == {s \in mine \ quiet : job[s] # NoBatch}
<1>1. /\ pc' = [s \in Slots |-> IF s \in quiet THEN "ended"
                                ELSE IF s \in mine THEN "cleanup" ELSE pc[s]]
      /\ job' = [s \in Slots |-> IF s \in quiet THEN NoBatch ELSE job[s]]
      /\ fetched' = [s \in Slots |-> IF s \in mine THEN {} ELSE fetched[s]]
      /\ outbox' = [s \in Slots |-> IF s \in mine THEN {} ELSE outbox[s]]
      /\ \E done \in SUBSET cleaning :
            images' = images \ UNION {Members[job[s]] : s \in done}
      /\ GiveUp(busy) /\ answer' = answer
  BY DEF Stop
<1>2. PICK done \in SUBSET cleaning :
          images' = images \ UNION {Members[job[s]] : s \in done}
  BY <1>1
<1>3. spoiled' = spoiled \cup {r \in UNION {Members[job[s]] : s \in busy} :
                                answer[r] = NoAnswer}
  BY <1>1 DEF GiveUp
<1>4. ASSUME NEW b \in Batches, NEW r \in Members[b] \ spoiled', answer[r] = NoAnswer
      PROVE  r \in images'
  <2>1. r \notin spoiled /\ r \in images
    BY <1>3, <1>4 DEF Good
  <2>2. ASSUME NEW s \in cleaning
        PROVE  r \notin Members[job[s]]
    <3>1. s \in Slots /\ pc[s] = "cleanup"
      BY DEF SlotsOf
    <3> QED  BY <1>4, <2>1, <3>1 DEF Good
  <2> QED  BY <1>2, <2>1, <2>2
<1>5. ASSUME NEW t \in Slots
      PROVE  /\ pc'[t] = "execute" =>
                  \A r \in Members[job'[t]] \ spoiled' :
                      r \in fetched'[t] \/ answer[r] # NoAnswer
             /\ pc'[t] = "cleanup" =>
                  \A r \in Members[job'[t]] \ spoiled' : answer[r] # NoAnswer
             /\ pc'[t] = "publish" => \A res \in outbox'[t] :
                  res[2] = "error" =>
                      res[1] \in Corrupt \cup spoiled' \/ answer[res[1]] # NoAnswer
  <2>1. CASE t \notin mine
    <3>1. /\ pc'[t] = pc[t] /\ job'[t] = job[t]
          /\ fetched'[t] = fetched[t] /\ outbox'[t] = outbox[t]
      BY <1>1, <2>1
    <3>2. spoiled \subseteq spoiled'
      BY <1>3
    <3> QED  BY <3>1, <3>2 DEF Good
  <2>2. CASE t \in quiet
    <3>1. pc'[t] = "ended"
      BY <1>1, <2>2
    <3> QED  BY <3>1
  <2>3. CASE t \in mine \ quiet
    <3>1. pc'[t] = "cleanup" /\ job'[t] = job[t]
      BY <1>1, <2>3
    <3>2. CASE job[t] = NoBatch
      <4>1. pc[t] = "ended" /\ worker[w] = "up" /\ Host[t] = w
        BY <2>3, <3>2 DEF TypeOK, Stop, SlotsOf
      <4> QED  BY <4>1 DEF SlotsFollowWorker
    <3>3. CASE job[t] # NoBatch
      <4>1. t \in busy
        BY <2>3, <3>3
      <4>2. \A r \in Members[job[t]] \ spoiled' : answer[r] # NoAnswer
        BY <1>3, <4>1
      <4> QED  BY <3>1, <4>2
    <3> QED  BY <3>2, <3>3
  <2> QED  BY <2>1, <2>2, <2>3
<1>6. FirstAnswerGood'
  BY <1>1, <1>3 DEF Good, FirstAnswerGood
<1> QED  BY <1>1, <1>4, <1>5, <1>6 DEF Good

(* Every step keeps that, whatever fails.                                  *)
LEMMA GoodStep ==
    ASSUME TypeOK, SlotInv, Good, [Next]_vars
    PROVE  Good'
<1> USE HostAssumption, MembersAssumption, SubsetsAssumption, NullAssumption
<1> USE DEF SlotInv
<1>1. CASE UNCHANGED <<storeVars, slotVars>>
  BY <1>1 DEF Good, FirstAnswerGood, Answered
<1>2. ASSUME NEW s \in Slots, Reserve(s)
      PROVE  Good'
  BY <1>2 DEF Reserve, Good, FirstAnswerGood, Answered, TypeOK
<1>3. ASSUME NEW s \in Slots, FetchImages(s)
      PROVE  Good'
  <2>1. job[s] \in Batches
    BY <1>3 DEF FetchImages, TypeOK
  <2> QED  BY <1>3, <2>1 DEF FetchImages, Good, FirstAnswerGood, Answered, TypeOK
<1>4. ASSUME NEW s \in Slots, NEW results, Executed(s, results),
             \A res \in results : res[2] = "error" =>
                res[1] \in Corrupt \cup spoiled \/ answer[res[1]] # NoAnswer
      PROVE  Good'
  BY <1>4 DEF Executed, Good, FirstAnswerGood, Answered, TypeOK
<1>5. ASSUME NEW s \in Slots, Execute(s)
      PROVE  Good'
  <2> DEFINE results == {<<r, IF r \in Kept(s) THEN "ok" ELSE "error">> :
                            r \in Members[job[s]]}
  <2>1. Executed(s, results)
    BY <1>5 DEF Execute
  <2>2. ASSUME NEW res \in results, res[2] = "error"
        PROVE  res[1] \in Corrupt \cup spoiled \/ answer[res[1]] # NoAnswer
    <3>1. res[1] \in Members[job[s]] /\ res[1] \notin Kept(s)
      BY <2>2
    <3>2. pc[s] = "execute" /\ job[s] \notin Poison
      BY <1>5 DEF Execute, Executed
    <3> QED  BY <3>1, <3>2 DEF Good, Kept
  <2> HIDE DEF results
  <2> QED  BY <1>4, <2>1, <2>2
<1>6. ASSUME NEW s \in Slots, ExecuteTimesOut(s)
      PROVE  Good'
  <2>1. \A res \in Members[job[s]] \X {"timeout"} : res[2] # "error"
    OBVIOUS
  <2> QED  BY <1>4, <1>6, <2>1 DEF ExecuteTimesOut
<1>7. ASSUME NEW s \in Slots, ExecuteRaises(s)
      PROVE  Good'
  <2>1. /\ pc[s] = "execute" /\ GiveUp({s})
        /\ pc' = [pc EXCEPT ![s] = "cleanup"]
        /\ UNCHANGED <<images, answer, job, outbox>>
        /\ \A t \in Slots : t # s => fetched'[t] = fetched[t]
    BY <1>7 DEF ExecuteRaises, TypeOK
  <2> QED  BY <2>1, GivesUpWell
<1>8. ASSUME NEW s \in Slots, PublishResult(s)
      PROVE  Good'
  <2>1. PICK res \in outbox[s] :
            /\ \/ /\ answer[res[1]] = NoAnswer
                  /\ answer' = [answer EXCEPT ![res[1]] = res[2]]
               \/ answer' = answer
            /\ outbox' = [outbox EXCEPT ![s] = @ \ {res}]
            /\ pc' = [pc EXCEPT ![s] = IF outbox[s] = {res} THEN "complete"
                                                            ELSE "publish"]
    BY <1>8 DEF PublishResult
  <2>2. /\ res[1] \in Requests /\ res[2] \in Status
        /\ pc[s] = "publish" /\ UNCHANGED <<job, fetched, images, spoiled>>
    BY <1>8, <2>1 DEF PublishResult, TypeOK
  <2>3. \A r \in Requests : answer[r] # NoAnswer => answer'[r] # NoAnswer
    BY <2>1, <2>2 DEF TypeOK
  <2>4. FirstAnswerGood'
    BY <2>1, <2>2 DEF Good, FirstAnswerGood, TypeOK
  <2>5. ASSUME NEW b \in Batches, NEW r \in Members[b] \ spoiled, answer'[r] = NoAnswer
        PROVE  r \in images'
    <3>1. r \in Requests
      OBVIOUS
    <3> QED  BY <2>2, <2>3, <2>5, <3>1 DEF Good
  <2>6. ASSUME NEW t \in Slots
        PROVE  /\ pc'[t] = "execute" =>
                    \A r \in Members[job'[t]] \ spoiled :
                        r \in fetched'[t] \/ answer'[r] # NoAnswer
               /\ pc'[t] = "cleanup" =>
                    \A r \in Members[job'[t]] \ spoiled : answer'[r] # NoAnswer
               /\ pc'[t] = "publish" => \A one \in outbox'[t] :
                    one[2] = "error" =>
                        one[1] \in Corrupt \cup spoiled \/ answer'[one[1]] # NoAnswer
    <3>1. /\ pc'[t] \in {"execute", "cleanup"} => pc'[t] = pc[t]
          /\ pc'[t] = "publish" => pc[t] = "publish"
          /\ outbox'[t] \subseteq outbox[t] /\ job'[t] = job[t]
          /\ fetched'[t] = fetched[t]
      BY <2>1, <2>2 DEF TypeOK
    <3>2. pc[t] \in {"execute", "cleanup"} => Members[job[t]] \subseteq Requests
      BY DEF TypeOK
    <3>3. \A one \in outbox[t] : one[1] \in Requests
      BY DEF TypeOK
    <3> QED  BY <2>3, <3>1, <3>2, <3>3 DEF Good, Answered
  <2> QED  BY <2>2, <2>4, <2>5, <2>6 DEF Good
<1>9. ASSUME NEW s \in Slots, Complete(s)
      PROVE  Good'
  <2>1. Answered(job[s])
    BY <1>9 DEF Complete, SlotCoversJob
  <2> QED  BY <1>9, <2>1 DEF Complete, Good, FirstAnswerGood, Answered, TypeOK
<1>10. ASSUME NEW s \in Slots, Cleanup(s) \/ CleanupFails(s)
       PROVE  Good'
  <2>1. pc[s] = "cleanup" /\ job[s] \in Batches /\ UNCHANGED <<answer, outbox, fetched, spoiled>>
    BY <1>10 DEF Cleanup, CleanupFails, EndJob, TypeOK
  <2>2. ASSUME NEW b \in Batches, NEW r \in Members[b] \ spoiled, answer[r] = NoAnswer
        PROVE  r \in images'
    <3>1. b # job[s]
      BY <2>1, <2>2 DEF Good, Answered
    <3>2. r \notin Members[job[s]]
      BY <2>1, <3>1
    <3> QED  BY <1>10, <2>2, <3>2 DEF Cleanup, CleanupFails, Good
  <2>3. \A t \in Slots : \/ pc'[t] = pc[t] /\ job'[t] = job[t]
                         \/ pc'[t] \in {"idle", "ended"}
    BY <1>10 DEF Cleanup, CleanupFails, EndJob, TypeOK
  <2> QED  BY <2>1, <2>2, <2>3 DEF Good, FirstAnswerGood, Answered
<1>11. ASSUME NEW w \in Workers, Launch(w) \/ Crash(w)
       PROVE  Good'
  <2>1. /\ UNCHANGED <<images, answer, spoiled>>
        /\ \A t \in Slots :
              \/ /\ pc'[t] = pc[t] /\ job'[t] = job[t]
                 /\ outbox'[t] = outbox[t] /\ fetched'[t] = fetched[t]
              \/ pc'[t] \in {"idle", "ended"}
    BY <1>11 DEF Launch, Crash, TypeOK
  <2> QED  BY <2>1 DEF Good, FirstAnswerGood, Answered
<1>12. ASSUME NEW s \in Slots, SlotError(s)
       PROVE  Good'
  <2>1. /\ pc[s] \in {"fetch", "execute", "publish", "complete"} /\ GiveUp({s})
        /\ pc' = [pc EXCEPT ![s] = "cleanup"]
        /\ UNCHANGED <<images, answer, job>>
        /\ \A t \in Slots : t # s => fetched'[t] = fetched[t] /\ outbox'[t] = outbox[t]
    BY <1>12 DEF SlotError, TypeOK
  <2> QED  BY <2>1, GivesUpWell
<1>13. ASSUME NEW w \in Workers, Stop(w)
       PROVE  Good'
  BY <1>13, StopsWell
<1>14. ASSUME NEW r \in Requests, ImageExpires(r)
       PROVE  Good'
  BY <1>14 DEF ImageExpires, Good, FirstAnswerGood, TypeOK
<1>15. \/ UNCHANGED <<storeVars, slotVars>>
       \/ \E s \in Slots : \/ Reserve(s) \/ FetchImages(s) \/ Execute(s)
                           \/ ExecuteTimesOut(s) \/ ExecuteRaises(s)
                           \/ PublishResult(s) \/ Complete(s) \/ Cleanup(s)
                           \/ SlotError(s) \/ CleanupFails(s)
       \/ \E w \in Workers : Launch(w) \/ Crash(w) \/ Stop(w)
       \/ \E r \in Requests : ImageExpires(r)
  BY DEF Next, vars, Dispatch, SlotStep, SlotFault,
         ReserveReplyLost, Beat, Expire, Stall, GoesStale,
         HeartbeatTaskDies, JanitorStep, JanitorScan, JanitorMove, JanitorDrained,
         JanitorForget, JanitorError, LifeStep, RecoverOwn, Stopped, Start,
         WorkerFault
<1> QED  BY <1>1, <1>2, <1>3, <1>5, <1>6, <1>7, <1>8, <1>9, <1>10, <1>11, <1>12,
            <1>13, <1>14, <1>15

(* However workers crash, stall, stop, raise, lose replies and recover each *)
(* other's batches, the first answer to a decodable request is an error    *)
(* only when an attempt at its own batch ended early (the finally clause of *)
(* _process deletes the images) or its image's TTL ran out.                *)
THEOREM FirstIsGood == Spec => []FirstAnswerGood
<1>1. Init => Good
  <2> SUFFICES ASSUME Init  PROVE Good
    OBVIOUS
  <2>1. \A b \in Batches : Members[b] \subseteq images
    BY MembersAssumption DEF Init
  <2>2. /\ \A s \in Slots : pc[s] = "ended"
        /\ \A r \in Requests : answer[r] = NoAnswer
    BY DEF Init
  <2>3. FirstAnswerGood
    BY <2>2, NullAssumption DEF FirstAnswerGood, Status
  <2> QED  BY <2>1, <2>2, <2>3 DEF Good
<1>2. IInv /\ Good /\ [Next]_vars => Good'
  BY GoodStep DEF IInv, SlotInv
<1>3. Good => FirstAnswerGood
  BY DEF Good
<1> QED  BY <1>1, <1>2, <1>3, Inductive, PTL DEF Spec
-----------------------------------------------------------------------------
(* Without a fault nothing is done twice *)

(* While nothing has failed, every process is starting or beating, and no  *)
(* janitor has work.                                                       *)
Calm ==
    \A w \in Workers :
        /\ janitor[w] = Resting
        /\ heartbeat[w] # "stale"
        /\ worker[w] \in {"recovering", "up"}
        /\ worker[w] = "recovering" => heartbeat[w] = "none" /\ processing[w] = <<>>
        /\ worker[w] = "up" => beating[w]

(* A batch is in the queue or in one slot and unanswered until that slot   *)
(* publishes for it, one result per request.                               *)
Fresh ==
    /\ again = {}
    /\ \A s, t \in Slots : s # t /\ job[s] # NoBatch => job[s] # job[t]
    /\ \A s \in Slots : job[s] # NoBatch => ~ Contains(batchQueue, job[s])
    /\ \A b \in Batches : \A r \in Members[b] :
            answer[r] # NoAnswer => b \in dispatched /\ ~ Contains(batchQueue, b)
    /\ \A s \in Slots :
        /\ pc[s] \in {"fetch", "execute"} =>
            \A r \in Members[job[s]] : answer[r] = NoAnswer
        /\ pc[s] = "publish" => \A res \in outbox[s] :
            /\ answer[res[1]] = NoAnswer
            /\ \A one \in outbox[s] : one[1] = res[1] => one = res

(* The number of faults only grows, by one with each of them. *)
LEMMA FaultsGrow ==
    ASSUME TypeOK, faults' = 0, faults' = faults + 1
    PROVE  FALSE
BY SubsetsAssumption DEF TypeOK

(* The steps that are not faults. *)
LEMMA FaultFree ==
    ASSUME TypeOK, Calm, faults' = 0, [Next]_vars
    PROVE  \/ UNCHANGED vars
           \/ \E b \in Batches : Dispatch(b)
           \/ \E s \in Slots : SlotStep(s)
           \/ \E w \in Workers : Beat(w) \/ Launch(w)
<1>1. ASSUME NEW w \in Workers
      PROVE  ~ Expire(w) /\ ~ JanitorStep(w) /\ ~ RecoverOwn(w) /\ ~ Stopped(w)
             /\ ~ Start(w)
  <2>1. ~ Expire(w) /\ ~ RecoverOwn(w) /\ ~ Stopped(w) /\ ~ Start(w)
    BY DEF Calm, Expire, GoesStale, RecoverOwn, RecoverOne, Stopped, Start
  <2>2. ~ JanitorScan(w)
    BY DEF Calm, JanitorScan
  <2>3. janitor[w].target = NoWorker /\ janitor[w].drained = FALSE
    BY DEF Calm, Resting
  <2>4. ~ JanitorMove(w) /\ ~ JanitorDrained(w) /\ ~ JanitorForget(w)
    BY <2>3 DEF JanitorMove, JanitorDrained, JanitorForget
  <2> QED  BY <2>1, <2>2, <2>4 DEF JanitorStep
<1>2. ASSUME NEW kind
      PROVE  ~ Fault(kind)
  BY FaultsGrow DEF Fault
<1>3. /\ \A s \in Slots : ~ SlotFault(s)
      /\ \A w \in Workers : ~ WorkerFault(w)
      /\ \A r \in Requests : ~ ImageExpires(r)
  BY <1>2 DEF SlotFault, ReserveReplyLost, SlotError, CleanupFails, WorkerFault,
              Stall, HeartbeatTaskDies, JanitorError, Crash, Stop, ImageExpires
<1> QED  BY <1>1, <1>3 DEF Next, LifeStep

(* No process goes silent without a fault. *)
LEMMA CalmStep ==
    ASSUME TypeOK, SlotsFollowWorker, Calm, faults' = 0, [Next]_vars
    PROVE  Calm'
<1>1. CASE UNCHANGED <<janitor, heartbeat, worker, beating, processing>>
  BY <1>1 DEF Calm
<1>2. ASSUME NEW w \in Workers, Beat(w) \/ Launch(w)
      PROVE  Calm'
  <2>1. CASE Beat(w)
    BY <2>1 DEF Beat, Calm, TypeOK
  <2>2. CASE Launch(w)
    <3>1. /\ worker' = [worker EXCEPT ![w] = "up"]
          /\ beating' = [beating EXCEPT ![w] = TRUE]
          /\ UNCHANGED <<janitor, heartbeat, processing>>
      BY <2>2 DEF Launch
    <3>2. \A v \in Workers : v # w => worker'[v] = worker[v] /\ beating'[v] = beating[v]
      BY <3>1 DEF TypeOK
    <3>3. worker'[w] = "up" /\ beating'[w]
      BY <3>1 DEF TypeOK
    <3> QED  BY <3>1, <3>2, <3>3 DEF Calm
  <2> QED  BY <1>2, <2>1, <2>2
<1>3. ASSUME NEW s \in Slots, Reserve(s)
      PROVE  Calm'
  <2>1. \A w \in Workers : worker[w] = "recovering" => processing'[w] = processing[w]
    BY <1>3, HostAssumption DEF Reserve, TakeRight, TypeOK
  <2> QED  BY <1>3, <2>1 DEF Reserve, Calm
<1>4. ASSUME NEW s \in Slots, Complete(s)
      PROVE  Calm'
  <2>1. worker[Host[s]] # "recovering"
    BY <1>4 DEF Complete, SlotsFollowWorker
  <2>2. \A w \in Workers : w # Host[s] => processing'[w] = processing[w]
    BY <1>4 DEF Complete, RemoveFrom, TypeOK
  <2> QED  BY <1>4, <2>1, <2>2 DEF Complete, Calm
<1> QED
  BY <1>1, <1>2, <1>3, <1>4, FaultFree
     DEF Dispatch, SlotStep, FetchImages, Execute, ExecuteTimesOut, Executed,
         ExecuteRaises, PublishResult, Cleanup, EndJob, vars

(* No request is answered twice without a fault. *)
LEMMA FreshStep ==
    ASSUME TypeOK, SlotsFollowWorker, Sole, Jobs, Calm, Fresh, faults' = 0, [Next]_vars
    PROVE  Fresh'
<1> USE HostAssumption, MembersAssumption, NullAssumption
<1>0. Lists
  BY DEF TypeOK, Lists
<1>1. CASE UNCHANGED <<again, job, batchQueue, answer, dispatched, pc, outbox>>
  BY <1>1 DEF Fresh
<1>2. ASSUME NEW b \in Batches, Dispatch(b)
      PROVE  Fresh'
  <2>1. /\ b \notin dispatched /\ dispatched' = dispatched \cup {b}
        /\ \A c : Contains(batchQueue', c) <=> Contains(batchQueue, c) \/ c = b
    BY <1>0, <1>2, DispatchMoves
  <2>2. \A s \in Slots : job[s] # NoBatch => job[s] # b
    BY <2>1 DEF Jobs
  <2>3. UNCHANGED <<again, answer, job, pc, outbox>>
    BY <1>2 DEF Dispatch
  <2> QED  BY <2>1, <2>2, <2>3 DEF Fresh
<1>3. ASSUME NEW s \in Slots, Reserve(s)
      PROVE  Fresh'
  <2>1. PICK b \in Batches : b = Last(batchQueue)
    BY <1>0, <1>3, TakeRightMoves DEF Reserve
  <2>2. /\ Contains(batchQueue, b)
        /\ \A c : Contains(batchQueue', c) <=> Contains(batchQueue, c) /\ c # b
    BY <1>0, <1>3, <2>1, TakeRightMoves DEF Reserve
  <2>3. /\ job'[s] = b /\ pc'[s] = "fetch"
        /\ \A t \in Slots : t # s => job'[t] = job[t] /\ pc'[t] = pc[t]
        /\ UNCHANGED <<again, answer, dispatched, outbox>>
    BY <1>3, <2>1 DEF Reserve, TypeOK
  <2>4. \A r \in Members[b] : answer[r] = NoAnswer
    BY <2>2 DEF Fresh
  <2>5. \A t \in Slots : job[t] # NoBatch => job[t] # b
    BY <2>2 DEF Fresh
  <2>6. b # NoBatch
    OBVIOUS
  <2>7. /\ \A t, u \in Slots : t # u /\ job'[t] # NoBatch => job'[t] # job'[u]
        /\ \A t \in Slots : job'[t] # NoBatch => ~ Contains(batchQueue', job'[t])
    BY <2>2, <2>3, <2>5, <2>6 DEF Fresh
  <2> QED  BY <2>2, <2>3, <2>4, <2>7 DEF Fresh
<1>4. ASSUME NEW s \in Slots, FetchImages(s) \/ ExecuteRaises(s)
      PROVE  Fresh'
  <2>1. /\ UNCHANGED <<again, job, batchQueue, answer, dispatched, outbox>>
        /\ \A t \in Slots : \/ pc'[t] = pc[t]
                            \/ pc[t] = "fetch" /\ pc'[t] = "execute"
                            \/ pc'[t] = "cleanup"
    BY <1>4 DEF FetchImages, ExecuteRaises, TypeOK
  <2> QED  BY <2>1 DEF Fresh
<1>5. ASSUME NEW s \in Slots, NEW results, Executed(s, results),
             \A res \in results : /\ res[1] \in Members[job[s]]
                                  /\ \A one \in results : one[1] = res[1] => one = res
      PROVE  Fresh'
  <2>1. /\ UNCHANGED <<again, job, batchQueue, answer, dispatched>>
        /\ pc[s] = "execute" /\ outbox'[s] = results
        /\ \A t \in Slots : t # s => pc'[t] = pc[t] /\ outbox'[t] = outbox[t]
        /\ pc'[s] = "publish"
    BY <1>5 DEF Executed, TypeOK
  <2> QED  BY <1>5, <2>1 DEF Fresh
<1>6. ASSUME NEW s \in Slots, Execute(s)
      PROVE  Fresh'
  <2> DEFINE results == {<<r, IF r \in Kept(s) THEN "ok" ELSE "error">> :
                            r \in Members[job[s]]}
  <2>1. Executed(s, results)
    BY <1>6 DEF Execute
  <2>2. \A res \in results : /\ res[1] \in Members[job[s]]
                             /\ \A one \in results : one[1] = res[1] => one = res
    OBVIOUS
  <2> HIDE DEF results
  <2> QED  BY <1>5, <2>1, <2>2
<1>7. ASSUME NEW s \in Slots, ExecuteTimesOut(s)
      PROVE  Fresh'
  <2> DEFINE results == Members[job[s]] \X {"timeout"}
  <2>1. Executed(s, results)
    BY <1>7 DEF ExecuteTimesOut
  <2>2. \A res \in results : /\ res[1] \in Members[job[s]]
                             /\ \A one \in results : one[1] = res[1] => one = res
    OBVIOUS
  <2> HIDE DEF results
  <2> QED  BY <1>5, <2>1, <2>2
<1>8. ASSUME NEW s \in Slots, PublishResult(s)
      PROVE  Fresh'
  <2>1. PICK res \in outbox[s] :
            /\ \/ /\ answer[res[1]] = NoAnswer
                  /\ answer' = [answer EXCEPT ![res[1]] = res[2]]
                  /\ again' = again
               \/ answer[res[1]] # NoAnswer
            /\ outbox' = [outbox EXCEPT ![s] = @ \ {res}]
            /\ pc' = [pc EXCEPT ![s] = IF outbox[s] = {res} THEN "complete"
                                                            ELSE "publish"]
    BY <1>8 DEF PublishResult
  <2>2. /\ pc[s] = "publish" /\ UNCHANGED <<job, batchQueue, dispatched>>
        /\ res[1] \in Requests
    BY <1>8, <2>1 DEF PublishResult, TypeOK
  <2>3. /\ answer' = [answer EXCEPT ![res[1]] = res[2]] /\ again' = again
    BY <2>1, <2>2 DEF Fresh
  <2>4. /\ job[s] \in Batches /\ res[1] \in Members[job[s]]
        /\ job[s] \in dispatched /\ ~ Contains(batchQueue, job[s])
    BY <2>1, <2>2 DEF Jobs, Fresh, TypeOK
  <2>5. ASSUME NEW b \in Batches, NEW r \in Members[b], answer'[r] # NoAnswer
        PROVE  b \in dispatched /\ ~ Contains(batchQueue, b)
    <3>1. CASE r = res[1]
      <4>1. b = job[s]
        BY <2>4, <3>1
      <4> QED  BY <2>4, <4>1
    <3>2. CASE r # res[1]
      BY <2>3, <2>5, <3>2 DEF Fresh, TypeOK
    <3> QED  BY <3>1, <3>2
  <2>6. ASSUME NEW t \in Slots, pc'[t] \in {"fetch", "execute"},
               NEW r \in Members[job'[t]]
        PROVE  answer'[r] = NoAnswer
    <3>1. t # s /\ pc[t] = pc'[t] /\ job'[t] = job[t]
      BY <2>1, <2>2, <2>6 DEF TypeOK
    <3>2. job[t] \in Batches /\ job[t] # job[s]
      <4>1. job[t] # NoBatch
        BY <2>6, <3>1 DEF TypeOK
      <4>2. job[t] \in Batches
        BY <4>1 DEF TypeOK
      <4>3. job[t] # job[s]
        BY <3>1, <4>1 DEF Fresh
      <4> QED  BY <4>2, <4>3
    <3>3. r # res[1]
      BY <2>4, <3>1, <3>2
    <3> QED  BY <2>3, <2>6, <3>1, <3>3 DEF Fresh, TypeOK
  <2>7. ASSUME NEW t \in Slots, pc'[t] = "publish", NEW one \in outbox'[t]
        PROVE  /\ answer'[one[1]] = NoAnswer
               /\ \A two \in outbox'[t] : two[1] = one[1] => two = one
    <3>1. pc[t] = "publish" /\ outbox'[t] \subseteq outbox[t]
      BY <2>1, <2>2, <2>7 DEF TypeOK
    <3>2. one[1] # res[1]
      <4>1. CASE t = s
        <5>1. one # res /\ one \in outbox[s]
          BY <2>1, <2>7, <4>1 DEF TypeOK
        <5> QED  BY <2>1, <2>2, <5>1 DEF Fresh
      <4>2. CASE t # s
        <5>1. job[t] \in Batches /\ job[t] # job[s] /\ one[1] \in Members[job[t]]
          BY <2>4, <2>7, <3>1, <4>2 DEF Fresh, Jobs, TypeOK
        <5> QED  BY <2>4, <5>1
      <4> QED  BY <4>1, <4>2
    <3> QED  BY <2>3, <2>7, <3>1, <3>2 DEF Fresh, TypeOK
  <2> QED  BY <2>2, <2>3, <2>5, <2>6, <2>7 DEF Fresh
<1>9. ASSUME NEW s \in Slots, Complete(s)
      PROVE  Fresh'
  <2>1. /\ UNCHANGED <<again, job, batchQueue, answer, dispatched, outbox>>
        /\ \A t \in Slots : pc'[t] = pc[t] \/ pc'[t] = "cleanup"
    BY <1>9 DEF Complete, RemoveFrom, TypeOK
  <2> QED  BY <2>1 DEF Fresh
<1>10. ASSUME NEW s \in Slots, Cleanup(s)
       PROVE  Fresh'
  <2>1. /\ UNCHANGED <<again, batchQueue, answer, dispatched, outbox>>
        /\ job'[s] = NoBatch /\ pc'[s] \in {"idle", "ended"}
        /\ \A t \in Slots : t # s => pc'[t] = pc[t] /\ job'[t] = job[t]
    BY <1>10 DEF Cleanup, EndJob, TypeOK
  <2> QED  BY <2>1 DEF Fresh
<1>11. ASSUME NEW w \in Workers, Launch(w)
       PROVE  Fresh'
  <2>1. /\ UNCHANGED <<again, batchQueue, answer, dispatched, outbox, job>>
        /\ \A t \in Slots : pc'[t] = pc[t] \/ pc'[t] = "idle"
    BY <1>11 DEF Launch, TypeOK
  <2> QED  BY <2>1 DEF Fresh
<1> QED
  BY <1>1, <1>2, <1>3, <1>4, <1>6, <1>7, <1>8, <1>9, <1>10, <1>11, FaultFree
     DEF SlotStep, Beat, vars

(* As long as nothing fails, no request gets a second result and no        *)
(* janitor takes anything from anybody: recovery is for failures only.     *)
THEOREM NothingTwice == Spec => []NoFaultNoDuplicate
<1> DEFINE Inv == faults = 0 => Calm /\ Fresh
<1>1. Init => Jobs /\ Inv
  <2> SUFFICES ASSUME Init  PROVE Jobs /\ Inv
    OBVIOUS
  <2>1. Jobs
    BY DEF Init, Jobs
  <2>2. /\ Calm
    BY DEF Init, Calm
  <2>3. Fresh
    BY MembersAssumption DEF Init, Fresh
  <2> QED  BY <2>1, <2>2, <2>3
<1>2. IInv /\ Sole /\ Jobs /\ [Next]_vars => Jobs'
  BY JobsStep DEF IInv
<1>3. IInv /\ Sole /\ Jobs /\ Inv /\ [Next]_vars => Inv'
  <2> SUFFICES ASSUME IInv, Sole, Jobs, Inv, [Next]_vars, faults' = 0
               PROVE  Calm' /\ Fresh'
    OBVIOUS
  <2>1. faults = 0
    <3>1. faults' = faults \/ faults' = faults + 1
      BY DEF Next, vars, Dispatch, SlotStep, Reserve, FetchImages, Execute,
             ExecuteTimesOut, Executed, ExecuteRaises, PublishResult, Complete,
             Cleanup, SlotFault, ReserveReplyLost, SlotError, CleanupFails, Beat,
             Expire, Stall, HeartbeatTaskDies, JanitorStep, JanitorScan,
             JanitorMove, JanitorDrained, JanitorForget, JanitorError, LifeStep,
             RecoverOwn, Launch, Stopped, Start, WorkerFault, Crash, Stop,
             ImageExpires, Fault
    <3> QED  BY <3>1, FaultsGrow DEF IInv
  <2>2. Calm /\ Fresh
    BY <2>1
  <2> QED  BY <2>2, CalmStep, FreshStep DEF IInv, SlotInv
<1>4. Inv => NoFaultNoDuplicate
  BY DEF NoFaultNoDuplicate, Calm, Fresh
<1> HIDE DEF Inv
<1> QED  BY <1>1, <1>2, <1>3, <1>4, AlwaysSole, PTL DEF Spec
-----------------------------------------------------------------------------
(* What a survivor can find, it can find until it has found it *)

(* A worker has a record, and no janitor that believes to be through with  *)
(* it is about to delete the record.                                       *)
Findable(w) ==
    /\ heartbeat[w] # "none"
    /\ \A v \in Janitors : janitor[v].drained => janitor[v].target # w

(* Only a process with a janitor makes a snapshot.                         *)
NoOtherJanitor == \A v \in Workers \ Janitors : janitor[v] = Resting

LEMMA NoOtherStep ==
    ASSUME TypeOK, NoOtherJanitor, [Next]_vars
    PROVE  NoOtherJanitor'
<1> SUFFICES ASSUME NEW v \in Workers \ Janitors
             PROVE  janitor'[v] = Resting
  BY DEF NoOtherJanitor
<1>1. janitor[v] = Resting /\ ~ janitor[v].drained /\ janitor[v].target = NoWorker
  <2>1. janitor[v] = Resting
    BY DEF NoOtherJanitor
  <2>2. ~ Resting.drained /\ Resting.target = NoWorker
    BY DEF Resting
  <2> QED  BY <2>1, <2>2
<1>2. ASSUME NEW w \in Workers, JanitorScan(w) \/ JanitorDrained(w) \/ JanitorForget(w)
      PROVE  janitor'[v] = janitor[v]
  <2>1. w # v
    BY <1>1, <1>2 DEF JanitorScan, JanitorDrained, JanitorForget
  <2> QED  BY <1>2, <2>1 DEF JanitorScan, JanitorDrained, JanitorForget, TypeOK
<1>3. ASSUME NEW w \in Workers, JanitorError(w) \/ Crash(w) \/ Stop(w)
      PROVE  janitor'[v] = janitor[v]
  BY <1>1, <1>3 DEF JanitorError, Crash, Stop, TypeOK
<1>4. \/ UNCHANGED janitor
      \/ \E w \in Workers : \/ JanitorScan(w) \/ JanitorDrained(w) \/ JanitorForget(w)
                            \/ JanitorError(w) \/ Crash(w) \/ Stop(w)
  BY DEF Next, vars, Dispatch, SlotStep, Reserve, FetchImages, Execute,
         ExecuteTimesOut, Executed, ExecuteRaises, PublishResult, Complete, Cleanup,
         EndJob, SlotFault, ReserveReplyLost, SlotError, CleanupFails, Beat, Expire,
         Stall, GoesStale, HeartbeatTaskDies, JanitorStep, JanitorMove, LifeStep,
         RecoverOwn, Launch, Stopped, Start, WorkerFault, ImageExpires
<1> QED  BY <1>1, <1>2, <1>3, <1>4

(* The step behind RecordedDeadRecovered, for the HDEL of janitor.py:75    *)
(* and that of WorkerLoop.stop: what a dead worker holds in a list that a  *)
(* survivor's janitor can find stays there to be found until the batch has *)
(* left the list or the worker has been restarted, however many janitors   *)
(* are at work on it with old snapshots.                                   *)
THEOREM StaysFindable ==
    Spec => [][ \A w \in Workers, b \in Batches :
                    Stranded(w, b) /\ Findable(w) =>
                        ~ Stranded(w, b)' \/ Findable(w)' ]_vars
<1>1. Init => NoOtherJanitor
  BY DEF Init, NoOtherJanitor
<1>2. TypeOK /\ NoOtherJanitor /\ [Next]_vars => NoOtherJanitor'
  BY NoOtherStep
<1>3. ASSUME TypeOK, NoOtherJanitor, [Next]_vars,
             NEW w \in Workers, NEW b \in Batches,
             Stranded(w, b), Findable(w), Stranded(w, b)'
      PROVE  Findable(w)'
  <2>1. processing[w] # <<>> /\ worker[w] = "down" /\ worker'[w] = "down"
    BY <1>3 DEF Stranded, Contains
  <2>2. ASSUME NEW v \in Workers, JanitorForget(v)
        PROVE  Findable(w)'
    <3>1. v \in Janitors
      BY <1>3, <2>2 DEF NoOtherJanitor, JanitorForget, Resting
    <3>2. janitor[v].target # w
      BY <1>3, <2>2, <3>1 DEF Findable, JanitorForget
    <3>3. heartbeat'[w] = heartbeat[w]
      BY <2>2, <3>2 DEF JanitorForget, TypeOK
    <3>4. PICK visit \in NextVisits(janitor[v].stale) : janitor' = [janitor EXCEPT ![v] = visit]
      BY <2>2 DEF JanitorForget
    <3>5. visit.drained = FALSE
      BY <3>4 DEF NextVisits, Resting
    <3>6. \A u \in Janitors : janitor'[u].drained => janitor'[u] = janitor[u]
      BY <1>3, <3>4, <3>5, SubsetsAssumption DEF TypeOK
    <3> QED  BY <1>3, <3>3, <3>6 DEF Findable
  <2>3. ASSUME NEW v \in Workers, JanitorScan(v)
        PROVE  Findable(w)'
    <3>1. PICK stale \in SUBSET Workers :
              \E visit \in NextVisits(stale) : janitor' = [janitor EXCEPT ![v] = visit]
      BY <2>3 DEF JanitorScan
    <3>2. PICK visit \in NextVisits(stale) : janitor' = [janitor EXCEPT ![v] = visit]
      BY <3>1
    <3>3. \A u \in Janitors : janitor'[u].drained => janitor'[u] = janitor[u]
      <4>1. visit.drained = FALSE
        BY <3>2 DEF NextVisits, Resting
      <4> QED  BY <1>3, <3>2, <4>1, SubsetsAssumption DEF TypeOK
    <3> QED  BY <1>3, <2>3, <3>3 DEF Findable, JanitorScan
  <2>4. ASSUME NEW v \in Workers, JanitorDrained(v)
        PROVE  Findable(w)'
    <3>1. janitor[v].target # w
      BY <2>1, <2>4 DEF JanitorDrained
    <3>2. /\ \A u \in Janitors : janitor'[u].target = janitor[u].target
          /\ \A u \in Janitors \ {v} : janitor'[u] = janitor[u]
          /\ heartbeat' = heartbeat
      BY <1>3, <2>4, SubsetsAssumption DEF JanitorDrained, TypeOK
    <3> QED  BY <1>3, <3>1, <3>2 DEF Findable
  <2>5. ASSUME NEW v \in Workers, JanitorError(v) \/ Crash(v) \/ Stop(v)
        PROVE  Findable(w)'
    <3>1. janitor' = [janitor EXCEPT ![v] = Resting] /\ heartbeat' = heartbeat
      BY <2>5 DEF JanitorError, Crash, Stop
    <3>2. \A u \in Janitors : janitor'[u].drained => janitor'[u] = janitor[u]
      BY <1>3, <3>1, SubsetsAssumption DEF TypeOK, Resting
    <3> QED  BY <1>3, <3>1, <3>2 DEF Findable
  <2>6. ASSUME NEW v \in Workers,
               Beat(v) \/ Expire(v) \/ Stall(v) \/ Stopped(v)
        PROVE  Findable(w)'
    <3>1. janitor' = janitor
      BY <2>6 DEF Beat, Expire, Stall, GoesStale, Stopped
    <3>2. heartbeat'[w] # "none"
      <4>1. heartbeat[w] # "none"
        BY <1>3 DEF Findable
      <4>2. CASE Beat(v) \/ Expire(v) \/ Stall(v)
        BY <1>3, <4>1, <4>2 DEF Beat, Expire, Stall, GoesStale, TypeOK
      <4>3. CASE Stopped(v)
        <5>1. v # w
          BY <2>1, <4>3 DEF Stopped
        <5> QED  BY <1>3, <4>1, <4>3, <5>1 DEF Stopped, TypeOK
      <4> QED  BY <2>6, <4>2, <4>3
    <3> QED  BY <1>3, <3>1, <3>2 DEF Findable
  <2>7. CASE UNCHANGED <<janitor, heartbeat>>
    BY <1>3, <2>7 DEF Findable
  <2>8. \/ UNCHANGED <<janitor, heartbeat>>
        \/ \E v \in Workers :
              \/ JanitorScan(v) \/ JanitorDrained(v) \/ JanitorForget(v)
              \/ JanitorError(v) \/ Crash(v) \/ Stop(v)
              \/ Beat(v) \/ Expire(v) \/ Stall(v) \/ Stopped(v)
    BY <1>3 DEF Next, vars, Dispatch, SlotStep, Reserve, FetchImages, Execute,
         ExecuteTimesOut, Executed, ExecuteRaises, PublishResult, Complete, Cleanup,
         EndJob, SlotFault, ReserveReplyLost, SlotError, CleanupFails,
         HeartbeatTaskDies, JanitorStep, JanitorMove, LifeStep, RecoverOwn, Launch,
         Start, WorkerFault, ImageExpires
  <2> QED  BY <2>2, <2>3, <2>4, <2>5, <2>6, <2>7, <2>8
<1>4. TypeOK /\ NoOtherJanitor /\ [Next]_vars =>
        [ \A w \in Workers, b \in Batches :
              Stranded(w, b) /\ Findable(w) => ~ Stranded(w, b)' \/ Findable(w)' ]_vars
  BY <1>3
<1> QED  BY <1>1, <1>2, <1>4, TypeCorrect, PTL DEF Spec
=============================================================================
