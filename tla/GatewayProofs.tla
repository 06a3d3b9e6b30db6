---------------------------- MODULE GatewayProofs ---------------------------
(***************************************************************************)
(* That the gateway's calls and its circuit breaker keep what a client is  *)
(* told and what the data plane holds in agreement, for any number of      *)
(* requests, connections and faults.                                       *)
(***************************************************************************)
EXTENDS Gateway, TLAPS

Places == {"idle", "lost", "put", "check", "add", "undo", "await", "blocked",
           "answered", "queue_overflow", "circuit_open", "upstream_timeout",
           "internal_error"}

(* The places a call can be in, the outcomes it ends with among them. *)
LEMMA PlacesOfCall == {"idle", "lost"} \cup InFlight \cup DOMAIN HTTP = Places
<1>1. DOMAIN HTTP = {"answered", "queue_overflow", "circuit_open",
                     "upstream_timeout", "internal_error"}
  BY DEF HTTP
<1> QED  BY <1>1 DEF InFlight, Places

(* The variables outside the breaker, with the places of a call spelled out *)
CallTypes ==
    /\ pc \in [Requests -> Places]
    /\ raised \in [Requests -> {"none", "overflow", "connection", "other"}]
    /\ images \subseteq Requests /\ published \subseteq Requests
    /\ taken \subseteq published /\ queued \subseteq taken
    /\ working \in [Requests -> Nat]
    /\ \A r \in Requests : working[r] > 0 => r \in taken
    /\ mailbox \in [Requests -> {"empty", "ok", "error", "rejected"}]
    /\ spoiled \subseteq Requests /\ expired \subseteq Requests
    /\ faults \in 0 .. MaxFaults

(* The types of the breaker's variables and those of the others. *)
LEMMA TypesOfCall == TypeOK <=> BreakerTypeOK /\ CallTypes
BY PlacesOfCall DEF TypeOK, CallTypes

-----------------------------------------------------------------------------
(* The circuit breaker *)

(* Calls fail or succeed in any order, long after they were let in: each   *)
(* of them leaves the breaker with a state that fits its count.            *)
LEMMA BreakerStep ==
    ASSUME BreakerTypeOK, BreakerCount,
           \/ UNCHANGED breakerVars \/ Allow \/ RecordSuccess \/ RecordFailure
           \/ Elapse \/ NewProcess
    PROVE  BreakerTypeOK' /\ BreakerCount'
<1> USE ThresholdAssumption
<1>1. /\ state \in {"closed", "open", "half_open"} /\ failures \in 0 .. FailThreshold
      /\ state = "closed" <=> failures < FailThreshold
  BY DEF BreakerTypeOK, BreakerCount
<1>2. ripe' \in BOOLEAN
  BY Zenon DEF BreakerTypeOK, breakerVars, Allow, RecordSuccess, RecordFailure, Elapse,
               NewProcess
<1>3. /\ state' \in {"closed", "open", "half_open"} /\ failures' \in 0 .. FailThreshold
      /\ state' = "closed" <=> failures' < FailThreshold
  <2>1. CASE UNCHANGED breakerVars \/ Elapse
    BY <1>1, <2>1 DEF breakerVars, Elapse
  <2>2. CASE Allow
    BY <1>1, <2>2 DEF Allow, MaybeHalfOpen
  <2>3. CASE RecordSuccess \/ NewProcess
    <3>1. state' = "closed" /\ failures' = 0
      BY <2>3 DEF RecordSuccess, NewProcess
    <3> QED  BY <3>1
  <2>4. CASE RecordFailure
    <3>1. /\ Counted \in 0 .. FailThreshold /\ failures' = Counted
          /\ failures >= FailThreshold => Counted >= FailThreshold
      BY <1>1, <2>4 DEF Counted, RecordFailure
    <3>2. IF state = "half_open" \/ Counted >= FailThreshold
          THEN state' = "open" ELSE state' = state
      BY <2>4 DEF RecordFailure
    <3> QED  BY <1>1, <3>1, <3>2
  <2> QED  BY <2>1, <2>2, <2>3, <2>4
<1> QED  BY <1>2, <1>3 DEF BreakerTypeOK, BreakerCount

(* The only uses of it: allow, record_success, record_failure, the clock,  *)
(* and a new process.                                                      *)
LEMMA BreakerUses ==
    ASSUME [Next]_vars
    PROVE  \/ UNCHANGED breakerVars \/ Allow \/ RecordSuccess \/ RecordFailure
           \/ Elapse \/ NewProcess
<1>1. ASSUME NEW r \in Requests, Ask(r)
      PROVE  UNCHANGED breakerVars \/ Allow
  BY <1>1 DEF Ask, Enter, Refuse, ComeBack, Reject
<1>2. ASSUME NEW r \in Requests, NEW kind, Raise(r, kind) \/ CommandRaises(r, kind)
      PROVE  UNCHANGED breakerVars \/ RecordFailure
  BY <1>2 DEF Raise, CommandRaises, RaiseToUndo
<1>3. ASSUME NEW r \in Requests, CallStep(r)
      PROVE  UNCHANGED breakerVars \/ RecordSuccess \/ RecordFailure
  <2>1. CASE Put(r) \/ Add(r) \/ Block(r) \/ Answered(r) \/ TimesOut(r)
    BY <2>1 DEF Put, Add, Block, Answered, TimesOut, breakerVars
  <2>2. CASE Check(r)
    BY <2>2 DEF Check, RaiseToUndo, breakerVars
  <2>3. CASE Undo(r) \/ Exhausted(r)
    BY <1>2, <2>3 DEF Undo, Exhausted
  <2> QED  BY <1>3, <2>1, <2>2, <2>3 DEF CallStep
<1>4. ASSUME NEW r \in Requests, CommandFails(r)
      PROVE  UNCHANGED breakerVars \/ RecordFailure
  BY <1>2, <1>4 DEF CommandFails
<1>5. ASSUME NEW r \in Requests, DeadlinePasses(r) \/ Plane(r)
      PROVE  UNCHANGED breakerVars
  BY <1>5 DEF DeadlinePasses, Plane, Schedule, HandOut, Serve, ServeInPart, GiveUp,
               Recover, Publishes, ImageExpires, breakerVars
<1>6. CASE Crash
  BY <1>6 DEF Crash
<1>7. CASE ResetPasses
  BY <1>7 DEF ResetPasses
<1>8. CASE UNCHANGED vars
  BY <1>8 DEF vars
<1> QED  BY <1>1, <1>3, <1>4, <1>5, <1>6, <1>7, <1>8 DEF Next

-----------------------------------------------------------------------------
(* What a call and the data plane have of one request *)

(* A request that waits for its first result and has not been spoiled      *)
Awaited(r) == r \notin spoiled /\ Pending(r) /\ mailbox[r] = "empty"

(* Nothing is inductive alone: that a request refused for backpressure left *)
(* nothing (the fifth line) needs what was there when it began to undo, and *)
(* that its image outlives the wait needs that nobody is working on it      *)
(* before it is published, and that redelivery comes after the first result *)
(* or leaves the image.                                                    *)
Tidy(r) ==
    /\ mailbox[r] # "empty" => r \in taken
    /\ pc[r] \in {"idle", "circuit_open", "put"} => r \notin images /\ r \notin published
    /\ pc[r] \in {"check", "add"} =>
          /\ r \notin published
          /\ r \in images \cup spoiled
    /\ pc[r] = "undo" =>
          /\ raised[r] # "none"
          /\ raised[r] = "overflow" => r \notin published
          /\ r \in published /\ Awaited(r) => r \in images
    /\ pc[r] = "queue_overflow" =>
          raised[r] = "connection" \/ (r \notin images /\ r \notin published)
    /\ pc[r] \in {"await", "blocked"} => r \in published /\ (Awaited(r) => r \in images)
    /\ pc[r] \in {"put", "check", "add", "undo", "await", "blocked"} /\ r \notin spoiled =>
          mailbox[r] # "error"
    /\ pc[r] = "upstream_timeout" => r \in expired

AllTidy == \A r \in Requests : Tidy(r)

IInv == BreakerTypeOK /\ BreakerCount /\ CallTypes /\ AllTidy

StepOf(r) ==
    Ask(r) \/ CallStep(r) \/ CommandFails(r) \/ DeadlinePasses(r) \/ Plane(r)

(* A command of one call, in or out of order, touches no other request.    *)
LEMMA EffectOn ==
    ASSUME CallTypes, NEW r \in Requests, Effect(r)
    PROVE  /\ images' = IF pc[r] = "put" THEN images \cup {r}
                        ELSE IF pc[r] = "undo" THEN images \ {r} ELSE images
           /\ published' = IF pc[r] = "add" THEN published \cup {r} ELSE published
           /\ mailbox' = IF pc[r] = "blocked" THEN [mailbox EXCEPT ![r] = "empty"]
                                              ELSE mailbox
           /\ UNCHANGED <<taken, queued, working, spoiled>>
<1>1. images' = IF pc[r] = "put" THEN images \cup {r}
                ELSE IF pc[r] = "undo" THEN images \ {r} ELSE images
  <2>1. CASE pc[r] = "put"
    BY <2>1 DEF Effect
  <2>2. CASE pc[r] = "undo"
    BY <2>2 DEF Effect
  <2>3. CASE pc[r] # "put" /\ pc[r] # "undo"
    BY <2>3 DEF Effect
  <2> QED  BY <2>1, <2>2, <2>3
<1> QED  BY <1>1 DEF Effect, Popped

(* Where an exception takes a call *)
LEMMA RaisesTo ==
    ASSUME CallTypes, NEW r \in Requests, NEW kind \in {"connection", "other"},
           CommandRaises(r, kind)
    PROVE  /\ raised' = [raised EXCEPT ![r] = kind]
           /\ pc' = [pc EXCEPT ![r] =
                        IF pc[r] \in {"check", "add"} THEN "undo"
                        ELSE IF kind = "other" THEN "internal_error"
                        ELSE "queue_overflow"]
BY DEF CommandRaises, Raise, RaiseToUndo, Handled, Goes, CallTypes

(* Every step is about one request. *)
LEMMA TidyStep ==
    ASSUME CallTypes, AllTidy, NEW r \in Requests, StepOf(r)
    PROVE  CallTypes' /\ AllTidy'
<1> DEFINE Only(place, exception) ==
        /\ pc' = [pc EXCEPT ![r] = place]
        /\ raised' = [raised EXCEPT ![r] = exception]
<1> USE DEF CallTypes, Places, Goes
<1>0. Tidy(r)
  BY DEF AllTidy
<1>1. ASSUME NEW place \in Places,
             NEW exception \in {"none", "overflow", "connection", "other"},
             Only(place, exception), expired' \in SUBSET Requests,
             expired \subseteq expired', faults' \in 0 .. MaxFaults,
             images' \subseteq Requests, published' \subseteq Requests,
             taken' \subseteq published', queued' \subseteq taken',
             working' \in [Requests -> Nat],
             \A u \in Requests : working'[u] > 0 => u \in taken',
             spoiled' \subseteq Requests,
             mailbox' \in [Requests -> {"empty", "ok", "error", "rejected"}],
             \A u \in Requests \ {r} :
                 /\ u \in images' <=> u \in images
                 /\ u \in published' <=> u \in published
                 /\ u \in taken' <=> u \in taken
                 /\ u \in queued' <=> u \in queued
                 /\ u \in spoiled' <=> u \in spoiled
                 /\ working'[u] = working[u] /\ mailbox'[u] = mailbox[u],
             Tidy(r)'
      PROVE  CallTypes' /\ AllTidy'
  <2>1. CallTypes'
    BY <1>1
  <2>2. ASSUME NEW u \in Requests \ {r}
        PROVE  Tidy(u)'
    <3>1. Tidy(u) /\ pc'[u] = pc[u] /\ raised'[u] = raised[u]
      BY <1>1 DEF AllTidy
    <3> QED  BY <1>1, <3>1 DEF Tidy, Awaited, Pending
  <2> QED  BY <1>1, <2>1, <2>2 DEF AllTidy
<1>2. CASE Ask(r)
  <2>1. /\ UNCHANGED <<raised, planeVars, expired, faults>>
        /\ \/ pc' = [pc EXCEPT ![r] = "put"] /\ pc[r] = "idle"
           \/ pc' = [pc EXCEPT ![r] = "circuit_open"] /\ pc[r] = "idle"
           \/ pc' = [pc EXCEPT ![r] = "idle"] /\ pc[r] = "circuit_open"
    BY <1>2 DEF Ask, Enter, Refuse, ComeBack
  <2>2. Only(pc'[r], raised[r]) /\ Tidy(r)'
    BY <1>0, <2>1 DEF Tidy, Awaited, Pending, planeVars
  <2> QED  BY <1>1, <2>1, <2>2 DEF planeVars
<1>3. CASE Put(r) \/ Add(r)
  <2>1. /\ Effect(r) /\ UNCHANGED <<raised, expired, faults>>
        /\ \/ pc[r] = "put" /\ pc' = [pc EXCEPT ![r] = "check"]
           \/ pc[r] = "add" /\ pc' = [pc EXCEPT ![r] = "await"]
    BY <1>3 DEF Put, Add
  <2>2. Only(pc'[r], raised[r]) /\ Tidy(r)'
    BY <1>0, <2>1, EffectOn DEF Tidy, Awaited, Pending
  <2> QED  BY <1>1, <2>1, <2>2, EffectOn
<1>4. CASE Check(r) \/ Block(r)
  <2>1. /\ UNCHANGED <<planeVars, expired, faults>>
        /\ \/ pc[r] = "check" /\ Only("undo", "overflow")
           \/ pc[r] = "check" /\ pc' = [pc EXCEPT ![r] = "add"] /\ raised' = raised
           \/ pc[r] = "await" /\ pc' = [pc EXCEPT ![r] = "blocked"] /\ raised' = raised
    BY <1>4 DEF Check, Block, RaiseToUndo
  <2>2. Only(pc'[r], raised'[r]) /\ Tidy(r)'
    BY <1>0, <2>1 DEF Tidy, Awaited, Pending, planeVars
  <2> QED  BY <1>1, <2>1, <2>2 DEF planeVars
<1>5. CASE Undo(r)
  <2>1. /\ pc[r] = "undo" /\ Effect(r) /\ UNCHANGED <<expired, faults>>
        /\ Only(IF raised[r] = "other" THEN "internal_error" ELSE "queue_overflow", raised[r])
    BY <1>5 DEF Undo, Raise, Handled
  <2>2. Tidy(r)'
    BY <1>0, <2>1, EffectOn DEF Tidy, Awaited, Pending
  <2> QED  BY <1>1, <2>1, <2>2, EffectOn
<1>6. CASE Answered(r)
  <2>1. /\ pc[r] = "blocked" /\ Effect(r) /\ UNCHANGED <<raised, expired, faults>>
        /\ pc' = [pc EXCEPT ![r] = "answered"]
    BY <1>6 DEF Answered
  <2>2. Only("answered", raised[r]) /\ Tidy(r)'
    BY <1>0, <2>1, EffectOn DEF Tidy, Awaited, Pending
  <2> QED  BY <1>1, <2>1, <2>2, EffectOn
<1>7. CASE TimesOut(r)
  <2>1. /\ r \in expired /\ UNCHANGED <<raised, planeVars, expired, faults>>
        /\ pc' = [pc EXCEPT ![r] = "upstream_timeout"]
    BY <1>7 DEF TimesOut
  <2>2. Only("upstream_timeout", raised[r]) /\ Tidy(r)'
    BY <1>0, <2>1 DEF Tidy, Awaited, Pending, planeVars
  <2> QED  BY <1>1, <2>1, <2>2 DEF planeVars
<1>8. ASSUME NEW kind \in {"connection", "other"}, CommandRaises(r, kind),
             pc[r] \in {"put", "check", "add", "undo", "await", "blocked"},
             (Effect(r) /\ kind = "connection") \/ UNCHANGED planeVars,
             expired' = expired, faults' \in 0 .. MaxFaults
      PROVE  CallTypes' /\ AllTidy'
  <2>1. Only(pc'[r], kind) /\ pc'[r] \in {"undo", "internal_error", "queue_overflow"}
    BY <1>8, RaisesTo
  <2>2. /\ pc'[r] = "undo" <=> pc[r] \in {"check", "add"}
        /\ kind = "other" => pc'[r] # "queue_overflow"
    BY <1>8, RaisesTo
  <2>3. CASE UNCHANGED planeVars
    <3>1. Tidy(r)'
      BY <1>0, <1>8, <2>1, <2>2, <2>3 DEF Tidy, Awaited, Pending, planeVars
    <3> QED  BY <1>1, <1>8, <2>1, <2>3, <3>1 DEF planeVars
  <2>4. CASE Effect(r)
    <3>1. Tidy(r)'
      <4>1. CASE pc[r] \in {"check", "add"}
        BY <1>0, <2>1, <2>2, <2>4, <4>1, <1>8, EffectOn DEF Tidy, Awaited, Pending
      <4>2. CASE pc[r] \notin {"check", "add"}
        BY <1>0, <2>1, <2>2, <2>4, <4>2, <1>8, EffectOn DEF Tidy, Awaited, Pending
      <4> QED  BY <4>1, <4>2
    <3>2. /\ images' \subseteq Requests /\ published' \subseteq Requests
          /\ taken' \subseteq published' /\ queued' \subseteq taken'
          /\ working' \in [Requests -> Nat] /\ spoiled' \subseteq Requests
          /\ \A u \in Requests : working'[u] > 0 => u \in taken'
          /\ mailbox' \in [Requests -> {"empty", "ok", "error", "rejected"}]
      BY <2>4, EffectOn
    <3>3. \A u \in Requests \ {r} :
              /\ u \in images' <=> u \in images
              /\ u \in published' <=> u \in published
              /\ u \in taken' <=> u \in taken
              /\ u \in queued' <=> u \in queued
              /\ u \in spoiled' <=> u \in spoiled
              /\ working'[u] = working[u] /\ mailbox'[u] = mailbox[u]
      BY <2>4, EffectOn
    <3>4. pc'[r] \in Places /\ kind \in {"none", "overflow", "connection", "other"}
      BY <2>1
    <3> QED  BY <1>1, <1>8, <2>1, <3>1, <3>2, <3>3, <3>4
  <2> QED  BY <1>8, <2>3, <2>4
<1>9. CASE Exhausted(r)
  BY <1>8, <1>9 DEF Exhausted, InFlight
<1>10. CASE CommandFails(r)
  BY <1>8, <1>10, GatewayAssumption DEF CommandFails, InFlight, Fault
<1>11. CASE DeadlinePasses(r)
  <2>1. /\ expired' = expired \cup {r} /\ UNCHANGED <<pc, raised, planeVars, faults>>
    BY <1>11 DEF DeadlinePasses
  <2>2. Only(pc[r], raised[r]) /\ Tidy(r)'
    BY <1>0, <2>1 DEF Tidy, Awaited, Pending, planeVars
  <2> QED  BY <1>1, <2>1, <2>2 DEF planeVars
<1>12. CASE Schedule(r)
  <2>1. /\ r \in published \ taken /\ taken' = taken \cup {r}
        /\ UNCHANGED <<pc, raised, images, published, working, spoiled, expired, faults>>
        /\ \/ queued' = queued /\ mailbox' \in {mailbox, [mailbox EXCEPT ![r] = "rejected"]}
           \/ queued' = queued \cup {r} /\ mailbox' = mailbox
    BY <1>12 DEF Schedule, Deliver
  <2>2. Only(pc[r], raised[r]) /\ Tidy(r)'
    BY <1>0, <2>1 DEF Tidy, Awaited, Pending
  <2> QED  BY <1>1, <2>1, <2>2
<1>13. CASE HandOut(r) \/ GiveUp(r) \/ Recover(r)
  <2>1. /\ r \in taken /\ r \in published
        /\ UNCHANGED <<pc, raised, published, taken, mailbox, expired>>
        /\ faults' \in 0 .. MaxFaults
    BY <1>13, GatewayAssumption DEF HandOut, GiveUp, Recover, Fault
  <2>2. /\ queued' \in {queued \cup {r}, queued \ {r}}
        /\ Pending(r)
        /\ \/ UNCHANGED <<images, spoiled>>
           \/ images' = images \ {r} /\ spoiled' = spoiled \cup {r}
    BY <1>13 DEF HandOut, GiveUp, Recover, Pending
  <2>3. /\ working' \in [Requests -> Nat]
        /\ \A u \in Requests \ {r} : working'[u] = working[u]
    BY <1>13 DEF HandOut, GiveUp, Recover
  <2>4. Only(pc[r], raised[r]) /\ Tidy(r)'
    BY <1>0, <2>1, <2>2 DEF Tidy, Awaited, Pending
  <2> QED  BY <1>1, <2>1, <2>2, <2>3, <2>4
<1>14. CASE Serve(r) \/ ServeInPart(r)
  <2>1. Publishes(r) /\ faults' \in 0 .. MaxFaults
    BY <1>14, GatewayAssumption DEF Serve, ServeInPart, Fault
  <2>2. /\ images' \in {images, images \ {r}} /\ queued' \in {queued, queued \cup {r}}
    BY <1>14 DEF Serve, ServeInPart
  <2>3. /\ UNCHANGED <<pc, raised, published, taken, spoiled, expired>>
        /\ mailbox' = IF mailbox[r] # "empty" THEN mailbox
                      ELSE [mailbox EXCEPT ![r] = IF r \in images THEN "ok" ELSE "error"]
        /\ working[r] > 0 /\ working' = [working EXCEPT ![r] = @ - 1]
    BY <2>1 DEF Publishes, Deliver
  <2>4. /\ r \in taken /\ r \in published /\ Pending(r)
        /\ working' \in [Requests -> Nat] /\ images' \subseteq Requests
        /\ mailbox' \in [Requests -> {"empty", "ok", "error", "rejected"}]
        /\ queued' \subseteq taken /\ \A u \in Requests : working'[u] > 0 => u \in taken
    BY <2>2, <2>3 DEF Pending
  <2>5. ASSUME NEW u \in Requests \ {r}
        PROVE  /\ u \in images' <=> u \in images
               /\ u \in queued' <=> u \in queued
               /\ working'[u] = working[u] /\ mailbox'[u] = mailbox[u]
    BY <2>2, <2>3
  <2>6. /\ mailbox'[r] # "empty"
        /\ mailbox'[r] = "error" /\ mailbox[r] # "error" =>
              mailbox[r] = "empty" /\ r \notin images
    BY <2>3
  <2>7. Tidy(r)'
    BY <1>0, <2>2, <2>3, <2>4, <2>6 DEF Tidy, Awaited
  <2>8. pc[r] \in Places /\ raised[r] \in {"none", "overflow", "connection", "other"}
    OBVIOUS
  <2>9. Only(pc[r], raised[r])
    BY <2>3
  <2>10. UNCHANGED <<published, taken, spoiled, expired>> /\ faults' \in 0 .. MaxFaults
    BY <2>1, <2>3
  <2> HIDE DEF Only, Places
  <2> QED  BY <1>1, <2>4, <2>5, <2>7, <2>8, <2>9, <2>10
<1>15. CASE ImageExpires(r)
  <2>1. /\ images' = images \ {r} /\ spoiled' = spoiled \cup {r}
        /\ faults' \in 0 .. MaxFaults
        /\ UNCHANGED <<pc, raised, published, taken, queued, working, mailbox, expired>>
    BY <1>15, GatewayAssumption DEF ImageExpires, Fault
  <2>2. Only(pc[r], raised[r]) /\ Tidy(r)'
    BY <1>0, <2>1 DEF Tidy, Awaited, Pending
  <2> QED  BY <1>1, <2>1, <2>2
<1> QED  BY <1>2, <1>3, <1>4, <1>5, <1>6, <1>7, <1>9, <1>10, <1>11, <1>12, <1>13, <1>14,
            <1>15
         DEF StepOf, CallStep, Plane

(* A crash forgets the calls; what they left in Redis stays. *)
LEMMA CrashTidy ==
    ASSUME CallTypes, AllTidy, Crash
    PROVE  CallTypes' /\ AllTidy'
<1>1. /\ pc' = [r \in Requests |-> IF pc[r] = "idle" THEN "idle" ELSE "lost"]
      /\ raised' = [r \in Requests |-> "none"]
      /\ faults' = faults + 1 /\ faults < MaxFaults
      /\ UNCHANGED <<planeVars, expired>>
  BY DEF Crash, NewProcess, Fault
<1>2. CallTypes'
  BY <1>1, GatewayAssumption DEF CallTypes, Places, planeVars
<1>3. ASSUME NEW r \in Requests
      PROVE  Tidy(r)'
  BY <1>1, <1>3 DEF AllTidy, Tidy, Awaited, Pending, planeVars
<1> QED  BY <1>2, <1>3 DEF AllTidy

(* No call is under way and nothing is stored at first. *)
LEMMA InitIInv == Init => IInv
BY ThresholdAssumption, GatewayAssumption
   DEF Init, BreakerInit, IInv, BreakerTypeOK, BreakerCount, CallTypes, Places, AllTidy,
       Tidy, Awaited, Pending

(* Every step of a call, a scheduler, a worker or the clock keeps the invariant. *)
LEMMA IInvStep == IInv /\ [Next]_vars => IInv'
<1> SUFFICES ASSUME IInv, [Next]_vars  PROVE IInv'
  OBVIOUS
<1>1. BreakerTypeOK' /\ BreakerCount'
  BY BreakerStep, BreakerUses DEF IInv
<1>2. CASE UNCHANGED <<pc, raised, planeVars, expired, faults>>
  BY <1>1, <1>2 DEF IInv, CallTypes, AllTidy, Tidy, Awaited, Pending, planeVars
<1>3. ASSUME NEW r \in Requests, StepOf(r)
      PROVE  IInv'
  BY <1>1, <1>3, TidyStep DEF IInv
<1>4. CASE Crash
  BY <1>1, <1>4, CrashTidy DEF IInv
<1>5. CASE ResetPasses \/ UNCHANGED vars
  BY <1>2, <1>5 DEF ResetPasses, vars
<1> QED  BY <1>3, <1>4, <1>5 DEF Next, StepOf

(* The inductive invariant is one. *)
LEMMA Inductive == Spec => []IInv
BY InitIInv, IInvStep, PTL DEF Spec

-----------------------------------------------------------------------------
(* The results *)

(* The variables of the gateway and of what it sees of the data plane keep *)
(* their types.                                                            *)
THEOREM TypeCorrect == Spec => []TypeOK
<1>1. IInv => TypeOK
  BY TypesOfCall DEF IInv
<1> QED  BY <1>1, Inductive, PTL

(* circuit_breaker.py: whatever calls end in whatever order, the circuit is *)
(* closed exactly while fewer than fail_threshold of them failed in a row. *)
THEOREM BreakerAgrees == Spec => []BreakerCount
<1>1. IInv => BreakerCount
  BY DEF IInv
<1> QED  BY <1>1, Inductive, PTL

(* gateway_client.py stores the image before it publishes the request, and  *)
(* undoes it only when nobody will wait; a worker deletes it after it has   *)
(* published: the image of a pending request is there for as long as its    *)
(* client waits for a first result, unless a slot gave up on the request    *)
(* (worker_loop.py deletes it all the same) or the TTL ran out.             *)
THEOREM ImageThere == Spec => []ImageWhileWaited
<1>1. IInv => ImageWhileWaited
  BY DEF IInv, AllTidy, Tidy, Awaited, ImageWhileWaited, InFlight
<1> QED  BY <1>1, Inductive, PTL

(* submit undoes what it did before it refuses a request, also when other  *)
(* calls, the data plane and time go on in between.                        *)
THEOREM NothingLeft == Spec => []RefusedLeavesNothing
<1>1. ASSUME IInv, NEW r \in Requests, pc[r] \in {"queue_overflow", "circuit_open"},
             raised[r] # "connection"
      PROVE  r \notin images /\ r \notin published /\ mailbox[r] = "empty"
  <2>1. Tidy(r) /\ taken \subseteq published
    BY <1>1 DEF IInv, AllTidy, CallTypes
  <2> QED  BY <1>1, <2>1 DEF Tidy
<1>2. ASSUME NEW place \in DOMAIN HTTP, HTTP[place] = 503
      PROVE  place \in {"queue_overflow", "circuit_open"}
  BY <1>2 DEF HTTP
<1>3. IInv => RefusedLeavesNothing
  BY <1>1, <1>2 DEF RefusedLeavesNothing
<1> QED  BY <1>3, Inductive, PTL

(* A request carries the deadline its client waits for: a scheduler that    *)
(* reads it after that client was told 504 rejects it (scheduler_loop.py,   *)
(* _tick).  Nobody looks at the deadline later on.                          *)
THEOREM LateShed == Spec => LateIsShed
<1>1. ASSUME IInv, [Next]_vars, NEW r \in taken' \ taken, pc[r] = "upstream_timeout"
      PROVE  r \notin queued'
  <2>1. taken' # taken
    BY <1>1
  <2>2. ASSUME NEW u \in Requests, StepOf(u), ~ Schedule(u)
        PROVE  taken' = taken
    <3>1. CASE Ask(u) \/ DeadlinePasses(u) \/ Plane(u)
      BY <2>2, <3>1 DEF Ask, Enter, Refuse, ComeBack, DeadlinePasses, Plane, HandOut,
                        Serve, ServeInPart, Publishes, GiveUp, Recover, ImageExpires,
                        planeVars
    <3>2. CASE CallStep(u) \/ CommandFails(u)
      BY <3>2 DEF CallStep, CommandFails, Put, Check, Add, Undo, Block, Answered,
                  TimesOut, Exhausted, Effect, planeVars
    <3> QED  BY <2>2, <3>1, <3>2 DEF StepOf
  <2>3. ~ (Crash \/ ResetPasses \/ UNCHANGED vars)
    BY <2>1 DEF Crash, ResetPasses, vars, planeVars
  <2>4. PICK u \in Requests : Schedule(u)
    BY <1>1, <2>2, <2>3 DEF Next, StepOf
  <2>5. r = u
    BY <1>1, <2>4 DEF Schedule
  <2>6. r \in expired /\ queued \subseteq taken
    BY <2>5, <1>1 DEF IInv, AllTidy, Tidy, CallTypes
  <2> QED  BY <1>1, <2>4, <2>5, <2>6 DEF Schedule, IsExpired
<1>2. IInv /\ [Next]_vars =>
         [\A r \in taken' \ taken : pc[r] = "upstream_timeout" => r \notin queued']_vars
  BY <1>1
<1> QED  BY <1>2, Inductive, PTL DEF Spec, LateIsShed
=============================================================================
