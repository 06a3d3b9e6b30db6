------------------------------ MODULE Gateway -------------------------------
(***************************************************************************)
(* The calls of SubmitInferenceUseCase.execute in one gateway process,     *)
(* their commands to Redis (GatewayDataPlaneClient: ImageStore,            *)
(* RequestStream, ResultBus) and the circuit breaker they share.  Every    *)
(* await ends a step.  Of the data plane behind the stream this module has *)
(* what becomes of one request: the scheduler sheds it when its deadline   *)
(* has passed, else it waits to be handed to a slot of a worker, which     *)
(* answers with the image or for want of it, or gives up, dies or stalls,  *)
(* and the request is handed out again.  The lists and heartbeats this     *)
(* goes through are WorkerPool's.                                          *)
(*                                                                         *)
(* A waiting BLPOP occupies a connection of the pool, and a command that   *)
(* finds none free raises a ConnectionError, as one does whose connection  *)
(* breaks before or after Redis has executed it.                           *)
(***************************************************************************)
EXTENDS CircuitBreaker, FiniteSets

CONSTANTS
    Requests,
    MaxConnections,  \* connections of the pool
    MaxLen,          \* queue_maxlen
    Faults,          \* the kinds of fault this instance exercises
    MaxFaults        \* bound on the number of faults in a behaviour

FaultKinds == {"connection", "other", "crash", "worker", "expiry"}

ASSUME GatewayAssumption ==
    /\ IsFiniteSet(Requests)
    /\ MaxConnections \in Nat \ {0} /\ MaxLen \in Nat
    /\ Faults \subseteq FaultKinds /\ MaxFaults \in Nat

VARIABLES
    pc,         \* the command a call awaits next, or how it ended
    raised,     \* the exception on its way through a call
    images,     \* requests with an image in Redis
    published,  \* requests ever added to pip:requests: XACK deletes none
    taken,      \* those a scheduler has read
    queued,     \* those that wait for a slot: in the batcher, in pip:batches
                \* or in a processing list that will be recovered
    working,    \* how many slots have a request in hand and not answered it
    mailbox,    \* the result at the head of the mailbox: the one BLPOP pops
    spoiled,    \* history: requests a slot gave up on, or whose image ran
                \* out its TTL
    expired,    \* requests whose deadline_at has passed
    faults      \* faults so far

planeVars == <<images, published, taken, queued, working, mailbox, spoiled>>
vars == <<breakerVars, pc, raised, planeVars, expired, faults>>

InFlight == {"put", "check", "add", "undo", "await", "blocked"}

(* The answer to the client: install_exception_handlers *)
HTTP == [answered |-> 200, queue_overflow |-> 503, circuit_open |-> 503,
         upstream_timeout |-> 504, internal_error |-> 500]

TypeOK ==
    /\ BreakerTypeOK
    /\ pc \in [Requests -> {"idle", "lost"} \cup InFlight \cup DOMAIN HTTP]
    /\ raised \in [Requests -> {"none", "overflow", "connection", "other"}]
    /\ images \subseteq Requests /\ published \subseteq Requests
    /\ taken \subseteq published /\ queued \subseteq taken
    /\ working \in [Requests -> Nat]
    /\ \A r \in Requests : working[r] > 0 => r \in taken
    /\ mailbox \in [Requests -> {"empty", "ok", "error", "rejected"}]
    /\ spoiled \subseteq Requests /\ expired \subseteq Requests
    /\ faults \in 0 .. MaxFaults

Init ==
    /\ BreakerInit
    /\ pc = [r \in Requests |-> "idle"]
    /\ raised = [r \in Requests |-> "none"]
    /\ images = {} /\ published = {} /\ taken = {} /\ queued = {}
    /\ working = [r \in Requests |-> 0]
    /\ mailbox = [r \in Requests |-> "empty"]
    /\ spoiled = {} /\ expired = {}
    /\ faults = 0

Fault(kind) ==
    /\ kind \in Faults
    /\ faults < MaxFaults
    /\ faults' = faults + 1

Goes(r, place) == pc' = [pc EXCEPT ![r] = place]

Free == Cardinality({r \in Requests : pc[r] = "blocked"}) < MaxConnections

-----------------------------------------------------------------------------
(* allow: a refused client comes back with a new request *)

Enter(r) ==
    /\ pc[r] = "idle"
    /\ Allow
    /\ Goes(r, "put")
    /\ UNCHANGED <<raised, planeVars, expired, faults>>

Refuse(r) ==
    /\ pc[r] = "idle"
    /\ Reject
    /\ Goes(r, "circuit_open")
    /\ UNCHANGED <<raised, planeVars, expired, faults>>

ComeBack(r) ==
    /\ pc[r] = "circuit_open"
    /\ Goes(r, "idle")
    /\ UNCHANGED <<breakerVars, raised, planeVars, expired, faults>>

-----------------------------------------------------------------------------
(* The commands of submit and await_result *)

(* BLPOP takes the first result out of the mailbox. *)
Popped(r) == [mailbox EXCEPT ![r] = "empty"]

(* What Redis does with the command a call awaits *)
Effect(r) ==
    /\ images' = CASE pc[r] = "put"  -> images \cup {r}
                   [] pc[r] = "undo" -> images \ {r}
                   [] OTHER          -> images
    /\ published' = IF pc[r] = "add" THEN published \cup {r} ELSE published
    /\ mailbox' = IF pc[r] = "blocked" THEN Popped(r) ELSE mailbox
    /\ UNCHANGED <<taken, queued, working, spoiled>>

(* The error the client is told: a handler of the app has every exception. *)
Handled(kind) == IF kind = "other" THEN "internal_error" ELSE "queue_overflow"

(* An exception leaves execute: only a ConnectionError is told the breaker. *)
Raise(r, kind) ==
    /\ raised' = [raised EXCEPT ![r] = kind]
    /\ Goes(r, Handled(kind))
    /\ IF kind = "connection" THEN RecordFailure ELSE UNCHANGED breakerVars

(* One raised inside publish deletes the image first. *)
RaiseToUndo(r, kind) ==
    /\ raised' = [raised EXCEPT ![r] = kind]
    /\ Goes(r, "undo")
    /\ UNCHANGED breakerVars

CommandRaises(r, kind) ==
    IF pc[r] \in {"check", "add"} THEN RaiseToUndo(r, kind) ELSE Raise(r, kind)

Put(r) ==
    /\ pc[r] = "put" /\ Free
    /\ Effect(r)
    /\ Goes(r, "check")
    /\ UNCHANGED <<breakerVars, raised, expired, faults>>

Overflows == Cardinality(published) >= MaxLen

Check(r) ==
    /\ pc[r] = "check" /\ Free
    /\ IF Overflows
       THEN RaiseToUndo(r, "overflow")
       ELSE Goes(r, "add") /\ UNCHANGED <<breakerVars, raised>>
    /\ UNCHANGED <<planeVars, expired, faults>>

Add(r) ==
    /\ pc[r] = "add" /\ Free
    /\ Effect(r)
    /\ Goes(r, "await")
    /\ UNCHANGED <<breakerVars, raised, expired, faults>>

Undo(r) ==
    /\ pc[r] = "undo" /\ Free
    /\ Effect(r)
    /\ Raise(r, raised[r])
    /\ UNCHANGED <<expired, faults>>

Block(r) ==
    /\ pc[r] = "await" /\ Free
    /\ Goes(r, "blocked")
    /\ UNCHANGED <<breakerVars, raised, planeVars, expired, faults>>

(* Any result closes the circuit and is answered 200, REJECTED and ERROR too. *)
Answered(r) ==
    /\ pc[r] = "blocked" /\ mailbox[r] # "empty"
    /\ Effect(r)
    /\ RecordSuccess
    /\ Goes(r, "answered")
    /\ UNCHANGED <<raised, expired, faults>>

(* A slip: a BLPOP without a timeout. *)
NoTimeout(r) == FALSE

(* BLPOP waits as long as the deadline is away at the start of the call, and *)
(* starts later.                                                             *)
TimesOut(r) ==
    /\ pc[r] = "blocked" /\ mailbox[r] = "empty" /\ r \in expired
    /\ RecordFailure
    /\ Goes(r, "upstream_timeout")
    /\ UNCHANGED <<raised, planeVars, expired, faults>>

Exhausted(r) ==
    /\ pc[r] \in InFlight \ {"blocked"} /\ ~ Free
    /\ CommandRaises(r, "connection")
    /\ UNCHANGED <<planeVars, expired, faults>>

(* The connection breaks before or after Redis has executed the command, or *)
(* Redis refuses it (out of memory, read only).                             *)
CommandFails(r) ==
    /\ pc[r] \in InFlight
    /\ \/ Fault("connection") /\ CommandRaises(r, "connection") /\ Effect(r)
       \/ \E kind \in {"connection", "other"} :
              Fault(kind) /\ CommandRaises(r, kind) /\ UNCHANGED planeVars
    /\ UNCHANGED expired

(* A new process knows none of the calls and starts with a closed circuit. *)
NewProcess ==
    /\ raised' = [r \in Requests |-> "none"]
    /\ state' = "closed" /\ failures' = 0 /\ ripe' = TRUE

Crash ==
    /\ Fault("crash")
    /\ pc' = [r \in Requests |-> IF pc[r] = "idle" THEN "idle" ELSE "lost"]
    /\ NewProcess
    /\ UNCHANGED <<planeVars, expired>>

-----------------------------------------------------------------------------
(* Time and the data plane *)

(* Nobody but a blocked call and the scheduler looks at the time.           *)
DeadlinePasses(r) ==
    /\ pc[r] = "blocked" \/ r \in published \ taken
    /\ r \notin expired
    /\ expired' = expired \cup {r}
    /\ UNCHANGED <<breakerVars, pc, raised, planeVars, faults>>

ResetPasses ==
    /\ Elapse
    /\ UNCHANGED <<pc, raised, planeVars, expired, faults>>

(* RPUSH into the mailbox of the request: a later result queues behind the  *)
(* first and nobody pops it.                                               *)
Deliver(r, result) ==
    mailbox' = IF mailbox[r] = "empty" THEN [mailbox EXCEPT ![r] = result] ELSE mailbox

(* A slip: the request carries no deadline. *)
NoDeadline(r) == FALSE

IsExpired(r) == r \in expired

(* A slip: an entry is read and not marked as delivered. *)
ScheduleUnread(r) ==
    /\ r \in published \ taken
    /\ queued' = queued \cup {r}
    /\ UNCHANGED <<breakerVars, pc, raised, images, published, taken, working,
                   mailbox, spoiled, expired, faults>>

(* _tick sheds what is_expired and feeds the rest to the batcher: nobody    *)
(* looks at the deadline after that.  Of a request that was read a call     *)
(* notices nothing before that.                                             *)
Schedule(r) ==
    /\ r \in published \ taken
    /\ taken' = taken \cup {r}
    /\ IF IsExpired(r)
       THEN Deliver(r, "rejected") /\ UNCHANGED queued
       ELSE queued' = queued \cup {r} /\ UNCHANGED mailbox
    /\ UNCHANGED <<breakerVars, pc, raised, images, published, working, spoiled,
                   expired, faults>>

(* A slip: the slot takes the images with GETDEL. *)
HandOutDeletes(r) ==
    /\ r \in queued
    /\ queued' = queued \ {r}
    /\ working' = [working EXCEPT ![r] = @ + 1]
    /\ images' = images \ {r}
    /\ UNCHANGED <<breakerVars, pc, raised, published, taken, mailbox, spoiled,
                   expired, faults>>

(* The batch is formed, pushed and reserved, or recovered and reserved.     *)
HandOut(r) ==
    /\ r \in queued
    /\ queued' = queued \ {r}
    /\ working' = [working EXCEPT ![r] = @ + 1]
    /\ UNCHANGED <<breakerVars, pc, raised, images, published, taken, mailbox,
                   spoiled, expired, faults>>

(* What a slot makes of the image ("ok", its own failure included), or      *)
(* "image missing" for want of it                                           *)
Publishes(r) ==
    /\ working[r] > 0
    /\ working' = [working EXCEPT ![r] = @ - 1]
    /\ Deliver(r, IF r \in images THEN "ok" ELSE "error")
    /\ UNCHANGED <<breakerVars, pc, raised, published, taken, spoiled, expired>>

(* _process: fetch, publish, complete and the finally clause.  No call sees *)
(* the image, so nothing goes unnoticed between the result and the DELETE.  *)
Serve(r) ==
    /\ Publishes(r)
    /\ images' = images \ {r}
    /\ UNCHANGED <<queued, faults>>

(* After the result is published the batch stays on its list (the worker    *)
(* dies, or complete() fails or finds that a janitor was faster), or the    *)
(* image stays (the worker dies, or the DELETE fails and is suppressed).    *)
ServeInPart(r) ==
    /\ Fault("worker")
    /\ Publishes(r)
    /\ \/ queued' = queued \cup {r} /\ images' \in {images, images \ {r}}
       \/ UNCHANGED <<queued, images>>

(* An exception or stop() ends the attempt before anything is published:    *)
(* the finally clause deletes the image, the batch stays in Redis.  (When   *)
(* the DELETE fails, too, this leaves what Recover leaves.)                 *)
GiveUp(r) ==
    /\ Fault("worker")
    /\ working[r] > 0
    /\ working' = [working EXCEPT ![r] = @ - 1]
    /\ images' = images \ {r}
    /\ queued' = queued \cup {r}
    /\ spoiled' = spoiled \cup {r}
    /\ UNCHANGED <<breakerVars, pc, raised, published, taken, mailbox, expired>>

(* The worker dies, or stalls and goes on later: a janitor or its restart   *)
(* takes the batch back.                                                    *)
Recover(r) ==
    /\ Fault("worker")
    /\ working[r] > 0 /\ r \notin queued
    /\ queued' = queued \cup {r}
    /\ working' \in {working, [working EXCEPT ![r] = @ - 1]}
    /\ UNCHANGED <<breakerVars, pc, raised, images, published, taken, mailbox,
                   spoiled, expired>>

(* The TTL of an image does not depend on request_timeout_ms: with a long   *)
(* timeout it runs out while the client waits.  A result nobody waits for   *)
(* just stays until its own TTL.                                            *)
ImageExpires(r) ==
    /\ Fault("expiry")
    /\ r \in images
    /\ images' = images \ {r}
    /\ spoiled' = spoiled \cup {r}
    /\ UNCHANGED <<breakerVars, pc, raised, published, taken, queued, working,
                   mailbox, expired>>

-----------------------------------------------------------------------------

CallStep(r) ==
    \/ Put(r) \/ Check(r) \/ Add(r) \/ Undo(r) \/ Block(r)
    \/ Answered(r) \/ TimesOut(r) \/ Exhausted(r)

Ask(r) == Enter(r) \/ Refuse(r) \/ ComeBack(r)

Plane(r) ==
    \/ Schedule(r) \/ HandOut(r) \/ Serve(r)
    \/ ServeInPart(r) \/ GiveUp(r) \/ Recover(r) \/ ImageExpires(r)

Next ==
    \/ \E r \in Requests : \/ Ask(r) \/ CallStep(r) \/ CommandFails(r)
                           \/ DeadlinePasses(r) \/ Plane(r)
    \/ Crash \/ ResetPasses

Spec == Init /\ [][Next]_vars

(* The event loop runs every call that can go on, and time passes; the data *)
(* plane may be dead.                                                       *)
FairSpec ==
    /\ Spec
    /\ WF_vars(ResetPasses)
    /\ \A r \in Requests : WF_vars(CallStep(r)) /\ WF_vars(DeadlinePasses(r))

ClientsAsk == \A r \in Requests : WF_vars(Ask(r))

-----------------------------------------------------------------------------
(* Safety *)

(* Calls that end in any order, long after the one that opened the circuit, *)
(* keep state and count together: the circuit is closed exactly while fewer *)
(* than fail_threshold calls in a row have failed.                          *)
BreakerCount == state = "closed" <=> failures < FailThreshold

Pending(r) == r \in (published \ taken) \cup queued \/ working[r] > 0

(* While a client waits for its first result, the image of its request is   *)
(* there wherever the request is by now, and "image missing" is on its way  *)
(* to nobody, whatever commands fail and however often the request is       *)
(* redelivered -- unless a slot gave up on it (the finally clause deletes   *)
(* the image although the batch stays) or the TTL ran out.                  *)
ImageWhileWaited ==
    \A r \in Requests \ spoiled :
        /\ pc[r] \in {"await", "blocked"} /\ mailbox[r] = "empty" /\ Pending(r) =>
               r \in images
        /\ pc[r] \in InFlight => mailbox[r] # "error"

(* A client told 503 by the breaker or by backpressure left nothing behind:*)
(* no image, no entry, and no result will come.                            *)
RefusedLeavesNothing ==
    \A r \in Requests :
        pc[r] \in DOMAIN HTTP /\ HTTP[pc[r]] = 503 /\ raised[r] # "connection" =>
            r \notin images /\ r \notin published /\ mailbox[r] = "empty"

(* A scheduler that reads a request after its client was told 504 rejects   *)
(* it: the deadline it carries has passed by then.  (One that was scheduled *)
(* before that is handed to a worker all the same, long after the 504.)     *)
LateIsShed ==
    [][\A r \in taken' \ taken : pc[r] = "upstream_timeout" => r \notin queued']_vars

-----------------------------------------------------------------------------
(* Liveness *)

(* Every call ends, with a dead data plane, an exhausted pool, or neither. *)
EveryCallEnds == \A r \in Requests : pc[r] \in InFlight ~> pc[r] \notin InFlight

(* An open circuit lets a call through in the end, while clients ask.      *)
BreakerRecovers ==
    ClientsAsk =>
        (state = "open" ~>
            state # "open" \/ \A r \in Requests : pc[r] \notin {"idle", "circuit_open"})

=============================================================================
