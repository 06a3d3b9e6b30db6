---------------------------- MODULE ModelRegistry ---------------------------
(***************************************************************************)
(* ModelRegistry.get of one worker process, called by all its serving      *)
(* slots at once: a bounded LRU cache under one asyncio lock, loads and    *)
(* unloads in threads, a mark per model that is being loaded with an event *)
(* the others wait for, and the batch timeout that cancels a call.         *)
(*                                                                         *)
(* asyncio.Lock is first come, first served, and taking it while it is     *)
(* free suspends nobody: "running" is a caller that goes straight on, and  *)
(* while there is one, nobody else does a step or times out.               *)
(* Only unload keeps the lock across an await.                             *)
(***************************************************************************)
EXTENDS Integers, SequencesExt

CONSTANTS
    Models,      \* keys of the catalog
    Callers,     \* serving slots, and requests to promote a version
    CacheSize,   \* model_cache_size
    Faults,      \* the kinds of fault this instance exercises
    MaxFaults,   \* bound on the number of faults in a behaviour
    NoCaller

FaultKinds == {"timeout", "load_fails", "unload_fails"}

ASSUME RegistryAssumption ==
    /\ CacheSize \in Nat
    /\ NoCaller \notin Callers
    /\ Faults \subseteq FaultKinds /\ MaxFaults \in Nat

VARIABLES
    cache,     \* resident models, the most recently used last
    lock,      \* callers that have asked for the lock: the first one has it
    running,   \* the caller that the event loop cannot leave yet
    inflight,  \* the caller whose event marks a model as being loaded
    pc, want,  \* where a caller is in get, and for which model
    faults     \* faults so far

vars == <<cache, lock, running, inflight, pc, want, faults>>

HasLock(c) == lock # <<>> /\ Head(lock) = c

(* Where a caller waits for the lock or has it. *)
AtLock == {"look", "reread", "insert", "unload", "release", "unwind", "cancelled"}

TypeOK ==
    /\ cache \in Seq(Models)
    /\ lock \in Seq(Callers)
    /\ running \in Callers \cup {NoCaller}
    /\ inflight \in [Models -> Callers \cup {NoCaller}]
    /\ pc \in [Callers -> {"idle", "look", "wait", "woken", "reread", "load",
                           "insert", "unload", "release", "unwind", "cancelled",
                           "use"}]
    /\ want \in [Callers -> Models]
    /\ \A i, j \in 1 .. Len(lock) : lock[i] = lock[j] => i = j
    /\ \A c \in Callers : Contains(lock, c) <=> pc[c] \in AtLock
    /\ running # NoCaller => HasLock(running)
    /\ faults \in 0 .. MaxFaults

Init ==
    /\ cache = <<>>
    /\ lock = <<>>
    /\ running = NoCaller
    /\ inflight = [m \in Models |-> NoCaller]
    /\ pc = [c \in Callers |-> "idle"]
    /\ want \in [Callers -> Models]
    /\ faults = 0

Fault(kind) ==
    /\ kind \in Faults
    /\ faults < MaxFaults
    /\ faults' = faults + 1

Goes(c, place) == pc' = [pc EXCEPT ![c] = place]

Others(c) ==
    IF Contains(lock, c)
    THEN RemoveAt(lock, CHOOSE i \in 1 .. Len(lock) : lock[i] = c)
    ELSE lock

(* c asks for the lock, after giving it up or giving up its place: it goes  *)
(* to the end of the queue, and straight on when nobody else is there.      *)
Queues(c) ==
    /\ lock' = Append(Others(c), c)
    /\ running' = IF Others(c) = <<>> THEN c ELSE NoCaller

Leaves(c) ==
    /\ lock' = Others(c)
    /\ running' = NoCaller

Resident(m) == Contains(cache, m)

(* The cache after an assignment to key m and move_to_end. *)
WithMostRecent(m) ==
    IF Resident(m)
    THEN {Append(RemoveAt(cache, i), m) : i \in {j \in 1 .. Len(cache) : cache[j] = m}}
    ELSE {Append(cache, m)}

-----------------------------------------------------------------------------
(* get: the fast path *)

Ask(c) ==
    /\ running = NoCaller
    /\ pc[c] = "idle"
    /\ \E m \in Models : want' = [want EXCEPT ![c] = m]
    /\ Queues(c)
    /\ Goes(c, "look")
    /\ UNCHANGED <<cache, inflight, faults>>

Hit(c) ==
    /\ Resident(want[c])
    /\ cache' \in WithMostRecent(want[c])
    /\ Leaves(c)
    /\ Goes(c, "use")
    /\ UNCHANGED <<inflight, want, faults>>

FindsModel(c) == HasLock(c) /\ pc[c] = "look" /\ Hit(c)

(* A slip: the mark is written without a look at what is there. *)
LoadsAnyway(c) ==
    /\ HasLock(c)
    /\ pc[c] = "look"
    /\ ~ Resident(want[c])
    /\ inflight' = [inflight EXCEPT ![want[c]] = c]
    /\ Leaves(c)
    /\ Goes(c, "load")
    /\ UNCHANGED <<cache, want, faults>>

BecomesLoader(c) ==
    /\ HasLock(c)
    /\ pc[c] = "look"
    /\ ~ Resident(want[c])
    /\ inflight[want[c]] = NoCaller
    /\ inflight' = [inflight EXCEPT ![want[c]] = c]
    /\ Leaves(c)
    /\ Goes(c, "load")
    /\ UNCHANGED <<cache, want, faults>>

FindsLoader(c) ==
    /\ HasLock(c)
    /\ pc[c] = "look"
    /\ ~ Resident(want[c])
    /\ inflight[want[c]] # NoCaller
    /\ Leaves(c)
    /\ Goes(c, "wait")
    /\ UNCHANGED <<cache, inflight, want, faults>>

-----------------------------------------------------------------------------
(* get: a caller that waits for another one's load *)

(* The wait on the event is over: back to the lock. *)
Rejoin(c) ==
    /\ running = NoCaller
    /\ pc[c] = "woken"
    /\ Queues(c)
    /\ Goes(c, "reread")
    /\ UNCHANGED <<cache, inflight, want, faults>>

RereadHit(c) == HasLock(c) /\ pc[c] = "reread" /\ Hit(c)

(* "load failed in another task" *)
RereadMiss(c) ==
    /\ HasLock(c)
    /\ pc[c] = "reread"
    /\ ~ Resident(want[c])
    /\ Leaves(c)
    /\ Goes(c, "idle")
    /\ UNCHANGED <<cache, inflight, want, faults>>

-----------------------------------------------------------------------------
(* get: the loader *)

(* A slip: the mark is removed when the load is over, not when the model   *)
(* is in the cache.                                                        *)
LoadedUnmarks(c) ==
    /\ running = NoCaller
    /\ pc[c] = "load"
    /\ Queues(c)
    /\ Goes(c, "insert")
    /\ inflight' = [inflight EXCEPT ![want[c]] = NoCaller]
    /\ UNCHANGED <<cache, want, faults>>

(* _load_and_warm is over: load and warmup ran in threads. *)
Loaded(c) ==
    /\ running = NoCaller
    /\ pc[c] = "load"
    /\ Queues(c)
    /\ Goes(c, "insert")
    /\ UNCHANGED <<cache, inflight, want, faults>>

LoadFails(c) ==
    /\ running = NoCaller
    /\ Fault("load_fails")
    /\ pc[c] = "load"
    /\ Queues(c)
    /\ Goes(c, "unwind")
    /\ UNCHANGED <<cache, inflight, want>>

(* A slip: the victim leaves the cache after it has been unloaded. *)
TrimLate(c, resident) ==
    IF pc[c] = "insert" /\ Len(resident) > CacheSize
    THEN /\ cache' = resident
         /\ Goes(c, "unload")
         /\ UNCHANGED lock /\ running' = NoCaller
    ELSE /\ cache' = IF Len(resident) > CacheSize THEN Tail(resident) ELSE resident
         /\ Goes(c, "release")
         /\ Queues(c)

(* _evict_if_needed_locked: a victim leaves the cache, then a thread       *)
(* unloads it while the lock is held.                                      *)
Trim(c, resident) ==
    IF Len(resident) > CacheSize
    THEN /\ cache' = Tail(resident)
         /\ Goes(c, "unload")
         /\ UNCHANGED lock /\ running' = NoCaller
    ELSE /\ cache' = resident
         /\ Goes(c, "release")
         /\ Queues(c)

Insert(c) ==
    /\ HasLock(c)
    /\ pc[c] = "insert"
    /\ \E resident \in WithMostRecent(want[c]) : Trim(c, resident)
    /\ UNCHANGED <<inflight, want, faults>>

Unloaded(c) ==
    /\ pc[c] = "unload"
    /\ Trim(c, cache)
    /\ UNCHANGED <<inflight, want, faults>>

UnloadFails(c) ==
    /\ Fault("unload_fails")
    /\ pc[c] = "unload"
    /\ Queues(c)
    /\ Goes(c, "unwind")
    /\ UNCHANGED <<cache, inflight, want>>

(* A slip: after an exception the event is not set. *)
ReleaseSilently(c) ==
    /\ HasLock(c)
    /\ pc[c] \in {"release", "unwind", "cancelled"}
    /\ inflight' = [inflight EXCEPT ![want[c]] = NoCaller]
    /\ Leaves(c)
    /\ pc' = [d \in Callers |->
                IF d = c THEN IF pc[c] = "release" THEN "use" ELSE "idle"
                ELSE IF pc[d] = "wait" /\ want[d] = want[c] /\ pc[c] = "release"
                     THEN "woken" ELSE pc[d]]
    /\ UNCHANGED <<cache, want, faults>>

(* The finally clause: the mark goes, and the event wakes who waits for it. *)
Release(c) ==
    /\ HasLock(c)
    /\ pc[c] \in {"release", "unwind", "cancelled"}
    /\ inflight' = [inflight EXCEPT ![want[c]] = NoCaller]
    /\ Leaves(c)
    /\ pc' = [d \in Callers |->
                IF d = c THEN IF pc[c] = "release" THEN "use" ELSE "idle"
                ELSE IF pc[d] = "wait" /\ want[d] = want[c] THEN "woken"
                ELSE pc[d]]
    /\ UNCHANGED <<cache, want, faults>>

(* The executor is done with the model, or has been cancelled. *)
Done(c) ==
    /\ pc[c] = "use"
    /\ Goes(c, "idle")
    /\ UNCHANGED <<cache, lock, running, inflight, want, faults>>

-----------------------------------------------------------------------------
(* The batch timeout of _process cancels execute, once, where it waits. *)

(* A slip: a caller keeps its place in the queue for the lock. *)
TimesOutQueued(c) ==
    /\ running = NoCaller
    /\ Fault("timeout")
    /\ pc[c] \in {"wait", "woken", "look", "reread"}
    /\ Goes(c, "idle")
    /\ UNCHANGED <<cache, lock, running, inflight, want>>

(* Outside the try: the call just ends. *)
TimesOutWaiting(c) ==
    /\ running = NoCaller
    /\ Fault("timeout")
    /\ \/ pc[c] \in {"wait", "woken"} /\ UNCHANGED <<lock, running>>
       \/ pc[c] \in {"look", "reread"} /\ Leaves(c)
    /\ Goes(c, "idle")
    /\ UNCHANGED <<cache, inflight, want>>

(* Inside the try: the finally clause still runs; the thread goes on, and  *)
(* what it loads is dropped.                                               *)
TimesOutLoading(c) ==
    /\ running = NoCaller
    /\ Fault("timeout")
    /\ pc[c] \in {"load", "insert", "unload"}
    /\ Queues(c)
    /\ Goes(c, "cancelled")
    /\ UNCHANGED <<cache, inflight, want>>

(* Inside the finally clause, waiting for its lock: the clause ends there, *)
(* the mark stays and the event is never set.                              *)
TimesOutReleasing(c) ==
    /\ running = NoCaller
    /\ Fault("timeout")
    /\ pc[c] \in {"release", "unwind"}
    /\ Leaves(c)
    /\ Goes(c, "idle")
    /\ UNCHANGED <<cache, inflight, want>>

-----------------------------------------------------------------------------

GetStep(c) ==
    \/ FindsModel(c) \/ BecomesLoader(c) \/ FindsLoader(c)
    \/ Rejoin(c) \/ RereadHit(c) \/ RereadMiss(c)
    \/ Loaded(c) \/ Insert(c) \/ Unloaded(c) \/ Release(c) \/ Done(c)

GetFault(c) ==
    \/ LoadFails(c) \/ UnloadFails(c)
    \/ TimesOutWaiting(c) \/ TimesOutLoading(c) \/ TimesOutReleasing(c)

Next == \E c \in Callers : Ask(c) \/ GetStep(c) \/ GetFault(c)

Spec == Init /\ [][Next]_vars

(* Callers are tasks of one event loop, and loads and unloads end.  Strong *)
(* fairness, because a task is held up while another one goes straight on. *)
FairSpec == Spec /\ \A c \in Callers : SF_vars(GetStep(c))

-----------------------------------------------------------------------------

Loading(c) ==
    pc[c] \in {"load", "insert", "unload", "release", "unwind", "cancelled"}

(* The in-flight map prevents two callers from loading a model side by     *)
(* side: the mark of a model is its loader's until the loader has left,    *)
(* whatever is evicted, fails or times out meanwhile.  (A thread goes on   *)
(* loading after its caller's timeout: such a load counts no more.)        *)
OneLoader == \A c \in Callers : Loading(c) => inflight[want[c]] = c

(* Whoever waits for a load waits for a mark that is there: the event      *)
(* cannot be set between the look at the mark and the wait.                *)
NoLostWakeUp == \A c \in Callers : pc[c] = "wait" => inflight[want[c]] # NoCaller

(* What the in-flight map tells loaders and waiters is true, at every      *)
(* await and however their calls overlap.                                  *)
MarksHonoured == OneLoader /\ NoLostWakeUp

(* The cache is read once, before the load, and filled after it: still no  *)
(* resident model is ever loaded again and dropped from the dictionary     *)
(* without being unloaded.                                                 *)
NeverReplaced ==
    \A c \in Callers : pc[c] \in {"load", "insert"} => ~ Resident(want[c])

(* Device memory is bounded: the cache holds no more than cache_size       *)
(* models at any await, also when an eviction fails or is cut short.       *)
CacheBounded == Len(cache) =< CacheSize

(* A mark with nobody behind it. *)
Stuck(m) ==
    /\ inflight[m] # NoCaller
    /\ ~ (Loading(inflight[m]) /\ want[inflight[m]] = m)

(* A mark stays behind only when the timeout hits the finally clause.      *)
(* Every other failure takes its mark along, so get ends for every caller: *)
(* nobody waits for an event that nobody will set.                         *)
EveryGetEnds ==
    \A c \in Callers :
        pc[c] \notin {"idle", "use"} ~> pc[c] \in {"idle", "use"} \/ Stuck(want[c])

(* registry.py:57: return a resident model -- here, one that was evicted   *)
(* and unloaded while its loader waited to remove the mark.                *)
ReturnsResident ==
    [][ \A c \in Callers :
            pc[c] # "use" /\ pc'[c] = "use" => Contains(cache', want[c]) ]_vars
=============================================================================
