------------------------- MODULE ModelServingProofs -------------------------
(***************************************************************************)
(* That ModelRegistry.get loads no model twice side by side, sets no event *)
(* before its waiters are counted, drops no resident model and keeps its   *)
(* cache within bounds, for any number of callers, models and faults; that *)
(* without timeouts no mark outlives its loader; that the slots and the promoters of one     *)
(* worker are such callers; and that a promotion never names a version     *)
(* nobody has warmed up.                                                   *)
(***************************************************************************)
EXTENDS ModelServing, QueueLemmas

Places == {"idle", "look", "wait", "woken", "reread", "load", "insert", "unload",
           "release", "unwind", "cancelled", "use"}

LockInv ==
    /\ lock \in Seq(Callers)
    /\ NoRepeats(lock)
    /\ \A c \in Callers : Contains(lock, c) <=> pc[c] \in AtLock
    /\ running \in Callers \cup {NoCaller}
    /\ running # NoCaller => lock # <<>> /\ Head(lock) = running

DataTypes ==
    /\ cache \in Seq(Models)
    /\ inflight \in [Models -> Callers \cup {NoCaller}]
    /\ pc \in [Callers -> Places]
    /\ want \in [Callers -> Models]
    /\ faults \in 0 .. MaxFaults

(* No conjunct of it is inductive alone: the mark of a model is its        *)
(* loader's because there is one loader (OneLoader); an insertion replaces *)
(* nothing because no other loader could have inserted it (OneLoader       *)
(* again).                                                                 *)
IInv == LockInv /\ DataTypes /\ OneLoader /\ NeverReplaced /\ CacheBounded

(* The first two parts are the type invariant of the module. *)
LEMMA InvTypes == LockInv /\ DataTypes <=> TypeOK
BY DEF LockInv, DataTypes, TypeOK, Places, NoRepeats, HasLock

-----------------------------------------------------------------------------
(* The lock *)

(* Who gives up the lock, or its place in the queue, is not there any more. *)
LEMMA OthersOnly ==
    ASSUME LockInv, NEW c \in Callers
    PROVE  /\ Others(c) \in Seq(Callers)
           /\ NoRepeats(Others(c))
           /\ \A d \in Callers : Contains(Others(c), d) <=> Contains(lock, d) /\ d # c
<1>1. CASE Contains(lock, c)
  <2> DEFINE place == CHOOSE i \in 1 .. Len(lock) : lock[i] = c
  <2>1. place \in 1 .. Len(lock) /\ lock[place] = c
    BY <1>1 DEF Contains
  <2>2. Others(c) = RemoveAt(lock, place)
    BY <1>1 DEF Others
  <2> HIDE DEF place
  <2> QED  BY <2>1, <2>2, RemoveFromDistinct DEF LockInv, NoRepeats
<1>2. CASE ~ Contains(lock, c)
  BY <1>2 DEF Others, LockInv
<1> QED  BY <1>1, <1>2

(* c is the last in the queue: in its last place if it had one before. *)
LEMMA QueuesUp ==
    ASSUME LockInv, NEW c \in Callers, Queues(c), pc \in [Callers -> Places],
           NEW place \in AtLock, pc' = [pc EXCEPT ![c] = place]
    PROVE  LockInv'
<1> DEFINE others == Others(c)
<1>0. /\ others \in Seq(Callers) /\ Len(others) \in Nat
      /\ NoRepeats(others)
      /\ \A d \in Callers : Contains(others, d) <=> Contains(lock, d) /\ d # c
      /\ lock' = Append(others, c)
      /\ running' = IF others = <<>> THEN c ELSE NoCaller
  BY OthersOnly, LenProperties DEF Queues
<1> HIDE DEF others
<1>1. /\ lock' \in Seq(Callers) /\ lock' # <<>>
      /\ Len(lock') = Len(others) + 1
      /\ \A k \in 1 .. Len(others) : lock'[k] = others[k]
      /\ lock'[Len(others) + 1] = c
      /\ \A d : Contains(lock', d) <=> d = c \/ Contains(others, d)
  BY <1>0, AppendContents
<1>2. NoRepeats(lock')
  <2>1. \A k \in 1 .. Len(others) : others[k] # c
    BY <1>0 DEF Contains
  <2> QED  BY <1>0, <1>1, <2>1 DEF NoRepeats
<1>3. ASSUME NEW d \in Callers
      PROVE  Contains(lock', d) <=> pc'[d] \in AtLock
  BY <1>0, <1>1 DEF LockInv
<1>4. running' \in Callers \cup {NoCaller}
  BY <1>0
<1>5. running' # NoCaller => lock' # <<>> /\ Head(lock') = running'
  <2>1. ASSUME others = <<>>
        PROVE  Head(lock') = c
    BY <2>1, <1>0
  <2> QED  BY <1>0, <1>1, <2>1
<1> QED  BY <1>1, <1>2, <1>3, <1>4, <1>5 DEF LockInv

(* c gives up the lock; the others are as near to it as before. *)
LEMMA LeavesLock ==
    ASSUME LockInv, NEW c \in Callers, Leaves(c), pc' \in [Callers -> Places],
           pc'[c] \notin AtLock,
           \A d \in Callers \ {c} : pc'[d] \in AtLock <=> pc[d] \in AtLock
    PROVE  LockInv'
BY OthersOnly DEF LockInv, Leaves

(* A caller moves on, and neither takes nor leaves the lock. *)
LEMMA KeepsLock ==
    ASSUME LockInv, NEW c \in Callers, pc \in [Callers -> Places],
           lock' = lock, running' \in {running, NoCaller},
           NEW place, pc' = [pc EXCEPT ![c] = place],
           place \in AtLock <=> pc[c] \in AtLock
    PROVE  LockInv'
BY DEF LockInv

-----------------------------------------------------------------------------
(* The cache *)

(* Assignment and move_to_end keep the others, and make room for at most one. *)
LEMMA MostRecent ==
    ASSUME cache \in Seq(Models), NEW m \in Models, NEW resident \in WithMostRecent(m)
    PROVE  /\ resident \in Seq(Models)
           /\ resident # <<>>
           /\ Len(resident) =< Len(cache) + 1
           /\ Resident(m) => Len(resident) = Len(cache)
           /\ \A n : Contains(resident, n) => n = m \/ Resident(n)
<1>1. CASE Resident(m)
  <2>1. PICK i \in 1 .. Len(cache) : cache[i] = m /\ resident = Append(RemoveAt(cache, i), m)
    BY <1>1 DEF WithMostRecent
  <2>2. Len(cache) \in Nat
    BY LenProperties
  <2>3. /\ RemoveAt(cache, i) \in Seq(Models)
        /\ Len(RemoveAt(cache, i)) = Len(cache) - 1
        /\ \A n : Contains(RemoveAt(cache, i), n) => Contains(cache, n)
    BY RemoveAtElements, RemoveAtContents
  <2> QED  BY <2>1, <2>2, <2>3, AppendContents DEF Resident
<1>2. CASE ~ Resident(m)
  <2>1. resident = Append(cache, m)
    BY <1>2 DEF WithMostRecent
  <2> QED  BY <1>2, <2>1, AppendContents, LenProperties DEF Resident
<1> QED  BY <1>1, <1>2

(* Eviction brings the cache back to its size and adds nothing. *)
LEMMA Trimmed ==
    ASSUME NEW c \in Callers, NEW resident \in Seq(Models), Trim(c, resident),
           CacheSize \in Nat, Len(resident) =< CacheSize + 1
    PROVE  /\ cache' \in Seq(Models)
           /\ CacheBounded'
           /\ \A n : Contains(cache', n) => Contains(resident, n)
<1>1. Len(resident) \in Nat
  BY LenProperties
<1>2. CASE Len(resident) > CacheSize
  <2>1. resident # <<>> /\ cache' = Tail(resident)
    BY <1>1, <1>2 DEF Trim
  <2>2. Len(Tail(resident)) = Len(resident) - 1
    BY <2>1, HeadTailProperties
  <2> QED  BY <1>1, <2>1, <2>2, TailContents DEF CacheBounded
<1>3. CASE ~ Len(resident) > CacheSize
  BY <1>1, <1>3 DEF Trim, CacheBounded
<1> QED  BY <1>2, <1>3
-----------------------------------------------------------------------------
(* The steps *)

USE RegistryAssumption DEF HasLock

(* A new registry satisfies the invariant (registry.py:37-54). *)
THEOREM InitInv == Init => IInv
<1> SUFFICES ASSUME Init  PROVE IInv
  OBVIOUS
<1>1. \A x : ~ Contains(<<>>, x)
  BY DEF Contains
<1>2. LockInv
  BY <1>1 DEF Init, LockInv, NoRepeats, AtLock
<1> QED  BY <1>2 DEF Init, IInv, DataTypes, Places, OneLoader, NeverReplaced,
                     CacheBounded, Loading

(* Every step keeps queue and program counters in agreement. *)
LEMMA LockStep ==
    ASSUME LockInv, DataTypes, [Next]_vars
    PROVE  LockInv'
<1> USE DEF AtLock, Goes, DataTypes, Places
<1>1. CASE UNCHANGED vars
  BY <1>1 DEF vars, LockInv
<1>2. ASSUME NEW c \in Callers, Ask(c)
      PROVE  LockInv'
  BY <1>2, QueuesUp DEF Ask
<1>3. ASSUME NEW c \in Callers, GetStep(c)
      PROVE  LockInv'
  <2>1. CASE FindsModel(c)
    BY <2>1, LeavesLock DEF FindsModel, Hit
  <2>2. CASE BecomesLoader(c)
    BY <2>2, LeavesLock DEF BecomesLoader
  <2>3. CASE FindsLoader(c)
    BY <2>3, LeavesLock DEF FindsLoader
  <2>4. CASE Rejoin(c)
    BY <2>4, QueuesUp DEF Rejoin
  <2>5. CASE RereadHit(c)
    BY <2>5, LeavesLock DEF RereadHit, Hit
  <2>6. CASE RereadMiss(c)
    BY <2>6, LeavesLock DEF RereadMiss
  <2>7. CASE Loaded(c)
    BY <2>7, QueuesUp DEF Loaded
  <2>8. ASSUME pc[c] \in AtLock, NEW resident, Trim(c, resident)
        PROVE  LockInv'
    BY <2>8, QueuesUp, KeepsLock DEF Trim
  <2>9. CASE Insert(c)
    BY <2>8, <2>9 DEF Insert
  <2>10. CASE Unloaded(c)
    BY <2>8, <2>10 DEF Unloaded
  <2>11. CASE Release(c)
    <3>1. /\ pc' \in [Callers -> Places]
          /\ pc'[c] \notin AtLock
          /\ \A d \in Callers \ {c} : pc'[d] \in AtLock <=> pc[d] \in AtLock
      BY <2>11 DEF Release
    <3> QED  BY <2>11, <3>1, LeavesLock DEF Release
  <2>12. CASE Done(c)
    BY <2>12, KeepsLock DEF Done
  <2> QED  BY <1>3, <2>1, <2>2, <2>3, <2>4, <2>5, <2>6, <2>7, <2>9, <2>10, <2>11, <2>12
            DEF GetStep
<1>4. ASSUME NEW c \in Callers, GetFault(c)
      PROVE  LockInv'
  <2>1. CASE LoadFails(c) \/ UnloadFails(c) \/ TimesOutLoading(c)
    BY <2>1, QueuesUp DEF LoadFails, UnloadFails, TimesOutLoading
  <2>2. CASE TimesOutWaiting(c)
    BY <2>2, LeavesLock, KeepsLock DEF TimesOutWaiting
  <2>3. CASE TimesOutReleasing(c)
    BY <2>3, LeavesLock DEF TimesOutReleasing
  <2> QED  BY <1>4, <2>1, <2>2, <2>3 DEF GetFault
<1> QED  BY <1>1, <1>2, <1>3, <1>4 DEF Next

(* What a step does to the cache: it holds only what it held before, and    *)
(* what an insertion puts into it.                                         *)
LEMMA CacheStep ==
    ASSUME DataTypes, CacheBounded, [Next]_vars
    PROVE  /\ cache' \in Seq(Models)
           /\ CacheBounded'
           /\ \A m : Contains(cache', m) =>
                 \/ Contains(cache, m)
                 \/ \E c \in Callers : Insert(c) /\ m = want[c]
<1> DEFINE Kept(inserted) ==
              /\ cache' \in Seq(Models)
              /\ CacheBounded'
              /\ \A m : Contains(cache', m) => Contains(cache, m) \/ m \in inserted
<1>1. Len(cache) \in Nat /\ Len(cache) =< CacheSize
  BY LenProperties DEF DataTypes, CacheBounded
<1>2. ASSUME UNCHANGED cache
      PROVE  Kept({})
  BY <1>2 DEF DataTypes, CacheBounded
<1>3. ASSUME NEW c \in Callers, Hit(c)
      PROVE  Kept({})
  BY <1>1, <1>3, MostRecent DEF Hit, DataTypes, CacheBounded, Resident
<1>4. ASSUME NEW c \in Callers, Insert(c)
      PROVE  Kept({want[c]})
  <2>1. PICK resident \in WithMostRecent(want[c]) : Trim(c, resident)
    BY <1>4 DEF Insert
  <2>2. /\ resident \in Seq(Models)
        /\ Len(resident) =< Len(cache) + 1
        /\ \A m : Contains(resident, m) => m = want[c] \/ Contains(cache, m)
    BY MostRecent DEF DataTypes, Resident
  <2>3. Len(resident) =< CacheSize + 1
    BY <1>1, <2>2, LenProperties
  <2> QED  BY <2>1, <2>2, <2>3, Trimmed
<1>5. ASSUME NEW c \in Callers, Unloaded(c)
      PROVE  Kept({})
  BY <1>1, <1>5, Trimmed DEF Unloaded, DataTypes
<1>6. CASE UNCHANGED vars
  BY <1>2, <1>6 DEF vars
<1>7. ASSUME NEW c \in Callers, Ask(c) \/ GetFault(c)
      PROVE  Kept({})
  BY <1>2, <1>7 DEF Ask, GetFault, LoadFails, UnloadFails, TimesOutWaiting,
                    TimesOutLoading, TimesOutReleasing
<1>8. ASSUME NEW c \in Callers, GetStep(c)
      PROVE  Kept({}) \/ (Insert(c) /\ Kept({want[c]}))
  <2>1. CASE FindsModel(c) \/ RereadHit(c)
    BY <1>3, <2>1 DEF FindsModel, RereadHit
  <2>2. CASE Insert(c)
    BY <1>4, <2>2
  <2>3. CASE Unloaded(c)
    BY <1>5, <2>3
  <2>4. ASSUME \/ BecomesLoader(c) \/ FindsLoader(c) \/ Rejoin(c) \/ RereadMiss(c)
               \/ Loaded(c) \/ Release(c) \/ Done(c)
        PROVE  UNCHANGED cache
    BY <2>4 DEF BecomesLoader, FindsLoader, Rejoin, RereadMiss, Loaded, Release, Done
  <2> QED  BY <1>2, <1>8, <2>1, <2>2, <2>3, <2>4 DEF GetStep
<1> QED  BY <1>6, <1>7, <1>8 DEF Next

(* Every step keeps the types of the rest. *)
LEMMA DataStep ==
    ASSUME DataTypes, CacheBounded, [Next]_vars
    PROVE  DataTypes'
<1> USE DEF DataTypes, Places, Goes, Fault
<1>1. cache' \in Seq(Models)
  BY CacheStep
<1>2. CASE UNCHANGED vars
  BY <1>2 DEF vars
<1>3. ASSUME NEW c \in Callers, Ask(c)
      PROVE  DataTypes'
  BY <1>1, <1>3 DEF Ask
<1>4. ASSUME NEW c \in Callers, GetStep(c)
      PROVE  DataTypes'
  <2>1. CASE FindsModel(c) \/ RereadHit(c)
    BY <1>1, <2>1 DEF FindsModel, RereadHit, Hit
  <2>2. CASE BecomesLoader(c) \/ FindsLoader(c)
    BY <1>1, <2>2 DEF BecomesLoader, FindsLoader
  <2>3. CASE Rejoin(c) \/ RereadMiss(c) \/ Loaded(c) \/ Done(c)
    BY <1>1, <2>3 DEF Rejoin, RereadMiss, Loaded, Done
  <2>4. CASE Insert(c) \/ Unloaded(c)
    BY <1>1, <2>4 DEF Insert, Unloaded, Trim
  <2>5. CASE Release(c)
    BY <1>1, <2>5 DEF Release
  <2> QED  BY <1>4, <2>1, <2>2, <2>3, <2>4, <2>5 DEF GetStep
<1>5. ASSUME NEW c \in Callers, GetFault(c)
      PROVE  DataTypes'
  BY <1>1, <1>5 DEF GetFault, LoadFails, UnloadFails, TimesOutWaiting,
                    TimesOutLoading, TimesOutReleasing
<1> QED  BY <1>2, <1>3, <1>4, <1>5 DEF Next

(* A caller becomes a loader only where there is no mark, and takes away   *)
(* only its own.                                                           *)
LEMMA LoaderStep ==
    ASSUME DataTypes, OneLoader, [Next]_vars
    PROVE  OneLoader'
<1> USE DEF DataTypes, Places, Goes, OneLoader, Loading
<1>1. CASE UNCHANGED vars
  BY <1>1 DEF vars
<1>2. ASSUME NEW c \in Callers, Ask(c)
      PROVE  OneLoader'
  BY <1>2 DEF Ask
<1>3. ASSUME NEW c \in Callers, GetStep(c)
      PROVE  OneLoader'
  <2>1. CASE FindsModel(c) \/ RereadHit(c)
    BY <2>1 DEF FindsModel, RereadHit, Hit
  <2>2. CASE BecomesLoader(c)
    BY <2>2 DEF BecomesLoader
  <2>3. CASE FindsLoader(c) \/ Rejoin(c) \/ RereadMiss(c) \/ Loaded(c) \/ Done(c)
    BY <2>3 DEF FindsLoader, Rejoin, RereadMiss, Loaded, Done
  <2>4. CASE Insert(c) \/ Unloaded(c)
    BY <2>4 DEF Insert, Unloaded, Trim
  <2>5. CASE Release(c)
    BY <2>5 DEF Release
  <2> QED  BY <1>3, <2>1, <2>2, <2>3, <2>4, <2>5 DEF GetStep
<1>4. ASSUME NEW c \in Callers, GetFault(c)
      PROVE  OneLoader'
  BY <1>4 DEF GetFault, LoadFails, UnloadFails, TimesOutWaiting,
              TimesOutLoading, TimesOutReleasing
<1> QED  BY <1>1, <1>2, <1>3, <1>4 DEF Next

(* A caller waits where there is a mark, and who takes the mark away wakes *)
(* everybody who waits for it.                                             *)
LEMMA WakeStep ==
    ASSUME DataTypes, NoLostWakeUp, [Next]_vars
    PROVE  NoLostWakeUp'
<1> USE RegistryAssumption DEF DataTypes, Places, Goes, NoLostWakeUp
<1>1. CASE UNCHANGED vars
  BY <1>1 DEF vars
<1>2. ASSUME NEW c \in Callers, Ask(c)
      PROVE  NoLostWakeUp'
  BY <1>2 DEF Ask
<1>3. ASSUME NEW c \in Callers, GetStep(c)
      PROVE  NoLostWakeUp'
  <2>1. CASE FindsModel(c) \/ RereadHit(c)
    BY <2>1 DEF FindsModel, RereadHit, Hit
  <2>2. CASE BecomesLoader(c)
    BY <2>2 DEF BecomesLoader
  <2>3. CASE FindsLoader(c)
    BY <2>3 DEF FindsLoader
  <2>4. CASE Rejoin(c) \/ RereadMiss(c) \/ Loaded(c) \/ Done(c)
    BY <2>4 DEF Rejoin, RereadMiss, Loaded, Done
  <2>5. CASE Insert(c) \/ Unloaded(c)
    BY <2>5 DEF Insert, Unloaded, Trim
  <2>6. CASE Release(c)
    BY <2>6 DEF Release
  <2> QED  BY <1>3, <2>1, <2>2, <2>3, <2>4, <2>5, <2>6 DEF GetStep
<1>4. ASSUME NEW c \in Callers, GetFault(c)
      PROVE  NoLostWakeUp'
  BY <1>4 DEF GetFault, LoadFails, UnloadFails, TimesOutWaiting,
              TimesOutLoading, TimesOutReleasing
<1> QED  BY <1>1, <1>2, <1>3, <1>4 DEF Next

MarksOwned ==
    \A m \in Models : inflight[m] # NoCaller =>
        Loading(inflight[m]) /\ want[inflight[m]] = m

(* Unless it is cut short by a timeout, a loader ends in Release and takes *)
(* its mark along.                                                         *)
LEMMA OwnedStep ==
    ASSUME "timeout" \notin Faults, DataTypes, OneLoader, MarksOwned, [Next]_vars
    PROVE  MarksOwned'
<1> USE RegistryAssumption DEF DataTypes, Places, Goes, MarksOwned, Loading
<1>1. CASE UNCHANGED vars
  BY <1>1 DEF vars
<1>2. ASSUME NEW c \in Callers, Ask(c)
      PROVE  MarksOwned'
  BY <1>2 DEF Ask
<1>3. ASSUME NEW c \in Callers, GetStep(c)
      PROVE  MarksOwned'
  <2>1. CASE FindsModel(c) \/ RereadHit(c)
    BY <2>1 DEF FindsModel, RereadHit, Hit
  <2>2. CASE BecomesLoader(c)
    BY <2>2 DEF BecomesLoader
  <2>3. CASE FindsLoader(c) \/ Rejoin(c) \/ RereadMiss(c) \/ Loaded(c) \/ Done(c)
    BY <2>3 DEF FindsLoader, Rejoin, RereadMiss, Loaded, Done
  <2>4. CASE Insert(c) \/ Unloaded(c)
    BY <2>4 DEF Insert, Unloaded, Trim
  <2>5. CASE Release(c)
    BY <2>5 DEF Release, OneLoader
  <2> QED  BY <1>3, <2>1, <2>2, <2>3, <2>4, <2>5 DEF GetStep
<1>4. ASSUME NEW c \in Callers, GetFault(c)
      PROVE  MarksOwned'
  <2>1. LoadFails(c) \/ UnloadFails(c)
    BY <1>4 DEF GetFault, Fault, TimesOutWaiting, TimesOutLoading, TimesOutReleasing
  <2> QED  BY <2>1 DEF LoadFails, UnloadFails
<1> QED  BY <1>1, <1>2, <1>3, <1>4 DEF Next

(* Who is at load found its model absent, and only the loader of a model   *)
(* inserts it.                                                             *)
LEMMA ReplacedStep ==
    ASSUME DataTypes, OneLoader, NeverReplaced, CacheBounded, [Next]_vars
    PROVE  NeverReplaced'
<1> USE DEF Goes
<1> SUFFICES ASSUME NEW d \in Callers, pc'[d] \in {"load", "insert"},
                    Contains(cache', want'[d])
             PROVE  FALSE
  BY DEF NeverReplaced, Resident
<1>1. want'[d] = want[d]
  <2>1. ASSUME NEW c \in Callers, Ask(c)
        PROVE  want'[d] = want[d]
    BY <2>1 DEF Ask, DataTypes
  <2>2. ASSUME NEW c \in Callers, GetStep(c) \/ GetFault(c)
        PROVE  want' = want
    BY <2>2 DEF GetStep, GetFault, FindsModel, RereadHit, Hit, BecomesLoader,
                FindsLoader, Rejoin, RereadMiss, Loaded, Insert, Unloaded, Release,
                Done, LoadFails, UnloadFails, TimesOutWaiting, TimesOutLoading,
                TimesOutReleasing
  <2> QED  BY <2>1, <2>2 DEF Next, vars
<1>2. pc[d] \in {"load", "insert"} \/ BecomesLoader(d)
  <2> USE DEF DataTypes, Places
  <2>1. CASE UNCHANGED vars
    BY <2>1 DEF vars
  <2>2. ASSUME NEW c \in Callers, Ask(c) \/ GetFault(c)
        PROVE  pc[d] \in {"load", "insert"}
    BY <2>2 DEF Ask, GetFault, LoadFails, UnloadFails, TimesOutWaiting,
                TimesOutLoading, TimesOutReleasing
  <2>3. ASSUME NEW c \in Callers, GetStep(c)
        PROVE  pc[d] \in {"load", "insert"} \/ BecomesLoader(d)
    <3>1. CASE BecomesLoader(c)
      BY <3>1 DEF BecomesLoader
    <3>2. CASE FindsModel(c) \/ RereadHit(c)
      BY <3>2 DEF FindsModel, RereadHit, Hit
    <3>3. CASE FindsLoader(c) \/ Rejoin(c) \/ RereadMiss(c) \/ Loaded(c) \/ Done(c)
      BY <3>3 DEF FindsLoader, Rejoin, RereadMiss, Loaded, Done
    <3>4. CASE Insert(c) \/ Unloaded(c)
      BY <3>4 DEF Insert, Unloaded, Trim
    <3>5. CASE Release(c)
      BY <3>5 DEF Release
    <3> QED  BY <2>3, <3>1, <3>2, <3>3, <3>4, <3>5 DEF GetStep
  <2> QED  BY <2>1, <2>2, <2>3 DEF Next
<1>3. \/ Contains(cache, want[d])
      \/ \E c \in Callers : Insert(c) /\ want[c] = want[d]
  BY <1>1, CacheStep
<1>4. CASE pc[d] \in {"load", "insert"}
  <2>1. ~ Contains(cache, want[d])
    BY <1>4 DEF NeverReplaced, Resident
  <2>2. PICK c \in Callers : Insert(c) /\ want[c] = want[d]
    BY <1>3, <2>1
  <2>3. c = d
    BY <1>4, <2>2 DEF OneLoader, Loading, Insert
  <2>4. pc'[d] \in {"unload", "release"}
    BY <2>2, <2>3 DEF Insert, Trim, DataTypes
  <2> QED  BY <2>4
<1>5. CASE BecomesLoader(d)
  BY <1>1, <1>5 DEF BecomesLoader, Resident
<1> QED  BY <1>2, <1>4, <1>5

(* The invariant is inductive. *)
LEMMA InvStep == IInv /\ [Next]_vars => IInv'
BY LockStep, DataStep, LoaderStep, ReplacedStep, CacheStep DEF IInv

(* The invariant holds in every state of get's callers. *)
THEOREM InvAlways == Spec => []IInv
<1>1. Init => IInv
  BY InitInv
<1>2. IInv /\ [Next]_vars => IInv'
  BY InvStep
<1> QED  BY <1>1, <1>2, PTL DEF Spec

-----------------------------------------------------------------------------
(* The results *)

(* Type correctness, and with it that a caller is in the queue of the lock *)
(* once, and exactly where get asks for the lock (registry.py:62, 79, 89,  *)
(* 95): no cancellation leaves a place behind.                             *)
THEOREM TypeCorrect == Spec => []TypeOK
<1>1. IInv => TypeOK
  BY InvTypes DEF IInv
<1> QED  BY <1>1, InvAlways, PTL

(* The promise of registry.py:12-15, for any number of callers: a mark is  *)
(* its loader's as long as it loads, so no model is loaded twice side by   *)
(* side -- by callers that have not timed out --, and whoever waits, waits *)
(* for a mark that is there.                                               *)
THEOREM MarksKept == Spec => []MarksHonoured
<1>1. Init => NoLostWakeUp
  BY DEF Init, NoLostWakeUp
<1>2. IInv /\ NoLostWakeUp /\ [Next]_vars => NoLostWakeUp'
  BY WakeStep DEF IInv
<1>3. IInv /\ NoLostWakeUp => MarksHonoured
  BY DEF IInv, MarksHonoured
<1> QED  BY <1>1, <1>2, <1>3, InvAlways, PTL DEF Spec

(* Without timeouts no mark is left behind (the finally clause,            *)
(* registry.py:94-97): whatever fails, the mark of a model is that of a    *)
(* caller that is loading it.                                              *)
THEOREM MarksGo ==
    ASSUME "timeout" \notin Faults
    PROVE  Spec => [](\A m \in Models : ~ Stuck(m))
<1>1. Init => MarksOwned
  BY DEF Init, MarksOwned
<1>2. IInv /\ MarksOwned /\ [Next]_vars => MarksOwned'
  BY OwnedStep DEF IInv
<1>3. MarksOwned => \A m \in Models : ~ Stuck(m)
  BY DEF MarksOwned, Stuck
<1> QED  BY <1>1, <1>2, <1>3, InvAlways, PTL DEF Spec

(* A model that is being loaded, or waits to be put in the cache           *)
(* (registry.py:88-90), is not resident: none is replaced without an       *)
(* unload.                                                                 *)
THEOREM NoneReplaced == Spec => []NeverReplaced
<1>1. IInv => NeverReplaced
  BY DEF IInv
<1> QED  BY <1>1, InvAlways, PTL

(* The cache (registry.py:131-135) keeps its size at every await, whatever *)
(* fails.                                                                  *)
THEOREM Bounded == Spec => []CacheBounded
<1>1. IInv => CacheBounded
  BY DEF IInv
<1> QED  BY <1>1, InvAlways, PTL

-----------------------------------------------------------------------------
(* Slots and promoters of a worker *)

(* Who has loaded a model, or found it resident, knows that it was warm.   *)
WarmInv ==
    /\ \A m : Resident(m) => m \in warm
    /\ \A c \in Callers : pc[c] \in {"insert", "unload", "release"} => want[c] \in warm

(* A step of a slot or a promoter is a step of get. *)
LEMMA ServingStep == [ServingNext]_servingVars => [Next]_vars
BY DEF ServingNext, Resolve, Go, Break, Next, servingVars

(* The callers of get in a worker (executor.py:45, and promote)            *)
(* use ModelRegistry as its module allows any caller to, so each of them   *)
(* may rely on what is proved of it.                                       *)
THEOREM ServingIsRegistry == ServingSpec => Spec
<1>1. ServingInit => Init
  BY DEF ServingInit
<1> QED  BY <1>1, ServingStep, PTL DEF ServingSpec, Spec

(* With it the invariant of the registry. *)
LEMMA ServingIInv == ServingSpec => []IInv
BY ServingIsRegistry, InvAlways, PTL

(* Who is at its last step before the model is handed out, or inserts it,  *)
(* has it from a load that succeeded.                                      *)
LEMMA WarmStep ==
    ASSUME DataTypes, CacheBounded, WarmInv, [ServingNext]_servingVars
    PROVE  WarmInv'
<1> USE DEF DataTypes, Places, Goes, Fault
<1>1. CASE UNCHANGED servingVars
  BY <1>1 DEF servingVars, vars, WarmInv, Resident
<1>2. ASSUME NEW c \in Callers, Resolve(c) \/ Go(c) \/ Break(c)
      PROVE  WarmInv'
  <2>1. /\ warm' = IF Warms(c) THEN warm \cup {want[c]} ELSE warm
        /\ Ask(c) \/ GetStep(c) \/ GetFault(c)
    BY <1>2 DEF Resolve, Go, Break, Beside
  <2>2. warm \subseteq warm'
    BY <2>1
  <2>3. [Next]_vars
    BY <2>1 DEF Next
  <2>4. ASSUME NEW m, Contains(cache', m)
        PROVE  m \in warm'
    <3>1. CASE Contains(cache, m)
      BY <2>2, <3>1 DEF WarmInv, Resident
    <3>2. CASE \E d \in Callers : Insert(d) /\ m = want[d]
      BY <2>2, <3>2 DEF WarmInv, Insert
    <3> QED  BY <2>3, <2>4, <3>1, <3>2, CacheStep
  <2>5. ASSUME NEW d \in Callers, pc'[d] \in {"insert", "unload", "release"}
        PROVE  want'[d] \in warm'
    <3>1. CASE Ask(c)
      <4>1. d # c /\ pc'[d] = pc[d] /\ want'[d] = want[d]
        BY <2>5, <3>1 DEF Ask
      <4> QED  BY <2>2, <2>5, <4>1 DEF WarmInv
    <3>2. CASE GetStep(c) \/ GetFault(c)
      <4>1. want' = want
        BY <3>2 DEF GetStep, GetFault, FindsModel, RereadHit, Hit, BecomesLoader,
                    FindsLoader, Rejoin, RereadMiss, Loaded, Insert, Unloaded, Release,
                    Done, LoadFails, UnloadFails, TimesOutWaiting, TimesOutLoading,
                    TimesOutReleasing
      <4>2. pc[d] \in {"insert", "unload", "release"} \/ (d = c /\ Warms(c))
        <5>1. CASE Loaded(c)
          BY <2>5, <5>1 DEF Loaded, Warms
        <5>2. CASE FindsModel(c) \/ RereadHit(c)
          BY <2>5, <5>2 DEF FindsModel, RereadHit, Hit
        <5>3. CASE BecomesLoader(c) \/ FindsLoader(c) \/ Rejoin(c) \/ RereadMiss(c) \/ Done(c)
          BY <2>5, <5>3 DEF BecomesLoader, FindsLoader, Rejoin, RereadMiss, Done
        <5>4. CASE Insert(c) \/ Unloaded(c)
          BY <2>5, <5>4 DEF Insert, Unloaded, Trim
        <5>5. CASE Release(c)
          BY <2>5, <5>5 DEF Release
        <5>6. CASE GetFault(c)
          BY <2>5, <5>6 DEF GetFault, LoadFails, UnloadFails, TimesOutWaiting,
                            TimesOutLoading, TimesOutReleasing
        <5> QED  BY <3>2, <5>1, <5>2, <5>3, <5>4, <5>5, <5>6 DEF GetStep
      <4> QED  BY <2>1, <2>2, <4>1, <4>2 DEF WarmInv
    <3> QED  BY <2>1, <3>1, <3>2
  <2> QED  BY <2>2, <2>4, <2>5 DEF WarmInv, Resident
<1> QED  BY <1>1, <1>2 DEF ServingNext

(* What was warm once is in the history of every later state. *)
LEMMA WarmAlways == ServingSpec => []WarmInv
<1>1. ServingInit => WarmInv
  BY DEF ServingInit, Init, WarmInv, Resident, Contains
<1>2. DataTypes /\ CacheBounded /\ WarmInv /\ [ServingNext]_servingVars => WarmInv'
  BY WarmStep
<1>3. IInv => DataTypes /\ CacheBounded
  BY DEF IInv
<1> QED  BY <1>1, <1>2, <1>3, ServingIInv, PTL DEF ServingSpec

(* Types: promotions never make anything the latest version (catalog.py,   *)
(* set_latest) but a version of the catalog.                               *)
THEOREM ServingTypeCorrect == ServingSpec => []ServingTypeOK
<1>1. ServingInit => ServingTypeOK
  BY DEF ServingInit, ServingTypeOK
<1>2. DataTypes /\ DataTypes' /\ ServingTypeOK /\ [ServingNext]_servingVars => ServingTypeOK'
  BY DEF DataTypes, ServingTypeOK, ServingNext, Resolve, Go, Break, Beside, servingVars
<1>3. IInv => DataTypes
  BY DEF IInv
<1> QED  BY <1>1, <1>2, <1>3, ServingIInv, PTL DEF ServingSpec

(* Promotion warms first, then flips the alias: for any number of slots    *)
(* and promoters, whatever load fails or is cut short, the version that    *)
(* becomes the latest one was loaded and warmed up before.                 *)
THEOREM PromotesWarm == ServingSpec => PromotedIsWarm
<1>1. ASSUME DataTypes, CacheBounded, WarmInv, [ServingNext]_servingVars, latest' # latest
      PROVE  latest' \in warm
  <2>1. PICK c \in Callers : /\ Resolve(c) \/ Go(c) \/ Break(c)
                             /\ Flips(c) /\ latest' = want'[c]
    BY <1>1 DEF ServingNext, Resolve, Go, Break, Beside, servingVars
  <2>2. pc[c] # "use" /\ pc'[c] = "use"
    BY <2>1 DEF Flips
  <2>3. GetStep(c)
    <3> USE DEF DataTypes, Places, Goes
    <3>1. ~ Ask(c)
      BY <1>1, <2>2 DEF Ask
    <3>2. ~ GetFault(c)
      BY <1>1, <2>2 DEF GetFault, LoadFails, UnloadFails, TimesOutWaiting,
                        TimesOutLoading, TimesOutReleasing
    <3> QED  BY <2>1, <3>1, <3>2 DEF Resolve, Go, Break
  <2>4. want' = want
    BY <2>3 DEF GetStep, FindsModel, RereadHit, Hit, BecomesLoader, FindsLoader, Rejoin,
                RereadMiss, Loaded, Insert, Unloaded, Release, Done
  <2>5. Resident(want[c]) \/ pc[c] = "release"
    <3> USE DEF DataTypes, Places, Goes
    <3>1. CASE FindsModel(c) \/ RereadHit(c)
      BY <3>1 DEF FindsModel, RereadHit, Hit
    <3>2. ASSUME \/ BecomesLoader(c) \/ FindsLoader(c) \/ Rejoin(c) \/ RereadMiss(c)
                 \/ Loaded(c) \/ Done(c)
          PROVE  FALSE
      BY <1>1, <2>2, <3>2 DEF BecomesLoader, FindsLoader, Rejoin, RereadMiss, Loaded, Done
    <3>3. ASSUME Insert(c) \/ Unloaded(c)
          PROVE  FALSE
      BY <1>1, <2>2, <3>3 DEF Insert, Unloaded, Trim
    <3>4. CASE Release(c)
      BY <1>1, <2>2, <3>4 DEF Release
    <3> QED  BY <2>3, <3>1, <3>2, <3>3, <3>4 DEF GetStep
  <2>6. want[c] \in warm
    BY <1>1, <2>1, <2>5 DEF WarmInv
  <2> QED  BY <2>1, <2>4, <2>6
<1>2. DataTypes /\ CacheBounded /\ WarmInv /\ [ServingNext]_servingVars =>
          [latest' # latest => latest' \in warm]_servingVars
  BY <1>1
<1>3. IInv => DataTypes /\ CacheBounded
  BY DEF IInv
<1> QED  BY <1>2, <1>3, ServingIInv, WarmAlways, PTL DEF ServingSpec, PromotedIsWarm
=============================================================================
