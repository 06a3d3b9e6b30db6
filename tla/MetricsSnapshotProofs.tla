----------------------- MODULE MetricsSnapshotProofs ------------------------
(***************************************************************************)
(* That a snapshot of the platform, torn as it is, is off by no more than  *)
(* the batches that moved while it was taken, for any number of workers,   *)
(* batches and faults, and whatever the bound on the moves.                *)
(***************************************************************************)
EXTENDS MetricsSnapshot, FiniteSetTheorems, TLAPS

(* Outside of collect its local variables do not exist, and until the      *)
(* HGETALL has answered no list has been counted.                          *)
LocalsInv ==
    /\ ~ Collecting => depth = 0 /\ left = {} /\ moved = 0
    /\ pc # "lists" => inFlight = 0 /\ counted = {}

(* OffByMoves alone says nothing of a collect that begins: that it begins  *)
(* with nothing counted is LocalsInv.                                      *)
IInv == TypeOK /\ LocalsInv /\ OffByMoves

Places == {"none", "queue", "done"} \cup Workers

-----------------------------------------------------------------------------
(* Counting the batches of some places *)

(* A count (the LLENs of collectors.py:35-52) is a number, no more than there are *)
(* batches.                                                                *)
LEMMA Count ==
    ASSUME NEW places
    PROVE  /\ IsFiniteSet(At(places))
           /\ Cardinality(At(places)) \in 0 .. Cardinality(Batches)
<1>1. At(places) \in SUBSET Batches
  BY DEF At
<1> QED  BY <1>1, FS_Subset, FS_CardinalityType, SnapshotAssumption

(* Places counted apart add up: no batch is in two of them.                *)
LEMMA CountApart ==
    ASSUME NEW places, NEW p, p \notin places
    PROVE  Cardinality(At(places \cup {p})) = Cardinality(At(places)) + Cardinality(At({p}))
<1>1. At(places \cup {p}) = At(places) \cup At({p})
  BY DEF At
<1>2. At(places) \cap At({p}) = {}
  BY DEF At
<1>3. Cardinality({}) = 0
  BY FS_EmptySet
<1> DEFINE a == Cardinality(At(places))
           b == Cardinality(At({p}))
<1>4. a \in Int /\ b \in Int
  BY Count
<1>5. Cardinality(At(places) \cup At({p})) =
          a + b - Cardinality(At(places) \cap At({p}))
  BY ONLY Count, FS_Union
<1>6. Cardinality(At(places) \cap At({p})) = 0
  BY <1>2, <1>3
<1> HIDE DEF a, b
<1>7. Cardinality(At(places) \cup At({p})) = a + b
  BY <1>4, <1>5, <1>6
<1> QED  BY <1>1, <1>7 DEF a, b

(* At, when the places of the batches are f.                               *)
Among(f, places) == {x \in Batches : f[x] \in places}

(* One batch that moves (queues.py:139-172) changes the count of any       *)
(* places by one at most.                                                  *)
LEMMA OneMove ==
    ASSUME NEW f \in [Batches -> Places], NEW b \in Batches, NEW to, NEW places
    PROVE  LET g == [f EXCEPT ![b] = to]
           IN  /\ Cardinality(Among(f, places)) \in Int
               /\ Cardinality(Among(g, places)) \in Int
               /\ Cardinality(Among(g, places)) - Cardinality(Among(f, places)) \in -1 .. 1
<1> DEFINE g == [f EXCEPT ![b] = to]
           Rest == Among(f, places) \ {b}
           n == Cardinality(Rest)
<1>1. IsFiniteSet(Rest)
  BY FS_Subset, SnapshotAssumption DEF Among
<1>2. Among(f, places) \in {Rest, Rest \cup {b}}
  BY DEF Among
<1>3. Among(g, places) \in {Rest, Rest \cup {b}}
  BY DEF Among
<1>4. b \notin Rest
  OBVIOUS
<1> HIDE DEF Rest, g
<1>5. n \in Int /\ Cardinality(Rest \cup {b}) = n + 1
  BY <1>1, <1>4, FS_AddElement, FS_CardinalityType
<1> HIDE DEF n
<1>6. Cardinality(Among(f, places)) \in {n, n + 1}
  BY <1>2, <1>5 DEF n
<1>7. Cardinality(Among(g, places)) \in {n, n + 1}
  BY <1>3, <1>5 DEF n
<1>8. /\ Cardinality(Among(f, places)) \in Int
      /\ Cardinality(Among(g, places)) \in Int
      /\ Cardinality(Among(g, places)) - Cardinality(Among(f, places)) \in -1 .. 1
  BY <1>5, <1>6, <1>7
<1> QED  BY <1>8 DEF g

-----------------------------------------------------------------------------
(* The steps *)

(* The loop starts with nothing collected (aggregator_loop.py:29-36).           *)
LEMMA InitInv == Init => IInv
BY SnapshotAssumption, FS_CardinalityType
   DEF Init, IInv, TypeOK, LocalsInv, OffByMoves, Collecting

(* A batch moves under the collector's hands: each move costs one at most. *)
LEMMA MoveStep ==
    ASSUME IInv, NEW b \in Batches, NEW from \in Places, NEW to \in Places,
           Moves(b, from, to)
    PROVE  IInv'
<1> USE DEF IInv, LocalsInv, Moves, localVars, Collecting
<1>1. TypeOK'
  BY SnapshotAssumption DEF TypeOK, Places
<1>2. LocalsInv'
  OBVIOUS
<1>3. ASSUME Collecting
      PROVE  depth + inFlight - Cardinality(At({"queue"} \cup counted))' \in -moved' .. moved'
  <2> DEFINE places == {"queue"} \cup counted
             before == Cardinality(Among(place, places))
             after  == Cardinality(Among(place', places))
  <2>1. place \in [Batches -> Places] /\ place' = [place EXCEPT ![b] = to]
    BY DEF TypeOK, Places
  <2>2. before \in Int /\ after \in Int /\ after - before \in -1 .. 1
    BY <2>1, OneMove
  <2>3. Cardinality(At({"queue"} \cup counted)) = before
    BY DEF At, Among
  <2>4. Cardinality(At({"queue"} \cup counted))' = after
    BY DEF At, Among
  <2>5. depth + inFlight - before \in -moved .. moved
    BY <1>3, <2>3 DEF OffByMoves
  <2>6. moved' = moved + 1 /\ moved \in Int /\ depth \in Int /\ inFlight \in Int
    BY <1>3, SnapshotAssumption DEF TypeOK
  <2> HIDE DEF before, after
  <2>7. depth + inFlight - after \in -moved' .. moved'
    BY <2>2, <2>5, <2>6
  <2> QED  BY <2>4, <2>7
<1>4. OffByMoves'
  BY <1>3 DEF OffByMoves
<1> QED  BY <1>1, <1>2, <1>4

(* The LLEN of the queue (collectors.py:36) is exact when it is taken.  *)
LEMMA QueueStep ==
    ASSUME IInv, CountQueue
    PROVE  IInv'
<1> USE DEF IInv, LocalsInv, CountQueue, Collecting, worldVars
<1>1. At({"queue"})' = At({"queue"})
  BY DEF At
<1>2. Cardinality(At({"queue"})) \in 0 .. Cardinality(Batches)
  BY Count
<1>3. TypeOK'
  BY <1>2 DEF TypeOK
<1>4. LocalsInv'
  OBVIOUS
<1>5. OffByMoves'
  <2>1. At({"queue"} \cup counted)' = At({"queue"})
    BY DEF At
  <2>2. depth' + inFlight' - Cardinality(At({"queue"} \cup counted))' = 0
    BY <1>2, <2>1
  <2> QED  BY <2>2 DEF OffByMoves
<1> QED  BY <1>3, <1>4, <1>5

(* A list that is counted adds what is in it now.                          *)
LEMMA ListStep ==
    ASSUME IInv, NEW w \in Workers, CountList(w)
    PROVE  IInv'
<1> USE DEF IInv, LocalsInv, CountList, InFlightOf, Collecting, worldVars
<1>1. Cardinality(At({w})) \in Nat
  BY Count
<1>2. TypeOK'
  BY <1>1 DEF TypeOK
<1>3. LocalsInv'
  OBVIOUS
<1>4. OffByMoves'
  <2> DEFINE places == {"queue"} \cup counted
  <2>1. w \notin places
    BY SnapshotAssumption DEF TypeOK
  <2>2. Cardinality(At(places \cup {w})) = Cardinality(At(places)) + Cardinality(At({w}))
    BY <2>1, CountApart
  <2>3. At({"queue"} \cup counted)' = At(places \cup {w})
    BY DEF At
  <2>4. Cardinality(At(places)) \in Int /\ depth \in Int /\ inFlight \in Int
    BY Count DEF TypeOK
  <2>5. depth' + inFlight' - Cardinality(At(places \cup {w}))
            = depth + inFlight - Cardinality(At(places))
    BY <1>1, <2>2, <2>4
  <2> QED  BY <2>3, <2>5 DEF OffByMoves
<1> QED  BY <1>2, <1>3, <1>4

(* Every other step leaves the counts alone or drops them all.             *)
LEMMA OtherStep ==
    ASSUME IInv,
           \/ Start \/ Ping \/ PingFails \/ CountWorkers \/ Publish \/ CommandFails \/ Stop
           \/ \E w \in Workers : Beats(w)
           \/ UNCHANGED vars
    PROVE  IInv'
<1> USE SnapshotAssumption
    DEF IInv, LocalsInv, TypeOK, worldVars, localVars, vars, CommandError, Leaves, KeepsSampling
<1>1. CASE Start \/ Ping \/ PingFails
  BY <1>1 DEF Start, Ping, PingFails, OffByMoves, Collecting
<1>2. CASE CountWorkers
  <2>1. At({"queue"} \cup counted)' = At({"queue"} \cup counted)
    BY <1>2 DEF CountWorkers, At
  <2> QED  BY <1>2, <2>1 DEF CountWorkers, OffByMoves, Collecting
<1>3. CASE Publish \/ CommandFails \/ Stop
  <2>1. Cardinality(Batches) \in Nat
    BY FS_CardinalityType
  <2> QED  BY <1>3, <2>1 DEF Publish, CommandFails, Stop, OffByMoves, Collecting
<1>4. CASE (\E w \in Workers : Beats(w)) \/ UNCHANGED vars
  <2>1. At({"queue"} \cup counted)' = At({"queue"} \cup counted)
    BY <1>4 DEF Beats, At
  <2> QED  BY <1>4, <2>1 DEF Beats, OffByMoves, Collecting
<1> QED  BY <1>1, <1>2, <1>3, <1>4

(* The invariant is inductive. *)
LEMMA InvStep == IInv /\ [Next]_vars => IInv'
<1> SUFFICES ASSUME IInv, [Next]_vars  PROVE IInv'
  OBVIOUS
<1>1. ASSUME NEW b \in Batches, Dispatched(b) \/ Reserved(b) \/ Completed(b) \/ Recovered(b)
      PROVE  IInv'
  BY <1>1, MoveStep DEF Dispatched, Reserved, Completed, Recovered, Places
<1> QED  BY <1>1, QueueStep, ListStep, OtherStep DEF Next, Sample

(* The invariant holds in every state of the sampling loop.                *)
LEMMA InvAlways == Spec => []IInv
<1>1. Init => IInv
  BY InitInv
<1> QED  BY <1>1, InvStep, PTL DEF Spec

-----------------------------------------------------------------------------
(* The results *)

(* Types: the queue depth of a snapshot is never more than there are       *)
(* batches, and no worker's list is counted twice.                         *)
THEOREM TypeCorrect == Spec => []TypeOK
<1>1. IInv => TypeOK
  BY DEF IInv
<1> QED  BY <1>1, InvAlways, PTL

(* The depth and in-flight numbers of collect, read by as many commands as *)
(* there are workers, are off by at most the batches that moved since the  *)
(* first of them.                                                          *)
THEOREM TornByMovesOnly == Spec => []OffByMoves
<1>1. IInv => OffByMoves
  BY DEF IInv
<1> QED  BY <1>1, InvAlways, PTL
=============================================================================
