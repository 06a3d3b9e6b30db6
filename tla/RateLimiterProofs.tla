-------------------------- MODULE RateLimiterProofs -------------------------
(***************************************************************************)
(* The properties of RateLimiter, for any number of threads and any rate,  *)
(* burst, cost and clock.                                                  *)
(*                                                                         *)
(* Solvent is inductive once the balance a thread has computed and not yet *)
(* stored obeys it too.  WithinRate then follows from the books of the     *)
(* window: what was admitted and the balance of the bucket are together no *)
(* more than the burst and the refill up to the bucket's own clock, and    *)
(* from there to now Solvent bounds the balance from below.                *)
(***************************************************************************)
EXTENDS RateLimiter, TLAPS

(* Products with a rate that is not negative. *)
LEMMA Grows == ASSUME NEW a \in Nat, NEW x \in Int, NEW y \in Int, x =< y
               PROVE  a * x \in Int /\ a * y \in Int /\ a * x =< a * y
<1>1. a * (y - x) >= 0 /\ a * (y - x) = a * y - a * x
  OBVIOUS
<1> QED  BY <1>1

(* What is earned over two stretches of time is earned over both. *)
LEMMA Splits == ASSUME NEW a \in Nat, NEW x \in Int, NEW y \in Int, NEW z \in Int
                PROVE  /\ a * (x - y) \in Int /\ a * (y - z) \in Int /\ a * (x - z) \in Int
                       /\ a * (x - y) + a * (y - z) = a * (x - z)
                       /\ (x - y) * a = a * (x - y)
OBVIOUS

-----------------------------------------------------------------------------
(* Types *)

(* Where a thread that is past get() has its bucket, and what is in the past *)
Shape ==
    /\ \A t \in Threads : pc[t] \in {"refill", "spend"} => mine[t] \in Threads
    /\ \A t \in Threads : now[t] =< clock /\ lastRefill[t] =< clock
    /\ since =< clock

(* A refill is capped by the burst, and adds what time has earned. *)
LEMMA CappedType ==
    ASSUME NEW t \in Threads, TypeOK, mine[t] \in Threads
    PROVE  /\ Capped(t) \in Int
           /\ Capped(t) =< Burst
           /\ Capped(t) =< tokens[mine[t]] + Rate * (now[t] - lastRefill[mine[t]])
           /\ \/ Capped(t) = Burst
              \/ Capped(t) = tokens[mine[t]] + Rate * (now[t] - lastRefill[mine[t]])
<1> DEFINE more == tokens[mine[t]] + (now[t] - lastRefill[mine[t]]) * Rate
<1>1. /\ now[t] \in Int /\ lastRefill[mine[t]] \in Int /\ tokens[mine[t]] \in Int
      /\ Rate \in Nat /\ Burst \in Nat
  BY LimiterAssumption DEF TypeOK, Times
<1>2. /\ more \in Int
      /\ more = tokens[mine[t]] + Rate * (now[t] - lastRefill[mine[t]])
  BY <1>1, Splits
<1>3. Capped(t) = IF more < Burst THEN more ELSE Burst
  BY DEF Capped
<1> HIDE DEF more
<1> QED  BY <1>1, <1>2, <1>3

(* Retry-After is at least one second. *)
LEMMA RetryAfterType ==
    ASSUME NEW t \in Threads, TypeOK
    PROVE  RetryAfter(t) \in Nat \ {0}
<1>1. /\ Cost - refilled[t] \in Int /\ Rate * Second \in Nat
      /\ Rate # 0 => Rate * Second > 0
  BY LimiterAssumption DEF TypeOK
<1>2. Seconds(t) \in Int
  <2>1. CASE Rate = 0
    BY <2>1 DEF Seconds
  <2>2. CASE Rate # 0
    <3> DEFINE a == Cost - refilled[t]
               b == Rate * Second
    <3>1. a \in Int /\ b \in Nat \ {0}
      BY <1>1, <2>2
    <3> HIDE DEF a, b
    <3>2. a \div b \in Int
      BY <3>1
    <3>3. Rounded(a, b) \in Int
      BY <3>2 DEF Rounded
    <3> QED  BY <2>2, <3>3 DEF Seconds, a, b
  <2> QED  BY <2>1, <2>2
<1> QED  BY <1>2 DEF RetryAfter

(* No thread has a bucket at first. *)
LEMMA InitTypes == Init => TypeOK /\ Shape
BY LimiterAssumption DEF Init, TypeOK, Shape, Times

(* A thread stores its balance and the time in the bucket it holds. *)
LEMMA StoresTypes ==
    ASSUME TypeOK, Shape, NEW t \in Threads, NEW balance \in Int,
           balance =< Burst, Stores(t, balance),
           admitted' \in Nat, promise' \subseteq Nat
    PROVE  TypeOK' /\ Shape'
<1>1. mine[t] \in Threads
  BY DEF Stores, Shape
<1> QED  BY <1>1, LimiterAssumption DEF Stores, RefillTime, Goes, TypeOK, Shape, Times

(* Every step keeps the types, and the threads' buckets where they are. *)
LEMMA TypesStep == ASSUME TypeOK, Shape, [Next]_vars  PROVE TypeOK' /\ Shape'
<1> USE LimiterAssumption DEF Times
<1>1. ASSUME NEW t \in Threads, Call(t)  PROVE TypeOK' /\ Shape'
  BY <1>1 DEF Call, Goes, bucketVars, TypeOK, Shape
<1>2. ASSUME NEW t \in Threads, Get(t)  PROVE TypeOK' /\ Shape'
  BY <1>2 DEF Get, Goes, bucketVars, windowVars, TypeOK, Shape
<1>3. ASSUME NEW t \in Threads, Create(t)  PROVE TypeOK' /\ Shape'
  BY <1>3 DEF Create, Goes, windowVars, TypeOK, Shape
<1>4. ASSUME NEW t \in Threads, Refill(t)  PROVE TypeOK' /\ Shape'
  <2>1. Capped(t) \in Int /\ Capped(t) =< Burst
    BY <1>4, CappedType DEF Refill, Shape
  <2> QED  BY <1>4, <2>1 DEF Refill, Goes, bucketVars, windowVars, TypeOK, Shape
<1>5. ASSUME NEW t \in Threads, Admit(t)  PROVE TypeOK' /\ Shape'
  <2>1. /\ Charged(t) \in Int /\ Charged(t) =< Burst
        /\ admitted' \in Nat /\ promise' \subseteq Nat
    BY <1>5 DEF Admit, Charged, TypeOK
  <2> QED  BY <1>5, <2>1, StoresTypes DEF Admit
<1>6. ASSUME NEW t \in Threads, Refuse(t)  PROVE TypeOK' /\ Shape'
  <2>1. now[t] + RetryAfter(t) * Second \in Nat
    BY RetryAfterType DEF TypeOK
  <2>2. /\ refilled[t] \in Int /\ refilled[t] =< Burst
        /\ admitted' \in Nat /\ promise' \subseteq Nat
    BY <1>6, <2>1 DEF Refuse, TypeOK
  <2> QED  BY <1>6, <2>2, StoresTypes DEF Refuse
<1>7. CASE Tick
  BY <1>7 DEF Tick, callVars, bucketVars, windowVars, TypeOK, Shape
<1>8. CASE OpenWindow
  BY <1>8 DEF OpenWindow, callVars, bucketVars, TypeOK, Shape
<1>9. CASE UNCHANGED vars
  BY <1>9 DEF vars, callVars, bucketVars, windowVars, TypeOK, Shape
<1> QED  BY <1>1, <1>2, <1>3, <1>4, <1>5, <1>6, <1>7, <1>8, <1>9 DEF Next, Allow

(* Type correctness: no balance, computed or stored, exceeds the burst. *)
THEOREM TypeCorrect == Spec => []TypeOK
<1>1. Spec => [](TypeOK /\ Shape)
  BY InitTypes, TypesStep, PTL DEF Spec
<1> QED  BY <1>1, PTL

-----------------------------------------------------------------------------
(* Solvent *)

(* What a thread has computed and not yet stored *)
Debt ==
    \A t \in Threads :
        pc[t] = "spend" => refilled[t] + Rate * (clock - now[t]) >= 0

(* The step of one thread that stores its balance *)
LEMMA StoresSolvent ==
    ASSUME TypeOK, Shape, Solvent, Debt, NEW t \in Threads, NEW balance \in Int,
           Stores(t, balance), balance + Rate * (clock - now[t]) >= 0
    PROVE  Solvent' /\ Debt'
<1>1. /\ mine[t] \in Threads /\ clock' = clock
      /\ tokens' = [tokens EXCEPT ![mine[t]] = balance]
      /\ lastRefill' = [lastRefill EXCEPT ![mine[t]] = now[t]]
      /\ pc' = [pc EXCEPT ![t] = "idle"]
      /\ \A u \in Threads \ {t} : now'[u] = now[u] /\ refilled'[u] = refilled[u]
  BY DEF Stores, RefillTime, Goes, Shape, TypeOK
<1>2. Solvent'
  <2>1. ASSUME NEW k \in Threads
        PROVE  tokens'[k] + Rate * (clock' - lastRefill'[k]) >= 0
    <3>1. CASE k = mine[t]
      <4>1. tokens'[k] = balance /\ lastRefill'[k] = now[t]
        BY <1>1, <3>1 DEF TypeOK
      <4> QED  BY <1>1, <4>1
    <3>2. CASE k # mine[t]
      <4>1. tokens'[k] = tokens[k] /\ lastRefill'[k] = lastRefill[k]
        BY <1>1, <3>2 DEF TypeOK
      <4> QED  BY <1>1, <4>1 DEF Solvent
    <3> QED  BY <3>1, <3>2
  <2> QED  BY <2>1 DEF Solvent
<1>3. Debt'
  <2>1. ASSUME NEW u \in Threads, pc'[u] = "spend"
        PROVE  refilled'[u] + Rate * (clock' - now'[u]) >= 0
    <3>1. u # t /\ pc[u] = "spend"
      BY <1>1, <2>1 DEF TypeOK
    <3> QED  BY <1>1, <3>1 DEF Debt
  <2> QED  BY <2>1 DEF Debt
<1> QED  BY <1>2, <1>3

(* A refill computes at least what the bucket holds by the time it was read *)
LEMMA RefillSolvent ==
    ASSUME TypeOK, Shape, Solvent, NEW t \in Threads, mine[t] \in Threads
    PROVE  Capped(t) + Rate * (clock - now[t]) >= 0
<1> DEFINE k == mine[t]
<1>1. /\ clock \in Int /\ now[t] \in Int /\ lastRefill[k] \in Int /\ tokens[k] \in Int
      /\ now[t] =< clock /\ Rate \in Nat /\ Burst \in Nat
  BY LimiterAssumption DEF TypeOK, Shape, Times
<1>2. /\ Rate * (clock - now[t]) \in Int
      /\ Rate * (now[t] - lastRefill[k]) \in Int
      /\ Rate * (clock - now[t]) + Rate * (now[t] - lastRefill[k])
            = Rate * (clock - lastRefill[k])
  BY <1>1, Splits
<1>3. Rate * (clock - now[t]) >= 0
  BY <1>1, Grows
<1>4. tokens[k] + Rate * (clock - lastRefill[k]) >= 0
  BY DEF Solvent
<1>5. CASE Capped(t) = Burst
  BY <1>1, <1>2, <1>3, <1>5
<1>6. CASE Capped(t) = tokens[k] + Rate * (now[t] - lastRefill[k])
  BY <1>1, <1>2, <1>4, <1>6
<1> QED  BY <1>5, <1>6, CappedType

(* A thread spends only what the balance it has read covers. *)
LEMMA SolventStep ==
    ASSUME TypeOK, Shape, Solvent, Debt, [Next]_vars
    PROVE  Solvent' /\ Debt'
<1>1. ASSUME NEW t \in Threads, Call(t) \/ Get(t)
      PROVE  Solvent' /\ Debt'
  BY <1>1 DEF Call, Get, Goes, bucketVars, windowVars, TypeOK, Solvent, Debt
<1>2. ASSUME NEW t \in Threads, Create(t)
      PROVE  Solvent' /\ Debt'
  <2>1. /\ clock' = clock /\ UNCHANGED <<now, refilled>>
        /\ \A u \in Threads : pc'[u] = "spend" => pc[u] = "spend"
    BY <1>2 DEF Create, Goes, TypeOK
  <2>2. ASSUME NEW k \in Threads
        PROVE  tokens'[k] + Rate * (clock' - lastRefill'[k]) >= 0
    <3>1. CASE k = t
      <4>1. tokens'[k] = Burst /\ lastRefill'[k] = now[t]
        BY <1>2, <3>1 DEF Create, TypeOK
      <4>2. /\ now[t] =< clock /\ now[t] \in Int /\ clock \in Int
            /\ Rate \in Nat /\ Burst \in Nat
        BY LimiterAssumption DEF TypeOK, Shape, Times
      <4>3. Rate * (clock - now[t]) \in Int /\ Rate * (clock - now[t]) >= 0
        BY <4>2, Grows
      <4> QED  BY <2>1, <4>1, <4>2, <4>3
    <3>2. CASE k # t
      BY <1>2, <2>1, <3>2 DEF Create, Solvent, TypeOK
    <3> QED  BY <3>1, <3>2
  <2> QED  BY <2>1, <2>2 DEF Solvent, Debt
<1>3. ASSUME NEW t \in Threads, Refill(t)
      PROVE  Solvent' /\ Debt'
  <2>1. mine[t] \in Threads
    BY <1>3 DEF Refill, Shape
  <2>2. Capped(t) + Rate * (clock - now[t]) >= 0
    BY <2>1, RefillSolvent
  <2>3. /\ UNCHANGED <<clock, now, tokens, lastRefill>>
        /\ refilled'[t] = Capped(t)
        /\ \A u \in Threads \ {t} : refilled'[u] = refilled[u] /\ pc'[u] = pc[u]
    BY <1>3 DEF Refill, Goes, bucketVars, TypeOK
  <2>4. ASSUME NEW u \in Threads, pc'[u] = "spend"
        PROVE  refilled'[u] + Rate * (clock' - now'[u]) >= 0
    BY <2>2, <2>3, <2>4 DEF Debt
  <2> QED  BY <2>3, <2>4 DEF Solvent, Debt
<1>4. ASSUME NEW t \in Threads, Admit(t)
      PROVE  Solvent' /\ Debt'
  <2>1. /\ clock \in Int /\ now[t] \in Int /\ now[t] =< clock /\ Rate \in Nat
        /\ refilled[t] \in Int /\ Cost \in Nat /\ refilled[t] >= Cost
    BY <1>4, LimiterAssumption DEF Admit, TypeOK, Shape, Times
  <2>2. Rate * (clock - now[t]) \in Int /\ Rate * (clock - now[t]) >= 0
    BY <2>1, Grows
  <2>3. Charged(t) \in Int /\ Charged(t) + Rate * (clock - now[t]) >= 0
    BY <2>1, <2>2 DEF Charged
  <2> QED  BY <1>4, <2>3, StoresSolvent DEF Admit
<1>5. ASSUME NEW t \in Threads, Refuse(t)
      PROVE  Solvent' /\ Debt'
  <2>1. refilled[t] \in Int /\ refilled[t] + Rate * (clock - now[t]) >= 0
    BY <1>5 DEF Refuse, Stores, Debt, TypeOK
  <2> QED  BY <1>5, <2>1, StoresSolvent DEF Refuse
<1>6. CASE Tick
  <2>1. /\ clock' = clock + 1 /\ clock \in Int /\ Rate \in Nat
        /\ UNCHANGED <<pc, now, refilled, tokens, lastRefill>>
    BY <1>6, LimiterAssumption DEF Tick, callVars, bucketVars, TypeOK, Times
  <2>2. ASSUME NEW x \in Int, NEW n \in Int, n + Rate * (clock - x) >= 0
        PROVE  n + Rate * (clock' - x) >= 0
    <3>1. /\ Rate * (clock - x) \in Int /\ Rate * (clock' - x) \in Int
          /\ Rate * (clock - x) =< Rate * (clock' - x)
      BY <2>1, Grows
    <3> QED  BY <2>2, <3>1
  <2>3. \A t \in Threads : /\ now[t] \in Int /\ refilled[t] \in Int
                           /\ tokens[t] \in Int /\ lastRefill[t] \in Int
    BY DEF TypeOK, Times
  <2> QED  BY <2>1, <2>2, <2>3 DEF Solvent, Debt
<1>7. CASE OpenWindow \/ UNCHANGED vars
  BY <1>7 DEF OpenWindow, vars, callVars, bucketVars, Solvent, Debt
<1> QED  BY <1>1, <1>2, <1>3, <1>4, <1>5, <1>6, <1>7 DEF Next, Allow

(* No bucket is in use yet, and no thread is in allow. *)
LEMMA InitSolvent == Init => Solvent /\ Debt
<1>1. Rate * (0 - 0) = 0
  BY LimiterAssumption
<1> QED  BY <1>1 DEF Init, Solvent, Debt

(* Overlapping calls with old readings of the clock never put a client in  *)
(* debt: what they take back is there again as soon as it has been refilled.*)
THEOREM NeverInDebt == Spec => []Solvent
<1>1. Spec => [](TypeOK /\ Shape)
  BY InitTypes, TypesStep, PTL DEF Spec
<1>2. Init => Solvent /\ Debt
  BY InitSolvent
<1>3. TypeOK /\ Shape /\ Solvent /\ Debt /\ [Next]_vars => Solvent' /\ Debt'
  BY SolventStep
<1> QED  BY <1>1, <1>2, <1>3, PTL DEF Spec

-----------------------------------------------------------------------------
(* WithinRate *)

(* In a window without overlapping calls one thread is in allow, with a    *)
(* reading of the clock from the window and the bucket that all use.       *)
OneByOne ==
    /\ \A t, u \in Threads : pc[t] # "idle" /\ pc[u] # "idle" => t = u
    /\ \A t \in Threads : pc[t] # "idle" => since =< now[t]
    /\ \A t \in Threads : pc[t] \in {"refill", "spend"} => mine[t] = current
    /\ \A t \in Threads : pc[t] = "create" => current = NoThread

(* The books of the window: admissions and balance against burst and refill *)
Balanced ==
    \/ admitted = 0
    \/ /\ current # NoThread
       /\ since =< lastRefill[current]
       /\ admitted * Cost + tokens[current]
            =< Burst + Rate * (lastRefill[current] - since)

Spendable ==
    \A t \in Threads :
        pc[t] = "spend" =>
            admitted * Cost + refilled[t] =< Burst + Rate * (now[t] - since)

Window == alone => OneByOne /\ Balanced /\ Spendable

(* What has been admitted, in tokens. *)
LEMMA Multiplied ==
    ASSUME TypeOK
    PROVE  /\ admitted * Cost \in Nat
           /\ admitted = 0 => admitted * Cost = 0
           /\ (admitted + 1) * Cost = admitted * Cost + Cost
BY LimiterAssumption DEF TypeOK

(* A refill that is computed from books in balance *)
LEMMA RefillBalanced ==
    ASSUME TypeOK, Shape, OneByOne, Balanced, NEW t \in Threads, pc[t] = "refill"
    PROVE  admitted * Cost + Capped(t) =< Burst + Rate * (now[t] - since)
<1>1. /\ mine[t] \in Threads /\ mine[t] = current /\ since =< now[t]
      /\ now[t] \in Int /\ since \in Int /\ Rate \in Nat /\ Burst \in Nat
      /\ lastRefill[current] \in Int /\ tokens[current] \in Int
  BY LimiterAssumption DEF TypeOK, Shape, Times, OneByOne
<1>2. admitted * Cost \in Nat /\ (admitted = 0 => admitted * Cost = 0)
  BY Multiplied
<1>3. /\ Capped(t) \in Int /\ Capped(t) =< Burst
      /\ Capped(t) =< tokens[current] + Rate * (now[t] - lastRefill[current])
  BY <1>1, CappedType
<1>4. CASE admitted = 0
  <2>1. Rate * (now[t] - since) \in Int /\ Rate * (now[t] - since) >= 0
    BY <1>1, Grows
  <2> QED  BY <1>1, <1>2, <1>3, <1>4, <2>1
<1>5. CASE admitted # 0
  <2> DEFINE last == lastRefill[current]
  <2>1. admitted * Cost + tokens[current] =< Burst + Rate * (last - since)
    BY <1>5 DEF Balanced
  <2>2. /\ last \in Int
        /\ Capped(t) =< tokens[current] + Rate * (now[t] - last)
    BY <1>1, <1>3
  <2> HIDE DEF last
  <2>3. /\ Rate * (now[t] - last) \in Int /\ Rate * (last - since) \in Int
        /\ Rate * (now[t] - last) + Rate * (last - since) = Rate * (now[t] - since)
    BY <1>1, <2>2, Splits
  <2> QED  BY <1>1, <1>2, <1>3, <2>1, <2>2, <2>3
<1> QED  BY <1>4, <1>5

(* Both ways to store a balance *)
LEMMA StoresWindow ==
    ASSUME TypeOK, Shape, Window, NEW t \in Threads, NEW balance \in Int,
           Stores(t, balance), admitted' \in Nat,
           alone => admitted' * Cost + balance =< Burst + Rate * (now[t] - since)
    PROVE  Window'
<1>1. SUFFICES ASSUME alone  PROVE OneByOne' /\ Balanced' /\ Spendable'
  BY DEF Stores, Window
<1>2. /\ mine[t] \in Threads /\ mine[t] = current /\ pc[t] = "spend"
      /\ OneByOne /\ since =< now[t]
      /\ current' = current /\ since' = since
  BY <1>1 DEF Stores, Shape, Window, OneByOne
<1>3. \A u \in Threads : pc'[u] = "idle"
  BY <1>2 DEF Stores, Goes, OneByOne, TypeOK
<1>4. tokens'[current] = balance /\ lastRefill'[current] = now[t]
  BY <1>2 DEF Stores, RefillTime, TypeOK
<1>5. OneByOne' /\ Spendable'
  BY <1>3 DEF OneByOne, Spendable
<1>6. Balanced'
  BY <1>1, <1>2, <1>4, LimiterAssumption DEF Balanced
<1> QED  BY <1>5, <1>6

(* Calls that come one by one keep the books of the window. *)
LEMMA WindowStep ==
    ASSUME TypeOK, Shape, Window, [Next]_vars
    PROVE  Window'
<1>1. ASSUME NEW t \in Threads, Call(t)
      PROVE  Window'
  <2>1. SUFFICES ASSUME alone, \A u \in Threads : pc[u] = "idle"
                 PROVE  OneByOne' /\ Balanced' /\ Spendable'
    BY <1>1 DEF Call, Window
  <2>2. /\ \A u \in Threads : pc'[u] # "idle" => u = t
        /\ pc'[t] = "get" /\ now'[t] = clock /\ since' = since
        /\ UNCHANGED <<admitted, current, tokens, lastRefill>>
    BY <1>1, <2>1 DEF Call, Goes, bucketVars, TypeOK
  <2>3. OneByOne'
    BY <2>2 DEF OneByOne, Shape
  <2>4. Spendable'
    BY <2>2 DEF Spendable
  <2>5. Balanced'
    BY <2>1, <2>2 DEF Balanced, Window
  <2> QED  BY <2>3, <2>4, <2>5
<1>2. ASSUME NEW t \in Threads, Get(t)
      PROVE  Window'
  <2>1. SUFFICES ASSUME alone  PROVE OneByOne' /\ Balanced' /\ Spendable'
    BY <1>2 DEF Get, windowVars, Window
  <2>2. /\ OneByOne /\ Balanced /\ Spendable
        /\ pc[t] = "get" /\ mine'[t] = current
        /\ pc'[t] = IF current = NoThread THEN "create" ELSE "refill"
        /\ \A u \in Threads \ {t} : pc'[u] = pc[u] /\ mine'[u] = mine[u]
        /\ UNCHANGED <<now, refilled, bucketVars, windowVars>>
    BY <1>2, <2>1 DEF Get, Goes, Window, TypeOK
  <2>3. OneByOne'
    BY <2>2 DEF OneByOne, bucketVars, windowVars
  <2>4. Balanced' /\ Spendable'
    BY <2>2 DEF Balanced, Spendable, bucketVars, windowVars
  <2> QED  BY <2>3, <2>4
<1>3. ASSUME NEW t \in Threads, Create(t)
      PROVE  Window'
  <2>1. SUFFICES ASSUME alone  PROVE OneByOne' /\ Balanced' /\ Spendable'
    BY <1>3 DEF Create, windowVars, Window
  <2>2. /\ OneByOne /\ Balanced /\ pc[t] = "create" /\ current = NoThread
        /\ pc'[t] = "refill" /\ mine'[t] = t /\ current' = t
        /\ \A u \in Threads \ {t} : pc'[u] = pc[u] /\ mine'[u] = mine[u]
        /\ UNCHANGED <<now, refilled, windowVars>>
    BY <1>3, <2>1 DEF Create, Goes, Window, OneByOne, TypeOK
  <2>3. admitted' = 0
    BY <2>2 DEF Balanced, windowVars
  <2>4. \A u \in Threads \ {t} : pc[u] = "idle"
    BY <2>2 DEF OneByOne
  <2>5. OneByOne' /\ Spendable'
    BY <2>2, <2>4 DEF OneByOne, Spendable, windowVars
  <2> QED  BY <2>3, <2>5 DEF Balanced
<1>4. ASSUME NEW t \in Threads, Refill(t)
      PROVE  Window'
  <2>1. SUFFICES ASSUME alone  PROVE OneByOne' /\ Balanced' /\ Spendable'
    BY <1>4 DEF Refill, windowVars, Window
  <2>2. /\ OneByOne /\ Balanced /\ Spendable /\ pc[t] = "refill"
        /\ pc'[t] = "spend" /\ refilled'[t] = Capped(t)
        /\ \A u \in Threads \ {t} : pc'[u] = pc[u] /\ refilled'[u] = refilled[u]
        /\ UNCHANGED <<now, mine, bucketVars, windowVars>>
    BY <1>4, <2>1 DEF Refill, Goes, Window, TypeOK
  <2>3. OneByOne' /\ Balanced'
    BY <2>2 DEF OneByOne, Balanced, bucketVars, windowVars
  <2>4. admitted * Cost + Capped(t) =< Burst + Rate * (now[t] - since)
    BY <2>2, RefillBalanced
  <2>5. Spendable'
    BY <2>2, <2>4 DEF Spendable, windowVars
  <2> QED  BY <2>3, <2>5
<1>5. ASSUME NEW t \in Threads, Admit(t)
      PROVE  Window'
  <2>1. /\ Charged(t) \in Int /\ refilled[t] \in Int /\ Cost \in Nat
        /\ Charged(t) = refilled[t] - Cost /\ admitted' \in Nat
        /\ alone => admitted' = admitted + 1
    BY <1>5, LimiterAssumption DEF Admit, Charged, TypeOK
  <2>2. ASSUME alone
        PROVE  admitted' * Cost + Charged(t) =< Burst + Rate * (now[t] - since)
    <3>1. admitted * Cost + refilled[t] =< Burst + Rate * (now[t] - since)
      BY <1>5, <2>2 DEF Admit, Stores, Window, Spendable
    <3>2. admitted' * Cost = admitted * Cost + Cost /\ admitted * Cost \in Nat
      BY <2>1, <2>2, Multiplied
    <3>3. Burst + Rate * (now[t] - since) \in Int
      BY LimiterAssumption DEF TypeOK, Times
    <3> HIDE <2>2
    <3> QED  BY <2>1, <3>1, <3>2, <3>3
  <2> QED  BY <1>5, <2>1, <2>2, StoresWindow DEF Admit
<1>6. ASSUME NEW t \in Threads, Refuse(t)
      PROVE  Window'
  <2>1. /\ refilled[t] \in Int /\ admitted' = admitted /\ admitted \in Nat
        /\ alone => admitted * Cost + refilled[t] =< Burst + Rate * (now[t] - since)
    BY <1>6 DEF Refuse, Stores, Window, Spendable, TypeOK
  <2> QED  BY <1>6, <2>1, StoresWindow DEF Refuse
<1>7. CASE Tick \/ UNCHANGED vars
  BY <1>7 DEF Tick, vars, callVars, bucketVars, windowVars, Window, OneByOne,
              Balanced, Spendable
<1>8. CASE OpenWindow
  <2>1. admitted' = 0 /\ \A t \in Threads : pc'[t] = "idle"
    BY <1>8 DEF OpenWindow, callVars
  <2> QED  BY <2>1 DEF Window, OneByOne, Balanced, Spendable
<1> QED  BY <1>1, <1>2, <1>3, <1>4, <1>5, <1>6, <1>7, <1>8 DEF Next, Allow

(* Balanced books at the bucket's own clock, and no debt since then *)
LEMMA WindowBound ==
    ASSUME TypeOK, Shape, Solvent, Window
    PROVE  WithinRate
<1>1. SUFFICES ASSUME alone
               PROVE  admitted * Cost =< Burst + Rate * (clock - since)
  BY DEF WithinRate
<1>2. /\ clock \in Int /\ since \in Int /\ since =< clock
      /\ Rate \in Nat /\ Burst \in Nat
  BY LimiterAssumption DEF TypeOK, Shape, Times
<1>3. admitted * Cost \in Nat /\ (admitted = 0 => admitted * Cost = 0)
  BY Multiplied
<1>4. CASE admitted = 0
  <2>1. Rate * (clock - since) \in Int /\ Rate * (clock - since) >= 0
    BY <1>2, Grows
  <2> QED  BY <1>2, <1>3, <1>4, <2>1
<1>5. CASE admitted # 0
  <2> DEFINE last == lastRefill[current]
  <2>1. /\ current \in Threads /\ last \in Int /\ tokens[current] \in Int
        /\ admitted * Cost + tokens[current] =< Burst + Rate * (last - since)
    BY <1>1, <1>5 DEF Window, Balanced, TypeOK, Times
  <2>2. tokens[current] + Rate * (clock - last) >= 0
    BY <2>1 DEF Solvent
  <2> HIDE DEF last
  <2>3. /\ Rate * (clock - last) \in Int /\ Rate * (last - since) \in Int
        /\ Rate * (clock - last) + Rate * (last - since) = Rate * (clock - since)
    BY <1>2, <2>1, Splits
  <2> QED  BY <1>2, <1>3, <2>1, <2>2, <2>3
<1> QED  BY <1>4, <1>5

(* In every window without overlapping calls a client gets no more than    *)
(* burst and rate, whatever overlapping calls had done to the bucket.      *)
THEOREM RateKept == Spec => []WithinRate
<1>1. Spec => [](TypeOK /\ Shape)
  BY InitTypes, TypesStep, PTL DEF Spec
<1>2. Init => Window
  BY DEF Init, Window, OneByOne, Balanced, Spendable
<1>3. TypeOK /\ Shape /\ Window /\ [Next]_vars => Window'
  BY WindowStep
<1>4. Spec => []Window
  BY <1>1, <1>2, <1>3, PTL DEF Spec
<1>5. TypeOK /\ Shape /\ Solvent /\ Window => WithinRate
  BY WindowBound
<1> QED  BY <1>1, <1>4, <1>5, NeverInDebt, PTL

-----------------------------------------------------------------------------
(* RetryAfterEnough *)

(* A bucket with this balance, last refilled then, can pay for a call at    *)
(* that time, or will after the half second that rounding may have cost    *)
Covers(balance, last, over) ==
    2 * (balance + Rate * (over - last)) + Rate * Grace >= 2 * Cost

(* In such a window the bucket covers a reading of the clock, and by the   *)
(* time a client was told to wait for it has what a request costs.         *)
Promised ==
    alone =>
        /\ \A t \in Threads :
               pc[t] \in {"get", "refill"} /\ current # NoThread =>
                   tokens[current] + Rate * (now[t] - lastRefill[current]) >= 0
        /\ \A t \in Threads : pc[t] = "spend" => refilled[t] >= 0
        /\ promise # {} => current # NoThread
        /\ \A over \in promise :
               /\ Covers(tokens[current], lastRefill[current], over)
               /\ \A t \in Threads :
                      pc[t] = "spend" =>
                          refilled[t] >= Burst \/ Covers(refilled[t], now[t], over)

(* The grace is half a second or nothing. *)
LEMMA GraceType ==
    /\ Grace \in Nat /\ Rate * Grace \in Nat
    /\ ~ (Cost =< Rate * Second) => Grace = Second
<1>1. Grace \in Nat
  BY LimiterAssumption DEF Grace
<1> QED  BY <1>1, LimiterAssumption DEF Grace

(* round() takes at most a half from a quotient. *)
LEMMA RoundedLacksHalf ==
    ASSUME NEW a \in Int, NEW b \in Nat \ {0}
    PROVE  Rounded(a, b) \in Int /\ 2 * a =< 2 * (b * Rounded(a, b)) + b
<1> DEFINE q == a \div b
           m == a % b
<1>1. q \in Int /\ m \in 0 .. b - 1 /\ a = b * q + m
  OBVIOUS
<1>2. Rounded(a, b) \in {q, q + 1} /\ (Rounded(a, b) = q => 2 * m =< b)
  BY <1>1 DEF Rounded
<1> HIDE DEF q, m
<1>3. b * (q + 1) = b * q + b /\ b * q \in Int
  BY <1>1
<1>4. CASE Rounded(a, b) = q
  BY <1>1, <1>2, <1>3, <1>4
<1>5. CASE Rounded(a, b) = q + 1
  BY <1>1, <1>3, <1>5
<1> QED  BY <1>2, <1>4, <1>5

(* The wait a 429 names gives back what the request lacks. *)
LEMMA WaitCovers ==
    ASSUME TypeOK, Rate # 0, NEW t \in Threads, refilled[t] >= 0
    PROVE  Covers(refilled[t], now[t], now[t] + RetryAfter(t) * Second)
<1> DEFINE wait == RetryAfter(t)
<1>1. /\ Rate \in Nat /\ Second \in Nat \ {0} /\ Cost \in Nat
      /\ refilled[t] \in Int /\ now[t] \in Int
      /\ wait \in Nat \ {0}
  BY LimiterAssumption, RetryAfterType DEF TypeOK, Times
<1> HIDE DEF wait
<1>2. wait * Second \in Nat /\ Second =< wait * Second
  <2>1. Second * 1 =< Second * wait
    BY <1>1, Grows
  <2> QED  BY <1>1, <2>1
<1>3. Rate * Second =< Rate * (wait * Second) /\ Rate * (wait * Second) \in Int
  BY <1>1, <1>2, Grows
<1> DEFINE lack == Cost - refilled[t]
           gain == Rate * (wait * Second)
           over == now[t] + wait * Second
<1>4. over \in Int /\ over - now[t] = wait * Second
  BY <1>1, <1>2
<1>5. Rate * (over - now[t]) = gain /\ gain \in Int
  BY <1>3, <1>4
<1>6. 2 * lack =< 2 * gain + Rate * Grace
  <2>1. CASE Cost =< Rate * Second
    <3>1. Cost =< gain
      BY <1>1, <1>3, <2>1
    <3> HIDE DEF gain
    <3> QED  BY <1>1, <1>5, <3>1, GraceType
  <2>2. CASE ~ (Cost =< Rate * Second)
    <3> DEFINE unit == Rate * Second
    <3>1. lack \in Int /\ unit \in Nat \ {0} /\ unit = Rate * Grace
      BY <1>1, <2>2, GraceType
    <3> HIDE DEF lack, unit
    <3>2. Rounded(lack, unit) \in Int /\ 2 * lack =< 2 * (unit * Rounded(lack, unit)) + unit
      BY <3>1, RoundedLacksHalf
    <3>3. Rounded(lack, unit) =< wait
      <4>1. Seconds(t) = Rounded(lack, unit)
        BY DEF Seconds, lack, unit
      <4> QED  BY <3>2, <4>1 DEF wait, RetryAfter
    <3>4. unit * Rounded(lack, unit) =< unit * wait /\ unit * Rounded(lack, unit) \in Int
      BY <1>1, <3>1, <3>2, <3>3, Grows
    <3>5. unit * wait = gain
      BY <1>1 DEF unit
    <3> HIDE DEF gain
    <3> QED  BY <1>5, <3>1, <3>2, <3>4, <3>5
  <2> QED  BY <2>1, <2>2
<1> HIDE DEF gain, over
<1>7. Covers(refilled[t], now[t], over)
  BY <1>1, <1>5, <1>6, GraceType DEF Covers
<1> QED  BY <1>7 DEF wait, over

(* A refill by now[t], and by over, of a bucket that covers now[t]          *)
LEMMA RefillPromised ==
    ASSUME TypeOK, Shape, OneByOne, Promised, alone, NEW t \in Threads, pc[t] = "refill"
    PROVE  /\ Capped(t) >= 0
           /\ \A over \in promise :
                  Capped(t) >= Burst \/ Covers(Capped(t), now[t], over)
<1> DEFINE last == lastRefill[current]
<1>1. /\ mine[t] \in Threads /\ mine[t] = current
      /\ now[t] \in Int /\ Rate \in Nat /\ Burst \in Nat /\ Cost \in Nat
      /\ last \in Int /\ tokens[current] \in Int
  BY LimiterAssumption DEF TypeOK, Shape, Times, OneByOne
<1>2. /\ Capped(t) \in Int
      /\ \/ Capped(t) = Burst
         \/ Capped(t) = tokens[current] + Rate * (now[t] - last)
  BY <1>1, CappedType
<1>3. tokens[current] + Rate * (now[t] - last) >= 0
  BY <1>1, LimiterAssumption DEF Promised
<1>4. Capped(t) >= 0
  BY <1>1, <1>2, <1>3
<1>5. ASSUME NEW over \in promise, Capped(t) # Burst
      PROVE  Covers(Capped(t), now[t], over)
  <2>1. over \in Int
    BY DEF TypeOK
  <2>2. 2 * (tokens[current] + Rate * (over - last)) + Rate * Grace >= 2 * Cost
    BY DEF Promised, Covers
  <2>3. Capped(t) = tokens[current] + Rate * (now[t] - last)
    BY <1>2, <1>5
  <2> HIDE DEF last
  <2>4. /\ Rate * (over - now[t]) \in Int /\ Rate * (now[t] - last) \in Int
        /\ Rate * (over - now[t]) + Rate * (now[t] - last) = Rate * (over - last)
    BY <1>1, <2>1, Splits
  <2> QED  BY <1>1, <2>2, <2>3, <2>4, GraceType DEF Covers
<1> HIDE DEF last
<1>6. ASSUME NEW over \in promise
      PROVE  Capped(t) >= Burst \/ Covers(Capped(t), now[t], over)
  <2>1. CASE Capped(t) = Burst
    BY <1>1, <2>1
  <2>2. CASE Capped(t) # Burst
    BY <1>5, <2>2
  <2> QED  BY <2>1, <2>2
<1> QED  BY <1>4, <1>6

(* While calls come one by one, a client that was told to wait finds enough. *)
LEMMA PromisedStep ==
    ASSUME TypeOK, Shape, Solvent, Window, Promised, Rate # 0, [Next]_vars
    PROVE  Promised'
<1>1. ASSUME NEW t \in Threads, Call(t)
      PROVE  Promised'
  <2>1. SUFFICES ASSUME alone, \A u \in Threads : pc[u] = "idle"
                 PROVE  Promised'
    BY <1>1 DEF Call, Promised
  <2>2. /\ \A u \in Threads : pc'[u] # "idle" => u = t
        /\ pc'[t] = "get" /\ now'[t] = clock
        /\ UNCHANGED <<promise, current, tokens, lastRefill>>
    BY <1>1, <2>1 DEF Call, Goes, bucketVars, TypeOK
  <2>3. current # NoThread => tokens[current] + Rate * (clock - lastRefill[current]) >= 0
    BY DEF Solvent, TypeOK
  <2> QED  BY <2>1, <2>2, <2>3 DEF Promised
<1>2. ASSUME NEW t \in Threads, Get(t)
      PROVE  Promised'
  <2>1. /\ pc[t] = "get"
        /\ pc'[t] = IF current = NoThread THEN "create" ELSE "refill"
        /\ \A u \in Threads \ {t} : pc'[u] = pc[u]
        /\ UNCHANGED <<now, refilled, bucketVars, windowVars>>
    BY <1>2 DEF Get, Goes, TypeOK
  <2> QED  BY <2>1 DEF Promised, bucketVars, windowVars
<1>3. ASSUME NEW t \in Threads, Create(t)
      PROVE  Promised'
  <2>1. SUFFICES ASSUME alone  PROVE Promised'
    BY <1>3 DEF Create, windowVars, Promised
  <2>2. /\ pc[t] = "create" /\ current = NoThread
        /\ \A u \in Threads \ {t} : pc[u] = "idle"
    BY <1>3, <2>1 DEF Create, Window, OneByOne
  <2>3. promise' = {}
    BY <1>3, <2>1, <2>2 DEF Create, windowVars, Promised
  <2>4. /\ pc'[t] = "refill" /\ \A u \in Threads \ {t} : pc'[u] = "idle"
        /\ current' = t /\ tokens'[t] = Burst /\ lastRefill'[t] = now[t] /\ now' = now
    BY <1>3, <2>2 DEF Create, Goes, TypeOK
  <2>5. Burst + Rate * (now[t] - now[t]) >= 0
    BY LimiterAssumption DEF TypeOK, Times
  <2> QED  BY <2>3, <2>4, <2>5 DEF Promised
<1>4. ASSUME NEW t \in Threads, Refill(t)
      PROVE  Promised'
  <2>1. SUFFICES ASSUME alone  PROVE Promised'
    BY <1>4 DEF Refill, windowVars, Promised
  <2>2. /\ Capped(t) >= 0
        /\ \A over \in promise :
               Capped(t) >= Burst \/ Covers(Capped(t), now[t], over)
    BY <1>4, <2>1, RefillPromised DEF Refill, Window
  <2>3. /\ pc'[t] = "spend" /\ refilled'[t] = Capped(t)
        /\ \A u \in Threads \ {t} : pc'[u] = pc[u] /\ refilled'[u] = refilled[u]
        /\ UNCHANGED <<now, bucketVars, windowVars>>
    BY <1>4 DEF Refill, Goes, TypeOK
  <2> QED  BY <2>1, <2>2, <2>3 DEF Promised, bucketVars, windowVars
<1>5. ASSUME NEW t \in Threads, NEW balance \in Int, Stores(t, balance), alone
      PROVE  /\ \A u \in Threads : pc'[u] = "idle"
             /\ current' = current /\ current # NoThread
             /\ tokens'[current] = balance /\ lastRefill'[current] = now[t]
             /\ refilled[t] >= 0
  <2>1. /\ pc[t] = "spend" /\ mine[t] = current /\ current \in Threads
        /\ \A u \in Threads \ {t} : pc[u] = "idle"
    BY <1>5 DEF Stores, Window, OneByOne, Shape
  <2> QED  BY <1>5, <2>1, LimiterAssumption DEF Stores, RefillTime, Goes, Promised, TypeOK
<1>6. ASSUME NEW t \in Threads, Admit(t)
      PROVE  Promised'
  <2>1. Charged(t) \in Int
    BY LimiterAssumption DEF Charged, TypeOK
  <2>2. promise' = {} /\ alone' = alone
    BY <1>6 DEF Admit, Stores
  <2> QED  BY <1>5, <1>6, <2>1, <2>2 DEF Admit, Promised
<1>7. ASSUME NEW t \in Threads, Refuse(t)
      PROVE  Promised'
  <2>1. SUFFICES ASSUME alone  PROVE Promised'
    BY <1>7 DEF Refuse, Stores, Promised
  <2>2. /\ promise' = {now[t] + RetryAfter(t) * Second}
        /\ refilled[t] \in Int /\ Stores(t, refilled[t])
    BY <1>7, <2>1 DEF Refuse, TypeOK
  <2>3. /\ \A u \in Threads : pc'[u] = "idle"
        /\ current' = current /\ current # NoThread
        /\ tokens'[current] = refilled[t] /\ lastRefill'[current] = now[t]
        /\ refilled[t] >= 0
    BY <1>5, <2>1, <2>2
  <2>4. Covers(refilled[t], now[t], now[t] + RetryAfter(t) * Second)
    BY <2>3, WaitCovers
  <2>5. ASSUME NEW over \in promise'
        PROVE  Covers(tokens'[current'], lastRefill'[current'], over)
    <3>1. over = now[t] + RetryAfter(t) * Second
      BY <2>2
    <3>2. tokens'[current'] = refilled[t] /\ lastRefill'[current'] = now[t]
      BY <2>3
    <3> QED  BY <2>4, <3>1, <3>2
  <2>6. \A u \in Threads : pc'[u] \notin {"get", "refill", "spend"}
    BY <2>3
  <2> QED  BY <2>3, <2>5, <2>6 DEF Promised
<1>8. CASE Tick \/ UNCHANGED vars
  BY <1>8 DEF Tick, vars, callVars, bucketVars, windowVars, Promised
<1>9. CASE OpenWindow
  <2>1. promise' = {} /\ \A t \in Threads : pc'[t] = "idle"
    BY <1>9 DEF OpenWindow, callVars
  <2> QED  BY <2>1 DEF Promised
<1> QED  BY <1>1, <1>2, <1>3, <1>4, <1>6, <1>7, <1>8, <1>9 DEF Next, Allow

(* A client that waits, alone, as long as its 429 says is admitted, where a *)
(* request is no more than the burst: at once if it is refilled within a   *)
(* second, else within half a second more (Retry-After is rounded).        *)
THEOREM WaitingIsEnough == ASSUME Cost =< Burst PROVE Spec => RetryAfterEnough
<1>1. Spec => [](TypeOK /\ Shape)
  BY InitTypes, TypesStep, PTL DEF Spec
<1>2. Spec => []Window
  <2>1. Init => Window
    BY DEF Init, Window, OneByOne, Balanced, Spendable
  <2>2. TypeOK /\ Shape /\ Window /\ [Next]_vars => Window'
    BY WindowStep
  <2> QED  BY <1>1, <2>1, <2>2, PTL DEF Spec
<1>3. CASE Rate # 0
  <2>1. Init => Promised
    BY DEF Init, Promised
  <2>2. TypeOK /\ Shape /\ Solvent /\ Window /\ Promised /\ [Next]_vars => Promised'
    BY <1>3, PromisedStep
  <2>3. Spec => []Promised
    BY <1>1, <1>2, <2>1, <2>2, NeverInDebt, PTL DEF Spec
  <2>4. ASSUME TypeOK, Promised, NEW t \in Threads, Refuse(t), alone, NEW over \in promise
        PROVE  2 * now[t] < 2 * over + Grace
    <3>1. /\ refilled[t] < Cost
          /\ \/ refilled[t] >= Burst
             \/ 2 * (refilled[t] + Rate * (over - now[t])) + Rate * Grace >= 2 * Cost
      BY <2>4 DEF Refuse, Stores, Promised, Covers
    <3>2. /\ refilled[t] \in Int /\ Cost \in Nat /\ Burst \in Nat /\ Rate \in Nat
          /\ over \in Int /\ now[t] \in Int
      BY <2>4, LimiterAssumption DEF TypeOK, Times
    <3>3. ASSUME 2 * over + Grace =< 2 * now[t]
          PROVE  FALSE
      <4> DEFINE short == 2 * (over - now[t]) + Grace
      <4>1. short \in Int /\ short =< 0
        BY <3>2, <3>3, GraceType
      <4>2. Rate * short =< Rate * 0 /\ Rate * 0 = 0
        BY <3>2, <4>1, Grows
      <4>3. /\ Rate * short = 2 * (Rate * (over - now[t])) + Rate * Grace
            /\ Rate * (over - now[t]) \in Int
        BY <3>2, GraceType
      <4> HIDE DEF short
      <4> QED  BY <3>1, <3>2, <4>2, <4>3, GraceType
    <3> QED  BY <3>2, <3>3, GraceType
  <2>5. TypeOK /\ Promised =>
            [\A t \in Threads :
                 Refuse(t) /\ alone /\ Rate > 0 =>
                     \A over \in promise : 2 * now[t] < 2 * over + Grace]_vars
    BY <2>4
  <2> QED  BY <1>1, <2>3, <2>5, PTL DEF RetryAfterEnough
<1>4. CASE Rate = 0
  <2>1. [\A t \in Threads :
                 Refuse(t) /\ alone /\ Rate > 0 =>
                     \A over \in promise : 2 * now[t] < 2 * over + Grace]_vars
    BY <1>4
  <2> QED  BY <2>1, PTL DEF RetryAfterEnough
<1> QED  BY <1>3, <1>4
=============================================================================
