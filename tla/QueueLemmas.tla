---------------------------- MODULE QueueLemmas ----------------------------
(***************************************************************************)
(* What the list operations of the Redis queues do to the contents of a    *)
(* list: LPUSH (Cons), BLMOVE from the right (Front, Last), LMOVE from the  *)
(* left (Head, Tail) and LREM 1 (RemoveFirst).                              *)
(***************************************************************************)
EXTENDS SequencesExt, SequenceTheorems, TLAPS

(* LPUSH adds its element and keeps the others. *)
LEMMA ConsContents ==
    ASSUME NEW S, NEW list \in Seq(S), NEW e \in S
    PROVE  /\ Cons(e, list) \in Seq(S)
           /\ Cons(e, list) # <<>>
           /\ \A x : Contains(Cons(e, list), x) <=> x = e \/ Contains(list, x)
<1> DEFINE longer == <<e>> \o list
<1>1. /\ longer \in Seq(S)
      /\ Len(longer) = 1 + Len(list)
      /\ \A i \in 1 .. Len(longer) : longer[i] = IF i = 1 THEN e ELSE list[i - 1]
  <2>1. <<e>> \in Seq(S) /\ Len(<<e>>) = 1 /\ <<e>>[1] = e
    OBVIOUS
  <2> QED  BY <2>1, ConcatProperties, LenProperties
<1>2. Len(list) \in Nat
  BY LenProperties
<1>3. ASSUME NEW x
      PROVE  Contains(longer, x) <=> x = e \/ Contains(list, x)
  <2>1. ASSUME Contains(longer, x)
        PROVE  x = e \/ Contains(list, x)
    <3>1. PICK i \in 1 .. Len(longer) : longer[i] = x
      BY <2>1 DEF Contains
    <3>2. CASE i = 1
      BY <3>1, <3>2, <1>1
    <3>3. CASE i # 1
      <4>1. i - 1 \in 1 .. Len(list) /\ list[i - 1] = x
        BY <3>1, <3>3, <1>1, <1>2
      <4> QED  BY <4>1 DEF Contains
    <3> QED  BY <3>2, <3>3
  <2>2. ASSUME x = e
        PROVE  Contains(longer, x)
    BY <2>2, <1>1, <1>2 DEF Contains
  <2>3. ASSUME Contains(list, x)
        PROVE  Contains(longer, x)
    <3>1. PICK i \in 1 .. Len(list) : list[i] = x
      BY <2>3 DEF Contains
    <3>2. i + 1 \in 1 .. Len(longer) /\ longer[i + 1] = x
      BY <3>1, <1>1, <1>2
    <3> QED  BY <3>2 DEF Contains
  <2> QED  BY <2>1, <2>2, <2>3
<1>4. longer # <<>>
  BY <1>1, <1>2
<1> QED  BY <1>1, <1>3, <1>4 DEF Cons

(* BLMOVE takes the rightmost element and leaves the others. *)
LEMMA FrontContents ==
    ASSUME NEW S, NEW list \in Seq(S), list # <<>>
    PROVE  /\ Last(list) \in S
           /\ Front(list) \in Seq(S)
           /\ \A x : Contains(list, x) <=> x = Last(list) \/ Contains(Front(list), x)
<1>1. Len(list) \in Nat \ {0}
  BY EmptySeq
<1>2. /\ Front(list) \in Seq(S)
      /\ Len(Front(list)) = Len(list) - 1
      /\ \A i \in 1 .. Len(list) - 1 : Front(list)[i] = list[i]
  <2> DEFINE n == Len(list) - 1
  <2>1. n \in Int /\ \A i \in 1 .. n : list[i] \in S
    BY <1>1, ElementOfSeq
  <2> HIDE DEF n
  <2>2. /\ SubSeq(list, 1, n) \in Seq(S)
        /\ Len(SubSeq(list, 1, n)) = IF 1 =< n THEN n - 1 + 1 ELSE 0
        /\ \A i \in 1 .. n - 1 + 1 : SubSeq(list, 1, n)[i] = list[1 + i - 1]
    BY <2>1, SubSeqProperties
  <2>3. n \in Nat
    BY <1>1 DEF n
  <2>4. Len(SubSeq(list, 1, n)) = n
    BY <2>2, <2>3
  <2>5. ASSUME NEW i \in 1 .. n
        PROVE  SubSeq(list, 1, n)[i] = list[i]
    <3>1. i \in 1 .. n - 1 + 1 /\ 1 + i - 1 = i
      BY <2>3
    <3> QED  BY <2>2, <3>1
  <2>6. Front(list) = SubSeq(list, 1, n)
    BY DEF n, Front
  <2> QED  BY <2>2, <2>4, <2>5, <2>6 DEF n
<1>3. Last(list) = list[Len(list)] /\ Last(list) \in S
  BY <1>1, ElementOfSeq DEF Last
<1>4. ASSUME NEW x
      PROVE  Contains(list, x) <=> x = Last(list) \/ Contains(Front(list), x)
  BY <1>1, <1>2, <1>3 DEF Contains
<1> QED  BY <1>2, <1>3, <1>4

(* LMOVE takes the leftmost element and leaves the others. *)
LEMMA TailContents ==
    ASSUME NEW S, NEW list \in Seq(S), list # <<>>
    PROVE  /\ Head(list) \in S
           /\ Tail(list) \in Seq(S)
           /\ \A x : Contains(list, x) <=> x = Head(list) \/ Contains(Tail(list), x)
<1>1. Len(list) \in Nat \ {0} /\ Head(list) = list[1]
  BY EmptySeq
<1>2. /\ Head(list) \in S
      /\ Tail(list) \in Seq(S)
      /\ Len(Tail(list)) = Len(list) - 1
      /\ \A i \in 1 .. Len(list) - 1 : Tail(list)[i] = list[i + 1]
  BY HeadTailProperties
<1>3. ASSUME NEW x
      PROVE  Contains(list, x) <=> x = Head(list) \/ Contains(Tail(list), x)
  <2>1. ASSUME Contains(list, x), x # Head(list)
        PROVE  Contains(Tail(list), x)
    <3>1. PICK i \in 1 .. Len(list) : list[i] = x
      BY <2>1 DEF Contains
    <3>2. i - 1 \in 1 .. Len(Tail(list)) /\ Tail(list)[i - 1] = x
      BY <3>1, <2>1, <1>1, <1>2
    <3> QED  BY <3>2 DEF Contains
  <2>2. ASSUME Contains(Tail(list), x)
        PROVE  Contains(list, x)
    BY <2>2, <1>1, <1>2 DEF Contains
  <2>3. Contains(list, Head(list))
    BY <1>1 DEF Contains
  <2> QED  BY <2>1, <2>2, <2>3
<1> QED  BY <1>2, <1>3

(* An element taken out at position i: what was behind it moves up. *)
LEMMA RemoveAtElements ==
    ASSUME NEW S, NEW list \in Seq(S), NEW i \in 1 .. Len(list)
    PROVE  /\ RemoveAt(list, i) \in Seq(S)
           /\ Len(RemoveAt(list, i)) = Len(list) - 1
           /\ \A k \in 1 .. Len(list) - 1 :
                 RemoveAt(list, i)[k] = IF k < i THEN list[k] ELSE list[k + 1]
<1> DEFINE before == SubSeq(list, 1, i - 1)
           after  == SubSeq(list, i + 1, Len(list))
           rest   == before \o after
<1>1. Len(list) \in Nat /\ \A k \in 1 .. Len(list) : list[k] \in S
  BY LenProperties, ElementOfSeq
<1>2. /\ before \in Seq(S)
      /\ Len(before) = i - 1
      /\ \A k \in 1 .. i - 1 : before[k] = list[k]
  <2> DEFINE n == i - 1
  <2>1. n \in Int /\ \A k \in 1 .. n : list[k] \in S
    BY <1>1
  <2> HIDE DEF n
  <2>2. /\ SubSeq(list, 1, n) \in Seq(S)
        /\ Len(SubSeq(list, 1, n)) = IF 1 =< n THEN n - 1 + 1 ELSE 0
        /\ \A k \in 1 .. n - 1 + 1 : SubSeq(list, 1, n)[k] = list[1 + k - 1]
    BY <2>1, SubSeqProperties
  <2> QED  BY <1>1, <2>1, <2>2 DEF n
<1>3. /\ after \in Seq(S)
      /\ Len(after) = Len(list) - i
      /\ \A k \in 1 .. Len(list) - i : after[k] = list[i + k]
  <2> DEFINE m == i + 1
  <2>1. m \in Int /\ Len(list) \in Int /\ \A k \in m .. Len(list) : list[k] \in S
    BY <1>1
  <2> HIDE DEF m
  <2>2. /\ SubSeq(list, m, Len(list)) \in Seq(S)
        /\ Len(SubSeq(list, m, Len(list))) =
              IF m =< Len(list) THEN Len(list) - m + 1 ELSE 0
        /\ \A k \in 1 .. Len(list) - m + 1 :
              SubSeq(list, m, Len(list))[k] = list[m + k - 1]
    BY <2>1, SubSeqProperties
  <2> QED  BY <1>1, <2>1, <2>2 DEF m
<1> HIDE DEF before, after
<1>4. /\ rest \in Seq(S)
      /\ Len(rest) = Len(list) - 1
      /\ \A k \in 1 .. Len(list) - 1 :
            rest[k] = IF k < i THEN list[k] ELSE list[k + 1]
  <2>1. /\ rest \in Seq(S)
        /\ Len(rest) = Len(before) + Len(after)
        /\ \A k \in 1 .. Len(before) + Len(after) :
              rest[k] = IF k =< Len(before) THEN before[k] ELSE after[k - Len(before)]
    BY <1>2, <1>3, ConcatProperties
  <2>2. Len(before) + Len(after) = Len(list) - 1
    BY <1>1, <1>2, <1>3
  <2>3. ASSUME NEW k \in 1 .. Len(list) - 1
        PROVE  rest[k] = IF k < i THEN list[k] ELSE list[k + 1]
    <3>1. rest[k] = IF k =< i - 1 THEN before[k] ELSE after[k - (i - 1)]
      BY <1>2, <2>1, <2>2
    <3>2. CASE k < i
      BY <1>1, <1>2, <3>1, <3>2
    <3>3. CASE ~ k < i
      <4>1. k - (i - 1) \in 1 .. Len(list) - i /\ i + (k - (i - 1)) = k + 1
        BY <1>1, <3>3
      <4> QED  BY <1>1, <1>3, <3>1, <3>3, <4>1
    <3> QED  BY <3>2, <3>3
  <2> QED  BY <2>1, <2>2, <2>3
<1> QED  BY <1>4 DEF RemoveAt, rest, before, after

(* LREM 1 takes one element out, wherever it is: the others stay. *)
LEMMA RemoveAtContents ==
    ASSUME NEW S, NEW list \in Seq(S), NEW i \in 1 .. Len(list)
    PROVE  /\ RemoveAt(list, i) \in Seq(S)
           /\ \A x : Contains(list, x) => x = list[i] \/ Contains(RemoveAt(list, i), x)
           /\ \A x : Contains(RemoveAt(list, i), x) => Contains(list, x)
<1> DEFINE rest == RemoveAt(list, i)
<1>1. Len(list) \in Nat
  BY LenProperties
<1>2. /\ rest \in Seq(S)
      /\ Len(rest) = Len(list) - 1
      /\ \A k \in 1 .. Len(list) - 1 :
            rest[k] = IF k < i THEN list[k] ELSE list[k + 1]
  BY RemoveAtElements
<1> HIDE DEF rest
<1>3. ASSUME NEW x, Contains(list, x), x # list[i]
      PROVE  Contains(rest, x)
  <2>1. PICK k \in 1 .. Len(list) : list[k] = x
    BY <1>3 DEF Contains
  <2>2. CASE k < i
    <3>1. k \in 1 .. Len(rest) /\ rest[k] = x
      BY <1>1, <1>2, <2>1, <2>2
    <3> QED  BY <3>1 DEF Contains
  <2>3. CASE ~ k < i
    <3>1. k - 1 \in 1 .. Len(rest) /\ rest[k - 1] = x
      BY <1>1, <1>2, <1>3, <2>1, <2>3
    <3> QED  BY <3>1 DEF Contains
  <2> QED  BY <2>2, <2>3
<1>4. ASSUME NEW x, Contains(rest, x)
      PROVE  Contains(list, x)
  <2>1. PICK k \in 1 .. Len(rest) : rest[k] = x
    BY <1>4 DEF Contains
  <2>2. k \in 1 .. Len(list) /\ k + 1 \in 1 .. Len(list)
    BY <1>1, <1>2, <2>1
  <2>3. list[k] = x \/ list[k + 1] = x
    BY <1>1, <1>2, <2>1
  <2> QED  BY <2>2, <2>3 DEF Contains
<1> QED  BY <1>2, <1>3, <1>4 DEF rest

(* A list without repetitions from which one element has been taken. *)
LEMMA RemoveFromDistinct ==
    ASSUME NEW S, NEW list \in Seq(S), NEW i \in 1 .. Len(list),
           \A j, k \in 1 .. Len(list) : list[j] = list[k] => j = k
    PROVE  /\ RemoveAt(list, i) \in Seq(S)
           /\ \A j, k \in 1 .. Len(RemoveAt(list, i)) :
                 RemoveAt(list, i)[j] = RemoveAt(list, i)[k] => j = k
           /\ \A x : Contains(RemoveAt(list, i), x) <=> Contains(list, x) /\ x # list[i]
<1> DEFINE rest == RemoveAt(list, i)
           at(k) == IF k < i THEN k ELSE k + 1
<1>1. Len(list) \in Nat
  BY LenProperties
<1>2. /\ rest \in Seq(S)
      /\ Len(rest) = Len(list) - 1
      /\ \A k \in 1 .. Len(rest) : /\ at(k) \in 1 .. Len(list)
                                   /\ at(k) # i
                                   /\ rest[k] = list[at(k)]
  <2>1. /\ rest \in Seq(S)
        /\ Len(rest) = Len(list) - 1
        /\ \A k \in 1 .. Len(list) - 1 :
              rest[k] = IF k < i THEN list[k] ELSE list[k + 1]
    BY RemoveAtElements
  <2> HIDE DEF rest
  <2> QED  BY <1>1, <2>1
<1> HIDE DEF rest
<1>3. ASSUME NEW j \in 1 .. Len(rest), NEW k \in 1 .. Len(rest), rest[j] = rest[k]
      PROVE  j = k
  <2>1. at(j) = at(k)
    BY <1>2, <1>3
  <2> QED  BY <2>1, <1>1, <1>2
<1>4. ASSUME NEW x, Contains(rest, x)
      PROVE  Contains(list, x) /\ x # list[i]
  <2>1. PICK k \in 1 .. Len(rest) : rest[k] = x
    BY <1>4 DEF Contains
  <2>2. at(k) \in 1 .. Len(list) /\ at(k) # i /\ list[at(k)] = x
    BY <1>2, <2>1
  <2> HIDE DEF at
  <2> QED  BY <2>2 DEF Contains
<1>5. ASSUME NEW x, Contains(list, x), x # list[i]
      PROVE  Contains(rest, x)
  BY <1>5, RemoveAtContents DEF rest
<1> QED  BY <1>2, <1>3, <1>4, <1>5 DEF rest

(* An element put at the end of a list. *)
LEMMA AppendContents ==
    ASSUME NEW S, NEW list \in Seq(S), NEW e \in S
    PROVE  /\ Append(list, e) \in Seq(S)
           /\ Append(list, e) # <<>>
           /\ Len(Append(list, e)) = Len(list) + 1
           /\ \A k \in 1 .. Len(list) : Append(list, e)[k] = list[k]
           /\ Append(list, e)[Len(list) + 1] = e
           /\ \A x : Contains(Append(list, e), x) <=> x = e \/ Contains(list, x)
<1> DEFINE longer == Append(list, e)
<1>1. /\ Len(list) \in Nat
      /\ longer \in Seq(S)
      /\ Len(longer) = Len(list) + 1
      /\ \A k \in 1 .. Len(list) : longer[k] = list[k]
      /\ longer[Len(list) + 1] = e
  BY LenProperties, AppendProperties
<1> HIDE DEF longer
<1>2. longer # <<>>
  BY <1>1
<1>3. ASSUME NEW x
      PROVE  Contains(longer, x) <=> x = e \/ Contains(list, x)
  BY <1>1 DEF Contains
<1> QED  BY <1>1, <1>2, <1>3 DEF longer

(* A stretch of a list, from position m to position n. *)
LEMMA StretchContents ==
    ASSUME NEW S, NEW list \in Seq(S),
           NEW m \in 1 .. Len(list) + 1, NEW n \in m - 1 .. Len(list)
    PROVE  /\ SubSeq(list, m, n) \in Seq(S)
           /\ Len(SubSeq(list, m, n)) = n - m + 1
           /\ \A i \in 1 .. n - m + 1 : SubSeq(list, m, n)[i] = list[m + i - 1]
           /\ \A x : Contains(SubSeq(list, m, n), x) <=>
                        \E i \in m .. n : list[i] = x
<1> DEFINE stretch == SubSeq(list, m, n)
<1>1. Len(list) \in Nat /\ m \in Nat /\ n \in Int /\ m - 1 =< n /\ n =< Len(list)
  BY LenProperties
<1>2. \A i \in m .. n : list[i] \in S
  BY <1>1, ElementOfSeq
<1>3. /\ stretch \in Seq(S)
      /\ Len(stretch) = IF m =< n THEN n - m + 1 ELSE 0
      /\ \A i \in 1 .. n - m + 1 : stretch[i] = list[m + i - 1]
  BY <1>1, <1>2, SubSeqProperties
<1>4. Len(stretch) = n - m + 1
  BY <1>1, <1>3
<1> HIDE DEF stretch
<1>5. ASSUME NEW x
      PROVE  Contains(stretch, x) <=> \E i \in m .. n : list[i] = x
  <2>1. ASSUME NEW i \in 1 .. Len(stretch), stretch[i] = x
        PROVE  m + i - 1 \in m .. n /\ list[m + i - 1] = x
    BY <2>1, <1>1, <1>3, <1>4
  <2>2. ASSUME NEW i \in m .. n, list[i] = x
        PROVE  i - m + 1 \in 1 .. Len(stretch) /\ stretch[i - m + 1] = x
    <3>1. i - m + 1 \in 1 .. n - m + 1 /\ m + (i - m + 1) - 1 = i
      BY <1>1
    <3> QED  BY <2>2, <3>1, <1>3, <1>4
  <2> QED  BY <2>1, <2>2 DEF Contains
<1> QED  BY <1>3, <1>4, <1>5 DEF stretch
-----------------------------------------------------------------------------
(* Lists in which nothing is twice *)

NoRepeats(list) == \A j, k \in 1 .. Len(list) : list[j] = list[k] => j = k

(* LPUSH of something new. *)
LEMMA ConsNoRepeats ==
    ASSUME NEW S, NEW list \in Seq(S), NEW e \in S,
           NoRepeats(list), ~ Contains(list, e)
    PROVE  NoRepeats(Cons(e, list))
<1> DEFINE longer == <<e>> \o list
<1>1. /\ Len(longer) = 1 + Len(list)
      /\ \A i \in 1 .. Len(longer) : longer[i] = IF i = 1 THEN e ELSE list[i - 1]
  <2>1. <<e>> \in Seq(S) /\ Len(<<e>>) = 1 /\ <<e>>[1] = e
    OBVIOUS
  <2> QED  BY <2>1, ConcatProperties, LenProperties
<1>2. Len(list) \in Nat
  BY LenProperties
<1> HIDE DEF longer
<1>3. ASSUME NEW j \in 1 .. Len(longer), NEW k \in 1 .. Len(longer),
             longer[j] = longer[k], j # k
      PROVE  FALSE
  <2>1. \A i \in 1 .. Len(longer) : i # 1 =>
            /\ i - 1 \in 1 .. Len(list)
            /\ longer[i] = list[i - 1]
            /\ longer[i] # e
    BY <1>1, <1>2 DEF Contains
  <2>2. j # 1 /\ k # 1
    BY <1>1, <1>3, <2>1
  <2>3. j - 1 = k - 1
    BY <1>3, <2>1, <2>2 DEF NoRepeats
  <2> QED  BY <1>1, <1>2, <1>3, <2>3
<1> QED  BY <1>3 DEF NoRepeats, Cons, longer

(* BLMOVE from the right: the rightmost element is not in the rest. *)
LEMMA FrontNoRepeats ==
    ASSUME NEW S, NEW list \in Seq(S), list # <<>>, NoRepeats(list)
    PROVE  NoRepeats(Front(list)) /\ ~ Contains(Front(list), Last(list))
<1>1. Len(list) \in Nat \ {0}
  BY EmptySeq
<1> DEFINE n == Len(list) - 1
<1>2. 1 \in 1 .. Len(list) + 1 /\ n \in 1 - 1 .. Len(list) /\ n \in Nat
  BY <1>1
<1> HIDE DEF n
<1>3. /\ Len(SubSeq(list, 1, n)) = n - 1 + 1
      /\ \A i \in 1 .. n - 1 + 1 : SubSeq(list, 1, n)[i] = list[1 + i - 1]
  BY <1>2, StretchContents
<1>4. /\ Len(Front(list)) = Len(list) - 1
      /\ \A i \in 1 .. Len(list) - 1 : Front(list)[i] = list[i]
  BY <1>2, <1>3 DEF Front, n
<1>5. NoRepeats(Front(list))
  BY <1>1, <1>4 DEF NoRepeats
<1>6. ~ Contains(Front(list), Last(list))
  BY <1>1, <1>4 DEF NoRepeats, Contains, Last
<1> QED  BY <1>5, <1>6

(* LMOVE from the left: the leftmost element is not in the rest. *)
LEMMA TailNoRepeats ==
    ASSUME NEW S, NEW list \in Seq(S), list # <<>>, NoRepeats(list)
    PROVE  NoRepeats(Tail(list)) /\ ~ Contains(Tail(list), Head(list))
<1>1. Len(list) \in Nat \ {0} /\ Head(list) = list[1]
  BY EmptySeq
<1>2. /\ Len(Tail(list)) = Len(list) - 1
      /\ \A i \in 1 .. Len(list) - 1 : Tail(list)[i] = list[i + 1]
  BY HeadTailProperties
<1>3. ASSUME NEW j \in 1 .. Len(Tail(list)), NEW k \in 1 .. Len(Tail(list)),
             Tail(list)[j] = Tail(list)[k]
      PROVE  j = k
  <2>1. j + 1 = k + 1
    BY <1>1, <1>2, <1>3 DEF NoRepeats
  <2> QED  BY <1>1, <1>2, <2>1
<1>4. ASSUME NEW j \in 1 .. Len(Tail(list)), Tail(list)[j] = Head(list)
      PROVE  FALSE
  <2>1. j + 1 = 1
    BY <1>1, <1>2, <1>4 DEF NoRepeats
  <2> QED  BY <1>1, <1>2, <2>1
<1> QED  BY <1>3, <1>4 DEF NoRepeats, Contains
=============================================================================
