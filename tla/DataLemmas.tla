----------------------------- MODULE DataLemmas -----------------------------
(***************************************************************************)
(* Lemmas about data that several proofs use: induction over the natural   *)
(* numbers, for sets instead of predicates, and lists. RemoveFirst is what *)
(* the shift loop of delete_sensors_configuration does to a sensor_list    *)
(* (sensor.c:202-218).                                                     *)
(***************************************************************************)
EXTENDS Integers, Sequences, SequencesExt, FiniteSets, WellFoundedInduction,
        SequenceTheorems, TLAPS

\* A set of natural numbers has a least element.
LEMMA LeastElement ==
    ASSUME NEW T, T \subseteq Nat, T # {}
    PROVE  \E x \in T : \A y \in T : x <= y
<1> DEFINE R == OpToRel(<, Nat)
<1>1. IsWellFoundedOn(R, Nat)
  BY NatLessThanWellFounded
<1>2. R = {ss \in Nat \X Nat : ss[1] < ss[2]}
  BY DEF OpToRel
<1> HIDE DEF R
<1>3. PICK x \in T : \A y \in T : ~(<<y, x>> \in R)
  BY <1>1, WFMin
<1>4. ASSUME NEW y \in T PROVE x <= y
  <2>1. ~(<<y, x>> \in R)
    BY <1>3
  <2>2. <<y, x>> \in Nat \X Nat
    OBVIOUS
  <2>3. ~(y < x)
    BY <2>1, <2>2, <1>2
  <2> QED
    BY <2>3
<1> QED
  BY <1>4

\* A set that holds 0, and n + 1 with n, holds every natural number.
LEMMA SetInduction ==
    ASSUME NEW S, 0 \in S, \A n \in Nat : n \in S => n + 1 \in S
    PROVE  Nat \subseteq S
<1> SUFFICES ASSUME Nat \ S # {}
             PROVE  FALSE
  OBVIOUS
<1>1. PICK x \in Nat \ S : \A y \in Nat \ S : x <= y
  BY LeastElement
<1>2. x # 0 /\ x - 1 \in Nat
  OBVIOUS
<1>3. x - 1 \in S
  BY <1>1, <1>2
<1> QED
  BY <1>2, <1>3

-----------------------------------------------------------------------------
\* The index at which RemoveFirst cuts.
FirstAt(s, e) == Min({i \in 1 .. Len(s) : s[i] = e})

\* It is the index of an entry equal to e, when there is one.
LEMMA FirstEntry ==
    ASSUME NEW S, NEW s \in Seq(S), NEW e, \E i \in 1 .. Len(s) : s[i] = e
    PROVE  /\ FirstAt(s, e) \in 1 .. Len(s)
           /\ s[FirstAt(s, e)] = e
           /\ RemoveFirst(s, e) = RemoveAt(s, FirstAt(s, e))
<1> DEFINE I == {i \in 1 .. Len(s) : s[i] = e}
<1>1. I # {} /\ I \in SUBSET (1 .. Len(s)) /\ Len(s) \in Nat
    OBVIOUS
<1>2. \E i \in I : \A j \in I : i <= j
    <2> HIDE DEF I
    <2>1. I \subseteq Nat
        BY <1>1
    <2> QED BY <1>1, <2>1, LeastElement
<1>3. Min(I) \in I
    BY <1>2 DEF Min
<1>4. SelectInSeq(s, LAMBDA v : v = e) = Min(I)
    BY <1>1 DEF SelectInSeq
<1>5. RemoveFirst(s, e) = RemoveAt(s, FirstAt(s, e))
    BY <1>4 DEF RemoveFirst, FirstAt
<1> QED BY <1>3, <1>5 DEF FirstAt

\* Cutting entry j out of a list leaves the entries before it where they are
\* and moves those after it one place down.
LEMMA RemoveAtEntries ==
    ASSUME NEW S, NEW s \in Seq(S), NEW j \in 1 .. Len(s)
    PROVE  /\ RemoveAt(s, j) \in Seq(S)
           /\ Len(RemoveAt(s, j)) = Len(s) - 1
           /\ \A i \in 1 .. Len(s) - 1 :
                 RemoveAt(s, j)[i] = IF i < j THEN s[i] ELSE s[i + 1]
<1> DEFINE a == SubSeq(s, 1, j - 1)
           b == SubSeq(s, j + 1, Len(s))
<1>1. /\ a \in Seq(S) /\ Len(a) = j - 1
      /\ \A i \in 1 .. j - 1 : a[i] = s[i]
    OBVIOUS
<1>2. /\ b \in Seq(S) /\ Len(b) = Len(s) - j
      /\ \A i \in 1 .. Len(s) - j : b[i] = s[j + i]
    OBVIOUS
<1>3. RemoveAt(s, j) = a \o b
    BY DEF RemoveAt
<1> HIDE DEF a, b
<1>4. /\ a \o b \in Seq(S) /\ Len(a \o b) = Len(s) - 1
      /\ \A i \in 1 .. Len(s) - 1 :
            (a \o b)[i] = IF i <= j - 1 THEN a[i] ELSE b[i - (j - 1)]
    BY <1>1, <1>2, ConcatProperties
<1>5. ASSUME NEW i \in 1 .. Len(s) - 1
      PROVE  (a \o b)[i] = IF i < j THEN s[i] ELSE s[i + 1]
    <2>1. CASE i < j
        BY <1>1, <1>4, <2>1
    <2>2. CASE ~(i < j)
        <3>1. i - (j - 1) \in 1 .. Len(s) - j /\ j + (i - (j - 1)) = i + 1
            BY <2>2
        <3> QED BY <1>2, <1>4, <2>2, <3>1
    <2> QED BY <2>1, <2>2
<1> QED BY <1>3, <1>4, <1>5

\* RemoveFirst keeps a list a list, over a subset of its entries.
LEMMA RemoveFirstType ==
    ASSUME NEW S, NEW s \in Seq(S), NEW e
    PROVE  RemoveFirst(s, e) \in Seq(S) /\ ToSet(RemoveFirst(s, e)) \subseteq ToSet(s)
<1>1. CASE \E i \in 1 .. Len(s) : s[i] = e
    <2> DEFINE j == FirstAt(s, e)
               r == RemoveAt(s, j)
    <2>1. j \in 1 .. Len(s) /\ RemoveFirst(s, e) = r
        BY <1>1, FirstEntry
    <2> HIDE DEF j
    <2>2. /\ r \in Seq(S) /\ Len(r) = Len(s) - 1
          /\ \A i \in 1 .. Len(s) - 1 : r[i] = IF i < j THEN s[i] ELSE s[i + 1]
        BY <2>1, RemoveAtEntries
    <2> HIDE DEF r
    <2>3. ToSet(r) \subseteq ToSet(s)
        BY <2>1, <2>2 DEF ToSet
    <2> QED BY <2>1, <2>2, <2>3
<1>2. CASE ~ \E i \in 1 .. Len(s) : s[i] = e
    BY <1>2 DEF RemoveFirst
<1> QED BY <1>1, <1>2

\* From a list without repetitions it removes exactly e, and leaves a list
\* without repetitions.
LEMMA RemoveFirstInjective ==
    ASSUME NEW S, NEW s \in Seq(S), NEW e, IsInjective(s)
    PROVE  /\ IsInjective(RemoveFirst(s, e))
           /\ ToSet(RemoveFirst(s, e)) = ToSet(s) \ {e}
<1>1. CASE \E i \in 1 .. Len(s) : s[i] = e
    <2> DEFINE j == FirstAt(s, e)
               r == RemoveAt(s, j)
    <2>1. j \in 1 .. Len(s) /\ s[j] = e
        BY <1>1, FirstEntry
    <2>2. RemoveFirst(s, e) = r
        BY <1>1, FirstEntry
    <2> HIDE DEF j
    <2>3. /\ r \in Seq(S) /\ Len(r) = Len(s) - 1
          /\ \A i \in 1 .. Len(s) - 1 : r[i] = IF i < j THEN s[i] ELSE s[i + 1]
        BY <2>1, RemoveAtEntries
    <2> HIDE DEF r
    <2>4. IsInjective(r)
        <3> SUFFICES ASSUME NEW x \in 1 .. Len(s) - 1, NEW y \in 1 .. Len(s) - 1,
                            r[x] = r[y]
                     PROVE  x = y
            BY <2>3 DEF IsInjective
        <3> DEFINE at(i) == IF i < j THEN i ELSE i + 1
        <3>1. /\ r[x] = s[at(x)] /\ r[y] = s[at(y)]
              /\ at(x) \in DOMAIN s /\ at(y) \in DOMAIN s
            BY <2>1, <2>3
        <3>2. at(x) = at(y)
            <4> HIDE DEF at
            <4> QED BY <3>1 DEF IsInjective
        <3> QED BY <2>1, <3>2
    <2>5. ToSet(r) \subseteq ToSet(s) \ {e}
        BY <2>1, <2>3 DEF ToSet, IsInjective
    <2>6. ASSUME NEW i \in 1 .. Len(s), s[i] # e PROVE s[i] \in ToSet(r)
        <3>1. CASE i < j
            BY <2>1, <2>3, <3>1 DEF ToSet
        <3>2. CASE i > j
            <4>1. i - 1 \in 1 .. Len(s) - 1 /\ ~(i - 1 < j) /\ i - 1 \in DOMAIN r
                BY <2>1, <2>3, <3>2
            <4>2. r[i - 1] = s[i]
                BY <2>1, <2>3, <4>1
            <4> QED BY <4>1, <4>2 DEF ToSet
        <3> QED BY <2>1, <2>6, <3>1, <3>2
    <2>7. ToSet(s) \ {e} \subseteq ToSet(r)
        BY <2>6 DEF ToSet
    <2> QED BY <2>2, <2>4, <2>5, <2>7
<1>2. CASE ~ \E i \in 1 .. Len(s) : s[i] = e
    BY <1>2 DEF RemoveFirst, ToSet
<1> QED BY <1>1, <1>2
=============================================================================
