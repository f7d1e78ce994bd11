--------------------------- MODULE SymbolicProofs ---------------------------
(***************************************************************************)
(* What the combinators of module Symbolic guarantee: a set of positions   *)
(* has a first one, so FirstIndex and FirstError pick an actual element.   *)
(***************************************************************************)
EXTENDS Symbolic, FiniteSetTheorems, WellFoundedInduction, TLAPS

(***************************************************************************)
(* Every non-empty set of natural numbers has a least element: the choice  *)
(* that Iterator::find and the early returns stand for exists.             *)
(***************************************************************************)
LEMMA LeastElement ==
    ASSUME NEW S \in SUBSET Nat, S # {}
    PROVE  \E i \in S : \A j \in S : i <= j
<1>1. IsWellFoundedOn(OpToRel(<, Nat), Nat)
  BY NatLessThanWellFounded
<1>2. PICK x \in S : \A y \in S : ~(<<y, x>> \in OpToRel(<, Nat))
  BY <1>1, WFMin
<1>3. \A y \in S : ~(y < x)
  BY <1>2 DEF OpToRel
<1>4. QED
  BY <1>3

\* The position Iterator::find stops at: the first hit.
LEMMA FirstHit ==
    ASSUME NEW hits \in SUBSET Nat, hits # {}
    PROVE  LET first == CHOOSE i \in hits : \A j \in hits : i <= j
           IN  first \in hits /\ \A j \in hits : first <= j
  BY LeastElement

(***************************************************************************)
(* A chain of checks is Ok only if every one of them is.                   *)
(***************************************************************************)
LEMMA FirstErrorOk ==
    ASSUME NEW outcomes, DOMAIN outcomes \subseteq Nat, FirstError(outcomes) = Ok
    PROVE  \A i \in DOMAIN outcomes : outcomes[i] = Ok
<1> DEFINE failed == {i \in DOMAIN outcomes : outcomes[i] # Ok}
           first == CHOOSE i \in failed : \A j \in failed : i <= j
<1>1. SUFFICES ASSUME failed # {} PROVE FALSE
  OBVIOUS
<1>2. first \in failed
  BY <1>1, LeastElement
<1>3. FirstError(outcomes) = outcomes[first]
  BY <1>1 DEF FirstError
<1>4. QED
  BY <1>2, <1>3

(***************************************************************************)
(* A chain of early returns is Ok exactly if each check in it is, and      *)
(* otherwise returns the error of one of them.                             *)
(***************************************************************************)
LEMMA FirstErrorIff ==
    ASSUME NEW outcomes, DOMAIN outcomes \subseteq Nat
    PROVE  /\ FirstError(outcomes) = Ok <=> \A i \in DOMAIN outcomes : outcomes[i] = Ok
           /\ FirstError(outcomes) # Ok => \E i \in DOMAIN outcomes : FirstError(outcomes) = outcomes[i]
<1> DEFINE failed == {i \in DOMAIN outcomes : outcomes[i] # Ok}
           first == CHOOSE i \in failed : \A j \in failed : i <= j
<1>1. CASE failed = {}
  BY <1>1 DEF FirstError
<1>2. CASE failed # {}
  <2>1. first \in failed
    BY <1>2, LeastElement
  <2>2. FirstError(outcomes) = outcomes[first]
    BY <1>2 DEF FirstError
  <2>3. QED
    BY <2>1, <2>2
<1>3. QED
  BY <1>1, <1>2

LEMMA FirstError2 ==
    ASSUME NEW a, NEW b
    PROVE  /\ FirstError(<<a, b>>) = Ok <=> a = Ok /\ b = Ok
           /\ FirstError(<<a, b>>) \in {Ok, a, b}
<1> DEFINE s == <<a, b>>
<1>1. DOMAIN s = 1..2 /\ s[1] = a /\ s[2] = b
  OBVIOUS
<1> HIDE DEF s
<1>2. QED
  BY <1>1, FirstErrorIff DEF s

LEMMA FirstError3 ==
    ASSUME NEW a, NEW b, NEW c
    PROVE  /\ FirstError(<<a, b, c>>) = Ok <=> a = Ok /\ b = Ok /\ c = Ok
           /\ FirstError(<<a, b, c>>) \in {Ok, a, b, c}
<1> DEFINE s == <<a, b, c>>
<1>1. DOMAIN s = 1..3 /\ s[1] = a /\ s[2] = b /\ s[3] = c
  OBVIOUS
<1> HIDE DEF s
<1>2. DOMAIN s \subseteq Nat
  BY <1>1
<1>3. FirstError(s) = Ok <=> a = Ok /\ b = Ok /\ c = Ok
  BY <1>1, <1>2, FirstErrorIff
<1>4. FirstError(s) \in {Ok, a, b, c}
  BY <1>1, <1>2, FirstErrorIff
<1>5. QED
  BY <1>3, <1>4 DEF s

LEMMA FirstError4 ==
    ASSUME NEW a, NEW b, NEW c, NEW d
    PROVE  /\ FirstError(<<a, b, c, d>>) = Ok <=> a = Ok /\ b = Ok /\ c = Ok /\ d = Ok
           /\ FirstError(<<a, b, c, d>>) \in {Ok, a, b, c, d}
<1> DEFINE s == <<a, b, c, d>>
<1>1. DOMAIN s = 1..4 /\ s[1] = a /\ s[2] = b /\ s[3] = c /\ s[4] = d
  OBVIOUS
<1> HIDE DEF s
<1>2. DOMAIN s \subseteq Nat
  BY <1>1
<1>3. FirstError(s) = Ok <=> a = Ok /\ b = Ok /\ c = Ok /\ d = Ok
  BY <1>1, <1>2, FirstErrorIff
<1>4. FirstError(s) \in {Ok, a, b, c, d}
  BY <1>1, <1>2, FirstErrorIff
<1>5. QED
  BY <1>3, <1>4 DEF s

LEMMA FirstError5 ==
    ASSUME NEW a, NEW b, NEW c, NEW d, NEW e
    PROVE  /\ FirstError(<<a, b, c, d, e>>) = Ok <=> a = Ok /\ b = Ok /\ c = Ok /\ d = Ok /\ e = Ok
           /\ FirstError(<<a, b, c, d, e>>) \in {Ok, a, b, c, d, e}
<1> DEFINE s == <<a, b, c, d, e>>
<1>1. DOMAIN s = 1..5 /\ s[1] = a /\ s[2] = b /\ s[3] = c /\ s[4] = d /\ s[5] = e
  OBVIOUS
<1> HIDE DEF s
<1>2. DOMAIN s \subseteq Nat
  BY <1>1
<1>3. FirstError(s) = Ok <=> a = Ok /\ b = Ok /\ c = Ok /\ d = Ok /\ e = Ok
  BY <1>1, <1>2, FirstErrorIff
<1>4. FirstError(s) \in {Ok, a, b, c, d, e}
  BY <1>1, <1>2, FirstErrorIff
<1>5. QED
  BY <1>3, <1>4 DEF s

\* The errors of a chain are among those of its checks.
LEMMA FirstErrorRange ==
    ASSUME NEW outcomes, DOMAIN outcomes \subseteq Nat, NEW errors,
           \A i \in DOMAIN outcomes : outcomes[i] \in errors \union {Ok}
    PROVE  FirstError(outcomes) \in errors \union {Ok}
  BY FirstErrorIff

-----------------------------------------------------------------------------
(***************************************************************************)
(* A filtered sequence is read in order.  The rank of a position counts    *)
(* the kept ones up to it.                                                 *)
(***************************************************************************)
UpTo(positions, i) == {j \in positions : j <= i}
PositionOf(positions, i) == Cardinality(UpTo(positions, i))

LEMMA RankBounds ==
    ASSUME NEW S \in SUBSET Nat, IsFiniteSet(S), NEW i \in Nat
    PROVE  /\ IsFiniteSet(UpTo(S, i)) /\ Cardinality(S) \in Nat
           /\ PositionOf(S, i) \in 0..Cardinality(S)
           /\ i \in S => PositionOf(S, i) > 0
<1>1. UpTo(S, i) \in SUBSET S
  BY DEF UpTo
<1>2. /\ IsFiniteSet(UpTo(S, i)) /\ Cardinality(S) \in Nat
      /\ PositionOf(S, i) \in Nat /\ PositionOf(S, i) <= Cardinality(S)
  BY <1>1, FS_Subset, FS_CardinalityType DEF PositionOf
<1>3. ASSUME i \in S PROVE PositionOf(S, i) # 0
  <2>1. i \in UpTo(S, i)
    BY <1>3 DEF UpTo
  <2>2. QED
    BY <2>1, <1>2, FS_EmptySet DEF PositionOf
<1>4. QED
  BY <1>2, <1>3

\* The rank grows by one at each member.
LEMMA RankStep ==
    ASSUME NEW S \in SUBSET Nat, IsFiniteSet(S), NEW i \in Nat, NEW j \in S, i < j,
           \A k \in S : k <= i \/ j <= k
    PROVE  PositionOf(S, j) = PositionOf(S, i) + 1
<1>1. UpTo(S, j) = UpTo(S, i) \union {j}
  <2>1. ASSUME NEW k \in S
        PROVE  k <= j <=> k <= i \/ k = j
    <3>1. k \in Nat /\ j \in Nat /\ (k <= i \/ j <= k)
      OBVIOUS
    <3>2. QED
      BY <3>1
  <2>2. QED
    BY <2>1 DEF UpTo
<1>2. j \notin UpTo(S, i)
  BY DEF UpTo
<1>3. QED
  BY <1>1, <1>2, RankBounds, FS_AddElement DEF PositionOf

LEMMA RankGrows ==
    ASSUME NEW S \in SUBSET Nat, IsFiniteSet(S), NEW i \in Nat, NEW j \in S, i < j
    PROVE  PositionOf(S, i) < PositionOf(S, j)
<1>1. /\ UpTo(S, i) \union {j} \in SUBSET UpTo(S, j)
      /\ j \notin UpTo(S, i)
  <2>1. j \in Nat /\ \A k \in S : k \in Nat
    OBVIOUS
  <2>2. \A k : k \in UpTo(S, i) \union {j} => k \in UpTo(S, j)
    BY <2>1 DEF UpTo
  <2>3. QED
    BY <2>1, <2>2 DEF UpTo
<1>2. IsFiniteSet(UpTo(S, i)) /\ IsFiniteSet(UpTo(S, j)) /\ PositionOf(S, i) \in Nat /\ PositionOf(S, j) \in Nat
  BY RankBounds
<1>3. Cardinality(UpTo(S, i) \union {j}) = PositionOf(S, i) + 1
  BY <1>1, <1>2, FS_AddElement DEF PositionOf
<1>4. Cardinality(UpTo(S, i) \union {j}) <= PositionOf(S, j)
  BY <1>1, <1>2, FS_Subset DEF PositionOf
<1>5. QED
  BY <1>2, <1>3, <1>4

\* Every rank is that of a member.
LEMMA RankOnto ==
    ASSUME NEW S \in SUBSET Nat, IsFiniteSet(S), NEW k \in 1..Cardinality(S)
    PROVE  \E i \in S : PositionOf(S, i) = k
<1> DEFINE bad == {n \in 1..Cardinality(S) : \A i \in S : PositionOf(S, i) # n}
<1>1. SUFFICES ASSUME bad # {} PROVE FALSE
  OBVIOUS
<1>2. Cardinality(S) \in Nat
  BY FS_CardinalityType
<1>3. PICK n \in bad : \A m \in bad : n <= m
  <2>1. bad \in SUBSET Nat
    BY <1>2
  <2> HIDE DEF bad
  <2>2. QED
    BY <1>1, <2>1, LeastElement
<1>4. n \in 1..Cardinality(S) /\ \A i \in S : PositionOf(S, i) # n
  BY <1>3
<1>5. CASE n = 1
  <2>1. S # {}
    BY <1>2, <1>4, <1>5, FS_EmptySet
  <2>2. PICK i \in S : \A j \in S : i <= j
    BY <2>1, LeastElement
  <2>3. UpTo(S, i) = {i}
    <3>1. ASSUME NEW j \in S
          PROVE  j <= i <=> j = i
      <4>1. i \in Nat /\ j \in Nat /\ i <= j
        BY <2>2
      <4>2. QED
        BY <4>1
    <3>2. QED
      BY <3>1 DEF UpTo
  <2>4. QED
    BY <1>4, <1>5, <2>3, FS_Singleton DEF PositionOf
<1>6. CASE n # 1
  <2>1. n - 1 \in 1..Cardinality(S) /\ n - 1 \notin bad
    BY <1>2, <1>3, <1>4, <1>6
  <2>2. PICK i \in S : PositionOf(S, i) = n - 1
    BY <2>1
  <2> DEFINE above == {j \in S : j > i}
  <2>3. above # {}
    <3>1. SUFFICES ASSUME above = {} PROVE FALSE
      OBVIOUS
    <3>2. UpTo(S, i) = S
      <4>1. ASSUME NEW j \in S
            PROVE  j <= i
        <5>1. i \in Nat /\ j \in Nat /\ ~(j > i)
          BY <3>1
        <5>2. QED
          BY <5>1
      <4>2. QED
        BY <4>1 DEF UpTo
    <3>3. QED
      BY <1>2, <1>4, <2>2, <3>2 DEF PositionOf
  <2>4. PICK j \in above : \A m \in above : j <= m
    <3>1. above \in SUBSET Nat
      OBVIOUS
    <3> HIDE DEF above
    <3>2. QED
      BY <2>3, <3>1, LeastElement
  <2>5. PositionOf(S, j) = PositionOf(S, i) + 1
    <3>1. \A m \in S : m <= i \/ j <= m
      BY <2>4
    <3>2. QED
      BY <2>4, <3>1, RankStep
  <2>6. QED
    BY <1>4, <2>2, <2>4, <2>5
<1>7. QED
  BY <1>5, <1>6

LEMMA AscendingProperties ==
    ASSUME NEW S \in SUBSET Nat, IsFiniteSet(S)
    PROVE  /\ Cardinality(S) \in Nat
           /\ Ascending(S) \in [1..Cardinality(S) -> S]
           /\ \A k \in 1..Cardinality(S) : PositionOf(S, Ascending(S)[k]) = k
           /\ \A i \in S : PositionOf(S, i) \in 1..Cardinality(S) /\ Ascending(S)[PositionOf(S, i)] = i
<1>1. Cardinality(S) \in Nat
  BY FS_CardinalityType
<1>2. ASSUME NEW k \in 1..Cardinality(S)
      PROVE  Ascending(S)[k] \in S /\ PositionOf(S, Ascending(S)[k]) = k
  <2>1. Ascending(S)[k] = CHOOSE i \in S : PositionOf(S, i) = k
    BY DEF Ascending, PositionOf, UpTo
  <2>2. QED
    BY <2>1, RankOnto
<1>3. Ascending(S) \in [1..Cardinality(S) -> S]
  BY <1>2 DEF Ascending
<1>4. ASSUME NEW i \in S
      PROVE  PositionOf(S, i) \in 1..Cardinality(S) /\ Ascending(S)[PositionOf(S, i)] = i
  <2>1. PositionOf(S, i) \in 1..Cardinality(S)
    BY RankBounds
  <2> DEFINE j == Ascending(S)[PositionOf(S, i)]
  <2>2. j \in S /\ PositionOf(S, j) = PositionOf(S, i)
    BY <1>2, <2>1
  <2> HIDE DEF j
  <2>3. i \in Nat /\ j \in Nat /\ PositionOf(S, i) \in Nat
    BY <1>1, <2>1, <2>2
  <2>4. ~(i < j) /\ ~(j < i)
    BY <2>2, <2>3, RankGrows
  <2>5. i = j
    BY <2>3, <2>4
  <2>6. QED
    BY <2>1, <2>5 DEF j
<1>5. QED
  BY <1>1, <1>2, <1>3, <1>4

\* The first is the least, and each of the others the least above the one before it.
LEMMA AscendingFirst ==
    ASSUME NEW S \in SUBSET Nat, IsFiniteSet(S)
    PROVE  /\ Cardinality(S) > 0 => \A j \in S : Ascending(S)[1] <= j
           /\ \A i \in S : (\A j \in S : i <= j) => Cardinality(S) > 0 /\ Ascending(S)[1] = i
<1>1. /\ Cardinality(S) \in Nat
      /\ Ascending(S) \in [1..Cardinality(S) -> S]
      /\ \A k \in 1..Cardinality(S) : PositionOf(S, Ascending(S)[k]) = k
      /\ \A i \in S : PositionOf(S, i) \in 1..Cardinality(S) /\ Ascending(S)[PositionOf(S, i)] = i
  BY AscendingProperties
<1>2. ASSUME Cardinality(S) > 0, NEW j \in S
      PROVE  Ascending(S)[1] <= j
  <2> DEFINE i == Ascending(S)[1]
  <2>1. 1 \in 1..Cardinality(S)
    BY <1>1, <1>2
  <2>2. i \in S /\ PositionOf(S, i) = 1
    BY <1>1, <2>1
  <2> HIDE DEF i
  <2>3. i \in Nat /\ j \in Nat /\ PositionOf(S, j) \in Nat /\ PositionOf(S, j) >= 1
    BY <1>1, <2>2
  <2>4. ~(j < i)
    BY <2>2, <2>3, RankGrows
  <2>5. QED
    BY <2>3, <2>4 DEF i
<1>3. ASSUME NEW i \in S, \A j \in S : i <= j
      PROVE  Cardinality(S) > 0 /\ Ascending(S)[1] = i
  <2>1. ASSUME NEW j \in S
        PROVE  j <= i <=> j = i
    <3>1. i \in Nat /\ j \in Nat /\ i <= j
      BY <1>3
    <3>2. QED
      BY <3>1
  <2>2. UpTo(S, i) = {i}
    BY <2>1 DEF UpTo
  <2>3. PositionOf(S, i) = 1
    BY <2>2, FS_Singleton DEF PositionOf
  <2>4. QED
    BY <1>1, <2>3
<1>4. QED
  BY <1>2, <1>3

LEMMA AscendingNext ==
    ASSUME NEW S \in SUBSET Nat, IsFiniteSet(S), NEW k \in 1..Cardinality(S)
    PROVE  /\ k + 1 \in 1..Cardinality(S) =>
                 /\ Ascending(S)[k] < Ascending(S)[k + 1]
                 /\ \A j \in S : j <= Ascending(S)[k] \/ Ascending(S)[k + 1] <= j
           /\ \A i \in S :
                 /\ Ascending(S)[k] < i
                 /\ \A j \in S : j <= Ascending(S)[k] \/ i <= j
                 => k + 1 \in 1..Cardinality(S) /\ Ascending(S)[k + 1] = i
<1>1. /\ Cardinality(S) \in Nat
      /\ Ascending(S) \in [1..Cardinality(S) -> S]
      /\ \A n \in 1..Cardinality(S) : PositionOf(S, Ascending(S)[n]) = n
      /\ \A i \in S : PositionOf(S, i) \in 1..Cardinality(S) /\ Ascending(S)[PositionOf(S, i)] = i
  BY AscendingProperties
<1> DEFINE a == Ascending(S)[k]
<1>2. a \in S /\ PositionOf(S, a) = k /\ a \in Nat /\ k \in Nat
  <2>1. a \in S /\ PositionOf(S, a) = k
    BY <1>1
  <2>2. k \in Nat
    BY <1>1
  <2> HIDE DEF a
  <2>3. QED
    BY <2>1, <2>2
<1>3. ASSUME k + 1 \in 1..Cardinality(S)
      PROVE  /\ a < Ascending(S)[k + 1]
             /\ \A j \in S : j <= a \/ Ascending(S)[k + 1] <= j
  <2> DEFINE b == Ascending(S)[k + 1]
  <2>1. b \in S /\ PositionOf(S, b) = k + 1 /\ b \in Nat
    BY <1>1, <1>3
  <2> HIDE DEF a, b
  <2>2. ~(b < a) /\ a # b
    BY <1>2, <2>1, RankGrows
  <2>3. ASSUME NEW j \in S
        PROVE  j <= a \/ b <= j
    <3>1. j \in Nat /\ PositionOf(S, j) \in Nat
      BY <1>1
    <3>2. SUFFICES ASSUME a < j, j < b PROVE FALSE
      BY <1>2, <2>1, <3>1
    <3>3. k < PositionOf(S, j) /\ PositionOf(S, j) < k + 1
      BY <1>2, <2>1, <3>1, <3>2, RankGrows
    <3>4. QED
      BY <1>2, <3>1, <3>3
  <2>4. QED
    BY <1>2, <2>1, <2>2, <2>3 DEF a, b
<1>4. ASSUME NEW i \in S, a < i, \A j \in S : j <= a \/ i <= j
      PROVE  k + 1 \in 1..Cardinality(S) /\ Ascending(S)[k + 1] = i
  <2>1. PositionOf(S, i) = PositionOf(S, a) + 1
    <3> HIDE DEF a
    <3>1. QED
      BY <1>2, <1>4, RankStep
  <2>2. QED
    BY <1>1, <1>2, <2>1
<1>5. QED
  BY <1>3, <1>4

\* A position behind the others comes last.
LEMMA AscendingGrows ==
    ASSUME NEW S \in SUBSET Nat, IsFiniteSet(S), NEW n \in Nat, \A j \in S : j < n
    PROVE  LET T == S \union {n}
           IN  /\ T \in SUBSET Nat /\ IsFiniteSet(T)
               /\ Cardinality(S) \in Nat /\ Cardinality(T) = Cardinality(S) + 1
               /\ \A k \in 1..Cardinality(S) : Ascending(T)[k] = Ascending(S)[k]
               /\ Ascending(T)[Cardinality(S) + 1] = n
<1> DEFINE T == S \union {n}
<1>1. n \notin S
  OBVIOUS
<1>2. T \in SUBSET Nat /\ IsFiniteSet(T) /\ Cardinality(S) \in Nat /\ Cardinality(T) = Cardinality(S) + 1
  BY <1>1, FS_AddElement, FS_CardinalityType
<1>3. \A i \in S : PositionOf(T, i) = PositionOf(S, i)
  <2>1. ASSUME NEW i \in S
        PROVE  UpTo(T, i) = UpTo(S, i)
    <3>1. i \in Nat /\ ~(n <= i)
      OBVIOUS
    <3>2. QED
      BY <3>1 DEF UpTo
  <2>2. QED
    BY <2>1 DEF PositionOf
<1>4. PositionOf(T, n) = Cardinality(T)
  <2>1. \A j \in T : j <= n
    <3>1. ASSUME NEW j \in S
          PROVE  j <= n
      <4>1. j \in Nat /\ j < n
        OBVIOUS
      <4>2. QED
        BY <4>1
    <3>2. QED
      BY <3>1
  <2>2. UpTo(T, n) = T
    BY <2>1 DEF UpTo
  <2>3. QED
    BY <2>2 DEF PositionOf
<1>5. n \in T /\ S \in SUBSET T
  OBVIOUS
<1> HIDE DEF T
<1>6. \A i \in T : Ascending(T)[PositionOf(T, i)] = i
  BY <1>2, AscendingProperties
<1>7. Ascending(T)[Cardinality(S) + 1] = n
  BY <1>2, <1>4, <1>5, <1>6
<1>8. ASSUME NEW k \in 1..Cardinality(S)
      PROVE  Ascending(T)[k] = Ascending(S)[k]
  <2> DEFINE i == Ascending(S)[k]
  <2>1. Ascending(S) \in [1..Cardinality(S) -> S] /\ PositionOf(S, i) = k
    BY AscendingProperties
  <2>2. i \in S
    BY <2>1
  <2> HIDE DEF i
  <2>3. QED
    BY <1>3, <1>5, <1>6, <2>1, <2>2 DEF i
<1>9. QED
  BY <1>2, <1>7, <1>8 DEF T
=============================================================================
