----------------------------- MODULE BasicLemmas ------------------------------
(***************************************************************************)
(* Lemmas about records, functions and sets of natural numbers that the    *)
(* proofs about leaves, the store and the tree share.                      *)
(***************************************************************************)
EXTENDS FiniteSetsExt, FiniteSetTheorems, TLAPS

\* A record's fields after its bits and its count are replaced.
LEMMA WithBits ==
  ASSUME NEW l, l = [bits |-> l.bits, kv |-> l.kv, fp |-> l.fp, n |-> l.n],
         NEW B, NEW n, NEW p, p = [l EXCEPT !.bits = B, !.n = n]
  PROVE  p = [bits |-> B, kv |-> l.kv, fp |-> l.fp, n |-> n]
OBVIOUS

\* Min finds the least of any slots there are.
LEMMA MinIsLeast ==
  ASSUME NEW S, S \subseteq Nat, S # {}
  PROVE  Min(S) \in S /\ \A s \in S : Min(S) <= s
<1> DEFINE T == {0 .. y : y \in S}
<1>1. T \subseteq FiniteSubsetsOf(Nat) /\ T # {}
  <2>1. ASSUME NEW y \in Nat PROVE IsFiniteSet(0 .. y) /\ 0 .. y \subseteq Nat
    <3>1. y \in Int /\ 0 \in Int
      OBVIOUS
    <3> QED BY <3>1, FS_Interval
  <2> QED BY <2>1 DEF FiniteSubsetsOf
<1>2. PICK t \in T : \A u \in T : ~(<<u, t>> \in StrictSubsetOrdering(Nat))
  <2> HIDE DEF T
  <2>1. IsWellFoundedOn(StrictSubsetOrdering(Nat), FiniteSubsetsOf(Nat))
    BY FS_StrictSubsetOrderingWellFounded
  <2> QED BY <1>1, <2>1, WFMin
<1>3. PICK x \in S : t = 0 .. x
  OBVIOUS
<1>4. \A y \in S : x <= y
  <2>1. SUFFICES ASSUME NEW y \in S, y < x PROVE FALSE
    OBVIOUS
  <2>2. 0 .. y \in SUBSET Nat /\ t \in SUBSET Nat /\ 0 .. y \subseteq t /\ 0 .. y # t
    <3>1. x \in 0 .. x /\ x \notin 0 .. y
      BY <2>1
    <3> QED BY <1>3, <2>1, <3>1
  <2>3. <<0 .. y, t>> \in StrictSubsetOrdering(Nat)
    BY <2>2 DEF StrictSubsetOrdering
  <2> QED BY <1>2, <2>3
<1> QED BY <1>4 DEF Min

\* A finite set of naturals that is not empty has a greatest element.
LEMMA GreatestExists ==
  ASSUME NEW S, S \subseteq Nat, S # {}, IsFiniteSet(S)
  PROVE  \E x \in S : \A y \in S : y <= x
<1> DEFINE Above(x) == {y \in S : x < y}
           T == {Above(x) : x \in S}
<1>1. T \subseteq FiniteSubsetsOf(Nat) /\ T # {}
  <2>1. ASSUME NEW x \in S PROVE IsFiniteSet(Above(x)) /\ Above(x) \subseteq Nat
    BY FS_Subset
  <2> QED BY <2>1 DEF FiniteSubsetsOf
<1>2. PICK t \in T : \A u \in T : ~(<<u, t>> \in StrictSubsetOrdering(Nat))
  <2> HIDE DEF T
  <2>1. IsWellFoundedOn(StrictSubsetOrdering(Nat), FiniteSubsetsOf(Nat))
    BY FS_StrictSubsetOrderingWellFounded
  <2> QED BY <1>1, <2>1, WFMin
<1>3. PICK x \in S : t = Above(x)
  OBVIOUS
<1>4. \A y \in S : y <= x
  <2>1. SUFFICES ASSUME NEW y \in S, x < y PROVE FALSE
    OBVIOUS
  <2>2. y \in t /\ y \notin Above(y) /\ Above(y) \subseteq t /\ t \subseteq Nat
    <3>1. x \in Nat /\ y \in Nat /\ \A z \in S : z \in Nat
      OBVIOUS
    <3>2. y \in Above(x) /\ y \notin Above(y)
      BY <2>1, <3>1
    <3>3. \A z \in Above(y) : z \in Above(x)
      <4> TAKE z \in Above(y)
      <4>1. z \in S /\ z \in Nat /\ y < z
        BY <3>1
      <4> QED BY <2>1, <3>1, <4>1
    <3> QED BY <1>3, <3>2, <3>3
  <2>3. <<Above(y), t>> \in StrictSubsetOrdering(Nat)
    BY <2>2 DEF StrictSubsetOrdering
  <2> QED BY <1>2, <2>3
<1> QED BY <1>4

\* The m least elements of a set.
Least(D, m) == {x \in D : Cardinality({j \in D : j < x}) < m}

\* Of a larger set they are some, are not all, and lie below the rest.
LEMMA LeastParts ==
  ASSUME NEW D, D \subseteq Nat, IsFiniteSet(D),
         NEW m \in Nat \ {0}, m < Cardinality(D)
  PROVE  /\ Least(D, m) \subseteq D
         /\ Least(D, m) # {} /\ D \ Least(D, m) # {}
         /\ \A x \in Least(D, m), y \in D \ Least(D, m) : x < y
<1> DEFINE Below(x) == {j \in D : j < x}
<1>1. /\ Least(D, m) = {x \in D : Cardinality(Below(x)) < m}
      /\ Cardinality(D) \in Nat /\ D # {}
  BY FS_CardinalityType, FS_EmptySet DEF Least
<1>2. \A x \in D : IsFiniteSet(Below(x)) /\ Cardinality(Below(x)) \in Nat
  BY FS_Subset, FS_CardinalityType
<1>3. Least(D, m) # {}
  <2>1. PICK x \in D : \A y \in D : x <= y
    BY <1>1, MinIsLeast
  <2>2. Below(x) = {}
    <3>1. \A y \in D : y \in Nat
      OBVIOUS
    <3>2. \A y \in D : ~(y < x)
      BY <2>1, <3>1
    <3> QED BY <3>2
  <2>3. Cardinality(Below(x)) = 0
    BY <2>2, FS_EmptySet
  <2> QED BY <1>1, <2>3
<1>4. D \ Least(D, m) # {}
  <2>1. PICK x \in D : \A y \in D : y <= x
    BY <1>1, GreatestExists
  <2>2. Below(x) = D \ {x}
    <3>1. \A y \in D : y \in Nat
      OBVIOUS
    <3>2. \A y \in D : y < x <=> y # x
      BY <2>1, <3>1
    <3> QED BY <3>2
  <2>3. Cardinality(Below(x)) = Cardinality(D) - 1
    BY <2>2, FS_RemoveElement
  <2>4. ~(Cardinality(Below(x)) < m)
    BY <1>1, <2>3
  <2> QED BY <1>1, <2>4
<1>5. ASSUME NEW x \in Least(D, m), NEW y \in D \ Least(D, m) PROVE x < y
  <2>1. x \in D /\ y \in D /\ x \in Nat /\ y \in Nat
    BY <1>1
  <2>2. Cardinality(Below(x)) < m /\ ~(Cardinality(Below(y)) < m)
    BY <1>1
  <2>3. ASSUME y <= x PROVE FALSE
    <3>1. \A z \in Below(y) : z \in Below(x)
      <4> TAKE z \in Below(y)
      <4>1. z \in D /\ z \in Nat /\ z < y
        OBVIOUS
      <4> QED BY <2>1, <2>3, <4>1
    <3>2. Cardinality(Below(y)) <= Cardinality(Below(x))
      BY <1>2, <2>1, <3>1, FS_Subset
    <3> QED BY <1>2, <2>1, <2>2, <3>2
  <2> QED BY <2>1, <2>3
<1> QED BY <1>1, <1>3, <1>4, <1>5
=============================================================================
