---------------------------- MODULE FiniteNumbers ----------------------------
(***************************************************************************)
(* Facts about the least and the greatest of a set of numbers and about    *)
(* cardinalities, which the proofs of several components need.             *)
(***************************************************************************)
EXTENDS Naturals, FiniteSets, FiniteSetsExt, FiniteSetTheorems,
        WellFoundedInduction, TLAPS

\* Every non-empty set of numbers has a least one.
LEMMA LeastNumber ==
    ASSUME NEW S, S \subseteq Nat, S # {}
    PROVE  \E n \in S : \A m \in S : n <= m
<1> DEFINE less == {p \in Nat \X Nat : p[1] < p[2]}
<1>0. IsWellFoundedOn(less, Nat)
  <2>1. less = OpToRel(<, Nat)
    BY DEF OpToRel
  <2> QED
    BY <2>1, NatLessThanWellFounded
<1>1. PICK n \in S : \A m \in S : <<m, n>> \notin less
  BY <1>0, WFMin
<1>2. \A m \in S : ~(m < n)
  BY <1>1
<1> QED
  BY <1>2

\* Min returns it.
LEMMA MinOfNumbers ==
    ASSUME NEW S, S \subseteq Nat, S # {}
    PROVE  Min(S) \in S /\ \A m \in S : Min(S) <= m
<1>1. PICK n \in S : \A m \in S : n <= m
  BY LeastNumber
<1> QED
  BY <1>1 DEF Min

\* A bounded set of numbers has a greatest one, which Max returns.
LEMMA MaxOfBounded ==
    ASSUME NEW S, S \subseteq Nat, S # {}, NEW b \in Nat, \A m \in S : m <= b
    PROVE  Max(S) \in S /\ \A m \in S : m <= Max(S)
<1> DEFINE above == {c \in Nat : \A m \in S : m <= c}
<1>1. PICK c \in above : \A d \in above : c <= d
  <2>1. b \in above /\ above \subseteq Nat
    OBVIOUS
  <2> QED
    BY <2>1, LeastNumber
<1>2. c \in S
  <2> SUFFICES ASSUME c \notin S PROVE FALSE
    OBVIOUS
  <2>1. \A m \in S : m < c
    BY <1>1
  <2>2. c # 0 /\ c - 1 \in Nat
    <3>1. PICK m \in S : TRUE
      OBVIOUS
    <3>2. m \in Nat /\ c \in Nat /\ m < c
      BY <2>1
    <3> QED
      BY <3>2
  <2>3. c - 1 \in above
    BY <2>1, <2>2
  <2> QED
    BY <1>1, <2>2, <2>3
<1> QED
  BY <1>1, <1>2 DEF Max

\* A finite set of numbers is bounded.
LEMMA FiniteIsBounded ==
    ASSUME NEW S, S \subseteq Nat, IsFiniteSet(S)
    PROVE  \E b \in Nat : \A m \in S : m <= b
<1> DEFINE Unbounded == {T \in SUBSET S : ~(\E b \in Nat : \A m \in T : m <= b)}
           sizes == {Cardinality(T) : T \in Unbounded}
<1> SUFFICES ASSUME S \in Unbounded PROVE FALSE
  OBVIOUS
<1>0. \A T \in SUBSET S : IsFiniteSet(T) /\ Cardinality(T) \in Nat
  BY FS_Subset, FS_CardinalityType
<1>1. sizes \subseteq Nat /\ sizes # {}
  <2>1. Cardinality(S) \in sizes
    OBVIOUS
  <2> QED
    BY <1>0, <2>1
<1>2. PICK T \in Unbounded : \A U \in Unbounded : Cardinality(T) <= Cardinality(U)
  <2>1. PICK n \in sizes : \A m \in sizes : n <= m
    <3> HIDE DEF sizes
    <3> QED
      BY <1>1, LeastNumber
  <2> QED
    BY <2>1
<1>3. IsFiniteSet(T) /\ T \subseteq Nat
  BY FS_Subset
<1>4. PICK x \in T : TRUE
  OBVIOUS
<1>5. Cardinality(T \ {x}) < Cardinality(T)
  <2>1. Cardinality(T \ {x}) = Cardinality(T) - 1
    BY <1>3, <1>4, FS_RemoveElement
  <2> QED
    BY <1>0, <2>1
<1>6. T \ {x} \notin Unbounded
  <2>1. ~(Cardinality(T) <= Cardinality(T \ {x}))
    BY <1>0, <1>5
  <2> QED
    BY <1>2, <2>1
<1>7. PICK b \in Nat : \A m \in T \ {x} : m <= b
  BY <1>6
<1>8. \A m \in T : m <= b + x
  BY <1>3, <1>4, <1>7
<1> QED
  BY <1>3, <1>4, <1>8

LEMMA MaxOfFinite ==
    ASSUME NEW S, S \subseteq Nat, IsFiniteSet(S), S # {}
    PROVE  Max(S) \in S /\ \A m \in S : m <= Max(S)
  BY FiniteIsBounded, MaxOfBounded
=============================================================================
