----------------------------- MODULE CountingLemmas ----------------------------
(***************************************************************************)
(* Facts about sets of numbers and functions on intervals, which the       *)
(* proofs about slots of arrays need: how many numbers of a set come       *)
(* before one of them, that as many numbers as there are slots fill them   *)
(* all, and that there is a least one.                                     *)
(***************************************************************************)
EXTENDS Integers, FiniteSets, FiniteSetTheorems, WellFoundedInduction, TLAPS

LEMMA FirstSlots ==
  ASSUME NEW N \in Nat, NEW k \in 0 .. N
  PROVE  0 .. k - 1 \subseteq 0 .. N - 1
OBVIOUS

LEMMA AllSlots ==
  ASSUME NEW N \in Nat
  PROVE  IsFiniteSet(0 .. N - 1) /\ Cardinality(0 .. N - 1) = N
BY FS_Interval

LEMMA SetsOfSlots ==
  ASSUME NEW N \in Nat, NEW S \in SUBSET (0 .. N - 1)
  PROVE  IsFiniteSet(S) /\ Cardinality(S) \in Nat /\ Cardinality(S) <= N
<1>1. IsFiniteSet(0 .. N - 1) /\ Cardinality(0 .. N - 1) = N
  BY FS_Interval
<1> QED BY <1>1, FS_Subset, FS_CardinalityType

\* A larger set has at least as many elements, and more if it has one more.
LEMMA MoreElements ==
  ASSUME NEW T, IsFiniteSet(T), NEW S \in SUBSET T
  PROVE  /\ Cardinality(S) \in Nat /\ Cardinality(T) \in Nat
         /\ Cardinality(S) <= Cardinality(T)
         /\ \A x \in T : x \notin S => Cardinality(S) < Cardinality(T)
<1>1. /\ IsFiniteSet(S)
      /\ Cardinality(S) \in Nat /\ Cardinality(T) \in Nat
      /\ Cardinality(S) <= Cardinality(T)
      /\ Cardinality(S) = Cardinality(T) => S = T
  BY FS_Subset, FS_CardinalityType
<1> QED BY <1>1

LEMMA PartsAddUp ==
  ASSUME NEW S, NEW T, IsFiniteSet(S), IsFiniteSet(T), S \cap T = {}
  PROVE  /\ IsFiniteSet(S \cup T)
         /\ Cardinality(S \cup T) = Cardinality(S) + Cardinality(T)
<1>1. /\ IsFiniteSet(S \cup T)
      /\ Cardinality(S \cup T) = Cardinality(S) + Cardinality(T) - Cardinality(S \cap T)
  BY FS_Union
<1>2. Cardinality(S \cap T) = 0 /\ Cardinality(S) \in Nat /\ Cardinality(T) \in Nat
  BY FS_EmptySet, FS_CardinalityType
<1> QED BY <1>1, <1>2

\* Numbers of a set come in order: the one before has fewer before it.
LEMMA FewerBefore ==
  ASSUME NEW N \in Nat, NEW S \in SUBSET (0 .. N - 1), NEW i \in S
  PROVE  /\ Cardinality({x \in S : x < i}) \in Nat
         /\ Cardinality({x \in S : x < i}) < Cardinality(S)
         /\ \A j \in S : i < j => Cardinality({x \in S : x < i}) <
                                  Cardinality({x \in S : x < j})
<1>1. IsFiniteSet(S)
  BY SetsOfSlots
<1>2. /\ Cardinality({x \in S : x < i}) \in Nat
      /\ Cardinality({x \in S : x < i}) < Cardinality(S)
  BY <1>1, MoreElements
<1>3. ASSUME NEW j \in S, i < j
      PROVE  Cardinality({x \in S : x < i}) < Cardinality({x \in S : x < j})
  <2>1. IsFiniteSet({x \in S : x < j})
    BY <1>1, FS_Subset
  <2>2. {x \in S : x < i} \subseteq {x \in S : x < j}
    <3>1. \A x \in S : x < i => x < j
      BY <1>3
    <3> QED BY <3>1
  <2>3. i \in {x \in S : x < j} /\ i \notin {x \in S : x < i}
    BY <1>3
  <2> QED BY <2>1, <2>2, <2>3, MoreElements
<1> QED BY <1>2, <1>3

\* As many different numbers as there are slots: every slot is one of them.
LEMMA EverySlotHit ==
  ASSUME NEW N \in Nat, NEW f \in [0 .. N - 1 -> 0 .. N - 1],
         \A i, j \in 0 .. N - 1 : f[i] = f[j] => i = j
  PROVE  \A k \in 0 .. N - 1 : \E i \in 0 .. N - 1 : f[i] = k
<1> DEFINE D == 0 .. N - 1
<1>1. IsFiniteSet(D)
  BY FS_Interval
<1>2. f \in Injection(D, D)
  BY DEF Injection, IsInjective
<1>3. f \in Surjection(D, D)
  BY <1>1, <1>2, FS_Injection
<1> QED BY <1>3 DEF Surjection

\* A set of natural numbers has a least one.
LEMMA LeastNumber ==
  ASSUME NEW T \in SUBSET Nat, T # {}
  PROVE  \E x \in T : \A y \in T : x <= y
<1> DEFINE R == OpToRel(<, Nat)
<1>1. IsWellFoundedOn(R, Nat)
  BY NatLessThanWellFounded
<1>2. \A x, y \in Nat : x < y => <<x, y>> \in R
  BY DEF OpToRel
<1> HIDE DEF R
<1>3. PICK x \in T : \A y \in T : <<y, x>> \notin R
  BY <1>1, WFMin
<1>4. \A y \in T : ~(y < x)
  BY <1>2, <1>3
<1> QED BY <1>4
================================================================================
