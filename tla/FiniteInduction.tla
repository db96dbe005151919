--------------------------- MODULE FiniteInduction ---------------------------
(***************************************************************************)
(* Induction over finite sets and over intervals of natural numbers, with  *)
(* the set of those for which the claim holds in place of the claim.       *)
(***************************************************************************)
EXTENDS Integers, FiniteSets, FiniteSetTheorems, WellFoundedInduction, TLAPS

(* A set of subsets of a finite set has one with no smaller one in it.     *)
LEMMA MinimalSubset ==
  ASSUME NEW S, IsFiniteSet(S), NEW T \in SUBSET SUBSET S, T # {}
  PROVE  \E U \in T : \A V \in T : V \subseteq U => V = U
<1>1. IsWellFoundedOn(StrictSubsetOrdering(S), SUBSET S)
  BY FS_StrictSubsetOrderingWellFounded, FS_FiniteSubsetsOfFinite
<1>2. PICK U \in T : \A V \in T : ~ (<<V, U>> \in StrictSubsetOrdering(S))
  BY <1>1, WFMin
<1> QED
  BY <1>2 DEF StrictSubsetOrdering

(* What holds of a subset when it holds of all the smaller ones holds of   *)
(* the whole set.                                                          *)
LEMMA SubsetInduction ==
  ASSUME NEW S, IsFiniteSet(S), NEW G,
         \A U \in SUBSET S : (\A V \in SUBSET U : V # U => V \in G) => U \in G
  PROVE  S \in G
<1> SUFFICES ASSUME S \notin G PROVE FALSE
  OBVIOUS
<1> DEFINE bad == {U \in SUBSET S : U \notin G}
<1>1. PICK U \in bad : \A V \in bad : V \subseteq U => V = U
  <2>1. bad # {} /\ bad \in SUBSET SUBSET S
    OBVIOUS
  <2> HIDE DEF bad
  <2> QED
    BY <2>1, MinimalSubset
<1> QED
  BY <1>1

(* A set of natural numbers that are not all missing has a least one.      *)
LEMMA LeastNumber ==
  ASSUME NEW A \in SUBSET Nat, A # {}
  PROVE  \E n \in A : \A m \in A : n <= m
<1>1. PICK a \in A : TRUE
  OBVIOUS
<1> DEFINE T == {0 .. n : n \in {i \in A : i <= a}}
<1>2. PICK U \in T : \A V \in T : V \subseteq U => V = U
  <2> DEFINE S == 0 .. a
  <2>1. IsFiniteSet(S)
    BY FS_Interval
  <2>2. T \in SUBSET SUBSET S /\ T # {}
    OBVIOUS
  <2> HIDE DEF S, T
  <2> QED
    BY <2>1, <2>2, MinimalSubset
<1>3. PICK n \in A : n <= a /\ U = 0 .. n
  OBVIOUS
<1>4. ASSUME NEW m \in A, m < n
      PROVE  FALSE
  <2>1. 0 .. m \in T /\ 0 .. m \subseteq 0 .. n
    BY <1>3, <1>4
  <2>2. 0 .. m = 0 .. n
    BY <1>2, <1>3, <2>1
  <2>3. n \in 0 .. n
    OBVIOUS
  <2> QED
    BY <1>4, <2>2, <2>3
<1> QED
  BY <1>4

(* ... and a greatest one, if it is bounded.                               *)
LEMMA GreatestNumber ==
  ASSUME NEW N \in Nat, NEW A \in SUBSET (0 .. N), A # {}
  PROVE  \E n \in A : \A m \in A : m <= n
<1> DEFINE B == {N - n : n \in A}
<1>1. PICK b \in B : \A c \in B : b <= c
  <2>1. \A n \in A : N - n \in Nat /\ N - n \in B
    OBVIOUS
  <2>2. B \in SUBSET Nat /\ B # {}
    BY <2>1
  <2> HIDE DEF B
  <2> QED
    BY <2>2, LeastNumber
<1>2. PICK n \in A : b = N - n
  OBVIOUS
<1>3. \A m \in A : N - m \in B
  OBVIOUS
<1> QED
  BY <1>1, <1>2, <1>3

(* What holds of 0, and of a number when it holds of the one before, holds *)
(* of all up to N.                                                         *)
LEMMA IntervalInduction ==
  ASSUME NEW N \in Nat, NEW G, 0 \in G,
         \A n \in 0 .. N - 1 : n \in G => n + 1 \in G
  PROVE  0 .. N \subseteq G
<1> DEFINE bad == {n \in 0 .. N : n \notin G}
<1> SUFFICES ASSUME bad # {} PROVE FALSE
  OBVIOUS
<1>1. PICK n \in bad : \A m \in bad : n <= m
  <2>1. bad \in SUBSET Nat
    OBVIOUS
  <2> HIDE DEF bad
  <2> QED
    BY <2>1, LeastNumber
<1>2. n # 0 /\ n - 1 \in 0 .. N - 1
  OBVIOUS
<1>3. n - 1 \in G
  BY <1>1, <1>2
<1> QED
  BY <1>2, <1>3
=============================================================================
