----------------------- MODULE IncrementEnsembleProofs -----------------------
(***************************************************************************)
(* What is made from states, written and read again, for every size of the *)
(* ensembles, every state and every configuration of the reader.           *)
(***************************************************************************)
EXTENDS IncrementEnsemble, EnsembleMembersProofs, FiniteInduction

(* The increments of a departures ensemble are the states it has read, in  *)
(* units of 1 / nens, and less the mean once that is taken off.            *)
SpreadInv ==
  LET nens == Perts!nens
      departure(k) == nens * states[k]
  IN  /\ maker = "start" => made = 0 /\ ensemblePerturbs = <<>>
      /\ maker \in {"read", "subtract"} =>
           kind = "departures" /\ Len(ensemblePerturbs) = nens
      /\ maker = "read" =>
           \A k \in 1 .. made : ensemblePerturbs[k] = departure(k)
      /\ maker = "subtract" =>
           \A k \in 1 .. nens :
             ensemblePerturbs[k] = IF k <= made THEN departure(k) - mean
                                   ELSE departure(k)
      /\ maker = "difference" =>
           kind = "differences" /\ Len(ensemblePerturbs) = made /\ nens = Len(other)
      /\ maker = "done" /\ kind = "departures" =>
           /\ Len(ensemblePerturbs) = nens
           /\ \A k \in 1 .. nens : ensemblePerturbs[k] = departure(k) - mean

MakerInv == Perts!TypeOK /\ SpreadInv

(* Departures add up to what the mean has been given of the states, and to *)
(* one mean less with each increment it is taken off; those that no state  *)
(* has been read into are still zero.                                      *)
SumInv ==
  LET nens == Perts!nens
      total == Perts!Sum(ensemblePerturbs)
  IN  /\ maker = "start" => mean = 0
      /\ maker = "read" =>
           /\ total = nens * mean
           /\ \A k \in made + 1 .. nens : ensemblePerturbs[k] = 0
      /\ maker = "subtract" => total = (nens - made) * mean
      /\ maker = "done" /\ kind = "departures" => total = 0

------------------------------------------------------------------------------
(* Sum adds the values of a function one by one, in the order of CHOOSE.   *)
Chosen(s) == CHOOSE x \in s : TRUE
Adds(iter, f, T) ==
  iter = [s \in T |-> IF s = {} THEN 0 ELSE f[Chosen(s)] + iter[s \ {Chosen(s)}]]

(* An addition is one when it is on every set.                            *)
LEMMA AddsPointwise ==
  ASSUME NEW f, NEW iter, NEW T, iter = [s \in T |-> iter[s]],
         \A s \in T :
           iter[s] = IF s = {} THEN 0 ELSE f[Chosen(s)] + iter[s \ {Chosen(s)}]
  PROVE  Adds(iter, f, T)
<1> DEFINE sum(s) == IF s = {} THEN 0 ELSE f[Chosen(s)] + iter[s \ {Chosen(s)}]
<1>1. [s \in T |-> iter[s]] = [s \in T |-> sum(s)]
  OBVIOUS
<1>2. iter = [s \in T |-> sum(s)]
  <2> HIDE DEF sum
  <2> QED
    BY <1>1
<1> QED
  BY <1>2 DEF Adds

(* There is such an addition on the subsets of a finite set, made for ever *)
(* larger subsets.                                                         *)
LEMMA AdditionExists ==
  ASSUME NEW f, NEW D, IsFiniteSet(D)
  PROVE  \E iter : Adds(iter, f, SUBSET D)
<1> DEFINE UpTo(n) == {s \in SUBSET D : Cardinality(s) <= n}
           N == Cardinality(D)
           G == {n \in 0 .. N : \E iter : Adds(iter, f, UpTo(n))}
<1>1. \A s \in SUBSET D : IsFiniteSet(s) /\ Cardinality(s) \in 0 .. N /\ N \in Nat
  BY FS_Subset, FS_CardinalityType
<1>2. \A s \in SUBSET D : s # {} =>
        /\ Chosen(s) \in s /\ s \ {Chosen(s)} \in SUBSET D
        /\ Cardinality(s \ {Chosen(s)}) = Cardinality(s) - 1
  BY <1>1, FS_RemoveElement DEF Chosen
<1>3. \A s \in SUBSET D : s = {} <=> Cardinality(s) = 0
  BY <1>1, FS_EmptySet
<1>4. 0 \in G
  <2> DEFINE iter == [s \in UpTo(0) |-> 0]
  <2>1. \A s \in UpTo(0) : s = {}
    BY <1>1, <1>3
  <2>2. Adds(iter, f, UpTo(0))
    BY <2>1 DEF Adds
  <2> QED
    BY <1>1, <2>2
<1>5. ASSUME NEW n \in 0 .. N - 1, n \in G
      PROVE  n + 1 \in G
  <2>1. PICK iter : Adds(iter, f, UpTo(n))
    BY <1>5
  <2> DEFINE next == [s \in UpTo(n + 1) |->
                        IF Cardinality(s) = n + 1
                          THEN f[Chosen(s)] + iter[s \ {Chosen(s)}] ELSE iter[s]]
  <2>2. ASSUME NEW s \in UpTo(n + 1)
        PROVE  next[s] = IF s = {} THEN 0
                           ELSE f[Chosen(s)] + next[s \ {Chosen(s)}]
    <3>1. s \in SUBSET D /\ Cardinality(s) \in Nat /\ n \in Nat
            /\ Cardinality(s) <= n + 1
      BY <1>1
    <3>2. CASE s = {}
      <4>1. s \in UpTo(n) /\ Cardinality(s) # n + 1
        BY <1>3, <3>1, <3>2
      <4> QED
        BY <2>1, <3>2, <4>1 DEF Adds
    <3>3. CASE s # {}
      <4> DEFINE r == s \ {Chosen(s)}
      <4>1. /\ r \in SUBSET D /\ Cardinality(r) = Cardinality(s) - 1
            /\ r \in UpTo(n) /\ r \in UpTo(n + 1) /\ Cardinality(r) # n + 1
        BY <1>2, <3>1, <3>3
      <4>2. next[r] = iter[r]
        BY <4>1
      <4>3. CASE Cardinality(s) = n + 1
        BY <3>3, <4>2, <4>3
      <4>4. CASE Cardinality(s) # n + 1
        <5>1. s \in UpTo(n) /\ next[s] = iter[s]
          BY <3>1, <4>4
        <5>2. iter[s] = f[Chosen(s)] + iter[r]
          BY <2>1, <3>3, <5>1 DEF Adds
        <5> QED
          BY <3>3, <4>2, <5>1, <5>2
      <4> QED
        BY <4>3, <4>4
    <3> QED
      BY <3>2, <3>3
  <2>3. Adds(next, f, UpTo(n + 1))
    <3>1. next = [s \in UpTo(n + 1) |-> next[s]]
      OBVIOUS
    <3> HIDE DEF next, UpTo
    <3> QED
      BY <2>2, <3>1, AddsPointwise
  <2>4. \E it : Adds(it, f, UpTo(n + 1))
    <3> HIDE DEF next, UpTo
    <3> QED
      BY <2>3
  <2>5. n + 1 \in 0 .. N
    BY <1>1
  <2> HIDE DEF UpTo
  <2> QED
    BY <2>4, <2>5
<1>6. N \in G
  <2>1. N \in Nat
    BY FS_CardinalityType
  <2> HIDE DEF G
  <2>2. 0 .. N \subseteq G
    BY <1>4, <1>5, <2>1, IntervalInduction
  <2> QED
    BY <2>1, <2>2
<1>7. UpTo(N) = SUBSET D
  BY <1>1
<1> QED
  BY <1>6, <1>7

(* Sum is that addition, over the whole domain.                            *)
LEMMA SumAdds ==
  ASSUME NEW f, IsFiniteSet(DOMAIN f)
  PROVE  \E iter : Adds(iter, f, SUBSET DOMAIN f) /\ Perts!Sum(f) = iter[DOMAIN f]
<1> DEFINE iter == CHOOSE iter : Adds(iter, f, SUBSET DOMAIN f)
<1>1. Adds(iter, f, SUBSET DOMAIN f)
  BY AdditionExists
<1>2. Perts!Sum(f) = iter[DOMAIN f]
  BY DEF Adds, Chosen, Perts!Sum, Perts!FoldFunction, Perts!FoldFunctionOnSet,
         Perts!MapThenFoldSet
<1> QED
  BY <1>1, <1>2

(* A property of additions that the empty set has, and a set has if it     *)
(* without its chosen element has, all subsets have.                       *)
LEMMA ChosenInduction ==
  ASSUME NEW D, IsFiniteSet(D), NEW G, {} \in G,
         \A s \in SUBSET D : s # {} /\ s \ {Chosen(s)} \in G => s \in G
  PROVE  D \in G
<1>1. ASSUME NEW U \in SUBSET D, \A V \in SUBSET U : V # U => V \in G
      PROVE  U \in G
  <2>1. CASE U # {}
    <3> DEFINE r == U \ {Chosen(U)}
    <3>1. r \in SUBSET U /\ r # U
      BY <2>1 DEF Chosen
    <3>2. r \in G
      <4> HIDE DEF r
      <4> QED
        BY <1>1, <3>1
    <3> QED
      BY <2>1, <3>2
  <2> QED
    BY <2>1
<1> QED
  BY <1>1, SubsetInduction

(* The sum of integers is one, and zeros add up to zero.                   *)
LEMMA SumOfIntegers ==
  ASSUME NEW f, IsFiniteSet(DOMAIN f), \A i \in DOMAIN f : f[i] \in Int
  PROVE  Perts!Sum(f) \in Int /\ ((\A i \in DOMAIN f : f[i] = 0) => Perts!Sum(f) = 0)
<1> DEFINE D == DOMAIN f
           zero == \A i \in D : f[i] = 0
<1>1. PICK iter : Adds(iter, f, SUBSET D) /\ Perts!Sum(f) = iter[D]
  BY SumAdds
<1> DEFINE G == {s \in SUBSET D : iter[s] \in Int /\ (zero => iter[s] = 0)}
<1>2. {} \in G
  BY <1>1 DEF Adds
<1>3. ASSUME NEW s \in SUBSET D, s # {}, s \ {Chosen(s)} \in G
      PROVE  s \in G
  <2>1. Chosen(s) \in D
    BY <1>3 DEF Chosen
  <2>2. iter[s] = f[Chosen(s)] + iter[s \ {Chosen(s)}]
    BY <1>1, <1>3 DEF Adds
  <2> QED
    BY <1>3, <2>1, <2>2
<1>4. D \in G
  <2> HIDE DEF G
  <2> QED
    BY <1>2, <1>3, ChosenInduction
<1> QED
  BY <1>1, <1>4

(* Changing one value changes the sum by as much.                          *)
LEMMA SumOfChanged ==
  ASSUME NEW f, NEW g, IsFiniteSet(DOMAIN f), DOMAIN g = DOMAIN f,
         \A i \in DOMAIN f : f[i] \in Int, NEW j \in DOMAIN f, NEW d \in Int,
         \A i \in DOMAIN f : g[i] = IF i = j THEN f[i] + d ELSE f[i]
  PROVE  Perts!Sum(g) = Perts!Sum(f) + d
<1> DEFINE D == DOMAIN f
<1>1. PICK p : Adds(p, f, SUBSET D) /\ Perts!Sum(f) = p[D]
  BY SumAdds
<1>2. PICK q : Adds(q, g, SUBSET D) /\ Perts!Sum(g) = q[D]
  BY SumAdds
<1> DEFINE G == {s \in SUBSET D : /\ p[s] \in Int
                                  /\ q[s] = p[s] + (IF j \in s THEN d ELSE 0)}
<1>3. {} \in G
  BY <1>1, <1>2 DEF Adds
<1>4. ASSUME NEW s \in SUBSET D, s # {}, s \ {Chosen(s)} \in G
      PROVE  s \in G
  <2> DEFINE x == Chosen(s)
             r == s \ {x}
  <2>1. x \in s /\ x \in D
    BY <1>4 DEF Chosen
  <2>2. p[s] = f[x] + p[r] /\ q[s] = g[x] + q[r]
    BY <1>1, <1>2, <1>4 DEF Adds
  <2>3. p[r] \in Int /\ q[r] = p[r] + (IF j \in r THEN d ELSE 0)
    BY <1>4
  <2>4. f[x] \in Int /\ g[x] = IF x = j THEN f[x] + d ELSE f[x]
    BY <2>1
  <2>5. j \in s <=> (j = x \/ j \in r)
    BY <2>1
  <2> HIDE DEF x
  <2> QED
    BY <2>1, <2>2, <2>3, <2>4, <2>5
<1>5. D \in G
  <2> HIDE DEF G
  <2> QED
    BY <1>3, <1>4, ChosenInduction
<1> QED
  BY <1>1, <1>2, <1>5

(* ... and so does changing one entry of a sequence.                       *)
LEMMA SumOfChangedEntry ==
  ASSUME NEW s \in Seq(Int), NEW j \in 1 .. Len(s), NEW d \in Int
  PROVE  Perts!Sum([s EXCEPT ![j] = s[j] + d]) = Perts!Sum(s) + d
<1> DEFINE g == [s EXCEPT ![j] = s[j] + d]
<1>1. /\ DOMAIN s = 1 .. Len(s) /\ IsFiniteSet(DOMAIN s) /\ DOMAIN g = DOMAIN s
      /\ \A i \in DOMAIN s : s[i] \in Int
  BY FS_Interval
<1>2. \A i \in DOMAIN s : g[i] = IF i = j THEN s[i] + d ELSE s[i]
  BY <1>1
<1>3. j \in DOMAIN s
  BY <1>1
<1> HIDE DEF g
<1>4. Perts!Sum(g) = Perts!Sum(s) + d
  BY <1>1, <1>2, <1>3, SumOfChanged, Zenon
<1> QED
  BY <1>4 DEF g

------------------------------------------------------------------------------
(* A state is a natural number.                                            *)
LEMMA StatesAreNatural ==
  ASSUME Perts!TypeOK
  PROVE  /\ Perts!nens \in Nat
         /\ \A k \in 1 .. Perts!nens : states[k] \in Nat
         /\ states \in Seq(Nat)
<1>1. PICK n \in 0 .. MaxMembers : states \in [1 .. n -> 0 .. MaxVal]
  BY DEF Perts!TypeOK, Perts!Ensemble
<1> QED
  BY <1>1 DEF Perts!nens

(* One step of the maker, one case per action.                             *)
LEMMA MakerStep == ASSUME MakerInv, Perts!Step PROVE MakerInv'
<1> DEFINE nens == Perts!nens
<1> DEFINE departure(k) == nens * states[k]
<1>1. /\ nens \in Nat /\ made \in Nat /\ made <= nens /\ mean \in Nat
      /\ \A k \in 1 .. nens : states[k] \in Nat /\ departure(k) \in Int
      /\ ensemblePerturbs \in Seq(Int)
  BY StatesAreNatural DEF MakerInv, Perts!TypeOK
<1> USE DEF Perts!inputs, Perts!nens, Perts!Ensemble
<1>2. CASE Perts!NoMember
  BY <1>2 DEF MakerInv, SpreadInv, Perts!TypeOK, Perts!NoMember
<1>3. CASE Perts!Reserve
  <2>1. /\ kind = "departures" /\ maker = "start" /\ maker' = "read" /\ made = 0
        /\ ensemblePerturbs' = [m \in 1 .. nens |-> 0]
        /\ UNCHANGED <<kind, states, other, made, mean, nens>>
    BY <1>3 DEF Perts!Reserve, MakerInv, SpreadInv
  <2>2. ensemblePerturbs' \in Seq(Int) /\ Len(ensemblePerturbs') = nens
    BY <1>1, <2>1
  <2>3. Perts!TypeOK'
    BY <1>1, <2>1, <2>2 DEF MakerInv, Perts!TypeOK
  <2>4. SpreadInv'
    BY <1>1, <2>1, <2>2 DEF SpreadInv
  <2> QED
    BY <2>3, <2>4 DEF MakerInv
<1>4. CASE Perts!ReadState
  <2>1. /\ maker = "read" /\ maker' = maker /\ made < nens /\ made' = made + 1
        /\ mean' = mean + states[made + 1]
        /\ ensemblePerturbs' = [ensemblePerturbs EXCEPT ![made + 1] = departure(made + 1)]
        /\ UNCHANGED <<kind, states, other, nens>>
    BY <1>4 DEF Perts!ReadState
  <2>2. /\ kind = "departures" /\ Len(ensemblePerturbs) = nens
        /\ \A k \in 1 .. made : ensemblePerturbs[k] = departure(k)
    BY <2>1 DEF MakerInv, SpreadInv
  <2> HIDE DEF departure
  <2>3. /\ ensemblePerturbs' \in Seq(Int) /\ Len(ensemblePerturbs') = nens
        /\ \A k \in 1 .. made + 1 : ensemblePerturbs'[k] = departure(k)
        /\ mean' \in Nat
    BY <1>1, <2>1, <2>2
  <2> USE DEF departure
  <2>4. Perts!TypeOK'
    BY <1>1, <2>1, <2>2, <2>3 DEF MakerInv, Perts!TypeOK
  <2>5. SpreadInv'
    BY <1>1, <2>1, <2>2, <2>3 DEF SpreadInv
  <2> QED
    BY <2>4, <2>5 DEF MakerInv
<1>5. CASE Perts!MeanDone
  <2>1. /\ maker = "read" /\ maker' = "subtract" /\ made = nens /\ made' = 0
        /\ UNCHANGED <<kind, states, other, mean, ensemblePerturbs, nens>>
    BY <1>5 DEF Perts!MeanDone
  <2>2. Perts!TypeOK'
    BY <1>1, <2>1 DEF MakerInv, Perts!TypeOK
  <2>3. SpreadInv'
    BY <1>1, <2>1 DEF MakerInv, SpreadInv
  <2> QED
    BY <2>2, <2>3 DEF MakerInv
<1>6. CASE Perts!SubtractMean
  <2>1. /\ maker = "subtract" /\ maker' = maker /\ made < nens /\ made' = made + 1
        /\ ensemblePerturbs' =
             [ensemblePerturbs EXCEPT ![made + 1] = ensemblePerturbs[made + 1] - mean]
        /\ UNCHANGED <<kind, states, other, mean, nens>>
    BY <1>6 DEF Perts!SubtractMean
  <2>2. /\ kind = "departures" /\ Len(ensemblePerturbs) = nens
        /\ \A k \in 1 .. nens :
             ensemblePerturbs[k] = IF k <= made THEN departure(k) - mean
                                   ELSE departure(k)
    BY <2>1 DEF MakerInv, SpreadInv
  <2> HIDE DEF departure
  <2>3. /\ ensemblePerturbs' \in Seq(Int) /\ Len(ensemblePerturbs') = nens
        /\ \A k \in 1 .. nens :
             ensemblePerturbs'[k] = IF k <= made + 1 THEN departure(k) - mean
                                    ELSE departure(k)
    BY <1>1, <2>1, <2>2
  <2> USE DEF departure
  <2>4. Perts!TypeOK'
    BY <1>1, <2>1, <2>2, <2>3 DEF MakerInv, Perts!TypeOK
  <2>5. SpreadInv'
    BY <1>1, <2>1, <2>2, <2>3 DEF SpreadInv
  <2> QED
    BY <2>4, <2>5 DEF MakerInv
<1>7. CASE Perts!SubtractDone
  <2>1. /\ maker = "subtract" /\ maker' = "done" /\ made = nens
        /\ UNCHANGED <<kind, states, other, made, mean, ensemblePerturbs, nens>>
    BY <1>7 DEF Perts!SubtractDone
  <2>2. Perts!TypeOK'
    BY <1>1, <2>1 DEF MakerInv, SpreadInv, Perts!TypeOK
  <2>3. SpreadInv'
    BY <1>1, <2>1 DEF MakerInv, SpreadInv
  <2> QED
    BY <2>2, <2>3 DEF MakerInv
<1>8. CASE Perts!StartDifferences
  BY <1>8 DEF MakerInv, SpreadInv, Perts!TypeOK, Perts!StartDifferences
<1>9. CASE Perts!Difference
  <2>1. /\ maker = "difference" /\ maker' = maker /\ made < nens /\ made' = made + 1
        /\ ensemblePerturbs' =
             Append(ensemblePerturbs, states[made + 1] - other[made + 1])
        /\ UNCHANGED <<kind, states, other, mean, nens>>
    BY <1>9 DEF Perts!Difference
  <2>2. kind = "differences" /\ Len(ensemblePerturbs) = made /\ nens = Len(other)
    BY <2>1 DEF MakerInv, SpreadInv
  <2>3. other[made + 1] \in Nat
    <3>1. PICK n \in 0 .. MaxMembers : other \in [1 .. n -> 0 .. MaxVal]
      BY DEF MakerInv, Perts!TypeOK
    <3> QED
      BY <1>1, <2>1, <2>2, <3>1
  <2>4. ensemblePerturbs' \in Seq(Int) /\ Len(ensemblePerturbs') = made + 1
    BY <1>1, <2>1, <2>2, <2>3
  <2>5. Perts!TypeOK'
    BY <1>1, <2>1, <2>2, <2>4 DEF MakerInv, Perts!TypeOK
  <2>6. SpreadInv'
    BY <2>1, <2>2, <2>4 DEF SpreadInv
  <2> QED
    BY <2>5, <2>6 DEF MakerInv
<1>10. CASE Perts!DifferencesDone
  BY <1>10 DEF MakerInv, SpreadInv, Perts!TypeOK, Perts!DifferencesDone
<1> QED
  BY <1>2, <1>3, <1>4, <1>5, <1>6, <1>7, <1>8, <1>9, <1>10 DEF Perts!Step

(* The ensemble at the start of the first job.                             *)
LEMMA MakerInit == Perts!Init => MakerInv
<1> SUFFICES ASSUME Perts!Init PROVE MakerInv
  OBVIOUS
<1> USE DEF Perts!Ensemble, Perts!nens
<1>1. states \in Perts!Ensemble /\ other \in Perts!Ensemble
  <2>1. <<>> \in [1 .. 0 -> 0 .. MaxVal] /\ 0 \in 0 .. MaxMembers
    BY MaxMembersAssumption
  <2>2. <<>> \in Perts!Ensemble
    BY <2>1
  <2> QED
    BY <2>2 DEF Perts!Init
<1>2. Perts!nens \in Nat
  <2>1. PICK n \in 0 .. MaxMembers : states \in [1 .. n -> 0 .. MaxVal]
    BY <1>1
  <2> QED
    BY <2>1
<1>3. ensemblePerturbs = <<>> /\ ensemblePerturbs \in Seq(Int)
  BY DEF Perts!Init
<1> QED
  BY <1>1, <1>2, <1>3 DEF Perts!Init, MakerInv, SpreadInv, Perts!TypeOK

(* The sum of the departures, one case per action.                         *)
LEMMA SumStep == ASSUME MakerInv, SumInv, Perts!Step PROVE SumInv'
<1> DEFINE nens == Perts!nens
           total == Perts!Sum(ensemblePerturbs)
<1>1. /\ nens \in Nat /\ made \in Nat /\ made <= nens /\ mean \in Nat
      /\ \A k \in 1 .. nens : states[k] \in Nat
      /\ ensemblePerturbs \in Seq(Int)
  BY StatesAreNatural DEF MakerInv, Perts!TypeOK
<1>2. CASE \/ Perts!NoMember \/ Perts!StartDifferences \/ Perts!Difference
           \/ Perts!DifferencesDone
  BY <1>2 DEF SumInv, MakerInv, SpreadInv, Perts!NoMember, Perts!StartDifferences,
     Perts!Difference, Perts!DifferencesDone, Perts!inputs
<1>3. CASE Perts!Reserve
  <2>1. /\ maker = "start" /\ maker' = "read" /\ made' = made /\ made = 0 /\ mean' = mean
        /\ ensemblePerturbs' = [m \in 1 .. nens |-> 0] /\ nens' = nens
    BY <1>3 DEF Perts!Reserve, Perts!inputs, MakerInv, SpreadInv, Perts!nens
  <2>2. mean = 0
    BY <2>1 DEF SumInv
  <2>3. total' = 0
    <3> DEFINE zeros == [m \in 1 .. nens |-> 0]
    <3>1. DOMAIN zeros = 1 .. nens /\ IsFiniteSet(1 .. nens)
      BY <1>1, FS_Interval
    <3>2. \A m \in DOMAIN zeros : zeros[m] = 0 /\ zeros[m] \in Int
      OBVIOUS
    <3> HIDE DEF zeros
    <3>3. Perts!Sum(zeros) = 0
      BY <3>1, <3>2, SumOfIntegers, Zenon
    <3> QED
      BY <2>1, <3>3 DEF zeros
  <2> QED
    BY <1>1, <2>1, <2>2, <2>3 DEF SumInv
<1>4. CASE Perts!ReadState
  <2> DEFINE j == made + 1
             d == nens * states[j]
  <2>1. /\ maker = "read" /\ maker' = maker /\ made < nens /\ made' = made + 1
        /\ mean' = mean + states[j]
        /\ ensemblePerturbs' = [ensemblePerturbs EXCEPT ![j] = d]
        /\ nens' = nens
    BY <1>4 DEF Perts!ReadState, Perts!inputs, Perts!nens
  <2>2. /\ Len(ensemblePerturbs) = nens /\ total = nens * mean
        /\ \A k \in j .. nens : ensemblePerturbs[k] = 0
    BY <2>1 DEF MakerInv, SpreadInv, SumInv
  <2>3. j \in 1 .. nens /\ states[j] \in Nat /\ d \in Int /\ ensemblePerturbs[j] = 0
    BY <1>1, <2>1, <2>2
  <2>4. total' = total + d
    <3> HIDE DEF j, d
    <3>1. ensemblePerturbs' = [ensemblePerturbs EXCEPT ![j] = ensemblePerturbs[j] + d]
      BY <2>1, <2>3
    <3> QED
      BY <1>1, <2>2, <2>3, <3>1, SumOfChangedEntry
  <2>5. nens * (mean + states[j]) = nens * mean + d
    BY <1>1, <2>3
  <2>6. \A k \in made' + 1 .. nens : ensemblePerturbs'[k] = 0
    <3> HIDE DEF d
    <3> QED
      BY <1>1, <2>1, <2>2
  <2> QED
    BY <2>1, <2>2, <2>4, <2>5, <2>6 DEF SumInv
<1>5. CASE Perts!MeanDone
  <2>1. /\ maker = "read" /\ maker' = "subtract" /\ made' = 0
        /\ UNCHANGED <<mean, ensemblePerturbs, nens>>
    BY <1>5 DEF Perts!MeanDone, Perts!inputs, Perts!nens
  <2> QED
    BY <1>1, <2>1 DEF SumInv
<1>6. CASE Perts!SubtractMean
  <2> DEFINE j == made + 1
             d == 0 - mean
  <2>1. /\ maker = "subtract" /\ maker' = maker /\ made < nens /\ made' = made + 1
        /\ ensemblePerturbs' =
             [ensemblePerturbs EXCEPT ![j] = ensemblePerturbs[j] - mean]
        /\ UNCHANGED <<mean, nens>>
    BY <1>6 DEF Perts!SubtractMean, Perts!inputs, Perts!nens
  <2>2. Len(ensemblePerturbs) = nens /\ total = (nens - made) * mean
    BY <2>1 DEF MakerInv, SpreadInv, SumInv
  <2>3. j \in 1 .. nens /\ d \in Int /\ ensemblePerturbs[j] \in Int
    BY <1>1, <2>1, <2>2
  <2>4. total' = total + d
    <3> HIDE DEF j
    <3>1. ensemblePerturbs[j] + d = ensemblePerturbs[j] - mean
      BY <1>1, <2>3
    <3> HIDE DEF d
    <3>2. ensemblePerturbs' = [ensemblePerturbs EXCEPT ![j] = ensemblePerturbs[j] + d]
      BY <2>1, <3>1, Zenon
    <3> QED
      BY <1>1, <2>2, <2>3, <3>2, SumOfChangedEntry
  <2>5. (nens - (made + 1)) * mean = (nens - made) * mean + d
    BY <1>1
  <2> QED
    BY <2>1, <2>2, <2>4, <2>5 DEF SumInv
<1>7. CASE Perts!SubtractDone
  <2>1. /\ maker = "subtract" /\ maker' = "done" /\ made = nens
        /\ UNCHANGED <<kind, mean, ensemblePerturbs, nens>>
    BY <1>7 DEF Perts!SubtractDone, Perts!inputs, Perts!nens
  <2> QED
    BY <1>1, <2>1 DEF SumInv
<1> QED
  BY <1>2, <1>3, <1>4, <1>5, <1>6, <1>7 DEF Perts!Step

(* What is on the disk, and what the reader has of it.                     *)
RereadInv ==
  /\ written \in 0 .. Len(ensemblePerturbs)
  /\ disk = [m \in 1 .. written |-> ensemblePerturbs[m]]
  /\ maker \notin {"done", "ABORT"} => written = 0
  /\ members \in Seq(Int) /\ Len(members) = Len(read)
  /\ missing \in BOOLEAN
  /\ pc = "deserialize" => ~missing
  /\ pc # "deserialize" => MakerEnded
  /\ \A k \in 1 .. Len(members) :
       members[k] = ensemblePerturbs[IF listed THEN k ELSE read[k]]
  /\ missing /\ (listed \/ (start = 1 /\ except = {})) => nmembers > written

EnsembleInv == IInv /\ MakerInv /\ RereadInv

(* The first job leaves the reader alone, and the reader the first job.    *)
LEMMA MakerInvIsPreserved == MakerInv /\ [EnsembleNext]_ensembleVars => MakerInv'
<1> SUFFICES ASSUME MakerInv, [EnsembleNext]_ensembleVars PROVE MakerInv'
  OBVIOUS
<1>1. CASE Make
  BY <1>1, MakerStep DEF Make
<1>2. CASE UNCHANGED making
  BY <1>2 DEF making, MakerInv, SpreadInv, Perts!TypeOK, Perts!nens
<1>3. CASE WriteFails
  BY <1>3 DEF WriteFails, MakerInv, SpreadInv, Perts!TypeOK, Perts!nens
<1> QED
  BY <1>1, <1>2, <1>3 DEF EnsembleNext, EnsembleStep, EnsembleTerminating, ensembleVars,
     Write, Search, ReadListed, ReadFound, ReadFails, ReadFile

LEMMA SumInvIsPreserved ==
  MakerInv /\ SumInv /\ [EnsembleNext]_ensembleVars => SumInv'
<1> SUFFICES ASSUME MakerInv, SumInv, [EnsembleNext]_ensembleVars PROVE SumInv'
  OBVIOUS
<1>1. CASE Make
  BY <1>1, SumStep DEF Make
<1>2. CASE UNCHANGED making
  BY <1>2 DEF making, SumInv, Perts!nens
<1>3. CASE WriteFails
  BY <1>3 DEF WriteFails, SumInv
<1> QED
  BY <1>1, <1>2, <1>3 DEF EnsembleNext, EnsembleStep, EnsembleTerminating, ensembleVars,
     Write, Search, ReadListed, ReadFound, ReadFails, ReadFile

(* A step of both jobs is one of the reader, or leaves it where it is.     *)
LEMMA StepIsOfReader == [EnsembleNext]_ensembleVars => [Next]_vars
<1> SUFFICES ASSUME [EnsembleNext]_ensembleVars PROVE Step \/ UNCHANGED vars
  BY DEF Next
<1>1. CASE Make \/ Write \/ WriteFails
  BY <1>1 DEF Make, Write, WriteFails
<1>2. CASE Search
  BY <1>2 DEF Search, Step
<1>3. CASE ReadListed \/ ReadFound
  BY <1>3 DEF ReadListed, ReadFound, Step
<1>4. CASE ReadFails \/ EnsembleTerminating \/ UNCHANGED ensembleVars
  BY <1>4 DEF ReadFails, EnsembleTerminating, ensembleVars
<1> QED
  BY <1>1, <1>2, <1>3, <1>4 DEF EnsembleNext, EnsembleStep

(* The reader gets what was written, under the numbers it was written with. *)
LEMMA RereadInvIsPreserved ==
  EnsembleInv /\ [EnsembleNext]_ensembleVars => RereadInv'
<1> SUFFICES ASSUME EnsembleInv, [EnsembleNext]_ensembleVars PROVE RereadInv'
  OBVIOUS
<1>0. /\ RereadInv /\ TypeOK
      /\ ensemblePerturbs \in Seq(Int) /\ read \in Seq(Nat)
      /\ Len(read) \in Nat /\ nmembers \in Nat /\ count \in Nat
  BY DEF EnsembleInv, IInv, MakerInv, Perts!TypeOK, TypeOK
<1>1. CASE Make
  <2>1. maker \notin {"done", "ABORT"} /\ written = 0
    BY <1>0, <1>1 DEF Make, Perts!Step, Perts!NoMember, Perts!Reserve, Perts!ReadState,
       Perts!MeanDone, Perts!SubtractMean, Perts!SubtractDone, Perts!StartDifferences,
       Perts!Difference, Perts!DifferencesDone, RereadInv
  <2>2. pc = "deserialize" /\ Len(read) = 0 /\ ~missing
    BY <1>0, <2>1 DEF RereadInv, MakerEnded, EnsembleInv, IInv, ReadInv
  <2>3. ensemblePerturbs' \in Seq(Int)
    BY MakerInvIsPreserved DEF EnsembleInv, MakerInv, Perts!TypeOK
  <2>4. disk = disk' /\ disk' = [m \in 1 .. 0 |-> ensemblePerturbs'[m]]
    BY <1>0, <1>1, <2>1 DEF RereadInv, Make
  <2> QED
    BY <1>0, <1>1, <2>1, <2>2, <2>3, <2>4 DEF Make, RereadInv, vars, reading
<1>2. CASE Write
  <2>1. /\ maker = "done" /\ maker' = maker /\ written < Len(ensemblePerturbs)
        /\ disk' = WriteAs(written + 1)
        /\ written' = written + 1
        /\ UNCHANGED <<vars, ensemblePerturbs, members, missing>>
    BY <1>2 DEF Write, making, reading
  <2>2. pc = "deserialize"
    BY <1>0, <2>1 DEF RereadInv, MakerEnded
  <2>3. disk' = [m \in 1 .. written' |-> ensemblePerturbs'[m]]
    <3>1. disk = [m \in 1 .. written |-> ensemblePerturbs[m]] /\ written \in Nat
      BY <1>0 DEF RereadInv
    <3>2. {written + 1} \cup (1 .. written) = 1 .. written + 1
      BY <3>1
    <3> QED
      BY <2>1, <3>1, <3>2 DEF WriteAs
  <2>4. \A k \in 1 .. Len(members) :
          members'[k] = ensemblePerturbs'[IF listed' THEN k ELSE read'[k]]
    BY <1>0, <2>1 DEF RereadInv, vars
  <2>5. written' \in 0 .. Len(ensemblePerturbs') /\ ~missing'
    BY <1>0, <2>1, <2>2 DEF RereadInv
  <2> QED
    BY <1>0, <2>1, <2>2, <2>3, <2>4, <2>5 DEF RereadInv, vars
<1>3. CASE WriteFails
  BY <1>0, <1>3 DEF WriteFails, RereadInv, MakerEnded, vars, reading
<1>4. CASE Search
  <2>1. /\ MakerEnded /\ ~missing /\ read' = read
        /\ UNCHANGED <<making, written, disk, members, missing>>
        /\ pc = "deserialize" \/ UNCHANGED config
        /\ pc' # "deserialize"
    BY <1>4 DEF Search, reading, Deserialize, Configured, NextFromTemplate, Skip, Pass,
       Constructed
  <2>2. pc = "deserialize" => Len(members) = 0
    BY <1>0 DEF EnsembleInv, IInv, ReadInv, RereadInv
  <2>3. MakerEnded'
    BY <2>1 DEF MakerEnded, making
  <2> QED
    BY <1>0, <2>1, <2>2, <2>3 DEF RereadInv, making, config
<1>5. CASE ReadListed
  <2>1. /\ MakerEnded /\ ~missing /\ listed /\ pc = "members" /\ pc' = pc
        /\ Len(read') = Len(read) + 1
        /\ members' = Append(members, disk[Len(read) + 1])
        /\ Len(read) + 1 \in DOMAIN disk
        /\ UNCHANGED <<config, making, written, disk, missing>>
    BY <1>0, <1>5 DEF ReadListed, NextListed, ListedDue, ReadFile, ie
  <2>2. /\ disk[Len(read) + 1] = ensemblePerturbs[Len(read) + 1]
        /\ ensemblePerturbs[Len(read) + 1] \in Int
    BY <1>0, <2>1 DEF RereadInv
  <2>3. MakerEnded'
    BY <2>1 DEF MakerEnded, making
  <2> QED
    BY <1>0, <2>1, <2>2, <2>3 DEF RereadInv, making, config
<1>6. CASE ReadFound
  <2>1. /\ MakerEnded /\ ~missing /\ pc = "search" /\ pc' = "members"
        /\ read' = Append(read, count)
        /\ members' = Append(members, disk[count])
        /\ count \in DOMAIN disk
        /\ UNCHANGED <<config, making, written, disk, missing>>
    BY <1>6 DEF ReadFound, Found, FoundDue, ReadFile
  <2>2. ~listed
    BY <2>1 DEF EnsembleInv, IInv, SearchInv
  <2>3. disk[count] = ensemblePerturbs[count] /\ ensemblePerturbs[count] \in Int
    BY <1>0, <2>1 DEF RereadInv
  <2>4. MakerEnded'
    BY <2>1 DEF MakerEnded, making
  <2> QED
    BY <1>0, <2>1, <2>2, <2>3, <2>4 DEF RereadInv, making, config
<1>7. CASE ReadFails
  <2>1. /\ MakerEnded /\ missing' = TRUE /\ pc # "deserialize"
        /\ UNCHANGED <<vars, making, written, disk, members>>
    BY <1>7 DEF ReadFails, ListedDue, FoundDue
  <2>2. ASSUME listed \/ (start = 1 /\ except = {}) PROVE nmembers > written
    <3>1. written \in Nat /\ DOMAIN disk = 1 .. written
      BY <1>0 DEF RereadInv
    <3>2. CASE ListedDue /\ ie + 1 \notin DOMAIN disk
      BY <1>0, <3>1, <3>2 DEF ListedDue, ie
    <3>3. CASE FoundDue /\ count \notin DOMAIN disk
      <4>1. /\ pc = "search" /\ ~listed /\ ie < nmembers
            /\ IsMember(count, ie)
        BY <3>3 DEF FoundDue, EnsembleInv, IInv, SearchInv, IsMember
      <4>2. ie \in Nat
        BY <1>0 DEF ie
      <4>3. count = ie + 1
        BY <1>0, <2>2, <4>1, <4>2, NumberedFromOne
      <4> QED
        BY <1>0, <3>1, <3>3, <4>1, <4>2, <4>3
    <3> QED
      BY <1>7, <3>2, <3>3 DEF ReadFails
  <2>3. MakerEnded'
    BY <2>1 DEF MakerEnded, making
  <2> QED
    BY <1>0, <2>1, <2>2, <2>3 DEF RereadInv, making, vars
<1>8. CASE UNCHANGED ensembleVars
  BY <1>0, <1>8 DEF RereadInv, MakerEnded, ensembleVars, vars, making, reading
<1> QED
  BY <1>1, <1>2, <1>3, <1>4, <1>5, <1>6, <1>7, <1>8
  DEF EnsembleNext, EnsembleStep, EnsembleTerminating

(* Nothing is made, written or read at first.                              *)
LEMMA EnsembleInitImpliesInv == EnsembleInit => EnsembleInv
<1> SUFFICES ASSUME EnsembleInit PROVE EnsembleInv
  OBVIOUS
<1>1. IInv /\ MakerInv
  BY InitImpliesIInv, MakerInit DEF EnsembleInit
<1>2. RereadInv
  <2>1. ensemblePerturbs = <<>> /\ maker = "start" /\ read = <<>> /\ pc = "deserialize"
    BY DEF EnsembleInit, Init, Perts!Init
  <2>2. disk = [m \in 1 .. 0 |-> ensemblePerturbs[m]]
    BY <2>1 DEF EnsembleInit
  <2>3. members \in Seq(Int) /\ Len(members) = 0 /\ Len(read) = 0
    BY <2>1 DEF EnsembleInit
  <2>4. written = 0 /\ missing = FALSE /\ Len(ensemblePerturbs) = 0
    BY <2>1 DEF EnsembleInit
  <2>5. missing \in BOOLEAN
    BY <2>4, Zenon
  <2>6. missing => FALSE
    BY <2>4, Zenon
  <2> QED
    BY <2>1, <2>2, <2>3, <2>4, <2>5, <2>6 DEF RereadInv
<1> QED
  BY <1>1, <1>2 DEF EnsembleInv

(* The inductive invariant of the two jobs together.                       *)
THEOREM EnsembleInvariance == EnsembleSpec => []EnsembleInv
<1>1. EnsembleInv /\ [EnsembleNext]_ensembleVars => EnsembleInv'
  BY StepIsOfReader, IInvIsInductive, MakerInvIsPreserved, RereadInvIsPreserved
  DEF EnsembleInv
<1> QED
  BY <1>1, EnsembleInitImpliesInv, PTL DEF EnsembleSpec

(* Departures from the mean add up to zero, for ensembles of every size.   *)
THEOREM DeparturesCancel == EnsembleSpec => []DeparturesAddToZero
<1>1. EnsembleInit => SumInv
  BY DEF EnsembleInit, Perts!Init, SumInv
<1>2. EnsembleInv => MakerInv
  BY DEF EnsembleInv
<1>3. SumInv => DeparturesAddToZero
  BY DEF SumInv, DeparturesAddToZero, Perts!DeparturesAddToZero
<1> QED
  BY <1>1, <1>2, <1>3, EnsembleInvariance, SumInvIsPreserved, PTL DEF EnsembleSpec

(* The reader among the files of another job is the reader of              *)
(* EnsembleMembers: no file found or missed changes which one it asks for. *)
THEOREM ReaderIsEnsembleMembers == EnsembleSpec => Spec
<1>1. EnsembleInit => Init
  BY DEF EnsembleInit
<1> QED
  BY <1>1, StepIsOfReader, PTL DEF EnsembleSpec, Spec

(* Members read from a template are the first ones it offers, for every    *)
(* first index, set of excluded indices, number of members and of files.   *)
THEOREM ReadMembersAreFirstOffered == EnsembleSpec => []FirstOffered
BY ReaderIsEnsembleMembers, MembersAreFirstOffered, PTL

(* A search takes a bounded number of turns, among the files as well.      *)
THEOREM ReaderSearchesEnd == EnsembleSpec => [][EveryTurnCounts]_vars
BY ReaderIsEnsembleMembers, SearchesEnd, PTL

(* How the jobs may end, whatever the configuration and the files: AllRead *)
(* is that they come to such an end.                                       *)
EndsAsAllRead ==
  EnsembleEnded =>
    \/ listed = template /\ pc = "UserError" /\ members = <<>>
    \/ listed # template /\ pc = "constructed" /\ Len(members) = nmembers
    \/ missing /\ Len(members) < nmembers

(* What a reader that has ended has read; what it needs besides the        *)
(* invariants is that only ends of its loop lead there.                    *)
EndInv ==
  /\ pc = "UserError" => listed = template
  /\ pc = "constructed" => Len(read) = nmembers
  /\ missing => Len(read) < nmembers

LEMMA EndInvIsPreserved == EnsembleInv /\ EndInv /\ [EnsembleNext]_ensembleVars => EndInv'
<1> SUFFICES ASSUME EnsembleInv, EndInv, [EnsembleNext]_ensembleVars PROVE EndInv'
  OBVIOUS
<1>0. /\ nmembers \in Nat /\ read \in Seq(Nat) /\ ie = Len(read)
      /\ pc = "deserialize" => ~missing
      /\ pc = "search" => ie < nmembers
  BY DEF EnsembleInv, IInv, TypeOK, SearchInv, RereadInv, ie
<1> USE DEF EndInv, config
<1>1. CASE Make \/ Write \/ WriteFails
  BY <1>1 DEF Make, Write, WriteFails, reading, vars
<1>2. CASE Search
  BY <1>0, <1>2 DEF Search, reading, Deserialize, Configured, NextFromTemplate, Skip, Pass,
     Constructed
<1>3. CASE ReadListed \/ ReadFound
  BY <1>0, <1>3 DEF ReadListed, ReadFound, ReadFile, NextListed, ListedDue, Found, FoundDue
<1>4. CASE ReadFails
  BY <1>0, <1>4 DEF ReadFails, ListedDue, FoundDue, vars
<1>5. CASE UNCHANGED ensembleVars
  BY <1>5 DEF ensembleVars, vars, reading
<1> QED
  BY <1>1, <1>2, <1>3, <1>4, <1>5 DEF EnsembleNext, EnsembleStep, EnsembleTerminating

(* A reader that ends has refused its configuration, read all it describes *)
(* or come to a file that is not there: the safety part of AllRead.        *)
THEOREM ReadersEndAsTheyShould == EnsembleSpec => []EndsAsAllRead
<1>1. EnsembleInit => EndInv
  BY DEF EnsembleInit, Init, EndInv
<1>2. EnsembleInv /\ EndInv => EndsAsAllRead
  <2> SUFFICES ASSUME EnsembleInv, EndInv, EnsembleEnded PROVE EndsAsAllRead
    BY DEF EndsAsAllRead
  <2>1. /\ members \in Seq(Int) /\ Len(members) = Len(read) /\ nmembers \in Nat
        /\ pc = "constructed" => listed # template
        /\ pc = "UserError" => read = <<>>
    BY DEF EnsembleInv, IInv, TypeOK, KindInv, ReadInv, RereadInv
  <2> QED
    BY <2>1 DEF EndsAsAllRead, EndInv, EnsembleEnded
<1> QED
  BY <1>1, <1>2, EnsembleInvariance, EndInvIsPreserved, PTL DEF EnsembleSpec

(* Type correctness of both jobs and of what is between them.              *)
THEOREM EnsembleTypeCorrect == EnsembleSpec => []EnsembleTypeOK
<1>1. EnsembleInv => EnsembleTypeOK
  BY DEF EnsembleInv, IInv, MakerInv, RereadInv, EnsembleTypeOK
<1> QED
  BY <1>1, EnsembleInvariance, PTL

(* Departures from the mean keep the spread of the states.                 *)
THEOREM DeparturesKeepSpread == EnsembleSpec => []SpreadIsKept
<1>1. EnsembleInv => SpreadIsKept
  <2> SUFFICES ASSUME EnsembleInv, kind = "departures", maker = "done",
                      NEW k \in 1 .. Perts!nens, NEW m \in 1 .. Perts!nens
               PROVE  ensemblePerturbs[k] - ensemblePerturbs[m]
                        = Perts!nens * (states[k] - states[m])
    BY DEF SpreadIsKept, Perts!SpreadIsKept
  <2>1. /\ ensemblePerturbs[k] = Perts!nens * states[k] - mean
        /\ ensemblePerturbs[m] = Perts!nens * states[m] - mean
    BY DEF EnsembleInv, MakerInv, SpreadInv
  <2>2. /\ Perts!nens \in Nat /\ states[k] \in Nat /\ states[m] \in Nat
        /\ mean \in Nat
    BY StatesAreNatural DEF EnsembleInv, MakerInv, Perts!TypeOK
  <2> QED
    BY <2>1, <2>2
<1> QED
  BY <1>1, EnsembleInvariance, PTL

(* A written ensemble is read back, member by member.                      *)
THEOREM WrittenEnsembleIsReread == EnsembleSpec => []WrittenIsReread
<1>1. EnsembleInv => WrittenIsReread
  <2> SUFFICES ASSUME EnsembleInv, listed \/ (start = 1 /\ except = {})
               PROVE  /\ \A k \in 1 .. Len(members) : members[k] = ensemblePerturbs[k]
                      /\ missing => nmembers > written
    BY DEF WrittenIsReread
  <2>1. ASSUME NEW k \in 1 .. Len(members) PROVE members[k] = ensemblePerturbs[k]
    <3>1. members[k] = ensemblePerturbs[IF listed THEN k ELSE read[k]]
      BY DEF EnsembleInv, RereadInv
    <3>2. CASE ~listed
      <4>1. Len(members) = Len(read) /\ read \in Seq(Nat)
        BY DEF EnsembleInv, RereadInv, IInv, TypeOK
      <4>2. template
        BY <3>2, <4>1 DEF EnsembleInv, IInv, ReadInv, KindInv, TypeOK
      <4>3. IsMember(read[k], k - 1) /\ read[k] \in Nat /\ k - 1 \in Nat
        BY <3>2, <4>1, <4>2 DEF EnsembleInv, IInv, FirstOffered
      <4>4. read[k] = k - 1 + 1
        BY <3>2, <4>3, NumberedFromOne
      <4> QED
        BY <3>1, <3>2, <4>4
    <3> QED
      BY <3>1, <3>2
  <2> QED
    BY <2>1 DEF EnsembleInv, RereadInv
<1> QED
  BY <1>1, EnsembleInvariance, PTL
=============================================================================
