------------------------ MODULE EnsembleMembersProofs ------------------------
(***************************************************************************)
(* The search of getIncrementParameters finds the right member, whatever   *)
(* the first index, the excluded indices and the number of members.        *)
(***************************************************************************)
EXTENDS EnsembleMembers, FiniteSetTheorems, TLAPS

(* In a search, jj is the number of offered indices before count, and a    *)
(* member is still missing.                                                *)
SearchInv ==
  pc = "search" => /\ ~listed
                   /\ count >= start
                   /\ Cardinality(OfferedBefore(count)) = jj
                   /\ jj <= ie
                   /\ ie < nmembers

(* Past the deserialisation the configuration has one kind of members.     *)
KindInv == pc \in {"members", "search", "constructed"} => listed # template

(* Nothing is read before the configuration, or under one that is refused. *)
ReadInv == pc \in {"deserialize", "UserError"} => read = <<>>

IInv == TypeOK /\ SearchInv /\ KindInv /\ FirstOffered /\ ReadInv

------------------------------------------------------------------------------
(* One more index offered, or one that is excluded.                        *)
LEMMA OfferedBeforeNext ==
  ASSUME TypeOK, NEW c \in Nat, c >= start
  PROVE  /\ IsFiniteSet(OfferedBefore(c))
         /\ c \in except => OfferedBefore(c + 1) = OfferedBefore(c)
         /\ c \notin except =>
              Cardinality(OfferedBefore(c + 1)) = Cardinality(OfferedBefore(c)) + 1
<1>1. IsFiniteSet(OfferedBefore(c))
  <2>1. IsFiniteSet(start .. c - 1)
    BY FS_Interval DEF TypeOK
  <2> QED
    BY <2>1, FS_Subset DEF OfferedBefore
<1>2. ASSUME c \in except
      PROVE  OfferedBefore(c + 1) = OfferedBefore(c)
  BY <1>2 DEF OfferedBefore, TypeOK
<1>3. ASSUME c \notin except
      PROVE  Cardinality(OfferedBefore(c + 1)) = Cardinality(OfferedBefore(c)) + 1
  <2>1. OfferedBefore(c + 1) = OfferedBefore(c) \cup {c} /\ c \notin OfferedBefore(c)
    BY <1>3 DEF OfferedBefore, TypeOK
  <2> QED
    BY <1>1, <2>1, FS_AddElement
<1> QED
  BY <1>1, <1>2, <1>3

(* Type correctness, one step per action.                                  *)
LEMMA TypeOKIsPreserved ==
  TypeOK /\ SearchInv /\ ReadInv /\ [Next]_vars => TypeOK'
<1> SUFFICES ASSUME TypeOK, SearchInv, ReadInv, [Next]_vars PROVE TypeOK'
  OBVIOUS
<1>0. ie \in Nat
  BY DEF TypeOK, ie
<1> USE DEF TypeOK, config
<1>1. CASE Deserialize
  <2>1. read = <<>> /\ read' = read
    BY <1>1 DEF Deserialize, Configured, ReadInv
  <2> QED
    BY <1>1, <2>1 DEF Deserialize, Configured
<1>2. CASE NextListed
  BY <1>0, <1>2 DEF NextListed, ListedDue, ie
<1>3. CASE NextFromTemplate
  BY <1>3, MaxIndexAssumption DEF NextFromTemplate
<1>4. CASE Skip
  BY <1>4 DEF Skip
<1>5. CASE Pass
  BY <1>5 DEF Pass
<1>6. CASE Found
  BY <1>6 DEF Found, FoundDue, SearchInv, ie
<1>7. CASE Constructed
  BY <1>7 DEF Constructed
<1>8. CASE UNCHANGED vars
  BY <1>8 DEF vars
<1> QED
  BY <1>1, <1>2, <1>3, <1>4, <1>5, <1>6, <1>7, <1>8 DEF Next, Step, Terminating

(* The search starts before any offered index and counts each one once.    *)
LEMMA SearchInvIsPreserved == TypeOK /\ SearchInv /\ [Next]_vars => SearchInv'
<1> SUFFICES ASSUME TypeOK, SearchInv, [Next]_vars PROVE SearchInv'
  OBVIOUS
<1>0. ie \in Nat /\ nmembers \in Nat /\ count \in Nat /\ jj \in Nat
  BY DEF TypeOK, ie
<1>1. CASE Deserialize
  BY <1>1 DEF Deserialize, Configured, SearchInv
<1>2. CASE NextListed
  BY <1>2 DEF NextListed, ListedDue, SearchInv
<1>3. CASE NextFromTemplate
  <2>1. /\ pc' = "search" /\ jj' = 0 /\ count' = start
        /\ ~listed' /\ start' = start /\ except' = except /\ nmembers' = nmembers
        /\ ie' = ie /\ ie < nmembers
    BY <1>3 DEF NextFromTemplate, config, ie
  <2>2. OfferedBefore(count)' = {}
    BY <2>1 DEF OfferedBefore, TypeOK
  <2>3. Cardinality(OfferedBefore(count)') = 0
    BY <2>2, FS_EmptySet
  <2> QED
    BY <1>0, <2>1, <2>3 DEF SearchInv, TypeOK
<1>4. CASE Skip
  <2>1. /\ pc = "search" /\ count \in except /\ count' = count + 1
        /\ UNCHANGED <<pc, listed, start, except, nmembers, jj, ie>>
    BY <1>4 DEF Skip, config, ie
  <2>2. /\ ~listed /\ count >= start /\ jj <= ie /\ ie < nmembers
        /\ Cardinality(OfferedBefore(count)) = jj
    BY <2>1 DEF SearchInv
  <2>3. OfferedBefore(count + 1) = OfferedBefore(count)
    BY <1>0, <2>1, <2>2, OfferedBeforeNext
  <2>4. OfferedBefore(count)' = OfferedBefore(count + 1)
    BY <2>1 DEF OfferedBefore
  <2>5. Cardinality(OfferedBefore(count)') = jj'
    BY <2>1, <2>2, <2>3, <2>4
  <2>6. count' >= start'
    BY <1>0, <2>1, <2>2 DEF TypeOK
  <2> QED
    BY <2>1, <2>2, <2>5, <2>6 DEF SearchInv
<1>5. CASE Pass
  <2>1. /\ pc = "search" /\ count \notin except /\ jj < ie
        /\ count' = count + 1 /\ jj' = jj + 1
        /\ UNCHANGED <<pc, listed, start, except, nmembers, ie>>
    BY <1>5 DEF Pass, config, ie
  <2>2. /\ ~listed /\ count >= start /\ ie < nmembers
        /\ Cardinality(OfferedBefore(count)) = jj
    BY <2>1 DEF SearchInv
  <2>3. Cardinality(OfferedBefore(count + 1)) = jj + 1
    BY <1>0, <2>1, <2>2, OfferedBeforeNext
  <2>4. OfferedBefore(count)' = OfferedBefore(count + 1)
    BY <2>1 DEF OfferedBefore
  <2>5. Cardinality(OfferedBefore(count)') = jj'
    BY <2>1, <2>3, <2>4
  <2>6. count' >= start' /\ jj' <= ie'
    BY <1>0, <2>1, <2>2 DEF TypeOK
  <2> QED
    BY <2>1, <2>2, <2>5, <2>6 DEF SearchInv
<1>6. CASE Found
  BY <1>6 DEF Found, FoundDue, SearchInv
<1>7. CASE Constructed
  BY <1>7 DEF Constructed, SearchInv
<1>8. CASE UNCHANGED vars
  BY <1>8 DEF vars, SearchInv, OfferedBefore, ie
<1> QED
  BY <1>1, <1>2, <1>3, <1>4, <1>5, <1>6, <1>7, <1>8 DEF Next, Step, Terminating

(* The members already found stay what they are.                           *)
LEMMA SameMembers ==
  ASSUME FirstOffered, UNCHANGED <<config, read>>
  PROVE  FirstOffered'
<1>1. \A c, k : IsMember(c, k)' <=> IsMember(c, k)
  BY DEF IsMember, OfferedBefore, config
<1> QED
  BY <1>1 DEF FirstOffered, config

(* The member found is the one the search was for.                         *)
LEMMA FirstOfferedIsPreserved ==
  TypeOK /\ SearchInv /\ ReadInv /\ FirstOffered /\ [Next]_vars => FirstOffered'
<1> SUFFICES ASSUME TypeOK, SearchInv, ReadInv, FirstOffered, [Next]_vars
             PROVE  FirstOffered'
  OBVIOUS
<1>1. CASE Deserialize
  <2>1. read' = <<>>
    BY <1>1 DEF Deserialize, Configured, ReadInv
  <2> QED
    BY <2>1 DEF FirstOffered
<1>2. CASE NextListed
  BY <1>2 DEF NextListed, ListedDue, FirstOffered, config
<1>3. CASE NextFromTemplate
  BY <1>3, SameMembers DEF NextFromTemplate
<1>4. CASE Skip
  BY <1>4, SameMembers DEF Skip
<1>5. CASE Pass
  BY <1>5, SameMembers DEF Pass
<1>6. CASE Found
  <2>1. /\ pc = "search" /\ count \notin except /\ jj = Len(read)
        /\ read' = Append(read, count)
        /\ UNCHANGED <<listed, template, start, except>>
    BY <1>6 DEF Found, FoundDue, config, ie
  <2>2. IsMember(count, Len(read))
    BY <2>1 DEF SearchInv, IsMember
  <2>3. /\ Len(read') = Len(read) + 1 /\ read'[Len(read) + 1] = count
        /\ \A k \in 1 .. Len(read) : read'[k] = read[k]
    BY <2>1 DEF TypeOK
  <2>4. \A c, k : IsMember(c, k)' <=> IsMember(c, k)
    BY <2>1 DEF IsMember, OfferedBefore
  <2>5. SUFFICES ASSUME template, ~listed, NEW k \in 1 .. Len(read')
                 PROVE  IsMember(read'[k], k - 1)
    BY <2>1, <2>4 DEF FirstOffered
  <2>6. CASE k \in 1 .. Len(read)
    BY <2>3, <2>5, <2>6 DEF FirstOffered
  <2>7. CASE k = Len(read) + 1
    <3>1. k - 1 = Len(read)
      BY <2>7 DEF TypeOK
    <3> QED
      BY <2>2, <2>3, <2>7, <3>1
  <2> QED
    BY <2>3, <2>6, <2>7 DEF TypeOK
<1>7. CASE Constructed
  BY <1>7, SameMembers DEF Constructed
<1>8. CASE UNCHANGED vars
  BY <1>8, SameMembers DEF vars, config
<1> QED
  BY <1>1, <1>2, <1>3, <1>4, <1>5, <1>6, <1>7, <1>8 DEF Next, Step, Terminating

(* Only deserialize enters the states KindInv is about.                    *)
LEMMA KindInvIsPreserved == KindInv /\ [Next]_vars => KindInv'
<1> USE DEF KindInv, config
<1>1. ASSUME KindInv, Deserialize PROVE KindInv'
  BY <1>1 DEF Deserialize, Configured
<1>2. ASSUME KindInv, NextListed PROVE KindInv'
  BY <1>2 DEF NextListed, ListedDue
<1>3. ASSUME KindInv, NextFromTemplate PROVE KindInv'
  BY <1>3 DEF NextFromTemplate
<1>4. ASSUME KindInv, Skip \/ Pass \/ Found PROVE KindInv'
  BY <1>4 DEF Skip, Pass, Found, FoundDue
<1>5. ASSUME KindInv, Constructed PROVE KindInv'
  BY <1>5 DEF Constructed
<1>6. ASSUME KindInv, UNCHANGED vars PROVE KindInv'
  BY <1>6 DEF vars
<1> QED
  BY <1>1, <1>2, <1>3, <1>4, <1>5, <1>6 DEF Next, Step, Terminating

(* Every step leaves the deserialisation or has left it.                   *)
LEMMA ReadInvIsPreserved == ReadInv /\ [Next]_vars => ReadInv'
BY DEF ReadInv, Next, Step, Terminating, Deserialize, Configured, NextListed,
  ListedDue, NextFromTemplate, Skip, Pass, Found, FoundDue, Constructed, vars

(* Nothing is read or searched at first.                                   *)
LEMMA InitImpliesIInv == Init => IInv
<1> SUFFICES ASSUME Init PROVE IInv
  OBVIOUS
<1>1. TypeOK
  <2>1. read \in Seq(Nat) /\ Len(read) = 0
    BY DEF Init
  <2>2. /\ nmembers \in 0 .. MaxMembers /\ start \in 0 .. MaxIndex
        /\ except \subseteq 0 .. MaxIndex
    BY MaxMembersAssumption, MaxIndexAssumption DEF Init
  <2>3. Len(read) <= nmembers
    BY <2>1 DEF Init
  <2>4. listed \in BOOLEAN /\ template \in BOOLEAN
    BY Zenon DEF Init
  <2>5. /\ pc \in {"deserialize", "UserError", "members", "search", "constructed"}
        /\ jj \in Nat /\ count \in Nat
    BY DEF Init
  <2> QED
    BY <2>1, <2>2, <2>3, <2>4, <2>5 DEF TypeOK
<1>2. SearchInv /\ KindInv /\ FirstOffered /\ ReadInv
  BY DEF Init, SearchInv, KindInv, FirstOffered, ReadInv
<1> QED
  BY <1>1, <1>2 DEF IInv

(* The inductive step, from the lemmas on its parts.                       *)
LEMMA IInvIsInductive == IInv /\ [Next]_vars => IInv'
BY TypeOKIsPreserved, SearchInvIsPreserved, KindInvIsPreserved,
   FirstOfferedIsPreserved, ReadInvIsPreserved
DEF IInv

(* The inductive invariant holds throughout.                               *)
THEOREM Invariance == Spec => []IInv
BY InitImpliesIInv, IInvIsInductive, PTL DEF Spec

(* Members made from a template are the first ones it offers, for every    *)
(* first index, set of excluded indices and number of members.             *)
THEOREM MembersAreFirstOffered == Spec => []FirstOffered
<1>1. IInv => FirstOffered
  BY DEF IInv
<1> QED
  BY <1>1, Invariance, PTL

(* The turns that a search has still to make: the members to be passed and *)
(* the excluded indices that it has not come to.                           *)
TurnsLeft == (ie - jj) + Cardinality({i \in except : i >= count})

(* A search is over after as many turns as there are members before and    *)
(* indices excluded: each turn is one less, and the member is found when   *)
(* none is left, if not before.                                            *)
EveryTurnCounts ==
  pc = "search" =>
    /\ TurnsLeft \in Nat
    /\ \/ pc' = "search" /\ TurnsLeft' = TurnsLeft - 1
       \/ pc' = "members" /\ Len(read') = Len(read) + 1

(* The searches of getIncrementParameters end, whatever is excluded: the   *)
(* loops of base/IncrementEnsemble.h:139-149 go only forward.              *)
THEOREM SearchesEnd == Spec => [][EveryTurnCounts]_vars
<1>1. ASSUME IInv, [Next]_vars PROVE [EveryTurnCounts]_vars
  <2> SUFFICES ASSUME pc = "search", Step PROVE EveryTurnCounts
    BY <1>1 DEF EveryTurnCounts, Next, Terminating
  <2> DEFINE ahead(c) == {i \in except : i >= c}
  <2>1. /\ count \in Nat /\ jj \in Nat /\ ie \in Nat /\ jj <= ie /\ except \subseteq Nat
        /\ Len(read) \in Nat /\ read \in Seq(Nat)
    BY <1>1 DEF IInv, TypeOK, SearchInv, ie
  <2>2. IsFiniteSet(ahead(count)) /\ Cardinality(ahead(count)) \in Nat
    <3>1. except \subseteq 0 .. MaxIndex /\ IsFiniteSet(0 .. MaxIndex)
      BY <1>1, MaxIndexAssumption, FS_Interval DEF IInv, TypeOK
    <3> QED
      BY <3>1, FS_Subset, FS_CardinalityType
  <2>3. TurnsLeft \in Nat
    BY <2>1, <2>2 DEF TurnsLeft
  <2>4. \A i \in except : i >= count <=> i = count \/ i >= count + 1
    BY <2>1
  <2>5. CASE Skip
    <3>1. /\ count \in except /\ count' = count + 1
          /\ UNCHANGED <<except, pc, jj, ie>>
      BY <2>5 DEF Skip, config, ie
    <3>2. count \in ahead(count) /\ ahead(count + 1) = ahead(count) \ {count}
      <4>1. count >= count /\ ~(count >= count + 1)
        BY <2>1
      <4> QED
        BY <2>4, <3>1, <4>1
    <3> HIDE DEF ahead
    <3>3. Cardinality(ahead(count + 1)) = Cardinality(ahead(count)) - 1
      BY <2>2, <3>2, FS_RemoveElement
    <3>4. TurnsLeft' = (ie - jj) + Cardinality(ahead(count + 1))
      BY <3>1 DEF TurnsLeft, ahead
    <3>5. TurnsLeft = (ie - jj) + Cardinality(ahead(count))
      BY DEF TurnsLeft, ahead
    <3> QED
      BY <2>1, <2>2, <2>3, <3>1, <3>3, <3>4, <3>5 DEF EveryTurnCounts
  <2>6. CASE Pass
    <3>1. /\ count \notin except /\ count' = count + 1 /\ jj' = jj + 1
          /\ UNCHANGED <<except, pc, ie>>
      BY <2>6 DEF Pass, config, ie
    <3>2. ahead(count + 1) = ahead(count)
      BY <2>4, <3>1
    <3>3. TurnsLeft' = (ie - (jj + 1)) + Cardinality(ahead(count + 1))
      BY <3>1 DEF TurnsLeft
    <3>4. TurnsLeft = (ie - jj) + Cardinality(ahead(count))
      BY DEF TurnsLeft
    <3> HIDE DEF ahead
    <3> QED
      BY <2>1, <2>2, <2>3, <3>1, <3>2, <3>3, <3>4 DEF EveryTurnCounts
  <2>7. CASE Found
    BY <2>1, <2>3, <2>7 DEF Found, EveryTurnCounts
  <2> QED
    BY <2>5, <2>6, <2>7 DEF Step, Deserialize, Configured, NextListed, ListedDue,
       NextFromTemplate, Constructed
<1> QED
  BY <1>1, Invariance, PTL DEF Spec

(* Without exclusions, the member number k of a template that starts at 1, *)
(* counted from 0, has index k + 1.                                        *)
LEMMA NumberedFromOne ==
  ASSUME start = 1, except = {}, NEW c \in Nat, NEW k \in Nat, IsMember(c, k)
  PROVE  c = k + 1
<1>1. c >= 1 /\ Cardinality(OfferedBefore(c)) = k
  BY DEF IsMember
<1>2. OfferedBefore(c) = 1 .. c - 1
  BY DEF OfferedBefore
<1> DEFINE top == c - 1
<1>3. top \in Int /\ top >= 0
  BY <1>1
<1> HIDE DEF top
<1>4. Cardinality(1 .. top) = IF 1 > top THEN 0 ELSE top - 1 + 1
  <2>1. 1 \in Int
    OBVIOUS
  <2> QED
    BY <1>3, <2>1, FS_Interval, Zenon
<1>5. Cardinality(1 .. top) = top
  BY <1>3, <1>4
<1> QED
  BY <1>1, <1>2, <1>5 DEF top
=============================================================================
