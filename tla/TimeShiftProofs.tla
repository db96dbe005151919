--------------------------- MODULE TimeShiftProofs ---------------------------
(***************************************************************************)
(* Proofs about TimeShift, for every number of ranks and every program of  *)
(* calls.  The tags of a process count the shifts it has completed, so the *)
(* invariant relates them to the script: two calls of one method never     *)
(* have the same count behind them.                                        *)
(***************************************************************************)
EXTENDS TimeShift, FiniteInduction

(* The calls 1 .. n of script s that are in a set, and their number.       *)
Calls(s, set, n) == {i \in 1 .. n : s[i] \in set}
Count(s, set, n) == Cardinality(Calls(s, set, n))

Of(m) == {c \in Call : c.method = m}
TimeReduction == {c \in Call : ~IsShift(c) /\ OnTime(c)}

(* How far a rank can be inside which call.                                *)
PcInv ==
  \A r \in Rank :
    /\ pc[r] # "enter" => call[r] \in CallNo
    /\ pc[r] \in {"sending", "sent"} => IsShift(Current(r))
    /\ pc[r] = "reducing" => ~IsShift(Current(r))

TagInv ==
  \A r \in Rank, m \in ShiftMethods :
    tag[r][m] = FirstTag[m] + Count(script, Of(m), call[r] - 1)

HasSent(s, k) == \/ call[s] > k
                 \/ call[s] = k /\ pc[s] \in {"sending", "sent"}

(* A message was sent in the call it carries, to that call's destination.  *)
NetInv ==
  \A m \in net :
    LET c == script[m.call] IN
      /\ HasSent(m.src, m.call)
      /\ IsShift(c) /\ HasDest(c, m.src)
      /\ m.dst = Dest(c, m.src)
      /\ m.tag = FirstTag[c.method] + Count(script, Of(c.method), m.call - 1)

OnePerCall ==
  \A m, n \in net : m.src = n.src /\ m.call = n.call => m = n

(* All ranks have completed the same number of reductions through time.    *)
ReduceInv ==
  \A r, q \in Rank : Count(script, TimeReduction, call[r] - 1)
                      = Count(script, TimeReduction, call[q] - 1)

(* A rank past a shift with a source was preceded by its source.           *)
FedInv ==
  \A r \in Rank : \A k \in 1 .. call[r] - 1 :
    IsShift(script[k]) /\ HasSource(script[k], r) =>
      HasSent(Source(script[k], r), k)

(* A message that was sent and not received is in the network.             *)
NoneLost ==
  \A r \in Rank, k \in CallNo :
    LET c == script[k] IN
      IsShift(c) /\ HasSource(c, r) /\ HasSent(Source(c, r), k) /\ call[r] <= k =>
        \E m \in net : m.dst = r /\ m.call = k

IInv == TypeOK /\ PcInv /\ TagInv /\ NetInv /\ OnePerCall /\ FedInv
          /\ NoneLeftBehind /\ ReduceInv /\ NoneLost

------------------------------------------------------------------------------
(* Counting the calls in a set.                                             *)

(* The number of calls in a set is a natural number and grows by one       *)
(* with each of them.                                                      *)
LEMMA CountNext ==
  ASSUME NEW s, NEW set, NEW n \in Nat \ {0}
  PROVE  /\ Count(s, set, n - 1) \in Nat
         /\ Count(s, set, n) =
              Count(s, set, n - 1) + (IF s[n] \in set THEN 1 ELSE 0)
<1>1. IsFiniteSet(Calls(s, set, n - 1))
  <2>1. IsFiniteSet(1 .. n - 1)
    BY FS_Interval
  <2> QED
    BY <2>1, FS_Subset DEF Calls
<1>2. Count(s, set, n - 1) \in Nat
  BY <1>1, FS_CardinalityType DEF Count
<1>3. CASE s[n] \in set
  <2>1. Calls(s, set, n) = Calls(s, set, n - 1) \cup {n} /\ n \notin Calls(s, set, n - 1)
    BY <1>3 DEF Calls
  <2> QED
    BY <1>1, <1>2, <1>3, <2>1, FS_AddElement DEF Count
<1>4. CASE s[n] \notin set
  <2>1. Calls(s, set, n) = Calls(s, set, n - 1)
    BY <1>4 DEF Calls
  <2> QED
    BY <1>2, <1>4, <2>1 DEF Count
<1> QED
  BY <1>2, <1>3, <1>4

(* A call in a set counts from the next call on.                           *)
LEMMA CountGrows ==
  ASSUME NEW s, NEW set, NEW i \in Nat \ {0}, NEW j \in Nat, i < j, s[i] \in set
  PROVE  Count(s, set, i - 1) < Count(s, set, j - 1)
<1>1. IsFiniteSet(Calls(s, set, j - 1))
  <2>1. IsFiniteSet(1 .. j - 1)
    BY FS_Interval
  <2> QED
    BY <2>1, FS_Subset DEF Calls
<1>2. Calls(s, set, i) \subseteq Calls(s, set, j - 1)
  BY DEF Calls
<1>3. Count(s, set, i) <= Count(s, set, j - 1) /\ Count(s, set, i) \in Nat
           /\ Count(s, set, j - 1) \in Nat
  BY <1>1, <1>2, FS_Subset, FS_CardinalityType DEF Count
<1>4. Count(s, set, i) = Count(s, set, i - 1) + 1 /\ Count(s, set, i - 1) \in Nat
  BY CountNext
<1> QED
  BY <1>3, <1>4

(* Two calls in one set have different counts behind them.                 *)
LEMMA CountDistinguishes ==
  ASSUME NEW s, NEW set, NEW i \in CallNo, NEW j \in CallNo,
         s[i] \in set, s[j] \in set, Count(s, set, i - 1) = Count(s, set, j - 1)
  PROVE  i = j
<1> USE MaxCallsAssumption DEF CallNo
<1>1. Count(s, set, i - 1) \in Nat /\ Count(s, set, j - 1) \in Nat
  BY CountNext
<1>2. CASE i < j
  BY <1>1, <1>2, CountGrows
<1>3. CASE j < i
  BY <1>1, <1>3, CountGrows
<1> QED
  BY <1>2, <1>3

(* A destination has the sender as its source, and a rank that is some     *)
(* sender's destination has it as its source.                              *)
LEMMA DestHasSource ==
  ASSUME NEW c \in Call, NEW r \in Rank, IsShift(c), HasDest(c, r)
  PROVE  Dest(c, r) \in Rank /\ HasSource(c, Dest(c, r)) /\ Source(c, Dest(c, r)) = r
BY SizeAssumption DEF Rank, Call, IsShift, HasDest, Dest, HasSource, Source, OnTime

(* In a call, a rank is the destination of its source only.                *)
LEMMA SourceIsUnique ==
  ASSUME NEW c \in Call, NEW q \in Rank, NEW r \in Rank, IsShift(c),
         HasDest(c, q), r = Dest(c, q)
  PROVE  q = Source(c, r) /\ HasSource(c, r)
BY SizeAssumption DEF Rank, Call, IsShift, HasDest, Dest, HasSource, Source, OnTime

------------------------------------------------------------------------------
(* The messages a receive can match.                                       *)

(* The tag alone identifies the call.                                      *)
LEMMA MatchingIsOfTheCall ==
  ASSUME TypeOK, TagInv, PcInv, NetInv,
         NEW r \in Rank, Active(r, "sent"), NEW m \in Matching(r)
  PROVE  m.call = call[r]
<1> DEFINE c == script[m.call]
           d == Current(r)
<1> USE DEF Active
<1>1. m \in Message /\ m \in net /\ m.dst = r /\ m.src = Source(d, r)
        /\ m.tag = tag[r][d.method]
  BY DEF Matching, TypeOK
<1>2. c \in Call /\ d \in Call /\ m.call \in CallNo /\ m.src \in Rank
  BY <1>1 DEF TypeOK, Message, Current
<1>3. IsShift(d)
  BY DEF PcInv
<1>4. /\ IsShift(c) /\ HasDest(c, m.src) /\ r = Dest(c, m.src)
      /\ m.tag = FirstTag[c.method] + Count(script, Of(c.method), m.call - 1)
  BY <1>1 DEF NetInv
<1>5. c.method = d.method
  <2>1. m.src = Source(c, r)
    BY <1>2, <1>4, SourceIsUnique
  <2> QED
    BY <1>1, <1>2, <1>3, <1>4, <2>1 DEF Source, IsShift, ShiftMethods, Rank
<1>6. tag[r][d.method] = FirstTag[d.method] + Count(script, Of(d.method), call[r] - 1)
  BY <1>3 DEF TagInv, IsShift
<1>7. FirstTag[d.method] \in Int
  BY <1>3 DEF FirstTag, IsShift
<1>8. /\ Count(script, Of(d.method), call[r] - 1) \in Nat
      /\ Count(script, Of(d.method), m.call - 1) \in Nat
  BY <1>2, MaxCallsAssumption, CountNext DEF CallNo
<1>9. Count(script, Of(d.method), m.call - 1) = Count(script, Of(d.method), call[r] - 1)
  BY <1>1, <1>4, <1>5, <1>6, <1>7, <1>8
<1> QED
  BY <1>2, <1>5, <1>9, CountDistinguishes DEF Current, Of

(* What a rank has sent it has sent for good.                              *)
LEMMA HasSentIsStable ==
  ASSUME TypeOK, PcInv, Next, NEW s \in Rank, NEW k \in CallNo, HasSent(s, k)
  PROVE  HasSent(s, k)'
<1> USE DEF HasSent, TypeOK, PcInv, Active, CallNo
<1>1. ASSUME NEW r \in Rank, Step(r) \/ SendBuffered(r)
      PROVE  HasSent(s, k)'
  <2>1. CASE ShiftSend(r) \/ ShiftNoSend(r) \/ ReduceArrive(r)
    BY <2>1 DEF ShiftSend, ShiftNoSend, ReduceArrive
  <2>2. CASE SendReturns(r) \/ SendBuffered(r)
    BY <2>2 DEF SendReturns, SendBuffered
  <2>3. CASE ShiftReceive(r) \/ ShiftZero(r) \/ ReduceAlone(r)
    <3>1. call' = [call EXCEPT ![r] = @ + 1] /\ pc' = [pc EXCEPT ![r] = "enter"]
      BY <2>3 DEF ShiftReceive, ShiftZero, ShiftDone, ReduceAlone
    <3> QED
      BY <3>1, MaxCallsAssumption
  <2> QED
    BY <1>1, <2>1, <2>2, <2>3 DEF Step
<1>2. CASE AllReduce
  BY <1>2, MaxCallsAssumption DEF AllReduce
<1>3. CASE Terminating
  BY <1>3 DEF Terminating, vars
<1> QED
  BY <1>1, <1>2, <1>3 DEF Next

------------------------------------------------------------------------------
(* The invariant is inductive: one lemma per conjunct or two that need the *)
(* same facts, one step per kind of action.                                *)

(* A shift, or a reduction on mpi::myself(), returns on rank r.            *)
Returns(r) == ShiftReceive(r) \/ ShiftZero(r) \/ ReduceAlone(r)

(* A rank that returns goes to its next call; the others stay.             *)
LEMMA ReturnsEffect ==
  ASSUME NEW r \in Rank, Returns(r), TypeOK, PcInv
  PROVE  /\ call[r] \in CallNo /\ Current(r) \in Call
         /\ call' = [call EXCEPT ![r] = @ + 1]
         /\ pc' = [pc EXCEPT ![r] = "enter"]
         /\ net' \subseteq net /\ UNCHANGED script
<1>1. call[r] \in CallNo
  BY DEF Returns, ShiftReceive, ShiftZero, ReduceAlone, Active
<1>2. net' \subseteq net
  BY DEF Returns, ShiftReceive, ShiftZero, ReduceAlone
<1>3. /\ call' = [call EXCEPT ![r] = @ + 1]
      /\ pc' = [pc EXCEPT ![r] = "enter"]
      /\ UNCHANGED script
  BY DEF Returns, ShiftReceive, ShiftZero, ReduceAlone, ShiftDone
<1> QED
  BY <1>1, <1>2, <1>3 DEF TypeOK, Current

(* The steps that stay inside a call of rank r and send nothing.           *)
Waits(r) == ShiftNoSend(r) \/ SendReturns(r) \/ SendBuffered(r) \/ ReduceArrive(r)

(* These steps change nothing but where rank r is inside its call.         *)
LEMMA WaitsEffect ==
  ASSUME NEW r \in Rank, Waits(r), TypeOK, PcInv
  PROVE  /\ call[r] \in CallNo
         /\ UNCHANGED <<script, call, net, tag, dx, zz>>
         /\ \/ pc' = [pc EXCEPT ![r] = "sent"] /\ IsShift(Current(r))
            \/ pc' = [pc EXCEPT ![r] = "reducing"] /\ ~IsShift(Current(r))
BY DEF Waits, ShiftNoSend, SendReturns, SendBuffered, ReduceArrive, Active, PcInv

(* Every step is one of the kinds that the lemmas below go through.        *)
LEMMA NextCases ==
  ASSUME [Next]_vars
  PROVE  \/ \E r \in Rank : ShiftSend(r) \/ Waits(r) \/ Returns(r)
         \/ AllReduce
         \/ UNCHANGED vars
BY DEF Next, Step, Waits, Returns, Terminating

(* Type correctness, one step per kind of action.                          *)
LEMMA TypeOKIsPreserved ==
  ASSUME TypeOK, PcInv, [Next]_vars
  PROVE  TypeOK'
<1>1. ASSUME NEW r \in Rank, ShiftSend(r)
      PROVE  TypeOK'
  <2>1. call[r] \in CallNo /\ Current(r) \in Call
    BY <1>1 DEF ShiftSend, Active, Current, TypeOK
  <2>2. Dest(Current(r), r) \in Rank
    BY <1>1, <2>1, DestHasSource DEF ShiftSend
  <2>3. tag[r][Current(r).method] \in Int
    BY <1>1 DEF ShiftSend, IsShift, TypeOK
  <2>4. net' \subseteq Message
    BY <1>1, <2>1, <2>2, <2>3 DEF ShiftSend, Message, Serialize, TypeOK
  <2>5. pc' \in [Rank -> {"enter", "sending", "sent", "reducing"}]
    BY <1>1 DEF ShiftSend, TypeOK
  <2> QED
    BY <1>1, <2>4, <2>5 DEF ShiftSend, TypeOK
<1>2. ASSUME NEW r \in Rank, Waits(r)
      PROVE  TypeOK'
  <2>1. /\ UNCHANGED <<script, call, net, tag, dx, zz>>
        /\ \E step \in {"sent", "reducing"} : pc' = [pc EXCEPT ![r] = step]
    BY <1>2, WaitsEffect
  <2>2. pc' \in [Rank -> {"enter", "sending", "sent", "reducing"}]
    BY <2>1 DEF TypeOK
  <2> QED
    BY <2>1, <2>2 DEF TypeOK
<1>3. ASSUME NEW r \in Rank, Returns(r)
      PROVE  TypeOK'
  <2>0. /\ call[r] \in CallNo
        /\ call' = [call EXCEPT ![r] = @ + 1]
        /\ pc' = [pc EXCEPT ![r] = "enter"]
        /\ net' \subseteq net /\ UNCHANGED script
    BY <1>3, ReturnsEffect
  <2>1. /\ call' \in [Rank -> 1 .. MaxCalls + 1]
        /\ pc' \in [Rank -> {"enter", "sending", "sent", "reducing"}]
        /\ net' \subseteq Message /\ script' \in [CallNo -> Call]
    BY <2>0, MaxCallsAssumption DEF CallNo, TypeOK
  <2>2. CASE ReduceAlone(r)
    BY <2>1, <2>2 DEF ReduceAlone, TypeOK
  <2>3. CASE ShiftReceive(r) \/ ShiftZero(r)
    <3>1. IsShift(Current(r)) /\ pc[r] = "sent"
      BY <2>3 DEF PcInv, ShiftReceive, ShiftZero, Active
    <3>2. tag[r][Current(r).method] \in Int
      BY <3>1 DEF IsShift, TypeOK
    <3>3. NextTag(Current(r), r) \in Int
      BY <3>2 DEF NextTag
    <3>4. tag' \in [Rank -> [ShiftMethods -> Int]]
      <4>1. tag' = [tag EXCEPT ![r][Current(r).method] = NextTag(Current(r), r)]
        BY <2>3 DEF ShiftReceive, ShiftZero, ShiftDone
      <4>2. [tag[r] EXCEPT ![Current(r).method] = NextTag(Current(r), r)]
              \in [ShiftMethods -> Int]
        BY <3>3 DEF TypeOK
      <4> QED
        BY <4>1, <4>2 DEF TypeOK
    <3>5. dx' \in [Rank -> Int]
      BY <2>3 DEF ShiftReceive, ShiftZero, Deserialize, WithoutSource, TypeOK
    <3>6. zz' = zz
      BY <2>3 DEF ShiftReceive, ShiftZero
    <3> QED
      BY <2>1, <3>4, <3>5, <3>6 DEF TypeOK
  <2> QED
    BY <1>3, <2>2, <2>3 DEF Returns
<1>4. CASE AllReduce
  <2>1. call' \in [Rank -> 1 .. MaxCalls + 1]
    BY <1>4, MaxCallsAssumption DEF AllReduce, Active, CallNo, TypeOK
  <2>2. \A q \in Rank : dx[q] * dx[q] \in Int
    BY DEF TypeOK
  <2>3. zz' \in [Rank -> [Rank -> Int]]
    BY <1>4, <2>2 DEF AllReduce, Terms
  <2> QED
    BY <1>4, <2>1, <2>3 DEF AllReduce, TypeOK
<1>5. CASE UNCHANGED vars
  BY <1>5 DEF vars, TypeOK
<1> QED
  BY <1>1, <1>2, <1>3, <1>4, <1>5, NextCases

(* A rank is in a part of a method only while it is in a call of it.       *)
LEMMA PcInvIsPreserved ==
  ASSUME TypeOK, PcInv, [Next]_vars
  PROVE  PcInv'
<1>1. ASSUME NEW r \in Rank, ShiftSend(r)
      PROVE  PcInv'
  BY <1>1 DEF ShiftSend, Active, PcInv, TypeOK, Current
<1>2. ASSUME NEW r \in Rank, Waits(r)
      PROVE  PcInv'
  <2>1. /\ call[r] \in CallNo /\ UNCHANGED <<script, call>>
        /\ \/ pc' = [pc EXCEPT ![r] = "sent"] /\ IsShift(Current(r))
           \/ pc' = [pc EXCEPT ![r] = "reducing"] /\ ~IsShift(Current(r))
    BY <1>2, WaitsEffect
  <2> QED
    BY <2>1 DEF PcInv, TypeOK, Current
<1>3. ASSUME NEW r \in Rank, Returns(r)
      PROVE  PcInv'
  <2>1. /\ call' = [call EXCEPT ![r] = @ + 1]
        /\ pc' = [pc EXCEPT ![r] = "enter"]
        /\ UNCHANGED script
    BY <1>3, ReturnsEffect
  <2> QED
    BY <2>1 DEF PcInv, TypeOK, Current
<1>4. CASE AllReduce
  BY <1>4 DEF AllReduce, PcInv
<1>5. CASE UNCHANGED vars
  BY <1>5 DEF vars, PcInv, Current
<1> QED
  BY <1>1, <1>2, <1>3, <1>4, <1>5, NextCases

(* Each counter counts the calls of its method that have returned.         *)
LEMMA TagInvIsPreserved ==
  ASSUME TypeOK, PcInv, TagInv, [Next]_vars
  PROVE  TagInv'
<1>1. ASSUME NEW r \in Rank, ShiftSend(r) \/ Waits(r)
      PROVE  TagInv'
  <2>1. UNCHANGED <<script, call, tag>>
    BY <1>1, WaitsEffect DEF ShiftSend
  <2> QED
    BY <2>1 DEF TagInv
<1>2. ASSUME NEW r \in Rank, Returns(r)
      PROVE  TagInv'
  <2>1. /\ call[r] \in CallNo /\ call[r] \in Nat \ {0}
        /\ call' = [call EXCEPT ![r] = @ + 1] /\ UNCHANGED script
    BY <1>2, ReturnsEffect, MaxCallsAssumption DEF CallNo
  <2>2. SUFFICES ASSUME NEW q \in Rank, NEW m \in ShiftMethods
                 PROVE  tag'[q][m] = FirstTag[m] + Count(script, Of(m), call'[q] - 1)
    BY <2>1 DEF TagInv
  <2>3. tag[q][m] = FirstTag[m] + Count(script, Of(m), call[q] - 1)
    BY DEF TagInv
  <2>4. CASE q # r
    <3>1. call'[q] = call[q]
      BY <2>1, <2>4 DEF TypeOK
    <3>2. tag'[q] = tag[q]
      BY <1>2, <2>4
      DEF Returns, ShiftReceive, ShiftZero, ReduceAlone, ShiftDone, TypeOK
    <3> QED
      BY <2>3, <3>1, <3>2
  <2>5. CASE q = r
    <3>1. call'[q] - 1 = call[r]
      BY <2>1, <2>5, MaxCallsAssumption DEF TypeOK, CallNo
    <3>2. /\ Count(script, Of(m), call[r] - 1) \in Nat
          /\ Count(script, Of(m), call[r]) = Count(script, Of(m), call[r] - 1) +
                       (IF Current(r).method = m THEN 1 ELSE 0)
      <4>1. script[call[r]] \in Of(m) <=> Current(r).method = m
        BY <2>1 DEF Of, Current, TypeOK
      <4> QED
        BY <2>1, <4>1, CountNext
    <3>3. FirstTag[m] \in Int
      BY DEF FirstTag
    <3>4. tag'[r][m] = tag[r][m] + (IF Current(r).method = m THEN 1 ELSE 0)
      <4>1. CASE ReduceAlone(r)
        <5>1. Current(r).method # m /\ tag' = tag
          BY <4>1 DEF ReduceAlone, Active, PcInv, IsShift
        <5> QED
          BY <5>1 DEF TypeOK
      <4>2. CASE ShiftReceive(r) \/ ShiftZero(r)
        <5>1. tag' = [tag EXCEPT ![r][Current(r).method] = NextTag(Current(r), r)]
          BY <4>2 DEF ShiftReceive, ShiftZero, ShiftDone
        <5>2. Current(r).method \in ShiftMethods
          BY <4>2 DEF ShiftReceive, ShiftZero, Active, PcInv, IsShift
        <5> QED
          BY <5>1, <5>2 DEF NextTag, TypeOK
      <4> QED
        BY <1>2, <4>1, <4>2 DEF Returns
    <3> QED
      BY <2>3, <2>5, <3>1, <3>2, <3>3, <3>4
  <2> QED
    BY <2>4, <2>5
<1>3. CASE AllReduce
  <2>1. SUFFICES ASSUME NEW r \in Rank, NEW m \in ShiftMethods
                 PROVE  Count(script, Of(m), call'[r] - 1) = Count(script, Of(m), call[r] - 1)
    BY <1>3 DEF AllReduce, TagInv
  <2>2. call[r] \in CallNo /\ call[r] \in Nat \ {0} /\ call'[r] - 1 = call[r]
    BY <1>3, MaxCallsAssumption DEF AllReduce, Active, CallNo
  <2>3. script[call[r]].method # m
    BY <1>3 DEF AllReduce, Active, PcInv, IsShift, Current
  <2>4. script[call[r]] \notin Of(m)
    BY <2>3 DEF Of
  <2> QED
    BY <2>2, <2>4, CountNext
<1>4. CASE UNCHANGED vars
  BY <1>4 DEF vars, TagInv
<1> QED
  BY <1>1, <1>2, <1>3, <1>4, NextCases

(* NetInv and OnePerCall survive a step that sends nothing.                *)
LEMMA NetInvWithoutSend ==
  ASSUME TypeOK, PcInv, NetInv, OnePerCall, [Next]_vars,
         net' \subseteq net, UNCHANGED script
  PROVE  NetInv' /\ OnePerCall'
<1>1. OnePerCall'
  BY DEF OnePerCall
<1>2. ASSUME NEW m \in net
      PROVE  HasSent(m.src, m.call)'
  <2>1. m.src \in Rank /\ m.call \in CallNo /\ HasSent(m.src, m.call)
    BY DEF TypeOK, Message, NetInv
  <2>2. CASE Next
    BY <2>1, <2>2, HasSentIsStable
  <2>3. CASE UNCHANGED vars
    BY <2>1, <2>3 DEF vars, HasSent
  <2> QED
    BY <2>2, <2>3
<1>3. NetInv'
  BY <1>2 DEF NetInv, IsShift, HasDest, OnTime, Dest
<1> QED
  BY <1>1, <1>3

(* A message keeps the ends and the tag of the call it was sent in.        *)
LEMMA NetInvIsPreserved ==
  ASSUME TypeOK, PcInv, TagInv, NetInv, OnePerCall, [Next]_vars
  PROVE  NetInv' /\ OnePerCall'
<1>1. ASSUME NEW r \in Rank, ShiftSend(r)
      PROVE  NetInv' /\ OnePerCall'
  <2> DEFINE c == Current(r)
             sent == [src |-> r, dst |-> Dest(c, r), tag |-> tag[r][c.method],
                      buf |-> Serialize(dx[r]), call |-> call[r], val |-> dx[r]]
  <2>1. /\ net' = net \cup {sent}
        /\ call[r] \in CallNo /\ pc[r] = "enter" /\ pc'[r] = "sending"
        /\ UNCHANGED <<script, call>> /\ IsShift(c) /\ HasDest(c, r)
    BY <1>1 DEF ShiftSend, Active, TypeOK
  <2>2. HasSent(r, call[r])'
    BY <2>1 DEF HasSent
  <2>3. tag[r][c.method] = FirstTag[c.method] + Count(script, Of(c.method), call[r] - 1)
    BY <2>1 DEF TagInv, IsShift
  <2>4. Next
    BY <1>1 DEF Next, Step
  <2>5. ASSUME NEW m \in net
        PROVE  m.call \in CallNo /\ m.src \in Rank /\ HasSent(m.src, m.call)
                 /\ HasSent(m.src, m.call)'
    <3>1. m.src \in Rank /\ m.call \in CallNo /\ HasSent(m.src, m.call)
      BY DEF TypeOK, Message, NetInv
    <3> QED
      BY <2>4, <3>1, HasSentIsStable
  <2>6. NetInv'
    <3>1. SUFFICES ASSUME NEW m \in net'
                   PROVE  LET d == script[m.call] IN
                            /\ HasSent(m.src, m.call)'
                            /\ IsShift(d) /\ HasDest(d, m.src)
                            /\ m.dst = Dest(d, m.src)
                            /\ m.tag = FirstTag[d.method]
                                         + Count(script, Of(d.method), m.call - 1)
      BY <2>1 DEF NetInv
    <3>2. CASE m \in net
      BY <2>5, <3>2 DEF NetInv
    <3>3. CASE m = sent
      BY <2>1, <2>2, <2>3, <3>3 DEF Current
    <3> QED
      BY <2>1, <3>2, <3>3
  <2>7. OnePerCall'
    <3>1. ~HasSent(r, call[r])
      BY <2>1, MaxCallsAssumption DEF HasSent, CallNo
    <3>2. \A m \in net : ~(m.src = r /\ m.call = call[r])
      BY <2>5, <3>1
    <3> QED
      BY <2>1, <3>2 DEF OnePerCall
  <2> QED
    BY <2>6, <2>7
<1>2. ASSUME net' \subseteq net, UNCHANGED script
      PROVE  NetInv' /\ OnePerCall'
  BY <1>2, NetInvWithoutSend
<1>3. ASSUME NEW r \in Rank, Waits(r) \/ Returns(r)
      PROVE  net' \subseteq net /\ UNCHANGED script
  BY <1>3, WaitsEffect, ReturnsEffect
<1>4. CASE AllReduce \/ UNCHANGED vars
  BY <1>2, <1>4 DEF AllReduce, vars
<1> QED
  BY <1>1, <1>2, <1>3, <1>4, NextCases

(* A rank that receives does so from a rank.                               *)
LEMMA SourceIsARank ==
  ASSUME NEW c, NEW r \in Rank, HasSource(c, r)
  PROVE  Source(c, r) \in Rank
BY SizeAssumption DEF HasSource, Source, Rank

(* A rank returns from a shift after its source has sent.                  *)
LEMMA FedInvIsPreserved ==
  ASSUME TypeOK, PcInv, TagInv, NetInv, FedInv, [Next]_vars
  PROVE  FedInv'
<1>1. ASSUME NEW s \in Rank, NEW k \in CallNo, HasSent(s, k)
      PROVE  HasSent(s, k)'
  <2>1. CASE Next
    BY <1>1, <2>1, HasSentIsStable
  <2>2. CASE UNCHANGED vars
    BY <1>1, <2>2 DEF vars, HasSent
  <2> QED
    BY <2>1, <2>2
<1>2. UNCHANGED script
  <2>1. ASSUME NEW r \in Rank, ShiftSend(r) \/ Waits(r) \/ Returns(r)
        PROVE  UNCHANGED script
    BY <2>1, WaitsEffect, ReturnsEffect DEF ShiftSend
  <2> QED
    BY <2>1, NextCases DEF AllReduce, vars
<1>3. SUFFICES ASSUME NEW q \in Rank, NEW k \in 1 .. call'[q] - 1,
                      IsShift(script[k]), HasSource(script[k], q)
               PROVE  HasSent(Source(script[k], q), k)'
  BY <1>2 DEF FedInv, IsShift, HasSource, OnTime, Source, HasSent
<1>4. CASE k \in 1 .. call[q] - 1
  <2>1. k \in CallNo
    BY <1>4, MaxCallsAssumption DEF TypeOK, CallNo
  <2>2. HasSent(Source(script[k], q), k)
    BY <1>3, <1>4 DEF FedInv
  <2> QED
    BY <1>1, <1>2, <1>3, <2>1, <2>2, SourceIsARank DEF HasSent, Source
<1>5. CASE k \notin 1 .. call[q] - 1
  <2>1. call'[q] # call[q]
    BY <1>5
  <2>2. Returns(q)
    <3>1. ASSUME NEW r \in Rank, ShiftSend(r) \/ Waits(r)
          PROVE  FALSE
      BY <2>1, <3>1, WaitsEffect DEF ShiftSend
    <3>2. ASSUME NEW r \in Rank, Returns(r), r # q
          PROVE  FALSE
      BY <2>1, <3>2, ReturnsEffect DEF TypeOK
    <3>3. ~AllReduce
      <4>1. SUFFICES ASSUME AllReduce PROVE FALSE
        OBVIOUS
      <4>2. call'[q] - 1 = call[q] /\ call[q] \in Nat
        BY <4>1 DEF AllReduce, TypeOK
      <4>3. k = call[q]
        BY <1>5, <4>2
      <4>4. ~IsShift(script[call[q]])
        BY <4>1 DEF AllReduce, Active, PcInv, Current
      <4> QED
        BY <1>2, <1>3, <4>3, <4>4
    <3>4. ~UNCHANGED vars
      BY <2>1 DEF vars
    <3> QED
      BY <3>1, <3>2, <3>3, <3>4, NextCases
  <2>3. call[q] \in CallNo /\ call'[q] - 1 = call[q]
    <3>1. call[q] \in CallNo /\ call' = [call EXCEPT ![q] = @ + 1]
      BY <2>2, ReturnsEffect
    <3> QED
      BY <3>1, MaxCallsAssumption DEF TypeOK, CallNo
  <2>4. k = call[q] /\ script[k] = Current(q)
    BY <1>5, <2>3 DEF CallNo, Current
  <2>5. ShiftReceive(q)
    <3>1. ~ShiftZero(q)
      BY <1>2, <1>3, <2>4 DEF ShiftZero
    <3>2. ~ReduceAlone(q)
      BY <1>2, <1>3, <2>4 DEF ReduceAlone, Active, PcInv
    <3> QED
      BY <2>2, <3>1, <3>2 DEF Returns
  <2>6. PICK m \in Matching(q) : TRUE
    BY <2>5 DEF ShiftReceive
  <2>7. m.call = k
    BY <2>4, <2>5, <2>6, MatchingIsOfTheCall DEF ShiftReceive
  <2>8. m \in net /\ m.src = Source(script[k], q)
    BY <2>4, <2>6 DEF Matching
  <2>9. HasSent(m.src, k) /\ m.src \in Rank
    BY <2>7, <2>8 DEF NetInv, TypeOK, Message
  <2> QED
    BY <1>1, <1>2, <2>3, <2>4, <2>8, <2>9 DEF HasSent, Source
<1> QED
  BY <1>4, <1>5

(* A rank returns from a shift with the message of that call.              *)
LEMMA NoneLeftBehindIsPreserved ==
  ASSUME TypeOK, PcInv, TagInv, NetInv, OnePerCall, FedInv, NoneLeftBehind,
         [Next]_vars
  PROVE  NoneLeftBehind'
<1>1. ASSUME NEW m \in net
      PROVE  m.call \in Int /\ m.src \in Rank /\ m.dst \in Rank /\ call[m.dst] \in Int
               /\ m.dst = Dest(script[m.call], m.src)
               /\ script[m.call] \in Call /\ IsShift(script[m.call])
               /\ HasDest(script[m.call], m.src) /\ call[m.dst] <= m.call
  BY DEF TypeOK, Message, CallNo, NetInv, NoneLeftBehind
<1>2. ASSUME NEW r \in Rank, ShiftSend(r)
      PROVE  NoneLeftBehind'
  <2> DEFINE c == Current(r)
             d == Dest(c, r)
  <2>1. /\ \A m \in net' : m \in net \/ (m.dst = d /\ m.call = call[r])
        /\ call' = call /\ call[r] \in CallNo /\ pc[r] = "enter"
        /\ IsShift(c) /\ HasDest(c, r) /\ c \in Call
    <3>1. call[r] \in CallNo /\ c \in Call
      BY <1>2 DEF ShiftSend, Active, TypeOK, Current
    <3> QED
      BY <1>2, <3>1 DEF ShiftSend, Active
  <2>2. d \in Rank /\ HasSource(c, d) /\ Source(c, d) = r
    BY <2>1, DestHasSource
  <2>3. ~HasSent(r, call[r])
    BY <2>1, MaxCallsAssumption DEF HasSent, CallNo
  <2>4. call[r] \notin 1 .. call[d] - 1
    BY <2>1, <2>2, <2>3 DEF FedInv, Current
  <2>5. call[d] <= call[r]
    BY <2>1, <2>2, <2>4 DEF TypeOK, CallNo
  <2> QED
    BY <2>1, <2>5 DEF NoneLeftBehind
<1>3. ASSUME NEW r \in Rank, Returns(r)
      PROVE  NoneLeftBehind'
  <2>1. /\ call' = [call EXCEPT ![r] = @ + 1] /\ net' \subseteq net
        /\ call[r] \in CallNo
    BY <1>3, ReturnsEffect
  <2>2. SUFFICES ASSUME NEW m \in net', m.dst = r, m.call = call[r]
                 PROVE  FALSE
    <3>1. SUFFICES ASSUME NEW m \in net' PROVE call'[m.dst] <= m.call
      BY DEF NoneLeftBehind
    <3>2. m \in net /\ call[m.dst] <= m.call /\ m.call \in Int /\ call[m.dst] \in Int
      BY <1>1, <2>1
    <3>3. call'[m.dst] = IF m.dst = r THEN call[r] + 1 ELSE call[m.dst]
      BY <1>1, <2>1, <3>2 DEF TypeOK
    <3> QED
      BY <2>2, <3>2, <3>3
  <2>3. /\ script[m.call] = Current(r) /\ IsShift(Current(r))
        /\ m.src = Source(Current(r), r) /\ HasSource(Current(r), r)
    BY <1>1, <2>1, <2>2, SourceIsUnique DEF Current
  <2>4. ShiftReceive(r)
    BY <1>3, <2>3 DEF Returns, ShiftZero, ReduceAlone, Active, PcInv
  <2>5. PICK n \in Matching(r) : net' = net \ {n}
    BY <2>4 DEF ShiftReceive
  <2>6. n.call = call[r] /\ n.src = m.src /\ n \in net
    <3>1. n.call = call[r]
      BY <2>4, <2>5, MatchingIsOfTheCall DEF ShiftReceive
    <3> QED
      BY <2>3, <2>5, <3>1 DEF Matching
  <2> QED
    BY <2>1, <2>2, <2>5, <2>6 DEF OnePerCall
<1>4. CASE AllReduce
  <2>1. SUFFICES ASSUME NEW m \in net PROVE call[m.dst] + 1 <= m.call
    BY <1>1, <1>4 DEF AllReduce, NoneLeftBehind
  <2>2. call[m.dst] # m.call
    BY <1>1, <1>4 DEF AllReduce, Active, PcInv, Current
  <2> QED
    BY <1>1, <2>2
<1>5. ASSUME NEW r \in Rank, Waits(r)
      PROVE  NoneLeftBehind'
  BY <1>5, WaitsEffect DEF NoneLeftBehind
<1>6. CASE UNCHANGED vars
  BY <1>6 DEF vars, NoneLeftBehind
<1> QED
  BY <1>2, <1>3, <1>4, <1>5, <1>6, NextCases

(* The ranks return from their reductions together.                        *)
LEMMA ReduceInvIsPreserved ==
  ASSUME TypeOK, PcInv, ReduceInv, [Next]_vars
  PROVE  ReduceInv'
<1> DEFINE Past(r) == Count(script, TimeReduction, call[r] - 1)
<1>1. ASSUME NEW r \in Rank, ShiftSend(r) \/ Waits(r)
      PROVE  ReduceInv'
  <2>1. UNCHANGED <<script, call>>
    BY <1>1, WaitsEffect DEF ShiftSend
  <2> QED
    BY <2>1 DEF ReduceInv
<1>2. ASSUME NEW r \in Rank, Returns(r)
      PROVE  ReduceInv'
  <2>1. /\ call[r] \in CallNo /\ call[r] \in Nat \ {0}
        /\ call' = [call EXCEPT ![r] = @ + 1] /\ UNCHANGED script
    BY <1>2, ReturnsEffect, MaxCallsAssumption DEF CallNo
  <2>2. script[call[r]] \notin TimeReduction
    BY <1>2 DEF Returns, ShiftReceive, ShiftZero, ReduceAlone, Active, PcInv,
                TimeReduction, Current
  <2>3. Count(script, TimeReduction, call[r]) = Count(script, TimeReduction, call[r] - 1)
    BY <2>1, <2>2, CountNext
  <2>4. \A q \in Rank : Count(script, TimeReduction, call'[q] - 1) = Past(q)
    BY <2>1, <2>3 DEF TypeOK
  <2> QED
    BY <2>1, <2>4 DEF ReduceInv
<1>3. CASE AllReduce
  <2>1. ASSUME NEW r \in Rank
        PROVE  Count(script, TimeReduction, call'[r] - 1) = Past(r) + 1
    <3>1. call[r] \in Nat \ {0} /\ call'[r] - 1 = call[r]
      BY <1>3, MaxCallsAssumption DEF AllReduce, Active, CallNo
    <3>2. script[call[r]] \in TimeReduction
      BY <1>3 DEF AllReduce, Active, PcInv, TimeReduction, Current, TypeOK
    <3> QED
      BY <3>1, <3>2, CountNext
  <2> QED
    BY <1>3, <2>1 DEF ReduceInv, AllReduce
<1>4. CASE UNCHANGED vars
  BY <1>4 DEF vars, ReduceInv
<1> QED
  BY <1>1, <1>2, <1>3, <1>4, NextCases

(* A source has the receiver as its destination.                           *)
LEMMA SourceHasDest ==
  ASSUME NEW c \in Call, NEW q \in Rank, IsShift(c), HasSource(c, q)
  PROVE  /\ Source(c, q) \in Rank
         /\ HasDest(c, Source(c, q)) /\ Dest(c, Source(c, q)) = q
BY SizeAssumption DEF Rank, Call, IsShift, HasDest, Dest, HasSource, Source, OnTime

(* Only a receive in the call a message is for takes it from the network.  *)
LEMMA NoneLostIsPreserved ==
  ASSUME TypeOK, PcInv, TagInv, NetInv, NoneLost, [Next]_vars
  PROVE  NoneLost'
<1>0. UNCHANGED script
  <2>1. ASSUME NEW r \in Rank, ShiftSend(r) \/ Waits(r) \/ Returns(r)
        PROVE  UNCHANGED script
    BY <2>1, WaitsEffect, ReturnsEffect DEF ShiftSend
  <2> QED
    BY <2>1, NextCases DEF AllReduce, vars
<1> SUFFICES ASSUME NEW q \in Rank, NEW k \in CallNo,
                    IsShift(script[k]), HasSource(script[k], q),
                    HasSent(Source(script[k], q), k)', call'[q] <= k
             PROVE  \E m \in net' : m.dst = q /\ m.call = k
  BY <1>0 DEF NoneLost, IsShift, HasSource, OnTime, Source, HasSent
<1> DEFINE c == script[k]
           s == Source(c, q)
<1>1. /\ c \in Call /\ IsShift(c) /\ HasSource(c, q)
      /\ s \in Rank /\ HasDest(c, s) /\ Dest(c, s) = q
      /\ k \in Nat /\ call[q] \in Nat /\ call[s] \in Nat /\ call'[q] <= k
  BY SourceHasDest, MaxCallsAssumption DEF TypeOK, CallNo
<1>2. HasSent(s, k) /\ call[q] <= k => \E m \in net : m.dst = q /\ m.call = k
  BY DEF NoneLost
<1>3. call'[s] > k \/ (call'[s] = k /\ pc'[s] \in {"sending", "sent"})
  BY <1>0 DEF HasSent, Source
<1> HIDE DEF c, s
<1>4. ASSUME NEW r \in Rank, ShiftSend(r)
      PROVE  \E m \in net' : m.dst = q /\ m.call = k
  <2>1. /\ call[r] \in CallNo /\ pc' = [pc EXCEPT ![r] = "sending"]
        /\ UNCHANGED call /\ net \subseteq net'
        /\ \E m \in net' : m.dst = Dest(Current(r), r) /\ m.call = call[r]
    <3> DEFINE sent == [src |-> r, dst |-> Dest(Current(r), r),
                        tag |-> tag[r][Current(r).method], buf |-> Serialize(dx[r]),
                        call |-> call[r], val |-> dx[r]]
    <3>1. net' = net \cup {sent}
      BY <1>4 DEF ShiftSend
    <3>2. sent.dst = Dest(Current(r), r) /\ sent.call = call[r]
      OBVIOUS
    <3> HIDE DEF sent
    <3> QED
      BY <1>4, <3>1, <3>2 DEF ShiftSend, Active
  <2>2. CASE HasSent(s, k)
    BY <1>1, <1>2, <2>1, <2>2
  <2>3. CASE ~HasSent(s, k)
    <3>1. s = r /\ call[r] = k
      BY <1>1, <1>3, <2>1, <2>3 DEF HasSent, TypeOK
    <3> QED
      BY <1>1, <2>1, <3>1 DEF Current, c
  <2> QED
    BY <2>2, <2>3
<1>5. ASSUME NEW r \in Rank, Waits(r)
      PROVE  \E m \in net' : m.dst = q /\ m.call = k
  <2>1. UNCHANGED <<call, net>>
    BY <1>5, WaitsEffect
  <2>2. HasSent(s, k)
    <3>1. CASE ShiftNoSend(r)
      <4>1. pc' = [pc EXCEPT ![r] = "sent"] /\ ~HasDest(Current(r), r)
        BY <3>1 DEF ShiftNoSend
      <4>2. ~(s = r /\ call[r] = k)
        BY <1>1, <4>1 DEF Current, c
      <4> QED
        BY <1>1, <1>3, <2>1, <4>1, <4>2 DEF HasSent, TypeOK
    <3>2. CASE SendReturns(r) \/ SendBuffered(r)
      BY <1>1, <1>3, <2>1, <3>2 DEF SendReturns, SendBuffered, Active, HasSent, TypeOK
    <3>3. CASE ReduceArrive(r)
      BY <1>1, <1>3, <2>1, <3>3 DEF ReduceArrive, HasSent, TypeOK
    <3> QED
      BY <1>5, <3>1, <3>2, <3>3 DEF Waits
  <2> QED
    BY <1>1, <1>2, <2>1, <2>2
<1>6. ASSUME NEW r \in Rank, Returns(r)
      PROVE  \E m \in net' : m.dst = q /\ m.call = k
  <2>1. /\ call[r] \in CallNo /\ call' = [call EXCEPT ![r] = @ + 1]
        /\ pc' = [pc EXCEPT ![r] = "enter"] /\ net' \subseteq net
    BY <1>6, ReturnsEffect
  <2>2. call[q] # k \/ q # r
    BY <1>1, <2>1 DEF TypeOK
  <2>3. call[q] <= k
    BY <1>1, <2>1 DEF TypeOK
  <2>4. HasSent(s, k)
    <3>1. CASE s = r /\ call[r] = k
      <4>1. pc[r] = "sent"
        BY <1>1, <1>6, <3>1
        DEF Returns, ShiftReceive, ShiftZero, ReduceAlone, Active, PcInv, Current, c
      <4> QED
        BY <3>1, <4>1 DEF HasSent
    <3>2. CASE s = r /\ call[r] # k
      <4>1. call'[s] = call[s] + 1 /\ pc'[s] = "enter"
        BY <1>1, <2>1, <3>2 DEF TypeOK
      <4> QED
        BY <1>1, <1>3, <3>2, <4>1 DEF HasSent
    <3>3. CASE s # r
      <4>1. call'[s] = call[s] /\ pc'[s] = pc[s]
        BY <1>1, <2>1, <3>3 DEF TypeOK
      <4> QED
        BY <1>3, <4>1 DEF HasSent
    <3> QED
      BY <3>1, <3>2, <3>3
  <2>5. PICK m \in net : m.dst = q /\ m.call = k
    BY <1>2, <2>3, <2>4
  <2>6. m \in net'
    <3>1. SUFFICES ASSUME m \notin net' PROVE FALSE
      OBVIOUS
    <3>2. ShiftReceive(r)
      BY <1>6, <3>1 DEF Returns, ShiftZero, ReduceAlone
    <3>3. m \in Matching(r)
      BY <3>1, <3>2 DEF ShiftReceive
    <3>4. m.call = call[r] /\ m.dst = r
      BY <3>2, <3>3, MatchingIsOfTheCall DEF ShiftReceive, Matching
    <3> QED
      BY <2>2, <2>5, <3>4
  <2> QED
    BY <2>5, <2>6
<1>7. CASE AllReduce
  <2>1. /\ net' = net /\ call'[q] = call[q] + 1 /\ call'[s] = call[s] + 1
        /\ pc'[s] = "enter" /\ call[s] # k
    BY <1>1, <1>7 DEF AllReduce, Active, PcInv, Current, c
  <2>2. HasSent(s, k) /\ call[q] <= k
    BY <1>1, <1>3, <2>1 DEF HasSent
  <2> QED
    BY <1>2, <2>1, <2>2
<1>8. CASE UNCHANGED vars
  BY <1>1, <1>2, <1>3, <1>8 DEF vars, HasSent
<1> QED
  BY <1>4, <1>5, <1>6, <1>7, <1>8, NextCases

------------------------------------------------------------------------------
(* At first nothing is sent and nothing has returned.                      *)
LEMMA InitImpliesIInv == Init => IInv
<1> SUFFICES ASSUME Init PROVE IInv
  OBVIOUS
<1>1. TypeOK
  <2>1. tag \in [Rank -> [ShiftMethods -> Int]]
    BY DEF Init, FirstTag
  <2>2. dx \in [Rank -> Int] /\ zz \in [Rank -> [Rank -> Int]]
    BY SizeAssumption DEF Init, Rank, NoTerms
  <2> QED
    BY <2>1, <2>2, MaxCallsAssumption DEF Init, TypeOK
<1>2. TagInv
  <2>1. SUFFICES ASSUME NEW r \in Rank, NEW m \in ShiftMethods
                 PROVE  Count(script, Of(m), call[r] - 1) = 0
    BY DEF Init, TagInv, FirstTag
  <2>2. Calls(script, Of(m), call[r] - 1) = {}
    BY DEF Init, Calls
  <2> QED
    BY <2>2, FS_EmptySet DEF Count
<1>3. PcInv /\ NetInv /\ OnePerCall /\ FedInv /\ NoneLeftBehind /\ ReduceInv
  BY DEF Init, PcInv, NetInv, OnePerCall, FedInv, NoneLeftBehind, ReduceInv
<1>4. NoneLost
  BY SourceIsARank, MaxCallsAssumption DEF Init, NoneLost, HasSent, CallNo
<1> QED
  BY <1>1, <1>2, <1>3, <1>4 DEF IInv

(* The inductive step, from the lemmas on the parts.                       *)
LEMMA IInvIsInductive == IInv /\ [Next]_vars => IInv'
BY TypeOKIsPreserved, PcInvIsPreserved, TagInvIsPreserved, NetInvIsPreserved,
   FedInvIsPreserved, NoneLeftBehindIsPreserved, ReduceInvIsPreserved,
   NoneLostIsPreserved DEF IInv

(* IInv holds throughout.                                                  *)
THEOREM Invariance == Spec => []IInv
BY InitImpliesIInv, IInvIsInductive, PTL DEF Spec

(* Type correctness, for every number of ranks and calls.                  *)
THEOREM TypeCorrect == Spec => []TypeOK
BY Invariance, PTL DEF IInv

(* Whatever shifts the program makes, on this communicator or another, the *)
(* counters `static int tag' of any two ranks agree whenever one waits for *)
(* the other: a shift is never given the message of another one.           *)
THEOREM TagsIdentifyCalls == Spec => []TagIdentifiesCall
<1>1. IInv => TagIdentifiesCall
  BY MatchingIsOfTheCall DEF IInv, TagIdentifiesCall
<1> QED
  BY <1>1, Invariance, PTL

(* No rank leaves a shift while the message meant for it is outstanding.   *)
THEOREM NoMessageLeftBehind == Spec => []NoneLeftBehind
BY Invariance, PTL DEF IInv

------------------------------------------------------------------------------
(* Absence of deadlock, with no help from buffers.  Of the ranks that are  *)
(* furthest behind, all in one call, none waits in a reduction or for a    *)
(* message, and what one waits to have received is for another of them:    *)
(* the last of them in the direction of the shift cannot be waiting.       *)

(* A message that has been sent to a rank that waits for it matches.       *)
LEMMA SentMatches ==
  ASSUME IInv, NEW r \in Rank, Active(r, "sent"), HasSource(Current(r), r),
         HasSent(Source(Current(r), r), call[r])
  PROVE  Matching(r) # {}
<1> USE DEF IInv
<1> DEFINE c == Current(r)
<1>1. call[r] \in CallNo /\ c \in Call /\ IsShift(c) /\ c = script[call[r]]
  BY DEF Active, PcInv, Current, TypeOK
<1>2. PICK m \in net : m.dst = r /\ m.call = call[r]
  BY <1>1, MaxCallsAssumption DEF NoneLost, CallNo
<1>3. m.src \in Rank /\ HasDest(c, m.src) /\ r = Dest(c, m.src)
        /\ m.tag = FirstTag[c.method] + Count(script, Of(c.method), call[r] - 1)
  BY <1>1, <1>2 DEF NetInv, TypeOK, Message
<1>4. m.src = Source(c, r)
  BY <1>1, <1>3, SourceIsUnique
<1>5. m.tag = tag[r][c.method]
  BY <1>1, <1>3 DEF TagInv, IsShift
<1> QED
  BY <1>2, <1>4, <1>5 DEF Matching

(* A rank in a reduction that waits for another has one behind it.         *)
LEMMA ReductionWaitsForOneBehind ==
  ASSUME IInv, NEW r \in Rank, NEW q \in Rank,
         Active(r, "reducing"), OnTime(Current(r)),
         ~(Active(q, "reducing") /\ OnTime(Current(q)))
  PROVE  call[q] < call[r] \/ (call[q] = call[r] /\ pc[q] = "enter")
<1> USE DEF IInv
<1>1. call[r] \in CallNo /\ call[r] \in Nat \ {0} /\ call[q] \in Nat
  BY MaxCallsAssumption DEF Active, CallNo, TypeOK
<1>2. Current(r) \in TimeReduction
  BY <1>1 DEF TimeReduction, Current, TypeOK, Active, PcInv
<1>3. ~(call[r] < call[q])
  <2>1. SUFFICES ASSUME call[r] < call[q] PROVE FALSE
    OBVIOUS
  <2>2. Count(script, TimeReduction, call[r] - 1) < Count(script, TimeReduction, call[q] - 1)
    BY <1>1, <1>2, <2>1, CountGrows DEF Current
  <2>3. Count(script, TimeReduction, call[r] - 1) \in Nat
    BY <1>1, CountNext
  <2> QED
    BY <2>2, <2>3 DEF ReduceInv
<1>4. CASE call[q] = call[r]
  <2>1. Current(q) = Current(r) /\ ~IsShift(Current(r))
    BY <1>4 DEF Current, Active, PcInv
  <2> QED
    BY <1>1, <1>4, <2>1 DEF Active, PcInv, TypeOK
<1> QED
  BY <1>1, <1>3, <1>4

(* A message that is still in the network has its receiver to wait for.    *)
LEMMA SendWaitsForDest ==
  ASSUME IInv, NEW r \in Rank, NEW m \in net, m.src = r, m.call = call[r]
  PROVE  LET c == Current(r) IN
           /\ c \in Call /\ IsShift(c) /\ HasDest(c, r)
           /\ Dest(c, r) \in Rank /\ call[Dest(c, r)] <= call[r]
<1>1. /\ script[m.call] = Current(r) /\ Current(r) \in Call
      /\ IsShift(Current(r)) /\ HasDest(Current(r), r)
      /\ m.dst = Dest(Current(r), r) /\ m.dst \in Rank
  BY DEF IInv, TypeOK, Message, NetInv, Current
<1> QED
  BY <1>1 DEF IInv, NoneLeftBehind

(* Not all ranks wait.                                                     *)
LEMMA SomeRankGoesOn ==
  ASSUME IInv, ~Ended
  PROVE  \E r \in Rank : call[r] \in CallNo /\ ~Waiting(r)
<1> SUFFICES ASSUME \A r \in Rank : call[r] \in CallNo => Waiting(r) PROVE FALSE
  OBVIOUS
<1> USE DEF IInv
<1>1. PICK p \in Rank : \A r \in Rank : call[p] <= call[r]
  <2> DEFINE A == {call[r] : r \in Rank}
  <2>1. A \in SUBSET Nat /\ A # {}
    BY SizeAssumption DEF Rank, TypeOK
  <2>2. PICK k \in A : \A i \in A : k <= i
    <3> HIDE DEF A
    <3> QED
      BY <2>1, LeastNumber
  <2> QED
    BY <2>2
<1> DEFINE k == call[p]
           c == Current(p)
           Last == {r \in Rank : call[r] = k}
<1>2. k \in CallNo /\ c \in Call
  <2>1. PICK r \in Rank : call[r] # MaxCalls + 1
    BY DEF Ended
  <2>2. call[p] <= call[r] /\ call[p] \in 1 .. MaxCalls + 1 /\ call[r] \in 1 .. MaxCalls + 1
    BY <1>1 DEF TypeOK
  <2> QED
    BY <2>1, <2>2, MaxCallsAssumption DEF CallNo, Current, TypeOK
<1>3. ASSUME NEW r \in Last
      PROVE  r \in Rank /\ call[r] = k /\ Current(r) = c /\ Waiting(r)
  BY <1>2 DEF Current
<1>4. ASSUME NEW q \in Rank, call[q] <= k
      PROVE  q \in Last
  <2>1. call[q] \in Int /\ call[p] \in Int
    BY DEF TypeOK
  <2> QED
    BY <1>1, <1>4, <2>1
<1>5. ASSUME NEW r \in Last, Active(r, "reducing"), OnTime(Current(r)), NEW q \in Rank,
             ~(Active(q, "reducing") /\ OnTime(Current(q)))
      PROVE  FALSE
  <2>1. call[q] < call[r] \/ (call[q] = call[r] /\ pc[q] = "enter")
    BY <1>3, <1>5, ReductionWaitsForOneBehind
  <2>2. call[q] = k /\ pc[q] = "enter"
    BY <1>1, <1>3, <2>1 DEF TypeOK
  <2> QED
    BY <1>3, <2>2 DEF Waiting, Active
<1>6. ASSUME NEW r \in Last, Active(r, "sent"), HasSource(Current(r), r), Matching(r) = {}
      PROVE  FALSE
  <2> DEFINE s == Source(c, r)
  <2>1. IsShift(c) /\ s \in Rank /\ HasSource(c, r)
    BY <1>3, <1>6, SourceIsARank DEF Active, PcInv
  <2>2. ~HasSent(s, k)
    BY <1>3, <1>6, SentMatches
  <2>3. s \in Last
    BY <1>2, <1>4, <2>1, <2>2, MaxCallsAssumption DEF HasSent, TypeOK, CallNo
  <2>4. Active(s, "reducing")
    BY <1>3, <2>2, <2>3 DEF Waiting, Active, HasSent
  <2> QED
    BY <1>3, <2>1, <2>3, <2>4 DEF Active, PcInv
<1>7. ASSUME NEW r \in Last
      PROVE  IsShift(c) /\ HasDest(c, r) /\ Dest(c, r) \in Last
  <2>1. PICK m \in net : m.src = r /\ m.call = call[r]
    BY <1>3, <1>5, <1>6 DEF Waiting
  <2> QED
    BY <1>3, <1>4, <2>1, SendWaitsForDest
<1>8. Last # {} /\ Last \in SUBSET (0 .. Size - 1) /\ Size - 1 \in Nat
  BY SizeAssumption DEF Rank
<1>9. CASE c.method = "shift_forward"
  <2>1. PICK r \in Last : \A q \in Last : q <= r
    <3> HIDE DEF Last
    <3> QED
      BY <1>8, GreatestNumber
  <2> QED
    BY <1>7, <1>8, <1>9, <2>1 DEF Dest
<1>10. CASE c.method # "shift_forward"
  <2>1. PICK r \in Last : \A q \in Last : r <= q
    <3>1. Last \in SUBSET Nat
      BY <1>8
    <3> HIDE DEF Last
    <3> QED
      BY <1>8, <3>1, LeastNumber
  <2> QED
    BY <1>7, <1>8, <1>10, <2>1 DEF Dest
<1> QED
  BY <1>9, <1>10

(* Sends that block until they are received do not make the ranks wait for *)
(* each other, whatever calls the program makes.                           *)
THEOREM NoDeadlockWithoutBuffers == Spec => []NeverAllWaiting
<1>1. IInv => NeverAllWaiting
  BY SomeRankGoesOn DEF NeverAllWaiting
<1> QED
  BY <1>1, Invariance, PTL

(* How far rank r is, at most three steps to a call.                       *)
Stage(step) == CASE step = "enter" -> 0 [] step \in {"sending", "reducing"} -> 1
                 [] step = "sent" -> 2
Progress(r) == 3 * (call[r] - 1) + Stage(pc[r])

(* No step takes a rank back, each takes one further, and none goes past   *)
(* the end of the program: no execution has more than 3 * MaxCalls * Size  *)
(* steps.                                                                  *)
GoesForward ==
  /\ \A q \in Rank : Progress(q) <= Progress(q)' /\ Progress(q)' <= 3 * MaxCalls
  /\ \E r \in Rank : Progress(r) < Progress(r)'

(* One rank that goes further while the others stay is a step forward.     *)
LEMMA OneGoesForward ==
  ASSUME TypeOK, TypeOK', PcInv', NEW r \in Rank, Progress(r) < Progress(r)',
         \A q \in Rank \ {r} : call'[q] = call[q] /\ pc'[q] = pc[q]
  PROVE  GoesForward
<1>1. \A q \in Rank : Progress(q) \in Int /\ Progress(q)' \in Int
  BY MaxCallsAssumption DEF TypeOK, Progress, Stage
<1>2. ASSUME NEW q \in Rank PROVE Progress(q)' <= 3 * MaxCalls
  <2>1. /\ call'[q] \in 1 .. MaxCalls + 1
        /\ pc'[q] \in {"enter", "sending", "sent", "reducing"}
        /\ pc'[q] # "enter" => call'[q] \in 1 .. MaxCalls
    BY DEF TypeOK, PcInv, CallNo
  <2>2. Stage(pc'[q]) \in 0 .. 2 /\ (pc'[q] = "enter" => Stage(pc'[q]) = 0)
    BY <2>1 DEF Stage
  <2> QED
    BY <2>1, <2>2, MaxCallsAssumption DEF Progress
<1>3. \A q \in Rank \ {r} : Progress(q)' = Progress(q)
  BY DEF Progress
<1> QED
  BY <1>1, <1>2, <1>3 DEF GoesForward

(* Calls that never come round again: with NoDeadlockWithoutBuffers, the   *)
(* safety part of EveryCallReturns.                                        *)
THEOREM ExecutionsAreFinite == Spec => [][GoesForward]_vars
<1>1. ASSUME IInv, IInv', [Next]_vars PROVE [GoesForward]_vars
  <2>0. TypeOK /\ PcInv /\ TypeOK' /\ PcInv'
    BY <1>1 DEF IInv
  <2>1. ASSUME NEW r \in Rank, ShiftSend(r) PROVE GoesForward
    <3>1. /\ pc[r] = "enter" /\ pc'[r] = "sending" /\ call'[r] = call[r]
          /\ \A q \in Rank \ {r} : call'[q] = call[q] /\ pc'[q] = pc[q]
      BY <2>0, <2>1 DEF ShiftSend, Active, TypeOK
    <3>2. Progress(r) < Progress(r)'
      BY <2>0, <3>1, MaxCallsAssumption DEF Progress, Stage, TypeOK
    <3> QED
      BY <2>0, <3>1, <3>2, OneGoesForward
  <2>2. ASSUME NEW r \in Rank, Waits(r) PROVE GoesForward
    <3>1. /\ \/ pc[r] \in {"enter", "sending"} /\ pc'[r] = "sent"
             \/ pc[r] = "enter" /\ pc'[r] = "reducing"
          /\ call'[r] = call[r]
          /\ \A q \in Rank \ {r} : call'[q] = call[q] /\ pc'[q] = pc[q]
      BY <2>0, <2>2 DEF Waits, ShiftNoSend, SendReturns, SendBuffered, ReduceArrive,
         Active, TypeOK
    <3>2. Progress(r) < Progress(r)'
      BY <2>0, <3>1, MaxCallsAssumption DEF Progress, Stage, TypeOK
    <3> QED
      BY <2>0, <3>1, <3>2, OneGoesForward
  <2>3. ASSUME NEW r \in Rank, Returns(r) PROVE GoesForward
    <3>1. /\ call' = [call EXCEPT ![r] = @ + 1] /\ pc' = [pc EXCEPT ![r] = "enter"]
      BY <2>0, <2>3, ReturnsEffect
    <3>2. /\ pc'[r] = "enter" /\ call'[r] = call[r] + 1
          /\ \A q \in Rank \ {r} : call'[q] = call[q] /\ pc'[q] = pc[q]
      BY <2>0, <3>1 DEF TypeOK
    <3>3. Progress(r) < Progress(r)'
      BY <2>0, <3>2, MaxCallsAssumption DEF Progress, Stage, TypeOK
    <3> QED
      BY <2>0, <3>2, <3>3, OneGoesForward
  <2>4. CASE AllReduce
    <3>1. \A q \in Rank : call'[q] = call[q] + 1 /\ pc[q] = "reducing" /\ pc'[q] = "enter"
      BY <2>4 DEF AllReduce, Active
    <3>2. \A q \in Rank : /\ Progress(q) \in Int /\ Progress(q)' \in Int
                          /\ Progress(q) < Progress(q)'
                          /\ Progress(q)' <= 3 * MaxCalls
      BY <2>0, <3>1, MaxCallsAssumption DEF Progress, Stage, TypeOK
    <3>3. 0 \in Rank
      BY SizeAssumption DEF Rank
    <3> QED
      BY <3>2, <3>3 DEF GoesForward
  <2> QED
    BY <1>1, <2>1, <2>2, <2>3, <2>4, NextCases
<1> QED
  BY <1>1, Invariance, PTL DEF Spec

------------------------------------------------------------------------------
(* The ranks' values are those of the lock-step execution.                 *)

First == [r \in Rank |-> r + 1]

(* The equation that defines LockStep, up to call n, has a solution.       *)
Solves(f, n) ==
  f = [k \in 0 .. n |-> IF k = 0 THEN First ELSE AfterCall(f[k - 1], script[k])]

LEMMA SolutionsExist == \E f : Solves(f, MaxCalls)
<1> DEFINE G == {n \in 0 .. MaxCalls : \E f : Solves(f, n)}
<1>1. 0 \in G
  <2> DEFINE f == [k \in 0 .. 0 |-> First]
  <2>1. Solves(f, 0)
    BY DEF Solves
  <2> QED
    BY <2>1, MaxCallsAssumption
<1>2. ASSUME NEW n \in 0 .. MaxCalls - 1, n \in G
      PROVE  n + 1 \in G
  <2>1. PICK f : Solves(f, n)
    BY <1>2
  <2> DEFINE g == [k \in 0 .. n + 1 |-> IF k = n + 1 THEN AfterCall(f[n], script[n + 1])
                                                     ELSE f[k]]
  <2>2. ASSUME NEW k \in 0 .. n
        PROVE  f[k] = IF k = 0 THEN First ELSE AfterCall(f[k - 1], script[k])
    BY <2>1 DEF Solves
  <2>3. ASSUME NEW k \in 0 .. n + 1
        PROVE  g[k] = IF k = 0 THEN First ELSE AfterCall(g[k - 1], script[k])
    <3>1. CASE k = n + 1
      <4>1. k # 0 /\ k - 1 = n /\ g[k] = AfterCall(f[n], script[k]) /\ g[n] = f[n]
        BY <3>1, MaxCallsAssumption
      <4> QED
        BY <4>1
    <3>2. CASE k # n + 1
      <4>1. k \in 0 .. n /\ g[k] = f[k] /\ (k # 0 => g[k - 1] = f[k - 1])
        BY <3>2, MaxCallsAssumption
      <4> QED
        BY <2>2, <4>1
    <3> QED
      BY <3>1, <3>2
  <2>4. Solves(g, n + 1)
    <3>1. DOMAIN g = 0 .. n + 1 /\ g = [k \in 0 .. n + 1 |-> g[k]]
      OBVIOUS
    <3> HIDE DEF g
    <3> QED
      BY <2>3, <3>1 DEF Solves
  <2> QED
    BY <2>4, MaxCallsAssumption
<1>3. 0 .. MaxCalls \subseteq G
  <2> HIDE DEF G
  <2> QED
    BY <1>1, <1>2, MaxCallsAssumption, IntervalInduction
<1> QED
  BY <1>3, MaxCallsAssumption

LEMMA LockStepDef == Solves(LockStep, MaxCalls)
BY SolutionsExist DEF LockStep, Solves, First

LEMMA LockStepStays == ASSUME UNCHANGED script PROVE LockStep' = LockStep
BY DEF LockStep, AfterCall

(* The lock-step values after a call; only a shift through time changes    *)
(* any, those of the rank without a source.                                *)
LEMMA LockStepAfter ==
  ASSUME NEW k \in CallNo
  PROVE  LockStep[k] = AfterCall(LockStep[k - 1], script[k])
<1>1. k \in 0 .. MaxCalls /\ k # 0
  BY MaxCallsAssumption DEF CallNo
<1> QED
  BY <1>1, LockStepDef DEF Solves

LEMMA LockStepFirst == LockStep[0] = First
BY LockStepDef, MaxCallsAssumption DEF Solves

LEMMA AfterCallValue ==
  ASSUME NEW values, NEW c, NEW r \in Rank
  PROVE  AfterCall(values, c)[r] =
           IF IsShift(c) /\ OnTime(c) /\ ~HasSource(c, r) THEN 0 ELSE values[r]
BY DEF AfterCall, Deserialize

(* The last sum through time that a rank has been given after n calls.     *)
LastSum(n) ==
  LET done == TimeReductions(n)
  IN  IF done = {} THEN NoTerms
        ELSE Terms(LockStep[CHOOSE k \in done : \A i \in done : i <= k])

LEMMA LastSumStays ==
  ASSUME NEW n \in CallNo, IsShift(script[n]) \/ ~OnTime(script[n])
  PROVE  LastSum(n) = LastSum(n - 1)
<1>1. TimeReductions(n) = TimeReductions(n - 1)
  BY MaxCallsAssumption DEF TimeReductions, CallNo
<1> QED
  BY <1>1 DEF LastSum

LEMMA LastSumIsNew ==
  ASSUME NEW n \in CallNo, ~IsShift(script[n]), OnTime(script[n])
  PROVE  LastSum(n) = Terms(LockStep[n - 1])
<1> DEFINE done == TimeReductions(n)
<1>1. n \in done /\ \A i \in done : i \in Int /\ i <= n
  BY MaxCallsAssumption DEF TimeReductions, CallNo
<1>2. (CHOOSE k \in done : \A i \in done : i <= k) = n
  <2> HIDE DEF done
  <2>1. \A k \in done : (\A i \in done : i <= k) => k = n
    BY <1>1
  <2> QED
    BY <1>1, <2>1
<1>3. LockStep[n] = LockStep[n - 1]
  BY LockStepAfter DEF AfterCall
<1> QED
  BY <1>1, <1>2, <1>3 DEF LastSum

LEMMA SameAsLockStepIsPreserved ==
  ASSUME IInv, SameAsLockStep, [Next]_vars
  PROVE  SameAsLockStep'
<1> USE DEF IInv
<1>0. UNCHANGED script
  <2>1. ASSUME NEW r \in Rank, ShiftSend(r) \/ Waits(r) \/ Returns(r)
        PROVE  UNCHANGED script
    BY <2>1, WaitsEffect, ReturnsEffect DEF ShiftSend
  <2> QED
    BY <2>1, NextCases DEF AllReduce, vars
<1>1. LockStep' = LockStep /\ \A n : LastSum(n)' = LastSum(n)
  BY <1>0, LockStepStays DEF LastSum, TimeReductions, NoTerms, Terms
<1>2. SUFFICES ASSUME NEW q \in Rank
               PROVE  dx'[q] = LockStep[call'[q] - 1][q] /\ zz'[q] = LastSum(call'[q] - 1)
  <2>1. SUFFICES ASSUME NEW q \in Rank
                 PROVE  dx'[q] = LockStep'[call'[q] - 1][q] /\ zz'[q] = LastSum(call[q] - 1)'
    BY DEF SameAsLockStep, LastSum
  <2> QED
    BY <1>0, <1>1, <1>2 DEF LastSum, TimeReductions
<1>3. \A r \in Rank : dx[r] = LockStep[call[r] - 1][r] /\ zz[r] = LastSum(call[r] - 1)
  BY DEF SameAsLockStep, LastSum
<1>4. ASSUME NEW r \in Rank, ShiftSend(r) \/ Waits(r)
      PROVE  dx'[q] = LockStep[call'[q] - 1][q] /\ zz'[q] = LastSum(call'[q] - 1)
  <2>1. UNCHANGED <<call, dx, zz>>
    BY <1>4, WaitsEffect DEF ShiftSend
  <2> QED
    BY <1>3, <2>1
<1>5. ASSUME NEW r \in Rank, Returns(r)
      PROVE  dx'[q] = LockStep[call'[q] - 1][q] /\ zz'[q] = LastSum(call'[q] - 1)
  <2>1. /\ call[r] \in CallNo /\ Current(r) \in Call /\ Current(r) = script[call[r]]
        /\ call' = [call EXCEPT ![r] = @ + 1]
    BY <1>5, ReturnsEffect DEF Current
  <2>2. zz' = zz
    BY <1>5 DEF Returns, ShiftReceive, ShiftZero, ReduceAlone
  <2>3. CASE q # r
    <3>1. call'[q] = call[q]
      BY <2>1, <2>3 DEF TypeOK
    <3>2. dx'[q] = dx[q]
      BY <1>5, <2>3 DEF Returns, ShiftReceive, ShiftZero, ReduceAlone, TypeOK
    <3> QED
      BY <1>3, <2>2, <3>1, <3>2
  <2>4. CASE q = r
    <3>1. call'[q] = call[q] + 1 /\ call'[q] - 1 = call[q]
      BY <2>1, <2>4, MaxCallsAssumption DEF TypeOK, CallNo
    <3>2. dx'[q] = IF IsShift(Current(q)) /\ OnTime(Current(q)) /\ ~HasSource(Current(q), q)
                     THEN 0 ELSE dx[q]
      <4>1. CASE ShiftReceive(q)
        BY <4>1 DEF ShiftReceive, Deserialize, TypeOK
      <4>2. CASE ShiftZero(q)
        BY <4>2 DEF ShiftZero, WithoutSource, Active, PcInv, TypeOK
      <4>3. CASE ReduceAlone(q)
        BY <4>3 DEF ReduceAlone, Active, PcInv
      <4> QED
        BY <1>5, <2>4, <4>1, <4>2, <4>3 DEF Returns
    <3>3. LockStep[call[q]][q] =
            IF IsShift(Current(q)) /\ OnTime(Current(q)) /\ ~HasSource(Current(q), q)
              THEN 0 ELSE LockStep[call[q] - 1][q]
      BY <2>1, <2>4, LockStepAfter, AfterCallValue
    <3>4. IsShift(Current(q)) \/ ~OnTime(Current(q))
      BY <1>5, <2>4 DEF Returns, ShiftReceive, ShiftZero, ReduceAlone, Active, PcInv
    <3>5. LastSum(call'[q] - 1) = LastSum(call[q] - 1)
      BY <2>1, <2>4, <3>1, <3>4, LastSumStays
    <3> QED
      BY <1>3, <2>2, <3>1, <3>2, <3>3, <3>5
  <2> QED
    BY <2>3, <2>4
<1>6. CASE AllReduce
  <2>1. ASSUME NEW r \in Rank
        PROVE  /\ call[r] \in CallNo /\ call'[r] = call[r] + 1 /\ call'[r] - 1 = call[r]
               /\ script[call[r]] \in TimeReduction
    BY <1>6, MaxCallsAssumption
    DEF AllReduce, Active, CallNo, PcInv, TimeReduction, Current, TypeOK
  <2>2. \A r \in Rank : call[r] = call[q]
    BY <2>1, CountDistinguishes DEF ReduceInv
  <2>3. ~IsShift(script[call[q]]) /\ OnTime(script[call[q]])
    BY <2>1 DEF TimeReduction
  <2>4. LockStep[call[q]] = LockStep[call[q] - 1]
    BY <2>1, <2>3, LockStepAfter DEF AfterCall
  <2>5. zz'[q] = Terms(LockStep[call[q] - 1])
    <3>1. zz'[q] = Terms(dx)
      BY <1>6 DEF AllReduce
    <3>2. \A r \in Rank : dx[r] = LockStep[call[q] - 1][r]
      BY <1>3, <2>2
    <3> QED
      BY <3>1, <3>2 DEF Terms
  <2>6. LastSum(call'[q] - 1) = Terms(LockStep[call[q] - 1])
    BY <2>1, <2>3, LastSumIsNew
  <2>7. dx' = dx
    BY <1>6 DEF AllReduce
  <2> QED
    BY <1>3, <2>1, <2>4, <2>5, <2>6, <2>7
<1>7. CASE UNCHANGED vars
  BY <1>3, <1>7 DEF vars
<1> QED
  BY <1>4, <1>5, <1>6, <1>7, NextCases

(* The interleaving of the ranks cannot be seen in their values: they, and *)
(* the sums that dot_product_with and norm return, are those of ranks that *)
(* go through the calls together, for every number of ranks and calls.     *)
THEOREM InterleavingDoesNotShow == Spec => []SameAsLockStep
<1>1. Init => SameAsLockStep
  <2>1. SUFFICES ASSUME Init, NEW r \in Rank
                 PROVE  dx[r] = LockStep[call[r] - 1][r] /\ zz[r] = LastSum(call[r] - 1)
    BY DEF SameAsLockStep, LastSum
  <2>2. call[r] - 1 = 0 /\ dx[r] = First[r] /\ zz[r] = NoTerms
    BY <2>1 DEF Init, First
  <2>3. TimeReductions(0) = {}
    BY DEF TimeReductions
  <2> QED
    BY <2>2, <2>3, LockStepFirst DEF LastSum
<1>2. IInv /\ SameAsLockStep /\ [Next]_vars => SameAsLockStep'
  BY SameAsLockStepIsPreserved
<1> QED
  BY <1>1, <1>2, Invariance, PTL DEF Spec

------------------------------------------------------------------------------
(* TimeShift implements TimeOrder.                                         *)

Given(r) == IF pc[r] = "enter" THEN call[r] - 1 ELSE call[r]

(* The source of a message has given its part in that call.                *)
LEMMA SentIsGiven ==
  ASSUME NEW s \in Rank, NEW k \in CallNo, TypeOK, HasSent(s, k)
  PROVE  Given(s) >= k
BY MaxCallsAssumption DEF HasSent, Given, TypeOK, CallNo

(* A step inside a call is a Give step or stutters.                        *)
LEMMA GivesOrStutters ==
  ASSUME TypeOK, PcInv, NEW r \in Rank, ShiftSend(r) \/ Waits(r)
  PROVE  Order!Give(r) \/ UNCHANGED Order!vars
<1>1. /\ call[r] \in CallNo /\ UNCHANGED <<script, call>>
      /\ \E step \in {"sending", "sent", "reducing"} : pc' = [pc EXCEPT ![r] = step]
  <2>1. CASE ShiftSend(r)
    BY <2>1 DEF ShiftSend, Active
  <2>2. CASE Waits(r)
    BY <2>2, WaitsEffect
  <2> QED
    BY <2>1, <2>2
<1>2. UNCHANGED [q \in Rank |-> call[q] - 1]
  BY <1>1
<1>3. CASE pc[r] = "enter"
  <2>1. [q \in Rank |-> Given(q)]' =
          [[q \in Rank |-> Given(q)] EXCEPT ![r] = @ + 1]
    <3>1. /\ Given(r)' = Given(r) + 1
          /\ \A q \in Rank : q # r => Given(q)' = Given(q)
      BY <1>1, <1>3, MaxCallsAssumption DEF Given, TypeOK, CallNo
    <3> QED
      BY <3>1
  <2>2. Given(r) = call[r] - 1 /\ call[r] - 1 < MaxCalls
    BY <1>1, <1>3, MaxCallsAssumption DEF Given, CallNo
  <2> QED
    BY <1>1, <1>2, <2>1, <2>2 DEF Order!Give, Given
<1>4. CASE pc[r] # "enter"
  <2>1. UNCHANGED [q \in Rank |-> Given(q)]
    BY <1>1, <1>4 DEF Given, TypeOK
  <2> QED
    BY <1>1, <1>2, <2>1 DEF Order!vars, Given
<1> QED
  BY <1>3, <1>4

(* Leaving a call alone is a Return step of that rank.                     *)
LEMMA ReturnsAlone ==
  ASSUME IInv, NEW r \in Rank, Returns(r)
  PROVE  Order!Return({r})
<1> USE DEF IInv
<1> DEFINE c == Current(r)
<1>1. /\ call[r] \in CallNo /\ c \in Call
      /\ call' = [call EXCEPT ![r] = @ + 1]
      /\ pc' = [pc EXCEPT ![r] = "enter"]
      /\ UNCHANGED script
  BY ReturnsEffect
<1>2. pc[r] # "enter"
  BY DEF Returns, ShiftReceive, ShiftZero, ReduceAlone, Active
<1>3. ASSUME NEW s \in Order!Needs(c, r)
      PROVE  s \in Rank /\ Given(s) >= call[r]
  <2>1. ShiftReceive(r) /\ s \in Rank /\ s = Source(c, r)
    <3>1. OnTime(c)
      BY <1>1, <1>3 DEF Order!Needs, OnTime, Call
    <3>2. IsShift(c)
      BY <3>1 DEF Returns, ShiftReceive, ShiftZero, ReduceAlone, Active, PcInv
    <3>3. s \in Rank /\ s = Source(c, r) /\ HasSource(c, r)
      BY <1>1, <1>3, <3>1, <3>2, SizeAssumption
      DEF Order!Needs, Order!Rank, Rank, OnTime, Source, HasSource, IsShift,
          ShiftMethods, Call
    <3>4. ShiftReceive(r)
      BY <3>1, <3>3 DEF Returns, ShiftZero, ReduceAlone
    <3> QED
      BY <3>3, <3>4
  <2>2. PICK m \in Matching(r) : TRUE
    BY <2>1 DEF ShiftReceive
  <2>3. m \in net /\ m.src = s /\ m.call = call[r]
    BY <2>1, <2>2, MatchingIsOfTheCall DEF Matching, ShiftReceive
  <2> QED
    BY <1>1, <2>1, <2>3, SentIsGiven DEF NetInv
<1>4. Given(r) = call[r] /\ Order!Needs(c, r) \subseteq Rank
  BY <1>2, <1>3 DEF Given
<1>5. UNCHANGED [q \in Rank |-> Given(q)]
  BY <1>1, <1>2 DEF Given, TypeOK
<1>6. [q \in Rank |-> call[q] - 1]' =
        [q \in Rank |-> IF q \in {r} THEN call[q] - 1 + 1 ELSE call[q] - 1]
  BY <1>1 DEF TypeOK
<1> QED
  BY <1>1, <1>3, <1>4, <1>5, <1>6, MaxCallsAssumption
  DEF Order!Return, Order!Rank, Rank, Given, Current, CallNo

(* The reduction returns on all ranks.                                     *)
LEMMA AllReturn ==
  ASSUME TypeOK, PcInv, ReduceInv, AllReduce
  PROVE  Order!Return(Rank)
<1>1. \A r \in Rank : call[r] \in CallNo /\ Given(r) = call[r]
  BY DEF AllReduce, Active, Given
<1>2. \A r, q \in Rank : call[r] = call[q]
  <2>1. SUFFICES ASSUME NEW r \in Rank, NEW q \in Rank PROVE call[r] = call[q]
    OBVIOUS
  <2>2. script[call[r]] \in TimeReduction /\ script[call[q]] \in TimeReduction
    BY DEF AllReduce, Active, PcInv, TimeReduction, Current, TypeOK
  <2> QED
    BY <1>1, <2>2, CountDistinguishes DEF ReduceInv
<1>3. \A r \in Rank : Order!Needs(script[call[r]], r) \subseteq Rank
  <2>1. \A r \in Rank : script[call[r]] \in Call /\ ~IsShift(script[call[r]])
    BY <1>1 DEF AllReduce, Active, PcInv, Current, TypeOK
  <2> QED
    BY <2>1 DEF Order!Needs, Order!Rank, Rank, Call, IsShift, ShiftMethods
<1>4. UNCHANGED [q \in Rank |-> Given(q)]
  <2>1. \A q \in Rank : Given(q)' = call[q]
    BY <1>1, MaxCallsAssumption DEF AllReduce, Given, CallNo
  <2> QED
    BY <1>1, <2>1
<1>5. [q \in Rank |-> call[q] - 1]' =
        [q \in Rank |-> IF q \in Rank THEN call[q] - 1 + 1 ELSE call[q] - 1]
  BY <1>1, MaxCallsAssumption DEF AllReduce, CallNo
<1>6. UNCHANGED script
  BY DEF AllReduce
<1> QED
  BY <1>1, <1>2, <1>3, <1>4, <1>5, <1>6, MaxCallsAssumption
  DEF Order!Return, Order!Rank, Rank, Given, CallNo

(* The methods implement TimeOrder: in every call a rank goes on only after *)
(* the ranks it depends on, in the same call.                              *)
THEOREM ImplementsOrder == Spec => OrderedThroughTime
<1>1. Init => Order!Init
  <2>1. SUFFICES ASSUME Init PROVE Order!Init
    OBVIOUS
  <2>2. \A q \in Rank : Given(q) = 0 /\ call[q] - 1 = 0
    BY <2>1 DEF Init, Given
  <2> QED
    BY <2>1, <2>2 DEF Init, Order!Init, Order!Rank, Rank, Order!CallNo, CallNo, Call,
                ShiftMethods, Given
<1>2. IInv /\ [Next]_vars => [Order!Next]_(Order!vars)
  <2>1. SUFFICES ASSUME IInv, [Next]_vars PROVE [Order!Next]_(Order!vars)
    OBVIOUS
  <2>2. ASSUME NEW r \in Rank, ShiftSend(r) \/ Waits(r)
        PROVE  [Order!Next]_(Order!vars)
    BY <2>1, <2>2, GivesOrStutters DEF IInv, Order!Next, Order!Rank, Rank
  <2>3. ASSUME NEW r \in Rank, Returns(r)
        PROVE  [Order!Next]_(Order!vars)
    <3>1. {r} \in (SUBSET Order!Rank) \ {{}}
      BY DEF Order!Rank, Rank
    <3> QED
      BY <2>1, <2>3, <3>1, ReturnsAlone DEF Order!Next
  <2>4. CASE AllReduce
    <3>1. Rank \in (SUBSET Order!Rank) \ {{}}
      BY SizeAssumption DEF Order!Rank, Rank
    <3> QED
      BY <2>1, <2>4, <3>1, AllReturn DEF Order!Next, IInv
  <2>5. CASE UNCHANGED vars
    BY <2>5 DEF vars, Order!vars
  <2> QED
    BY <2>1, <2>2, <2>3, <2>4, <2>5, NextCases
<1> QED
  BY <1>1, <1>2, Invariance, PTL DEF Spec, OrderedThroughTime, Order!Spec

=============================================================================
