---------------------------- MODULE LibOOPSProofs ----------------------------
(***************************************************************************)
(* What a rank logs to, for every number of ranks and every environment.   *)
(***************************************************************************)
EXTENDS LibOOPS, TLAPS

(* Before initialise a rank has nothing on, and takes itself for rank 0    *)
(* when it makes a channel; afterwards its settings are those of its own   *)
(* rank.                                                                   *)
SettingsInv(r) ==
  /\ pc[r] = "main" =>
       /\ ~test[r] /\ ~trace[r]
       /\ \A c \in Channel \ {"stats", "test"} : channel[r][c] # "eckit info"
  /\ pc[r] # "main" =>
       /\ rank[r] = r
       /\ trace[r] => pretrace[r] \/ r = 0
  /\ test[r] => r = 0

(* A rank's channel may reach eckit's info channel.                        *)
MaySpeak(r, c) ==
  \/ r = 0
  \/ c = "trace" /\ pretrace[r]
  \/ c \in {"stats", "test"} \cap early[r]

(* Only such channels do, and finalise replaces them.                      *)
ChannelInv(r) ==
  /\ \A c \in Channel : channel[r][c] = "eckit info" => MaySpeak(r, c)
  /\ pc[r] = "ended" => \A c \in Channel : channel[r][c] = "empty"

(* Ranks that take timings are in the summary, if there is one, before     *)
(* they are past it, and leave it together.                                *)
SummaryInv ==
  LET past == {r \in Rank : pc[r] \in {"reference", "failed", "ended"}}
  IN  \A r \in Rank :
        /\ pc[r] = "GPTLpr_summary" => profile[r] /\ Size > 1
        /\ r \in past /\ profile[r] /\ Size > 1 => past = Rank
        /\ pc[r] = "main" => ~profile[r]

IInv ==
  /\ TypeOK
  /\ SummaryInv
  /\ \A r \in Rank : SettingsInv(r) /\ ChannelInv(r)
------------------------------------------------------------------------------
(* A rank is a natural number and 0 is one.                                *)
LEMMA Ranks == Rank \subseteq Nat /\ 0 \in Rank
BY SizeAssumption DEF Rank

(* What initialise leaves, whatever the environment.                       *)
LEMMA Configured ==
  ASSUME TypeOK, NEW r \in Rank, Configure(r, r)
  PROVE  /\ trace' \in [Rank -> BOOLEAN] /\ debug' \in [Rank -> BOOLEAN]
         /\ pretrace' \in [Rank -> BOOLEAN] /\ profile' \in [Rank -> BOOLEAN]
         /\ trace'[r] => pretrace'[r] \/ r = 0
         /\ \A q \in Rank \ {r} : /\ trace'[q] = trace[q] /\ pretrace'[q] = pretrace[q]
                                  /\ profile'[q] = profile[q]
<1>1. PICK it \in -1 .. 1, ib \in -1 .. 1, do \in BOOLEAN :
        /\ trace' = [trace EXCEPT ![r] = SwitchedOn(it, r)]
        /\ pretrace' = [pretrace EXCEPT ![r] = it < 0]
        /\ debug' = [debug EXCEPT ![r] = SwitchedOn(ib, r)]
        /\ profile' = [profile EXCEPT ![r] = do]
  BY Zenon DEF Configure
<1>2. /\ trace \in [Rank -> BOOLEAN] /\ debug \in [Rank -> BOOLEAN]
      /\ pretrace \in [Rank -> BOOLEAN] /\ profile \in [Rank -> BOOLEAN]
  BY DEF TypeOK
<1>3. /\ SwitchedOn(it, r) \in BOOLEAN /\ SwitchedOn(ib, r) \in BOOLEAN
      /\ (it < 0) \in BOOLEAN
  <2>1. (it < 0) \in BOOLEAN
    OBVIOUS
  <2>2. SwitchedOn(it, r) \in BOOLEAN /\ SwitchedOn(ib, r) \in BOOLEAN
    BY Zenon DEF SwitchedOn
  <2> QED
    BY <2>1, <2>2, Zenon
<1>4. SwitchedOn(it, r) => it < 0 \/ r = 0
  BY DEF SwitchedOn
<1>5. /\ trace' \in [Rank -> BOOLEAN] /\ debug' \in [Rank -> BOOLEAN]
      /\ pretrace' \in [Rank -> BOOLEAN] /\ profile' \in [Rank -> BOOLEAN]
  BY <1>1, <1>2, <1>3, Zenon
<1>6. trace'[r] = SwitchedOn(it, r) /\ pretrace'[r] = (it < 0)
  BY <1>1, <1>2, Zenon
<1>7. \A q \in Rank \ {r} : /\ trace'[q] = trace[q] /\ pretrace'[q] = pretrace[q]
                            /\ profile'[q] = profile[q]
  BY <1>1, <1>2
<1> QED
  BY <1>4, <1>5, <1>6, <1>7, Zenon

(* The type of each variable, under each action.                           *)
LEMMA TypeOKIsPreserved == IInv /\ [Next]_vars => TypeOK'
<1> SUFFICES ASSUME IInv, [Next]_vars PROVE TypeOK'
  OBVIOUS
<1>0. TypeOK
  BY DEF IInv
<1> USE Ranks DEF TypeOK, settings
<1>1. ASSUME NEW r \in Rank, Initialise(r) PROVE TypeOK'
  <2>1. /\ trace' \in [Rank -> BOOLEAN] /\ debug' \in [Rank -> BOOLEAN]
        /\ pretrace' \in [Rank -> BOOLEAN] /\ profile' \in [Rank -> BOOLEAN]
    BY <1>0, <1>1, Configured, Zenon DEF Initialise
  <2> QED
    BY <1>0, <1>1, <2>1 DEF Initialise
<1>2. ASSUME NEW r \in Rank, NEW c \in Channel, GetChannel(r, c) PROVE TypeOK'
  <2>1. NewTarget(r, c) \in Target
    BY DEF NewTarget, Target, Channel
  <2> QED
    BY <1>0, <1>2, <2>1 DEF GetChannel
<1>3. ASSUME NEW r \in Rank, TestReferenceInitialise(r) PROVE TypeOK'
  <2>1. channel' \in [Rank -> [Channel -> Target]]
    BY <1>0, <1>3 DEF TestReferenceInitialise, Channel, Target
  <2>2. test' \in [Rank -> BOOLEAN]
    BY <1>0, <1>3, Zenon DEF TestReferenceInitialise
  <2> QED
    BY <1>0, <1>3, <2>1, <2>2 DEF TestReferenceInitialise
<1>4. ASSUME NEW r \in Rank, Finalise(r) \/ ReferenceDiffers(r) PROVE TypeOK'
  BY <1>0, <1>4 DEF Finalise, ReferenceDiffers
<1>5. ASSUME NEW r \in Rank, ResetChannels(r) PROVE TypeOK'
  <2>1. [c \in Channel |-> "empty"] \in [Channel -> Target]
    BY DEF Target
  <2> QED
    BY <1>0, <1>5, <2>1 DEF ResetChannels
<1>6. CASE SummaryDone
  BY <1>0, <1>6 DEF SummaryDone
<1>7. CASE UNCHANGED vars
  BY <1>0, <1>7 DEF vars
<1> QED
  BY <1>1, <1>2, <1>3, <1>4, <1>5, <1>6, <1>7, UsedAssumption
  DEF Next, Life, Use, Terminating

(* What is known of one rank, under the actions of any.                    *)
RankInv(r) == SettingsInv(r) /\ ChannelInv(r)

LEMMA RankInvIsPreserved ==
  IInv /\ [Next]_vars => \A q \in Rank : RankInv(q)'
<1> SUFFICES ASSUME IInv, [Next]_vars, NEW q \in Rank PROVE RankInv(q)'
  OBVIOUS
<1>0. /\ TypeOK /\ RankInv(q)
      /\ \A r \in Rank : RankInv(r)
  BY DEF IInv, RankInv
<1> USE DEF TypeOK, settings
<1>1. ASSUME NEW r \in Rank, Initialise(r) PROVE RankInv(q)'
  <2>1. UNCHANGED <<test, channel, early>> /\ pc[r] = "main" /\ pc'[r] = "initialised"
    BY <1>0, <1>1 DEF Initialise
  <2>2. /\ trace'[r] => pretrace'[r] \/ r = 0
        /\ \A p \in Rank \ {r} : trace'[p] = trace[p] /\ pretrace'[p] = pretrace[p]
    BY <1>0, <1>1, Configured, Zenon DEF Initialise
  <2>3. CASE q = r
    <3>1. rank'[q] = q
      BY <1>0, <1>1, <2>3 DEF Initialise
    <3>2. \A c \in Channel : channel[q][c] = "eckit info" => MaySpeak(q, c)'
      <4> SUFFICES ASSUME NEW c \in Channel, channel[q][c] = "eckit info"
                   PROVE  MaySpeak(q, c)'
        OBVIOUS
      <4>1. MaySpeak(q, c)
        BY <1>0 DEF RankInv, ChannelInv
      <4>2. CASE c # "trace"
        BY <2>1, <4>1, <4>2 DEF MaySpeak
      <4>3. CASE c = "trace"
        BY <1>0, <2>1, <2>3, <4>3 DEF RankInv, SettingsInv, Channel
      <4> QED
        BY <4>2, <4>3
    <3> QED
      BY <1>0, <2>1, <2>2, <2>3, <3>1, <3>2 DEF RankInv, SettingsInv, ChannelInv
  <2>4. CASE q # r
    <3>1. pc'[q] = pc[q] /\ rank'[q] = rank[q]
      BY <1>0, <1>1, <2>4 DEF Initialise
    <3> QED
      BY <1>0, <2>1, <2>2, <2>4, <3>1 DEF RankInv, SettingsInv, ChannelInv, MaySpeak
  <2> QED
    BY <2>3, <2>4
<1>2. ASSUME NEW r \in Rank, NEW c \in Channel, GetChannel(r, c) PROVE RankInv(q)'
  <2>1. /\ UNCHANGED <<pc, settings, test>> /\ channel[r][c] = "none"
        /\ \A d \in Channel : channel'[q][d] =
             IF q = r /\ d = c THEN NewTarget(r, c) ELSE channel[q][d]
        /\ early[q] \subseteq early'[q]
        /\ q = r /\ pc[r] = "main" => c \in early'[q]
    BY <1>0, <1>2 DEF GetChannel
  <2>2. NewTarget(r, c) = "eckit info" =>
          IF pc[r] = "main" THEN c \in {"stats", "test"}
                            ELSE r = 0 \/ (c = "trace" /\ pretrace[r])
    <3>1. SettingsInv(r)
      BY <1>0 DEF RankInv
    <3> QED
      BY <3>1 DEF SettingsInv, NewTarget, Channel
  <2>3. pc[r] # "ended"
    BY <1>0, <2>1 DEF RankInv, ChannelInv
  <2>4. SettingsInv(q)'
    BY <1>0, <2>1, <2>2 DEF RankInv, SettingsInv
  <2>5. ChannelInv(q)'
    BY <1>0, <2>1, <2>2, <2>3 DEF RankInv, ChannelInv, MaySpeak
  <2> QED
    BY <2>4, <2>5 DEF RankInv
<1>3. ASSUME NEW r \in Rank, TestReferenceInitialise(r) PROVE RankInv(q)'
  <2>1. /\ UNCHANGED <<pc, settings, early>>
        /\ pc[r] = "initialised" /\ rank[r] = 0
        /\ test'[q] => test[q] \/ q = r
        /\ q # r => channel'[q] = channel[q]
        /\ q = r => pc[q] # "ended" /\ pc[q] # "main"
    BY <1>0, <1>3 DEF TestReferenceInitialise
  <2>2. r = 0
    BY <1>0, <2>1 DEF RankInv, SettingsInv
  <2>3. SettingsInv(q)'
    BY <1>0, <2>1, <2>2 DEF RankInv, SettingsInv
  <2>4. ChannelInv(q)'
    BY <1>0, <2>1, <2>2 DEF RankInv, ChannelInv, MaySpeak
  <2> QED
    BY <2>3, <2>4 DEF RankInv
<1>4. ASSUME NEW r \in Rank, Finalise(r) \/ ReferenceDiffers(r) PROVE RankInv(q)'
  <2>1. /\ UNCHANGED <<settings, test, channel, early>>
        /\ (pc'[q] \notin {"main", "ended"} /\ pc[q] # "main") \/ pc'[q] = pc[q]
    BY <1>0, <1>4 DEF Finalise, ReferenceDiffers
  <2> QED
    BY <1>0, <2>1 DEF RankInv, SettingsInv, ChannelInv, MaySpeak
<1>5. ASSUME NEW r \in Rank, ResetChannels(r) PROVE RankInv(q)'
  <2>1. /\ UNCHANGED <<settings, test, early>>
        /\ \/ pc[q] = "reference" /\ pc'[q] = "ended"
              /\ channel'[q] = [c \in Channel |-> "empty"]
           \/ pc'[q] = pc[q] /\ channel'[q] = channel[q]
    BY <1>0, <1>5 DEF ResetChannels
  <2>2. SettingsInv(q)'
    BY <1>0, <2>1 DEF RankInv, SettingsInv
  <2>3. ChannelInv(q)'
    BY <1>0, <2>1 DEF RankInv, ChannelInv, MaySpeak
  <2> QED
    BY <2>2, <2>3 DEF RankInv
<1>6. CASE SummaryDone
  <2>1. /\ UNCHANGED <<settings, test, channel, early>>
        /\ pc[q] = "GPTLpr_summary" /\ pc'[q] = "reference"
    BY <1>0, <1>6 DEF SummaryDone
  <2> QED
    BY <1>0, <2>1 DEF RankInv, SettingsInv, ChannelInv, MaySpeak
<1>7. CASE UNCHANGED vars
  BY <1>0, <1>7 DEF vars, RankInv, SettingsInv, ChannelInv, MaySpeak
<1> QED
  BY <1>1, <1>2, <1>3, <1>4, <1>5, <1>6, <1>7, UsedAssumption
  DEF Next, Life, Use, Terminating

(* Only the end of the summary takes a rank that takes timings past it.    *)
LEMMA SummaryInvIsPreserved == TypeOK /\ SummaryInv /\ [Next]_vars => SummaryInv'
<1> SUFFICES ASSUME TypeOK, SummaryInv, [Next]_vars PROVE SummaryInv'
  OBVIOUS
<1> USE DEF TypeOK, SummaryInv, settings
<1>1. ASSUME NEW r \in Rank, Initialise(r) PROVE SummaryInv'
  <2>1. \A q \in Rank \ {r} : profile'[q] = profile[q]
    BY <1>1, Configured, Zenon DEF Initialise
  <2>2. /\ pc[r] = "main" /\ pc'[r] = "initialised"
        /\ \A q \in Rank \ {r} : pc'[q] = pc[q]
    BY <1>1 DEF Initialise
  <2> QED
    BY <2>1, <2>2
<1>2. ASSUME NEW r \in Rank, Finalise(r) PROVE SummaryInv'
  BY <1>2 DEF Finalise
<1>3. ASSUME NEW r \in Rank, ReferenceDiffers(r) \/ ResetChannels(r) PROVE SummaryInv'
  BY <1>3 DEF ReferenceDiffers, ResetChannels
<1>4. CASE SummaryDone
  BY <1>4 DEF SummaryDone
<1>5. CASE UNCHANGED <<pc, settings>>
  BY <1>5
<1> QED
  BY <1>1, <1>2, <1>3, <1>4, <1>5
  DEF Next, Life, Use, Terminating, TestReferenceInitialise, GetChannel, vars

(* Nothing is set or made before initialise.                               *)
LEMMA InitImpliesIInv == Init => IInv
<1> SUFFICES ASSUME Init PROVE IInv
  OBVIOUS
<1>1. /\ trace \in [Rank -> BOOLEAN] /\ debug = trace /\ test = trace
      /\ pretrace = trace /\ profile = trace /\ \A r \in Rank : ~trace[r]
  BY Zenon DEF Init
<1>2. /\ pc \in [Rank -> {"main"}] /\ rank \in [Rank -> Rank]
      /\ channel \in [Rank -> [Channel -> {"none"}]]
      /\ early \in [Rank -> SUBSET Channel]
  BY Ranks DEF Init
<1>3. TypeOK
  <2>1. /\ trace \in [Rank -> BOOLEAN] /\ debug \in [Rank -> BOOLEAN]
        /\ test \in [Rank -> BOOLEAN] /\ pretrace \in [Rank -> BOOLEAN]
        /\ profile \in [Rank -> BOOLEAN]
    BY <1>1, Zenon
  <2>2. pc \in [Rank -> {"main", "initialised", "GPTLpr_summary", "reference",
                         "failed", "ended"}]
    BY <1>2
  <2>3. channel \in [Rank -> [Channel -> Target]]
    BY <1>2 DEF Target
  <2> QED
    BY <1>2, <2>1, <2>2, <2>3, Zenon DEF TypeOK
<1>4. \A r \in Rank : SettingsInv(r) /\ ChannelInv(r)
  BY <1>1, <1>2 DEF SettingsInv, ChannelInv
<1>5. SummaryInv
  BY <1>1, <1>2 DEF SummaryInv
<1> QED
  BY <1>3, <1>4, <1>5 DEF IInv

(* The inductive invariant holds throughout.                               *)
THEOREM Invariance == Spec => []IInv
<1>1. IInv /\ [Next]_vars => IInv'
  BY TypeOKIsPreserved, RankInvIsPreserved, SummaryInvIsPreserved DEF IInv, RankInv
<1> QED
  BY <1>1, InitImpliesIInv, PTL DEF Spec

(* Type correctness, for every number of ranks.                            *)
THEOREM TypeCorrect == Spec => []TypeOK
<1>1. IInv => TypeOK
  BY DEF IInv
<1> QED
  BY <1>1, Invariance, PTL

(* Only rank 0 reaches eckit's info channel, but for a negative trace and  *)
(* the channels that were asked for before initialise.                     *)
THEOREM Rank0Speaks == Spec => []OnlyRank0Speaks
<1>1. IInv => OnlyRank0Speaks
  <2> SUFFICES ASSUME IInv, NEW r \in Rank \ {0}, NEW c \in Channel, pc[r] # "main",
                      Logged(r, c) = "eckit info"
               PROVE  \/ c = "trace" /\ pretrace[r]
                      \/ c \in {"stats", "test"} \cap early[r]
    BY DEF OnlyRank0Speaks
  <2>1. /\ rank[r] = r /\ ~test[r] /\ (trace[r] => pretrace[r])
        /\ channel[r][c] = "eckit info" => MaySpeak(r, c)
    BY DEF IInv, SettingsInv, ChannelInv
  <2> QED
    BY <2>1 DEF Logged, NewTarget, MaySpeak, Channel
<1> QED
  BY <1>1, Invariance, PTL

(* No channel wraps eckit's info channel once finalise has returned.       *)
THEOREM WrappersAreGone == Spec => []NoWrapperLeft
<1>1. IInv => NoWrapperLeft
  BY DEF IInv, ChannelInv, NoWrapperLeft
<1> QED
  BY <1>1, Invariance, PTL

(* No rank is left alone in the summary of the timings, for every number   *)
(* of ranks: the safety part of EveryRankEnds.                             *)
THEOREM NoneIsLeftInSummary == Spec => []SummaryIsShared
<1>1. IInv => SummaryIsShared
  <2> SUFFICES ASSUME IInv, NEW r \in Rank, NEW q \in Rank,
                      pc[r] = "GPTLpr_summary", profile[q]
               PROVE  pc[q] \in {"main", "initialised", "GPTLpr_summary"}
    BY DEF SummaryIsShared
  <2> QED
    BY DEF IInv, TypeOK, SummaryInv
<1> QED
  BY <1>1, Invariance, PTL
=============================================================================
