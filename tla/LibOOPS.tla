------------------------------- MODULE LibOOPS -------------------------------
(***************************************************************************)
(* The library object of each rank (util/LibOOPS.cc): its settings, read   *)
(* at initialise from the environment of the process, its log channels,    *)
(* made on first use and kept, and the way out through finalise, where     *)
(* ranks meet if profiling is on.                                          *)
(*                                                                         *)
(* The object is static: anyone may ask for a channel at any time, before  *)
(* initialise, when every rank takes itself for rank 0, and "just in case" *)
(* after finalise.  oopsjedi::Run calls initialise and                     *)
(* testReferenceInitialise, in this order, and finalise at the end.        *)
(***************************************************************************)
EXTENDS Naturals, Integers

CONSTANTS
  Size,  \* the number of ranks of mpi::world()
  Used   \* bound: the channels that are asked for

Channel == {"info", "debug", "trace", "stats", "test"}

ASSUME SizeAssumption == Size \in Nat \ {0}
ASSUME UsedAssumption == Used \subseteq Channel

VARIABLES
  pc,       \* pc[r]: where rank r is in the life of its Run
  rank,     \* rank[r]: rank_, 0 until initialise sets it
  trace, debug, test,  \* trace[r], debug[r], test[r]: trace_, debug_, test_
  pretrace, \* pretrace[r]: pretrace_ has the rank, OOPSJEDI_TRACE being < 0
  profile,  \* profile[r]: do_profile, from OOPSJEDI_PROFILE
  channel,  \* channel[r][c]: what rank r's channel c writes to
  early     \* early[r]: the channels rank r made before initialise (a record
            \* of what happened, not the program's)

settings == <<rank, trace, debug, pretrace, profile>>
vars == <<pc, settings, test, channel, early>>

Rank == 0 .. Size - 1
(* Channels not made yet, made without a target, prefixing eckit's info    *)
(* channel, or with the prefix of OOPSJEDI_DEBUG.                          *)
Target == {"none", "empty", "eckit info", "prefix"}

Init ==
  /\ pc = [r \in Rank |-> "main"]
  /\ rank = [r \in Rank |-> 0]
  /\ trace = [r \in Rank |-> FALSE]
  /\ debug = trace /\ test = trace /\ pretrace = trace /\ profile = trace
  /\ channel = [r \in Rank |-> [c \in Channel |-> "none"]]
  /\ early = [r \in Rank |-> {}]

------------------------------------------------------------------------------
(* Whether a setting is on: above 0 on rank 0 only, below 0 everywhere.    *)
SwitchedOn(setting, id) == setting < 0 \/ (setting > 0 /\ id = 0)

(* OOPSJEDI_TRACE, OOPSJEDI_DEBUG and OOPSJEDI_PROFILE, as process r finds *)
(* them, when it counts as rank id.                                        *)
Configure(r, id) ==
  \E it, ib \in -1 .. 1, do \in BOOLEAN :
    /\ trace' = [trace EXCEPT ![r] = SwitchedOn(it, id)]
    /\ pretrace' = [pretrace EXCEPT ![r] = it < 0]
    /\ debug' = [debug EXCEPT ![r] = SwitchedOn(ib, id)]
    /\ profile' = [profile EXCEPT ![r] = do]

(* The faults of counting ranks from 1 and of reading the environment      *)
(* before rank_ is set.                                                    *)
InitialiseFromOne(r) ==
  /\ pc[r] = "main"
  /\ pc' = [pc EXCEPT ![r] = "initialised"]
  /\ rank' = [rank EXCEPT ![r] = r + 1]
  /\ Configure(r, r + 1)
  /\ UNCHANGED <<test, channel, early>>

InitialiseRankLast(r) ==
  /\ pc[r] = "main"
  /\ pc' = [pc EXCEPT ![r] = "initialised"]
  /\ rank' = [rank EXCEPT ![r] = r]
  /\ Configure(r, rank[r])
  /\ UNCHANGED <<test, channel, early>>

Initialise(r) ==
  /\ pc[r] = "main"
  /\ pc' = [pc EXCEPT ![r] = "initialised"]
  /\ rank' = [rank EXCEPT ![r] = r]
  /\ Configure(r, r)
  /\ UNCHANGED <<test, channel, early>>

(* What a channel writes to when it is first asked for.                    *)
NewTarget(r, c) ==
  CASE c = "trace" -> IF trace[r] THEN "eckit info" ELSE "empty"
    [] c = "debug" -> IF debug[r] THEN "prefix" ELSE "empty"
    [] c = "stats" -> IF rank[r] = 0 THEN "eckit info" ELSE "empty"
    [] c = "test"  -> IF test[r] \/ rank[r] = 0 THEN "eckit info" ELSE "empty"
    [] c = "info"  -> "empty"

(* What an accessor returns: on rank 0 infoChannel is eckit's own.         *)
Logged(r, c) ==
  IF c = "info" /\ rank[r] = 0 THEN "eckit info"
  ELSE IF channel[r][c] # "none" THEN channel[r][c]
  ELSE NewTarget(r, c)

(* debugChannel, traceChannel, ...: the first use makes the channel, with  *)
(* the settings of the moment, and it is kept.                             *)
GetChannel(r, c) ==
  /\ channel[r][c] = "none" /\ ~(c = "info" /\ rank[r] = 0)
  /\ channel' = [channel EXCEPT ![r][c] = NewTarget(r, c)]
  /\ early' = IF pc[r] = "main" THEN [early EXCEPT ![r] = @ \cup {c}] ELSE early
  /\ UNCHANGED <<pc, settings, test>>

(* On rank 0 the test channel is made now, if it was not, and its output   *)
(* kept for the comparison.                                                *)
TestReferenceInitialise(r) ==
  /\ pc[r] = "initialised" /\ ~test[r] /\ rank[r] = 0
  /\ test' = [test EXCEPT ![r] = TRUE]
  /\ channel' = [channel EXCEPT ![r]["test"] =
                   IF @ = "none" THEN "eckit info" ELSE @]
  /\ UNCHANGED <<pc, settings, early>>

(* The fault of calling the summary on the rank that prints it alone.      *)
FinaliseSummaryOnRank0(r) ==
  /\ pc[r] = "initialised"
  /\ pc' = [pc EXCEPT ![r] =
              IF profile[r] /\ Size > 1 /\ rank[r] = 0
              THEN "GPTLpr_summary" ELSE "reference"]
  /\ UNCHANGED <<settings, test, channel, early>>

(* finalise up to the collective summary of the timings, when they are     *)
(* taken and there is more than one rank.                                  *)
Finalise(r) ==
  /\ pc[r] = "initialised"
  /\ pc' = [pc EXCEPT ![r] =
              IF profile[r] /\ Size > 1 THEN "GPTLpr_summary" ELSE "reference"]
  /\ UNCHANGED <<settings, test, channel, early>>

(* The summary is over MPI_COMM_WORLD: it ends when all have come to it.   *)
SummaryDone ==
  /\ \A r \in Rank : pc[r] = "GPTLpr_summary"
  /\ pc' = [r \in Rank |-> "reference"]
  /\ UNCHANGED <<settings, test, channel, early>>

(* TestReference::finalise throws when the test output is not the one      *)
(* expected; the rest of finalise is then left out.                        *)
ReferenceDiffers(r) ==
  /\ pc[r] = "reference" /\ rank[r] = 0 /\ test[r]
  /\ pc' = [pc EXCEPT ![r] = "failed"]
  /\ UNCHANGED <<settings, test, channel, early>>

(* The fault of dropping the channels: the next use makes them again.      *)
DropChannels(r) ==
  /\ pc[r] = "reference"
  /\ pc' = [pc EXCEPT ![r] = "ended"]
  /\ channel' = [channel EXCEPT ![r] = [c \in Channel |-> "none"]]
  /\ UNCHANGED <<settings, test, early>>

(* All channels are replaced by empty ones.                                *)
ResetChannels(r) ==
  /\ pc[r] = "reference"
  /\ pc' = [pc EXCEPT ![r] = "ended"]
  /\ channel' = [channel EXCEPT ![r] = [c \in Channel |-> "empty"]]
  /\ UNCHANGED <<settings, test, early>>

(* A rank has ended, or waits in the summary for one that takes no timings *)
(* and will not come.                                                      *)
Ended(r) == pc[r] \in {"ended", "failed"}
Abandoned(r) ==
  pc[r] = "GPTLpr_summary" /\ \E q \in Rank : pc[q] # "main" /\ ~profile[q]
Terminating == (\A r \in Rank : Ended(r) \/ Abandoned(r)) /\ UNCHANGED vars

Life(r) == Initialise(r) \/ Finalise(r) \/ ReferenceDiffers(r) \/ ResetChannels(r)
Use(r) == TestReferenceInitialise(r) \/ \E c \in Used : GetChannel(r, c)

Next ==
  \/ \E r \in Rank : Life(r) \/ Use(r)
  \/ SummaryDone
  \/ Terminating

(* A rank that is not waiting for others goes on to the end of its Run.    *)
Fairness == WF_vars(SummaryDone) /\ \A r \in Rank : WF_vars(Life(r))

Spec == Init /\ [][Next]_vars /\ Fairness

------------------------------------------------------------------------------
TypeOK ==
  /\ pc \in [Rank -> {"main", "initialised", "GPTLpr_summary", "reference",
                      "failed", "ended"}]
  /\ rank \in [Rank -> Rank]
  /\ trace \in [Rank -> BOOLEAN] /\ debug \in [Rank -> BOOLEAN]
  /\ test \in [Rank -> BOOLEAN] /\ pretrace \in [Rank -> BOOLEAN]
  /\ profile \in [Rank -> BOOLEAN]
  /\ channel \in [Rank -> [Channel -> Target]]
  /\ early \in [Rank -> SUBSET Channel]

(* Once initialised, a rank other than 0 does not log to eckit's info      *)
(* channel, except the trace when its OOPSJEDI_TRACE is negative, and the  *)
(* statistics and test output if it asked for their channels too early     *)
(* (LibOOPS.cc:82-95 and the accessors, 188-242).  A channel is kept as it *)
(* was first made, so that no other may be made to speak, under settings   *)
(* that are not final or that are not of its rank.                         *)
OnlyRank0Speaks ==
  \A r \in Rank \ {0}, c \in Channel :
    pc[r] # "main" /\ Logged(r, c) = "eckit info" =>
      \/ c = "trace" /\ pretrace[r]
      \/ c \in {"stats", "test"} \cap early[r]

(* No channel that wraps eckit's info channel is left, or made again, when *)
(* finalise has returned (LibOOPS.cc:162-171).                             *)
NoWrapperLeft ==
  \A r \in Rank, c \in Channel : pc[r] = "ended" => channel[r][c] # "eckit info"

(* No rank waits in the collective summary for one that takes timings too  *)
(* and has gone past it (LibOOPS.cc:138-151), whatever became of that one  *)
(* since: its test reference may have failed (LibOOPS.cc:153-155).  The    *)
(* environments of the ranks need not agree.                               *)
SummaryIsShared ==
  \A r, q \in Rank :
    pc[r] = "GPTLpr_summary" /\ profile[q] =>
      pc[q] \in {"main", "initialised", "GPTLpr_summary"}

(* Every rank comes out of finalise, the timings' summary included         *)
(* (LibOOPS.cc:138-151), unless it takes timings and another does not.     *)
EveryRankEnds == \A r \in Rank : <>(Ended(r) \/ Abandoned(r))

(* What the comment of LibOOPS.cc:164 says: who still tries to log after   *)
(* finalise gets an empty channel.                                         *)
SilentOnceEnded ==
  \A r \in Rank, c \in Channel : pc[r] = "ended" => Logged(r, c) = "empty"
=============================================================================
