------------------------ MODULE EnsemblePerturbations ------------------------
(***************************************************************************)
(* Ensembles of increments made from states (base/IncrementEnsemble.h):    *)
(* departures from the mean of one ensemble of states, or differences of   *)
(* two.  States and increments are integers; since the mean has the        *)
(* weights 1 / nens, the increments of the first kind are in units of it.  *)
(***************************************************************************)
EXTENDS Integers, Sequences, Functions

CONSTANTS
  MaxMembers,  \* bound: ensembles have at most this many states
  MaxVal       \* bound: the states are in 0 .. MaxVal

VARIABLES
  kind,    \* the constructor: "departures" or "differences"
  states,  \* the states of the (base) ensemble, as they are read
  other,   \* those of the ensemble of perturbed states
  pc,      \* the loop the constructor is in
  jj,      \* the members its loop has passed
  mean,    \* the mean accumulated so far
  ensemblePerturbs

inputs == <<kind, states, other>>
vars == <<kind, states, other, pc, jj, mean, ensemblePerturbs>>

Ensemble == UNION {[1 .. n -> 0 .. MaxVal] : n \in 0 .. MaxMembers}
nens == Len(states)

Init ==
  /\ kind \in {"departures", "differences"}
  /\ states \in Ensemble
  /\ other \in IF kind = "departures" THEN {<<>>} ELSE Ensemble
  /\ pc = "start" /\ jj = 0
  /\ mean = 0 /\ ensemblePerturbs = <<>>

------------------------------------------------------------------------------
(* The reference state is read from member 0, which an empty ensemble has  *)
(* not, and set to zero; so is an increment for each member.               *)
NoMember ==
  /\ kind = "departures" /\ pc = "start" /\ nens = 0
  /\ pc' = "ABORT"
  /\ UNCHANGED <<inputs, jj, mean, ensemblePerturbs>>

Reserve ==
  /\ kind = "departures" /\ pc = "start" /\ nens > 0
  /\ ensemblePerturbs' = [m \in 1 .. nens |-> 0]
  /\ pc' = "read"
  /\ UNCHANGED <<inputs, jj, mean>>

(* The fault of assigning the state to the mean, not adding it.            *)
ReadStateIntoMean ==
  /\ pc = "read" /\ jj < nens
  /\ mean' = states[jj + 1]
  /\ ensemblePerturbs' = [ensemblePerturbs EXCEPT ![jj + 1] = nens * states[jj + 1]]
  /\ jj' = jj + 1
  /\ UNCHANGED <<inputs, pc>>

(* A state is read, added to the mean and stored as an increment.          *)
ReadState ==
  /\ pc = "read" /\ jj < nens
  /\ mean' = mean + states[jj + 1]
  /\ ensemblePerturbs' = [ensemblePerturbs EXCEPT ![jj + 1] = nens * states[jj + 1]]
  /\ jj' = jj + 1
  /\ UNCHANGED <<inputs, pc>>

(* The second loop, over the same members.                                 *)
MeanDone ==
  /\ pc = "read" /\ jj = nens
  /\ pc' = "subtract" /\ jj' = 0
  /\ UNCHANGED <<inputs, mean, ensemblePerturbs>>

(* The fault of leaving the first member as it is.                         *)
SubtractMeanFromSecond ==
  /\ pc = "subtract" /\ jj < nens
  /\ ensemblePerturbs' = [ensemblePerturbs EXCEPT ![jj + 1] =
                            IF jj = 0 THEN @ ELSE @ - mean]
  /\ jj' = jj + 1
  /\ UNCHANGED <<inputs, pc, mean>>

SubtractMean ==
  /\ pc = "subtract" /\ jj < nens
  /\ ensemblePerturbs' = [ensemblePerturbs EXCEPT ![jj + 1] = @ - mean]
  /\ jj' = jj + 1
  /\ UNCHANGED <<inputs, pc, mean>>

SubtractDone ==
  /\ pc = "subtract" /\ jj = nens
  /\ pc' = "done"
  /\ UNCHANGED <<inputs, jj, mean, ensemblePerturbs>>

(* The two ensembles have the same size, which is asserted (the fault: only *)
(* that there are enough others), and their members are taken in pairs.    *)
StartDifferencesLax ==
  /\ kind = "differences" /\ pc = "start"
  /\ pc' = IF nens <= Len(other) THEN "difference" ELSE "ABORT"
  /\ UNCHANGED <<inputs, jj, mean, ensemblePerturbs>>

StartDifferences ==
  /\ kind = "differences" /\ pc = "start"
  /\ pc' = IF nens = Len(other) THEN "difference" ELSE "ABORT"
  /\ UNCHANGED <<inputs, jj, mean, ensemblePerturbs>>

Difference ==
  /\ pc = "difference" /\ jj < nens
  /\ ensemblePerturbs' = Append(ensemblePerturbs, states[jj + 1] - other[jj + 1])
  /\ jj' = jj + 1
  /\ UNCHANGED <<inputs, pc, mean>>

DifferencesDone ==
  /\ pc = "difference" /\ jj = nens
  /\ pc' = "done"
  /\ UNCHANGED <<inputs, jj, mean, ensemblePerturbs>>

Terminating == pc \in {"done", "ABORT"} /\ UNCHANGED vars

Step == NoMember \/ Reserve \/ ReadState \/ MeanDone \/ SubtractMean \/ SubtractDone
          \/ StartDifferences \/ Difference \/ DifferencesDone
Next == Step \/ Terminating

Spec == Init /\ [][Next]_vars

------------------------------------------------------------------------------
TypeOK ==
  /\ kind \in {"departures", "differences"}
  /\ states \in Ensemble /\ other \in Ensemble
  /\ pc \in {"start", "read", "subtract", "difference", "done", "ABORT"}
  /\ jj \in 0 .. nens
  /\ mean \in Nat
  /\ ensemblePerturbs \in Seq(Int) /\ Len(ensemblePerturbs) <= nens
  /\ kind = "differences" /\ pc = "done" => nens = Len(other)

Sum(f) == FoldFunction(LAMBDA x, y : x + y, 0, f)

(* The departures of an ensemble add up to nothing: all of them are from   *)
(* the mean of all of them (base/IncrementEnsemble.h:259-281).             *)
DeparturesAddToZero ==
  kind = "departures" /\ pc = "done" => Sum(ensemblePerturbs) = 0

(* Two departures differ as their states do, so that taking the mean off   *)
(* leaves the ensemble's spread (base/IncrementEnsemble.h:264-281).        *)
SpreadIsKept ==
  kind = "departures" /\ pc = "done" =>
    \A k, m \in 1 .. nens :
      ensemblePerturbs[k] - ensemblePerturbs[m] = nens * (states[k] - states[m])
=============================================================================
