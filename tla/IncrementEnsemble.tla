-------------------------- MODULE IncrementEnsemble --------------------------
(***************************************************************************)
(* The life of an ensemble of increments (base/IncrementEnsemble.h): one   *)
(* job makes it from states (EnsemblePerturbations) and writes it, another *)
(* reads an ensemble from what is on the disk (EnsembleMembers).  The      *)
(* reader's configuration need not fit what was written, and the files may *)
(* not be there: the first job may have aborted, making or writing them.   *)
(***************************************************************************)
EXTENDS EnsembleMembers

CONSTANTS
  MaxVal   \* bound: the states are in 0 .. MaxVal

ASSUME MaxValAssumption == MaxVal \in Nat

VARIABLES
  kind, states, other, maker, made, mean, ensemblePerturbs,
           \* those of EnsemblePerturbations; maker and made are its pc and jj
  written, \* write: the members written so far
  disk,    \* the increments on the disk, by member number
  members, \* the increments the reader has read, in order
  missing  \* the reader has been asked for a file that is not there

Perts == INSTANCE EnsemblePerturbations WITH pc <- maker, jj <- made

making == <<kind, states, other, maker, made, mean, ensemblePerturbs>>
reading == <<members, missing>>
ensembleVars == <<vars, making, written, disk, reading>>

------------------------------------------------------------------------------
EnsembleInit ==
  /\ Init /\ Perts!Init
  /\ written = 0 /\ disk = <<>>
  /\ members = <<>> /\ missing = FALSE

(* The first job, up to its end or its abort.                              *)
Make == Perts!Step /\ UNCHANGED <<vars, written, disk, reading>>

(* The next member goes to file number n.                                  *)
WriteAs(n) ==
  [m \in DOMAIN disk \cup {n} |->
     IF m = n THEN ensemblePerturbs[written + 1] ELSE disk[m]]

(* write numbers the members from 1 (the fault: from 0).                   *)
WriteFromZero ==
  /\ maker = "done" /\ written < Len(ensemblePerturbs)
  /\ disk' = WriteAs(written)
  /\ written' = written + 1
  /\ UNCHANGED <<vars, making, reading>>

Write ==
  /\ maker = "done" /\ written < Len(ensemblePerturbs)
  /\ disk' = WriteAs(written + 1)
  /\ written' = written + 1
  /\ UNCHANGED <<vars, making, reading>>

(* A member that cannot be written ends the job; those before it stay.     *)
WriteFails ==
  /\ maker = "done" /\ written < Len(ensemblePerturbs)
  /\ maker' = "ABORT"
  /\ UNCHANGED <<vars, kind, states, other, made, mean, ensemblePerturbs, written,
                 disk, reading>>

(* The second job starts when the first has ended, one way or the other.   *)
MakerEnded ==
  \/ maker = "ABORT"
  \/ maker = "done" /\ written = Len(ensemblePerturbs)

(* The steps that read no file.                                            *)
Search ==
  /\ MakerEnded /\ ~missing
  /\ Deserialize \/ NextFromTemplate \/ Skip \/ Pass \/ Constructed
  /\ UNCHANGED <<making, written, disk, reading>>

(* dx.read(...) of file number n.                                          *)
ReadFile(n) ==
  /\ n \in DOMAIN disk
  /\ members' = Append(members, disk[n])
  /\ UNCHANGED <<making, written, disk, missing>>

(* A list of members names the files in the order they were written in.    *)
ReadListed == MakerEnded /\ ~missing /\ NextListed /\ ReadFile(ie + 1)
ReadFound == MakerEnded /\ ~missing /\ Found /\ ReadFile(count)

(* A read that fails ends the reader.                                      *)
ReadFails ==
  /\ MakerEnded /\ ~missing
  /\ \/ ListedDue /\ ie + 1 \notin DOMAIN disk
     \/ FoundDue /\ count \notin DOMAIN disk
  /\ missing' = TRUE
  /\ UNCHANGED <<vars, making, written, disk, members>>

EnsembleEnded == MakerEnded /\ (missing \/ pc \in {"UserError", "constructed"})
EnsembleTerminating == EnsembleEnded /\ UNCHANGED ensembleVars

EnsembleStep == Make \/ Write \/ WriteFails \/ Search \/ ReadListed \/ ReadFound
                  \/ ReadFails
EnsembleNext == EnsembleStep \/ EnsembleTerminating

(* Both jobs go on while they can.                                         *)
EnsembleSpec ==
  EnsembleInit /\ [][EnsembleNext]_ensembleVars /\ WF_ensembleVars(EnsembleStep)

------------------------------------------------------------------------------
(* The reader's and the maker's own types; the files are a prefix of the   *)
(* ensemble made, and each index read gave an increment.                   *)
EnsembleTypeOK ==
  /\ TypeOK /\ Perts!TypeOK
  /\ written \in 0 .. Len(ensemblePerturbs)
  /\ disk = [m \in 1 .. written |-> ensemblePerturbs[m]]
  /\ members \in Seq(Int) /\ Len(members) = Len(read)
  /\ missing \in BOOLEAN

(* The departures of an ensemble add up to nothing: all of them are from   *)
(* the mean of all of them (base/IncrementEnsemble.h:259-281).             *)
DeparturesAddToZero == Perts!DeparturesAddToZero

(* Two departures differ as their states do, so that taking the mean off   *)
(* leaves the ensemble's spread (base/IncrementEnsemble.h:264-281).        *)
SpreadIsKept == Perts!SpreadIsKept

(* An ensemble that write has stored, in full or in part, is read back     *)
(* with the values it was made with and in their order, by a list of its   *)
(* files or by a template that sets neither `start' nor `except': the      *)
(* default first index (base/IncrementEnsemble.h:51) is write's (:349).    *)
(* Such a reader misses a file only when it asks for more than there are.  *)
WrittenIsReread ==
  listed \/ (start = 1 /\ except = {}) =>
    /\ \A k \in 1 .. Len(members) : members[k] = ensemblePerturbs[k]
    /\ missing => nmembers > written

(* A configuration with both kinds of members, or none, reads nothing; any *)
(* other one is read in full, whatever is excluded, or up to a member that *)
(* is not there (base/IncrementEnsemble.h:85-149, 300-305).                *)
AllRead ==
  <>(\/ listed = template /\ pc = "UserError" /\ members = <<>>
     \/ listed # template /\ pc = "constructed" /\ Len(members) = nmembers
     \/ missing /\ Len(members) < nmembers)
=============================================================================
