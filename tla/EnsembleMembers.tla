--------------------------- MODULE EnsembleMembers ---------------------------
(***************************************************************************)
(* Reading an ensemble of increments (base/IncrementEnsemble.h).  The      *)
(* members are listed in the configuration, or made from a template, a     *)
(* number of members, a first index and a list of indices to leave out.    *)
(* The constructor asks getIncrementParameters for each member in turn,    *)
(* and that method searches the member's index from the first one again.   *)
(***************************************************************************)
EXTENDS Integers, Sequences, FiniteSets

CONSTANTS
  MaxIndex,   \* bound: the first index and the excluded ones are at most this
  MaxMembers  \* bound: ensembles have at most this many members

ASSUME MaxIndexAssumption == MaxIndex \in Nat
ASSUME MaxMembersAssumption == MaxMembers \in Nat

VARIABLES
  listed,    \* the configuration has `members'
  template,  \* the configuration has `members from template'
  nmembers,  \* the number of members, listed or of the template
  start,     \* the template's first index
  except,    \* the template's excluded indices
  pc,        \* where the program is
  read,      \* the indices of the members read so far, in order
  jj,        \* getIncrementParameters: the members passed in this search
  count      \* getIncrementParameters: the index the search has come to

config == <<listed, template, nmembers, start, except>>
vars == <<listed, template, nmembers, start, except, pc, read, jj, count>>

(* The member asked for: the constructor's loop is at the end of `read'.   *)
ie == Len(read)

------------------------------------------------------------------------------
Init ==
  /\ listed = FALSE /\ template = FALSE
  /\ nmembers = 0 /\ start = 0 /\ except = {}
  /\ pc = "deserialize"
  /\ read = <<>>
  /\ jj = 0 /\ count = 0

(* The configuration has either kind of members, both or none.             *)
Configured ==
  /\ pc = "deserialize"
  /\ listed' \in BOOLEAN /\ template' \in BOOLEAN
  /\ nmembers' \in 0 .. MaxMembers
  /\ start' \in 0 .. MaxIndex
  /\ except' \in SUBSET (0 .. MaxIndex)
  /\ UNCHANGED <<read, jj, count>>

(* IncrementEnsembleParameters::deserialize: exactly one of the two.  The  *)
(* fault lets both pass.                                                   *)
DeserializeLax ==
  /\ Configured
  /\ pc' = IF ~listed' /\ ~template' THEN "UserError" ELSE "members"

Deserialize ==
  /\ Configured
  /\ pc' = IF listed' = template' THEN "UserError" ELSE "members"

(* The constructor asks for the next member (the fault: one too many).     *)
NextPastEnd ==
  /\ pc = "members" /\ listed /\ ie <= nmembers
  /\ read' = Append(read, ie)
  /\ UNCHANGED <<config, pc, jj, count>>

(* The next member of the list is due.                                     *)
ListedDue == pc = "members" /\ listed /\ ie < nmembers

NextListed ==
  /\ ListedDue
  /\ read' = Append(read, ie)
  /\ UNCHANGED <<config, pc, jj, count>>

NextFromTemplate ==
  /\ pc = "members" /\ ~listed /\ ie < nmembers
  /\ pc' = "search" /\ jj' = 0 /\ count' = start
  /\ UNCHANGED <<config, read>>

(* getIncrementParameters: the while loop over excluded indices.           *)
Skip ==
  /\ pc = "search" /\ count \in except
  /\ count' = count + 1
  /\ UNCHANGED <<config, pc, read, jj>>

(* ... and its for loop, which passes the members before number ie.        *)
Pass ==
  /\ pc = "search" /\ count \notin except /\ jj < ie
  /\ count' = count + 1 /\ jj' = jj + 1
  /\ UNCHANGED <<config, pc, read>>

(* The search has come to the member asked for.                            *)
FoundDue == pc = "search" /\ count \notin except /\ jj = ie

(* The fault of counting on after the last member too.                     *)
FoundAndCounted ==
  /\ FoundDue
  /\ read' = Append(read, count + 1)
  /\ pc' = "members"
  /\ UNCHANGED <<config, jj, count>>

Found ==
  /\ FoundDue
  /\ read' = Append(read, count)
  /\ pc' = "members"
  /\ UNCHANGED <<config, jj, count>>

Constructed ==
  /\ pc = "members" /\ ie = nmembers
  /\ pc' = "constructed"
  /\ UNCHANGED <<config, read, jj, count>>

Terminating == pc \in {"UserError", "constructed"} /\ UNCHANGED vars

Step == Deserialize \/ NextListed \/ NextFromTemplate \/ Skip \/ Pass \/ Found
          \/ Constructed
Next == Step \/ Terminating

Spec == Init /\ [][Next]_vars

------------------------------------------------------------------------------
TypeOK ==
  /\ listed \in BOOLEAN /\ template \in BOOLEAN
  /\ nmembers \in 0 .. MaxMembers
  /\ start \in 0 .. MaxIndex
  /\ except \subseteq 0 .. MaxIndex
  /\ pc \in {"deserialize", "UserError", "members", "search", "constructed"}
  /\ read \in Seq(Nat) /\ Len(read) <= nmembers
  /\ jj \in Nat /\ count \in Nat

(* The indices a template offers before index c.                           *)
OfferedBefore(c) == {i \in start .. c - 1 : i \notin except}

(* Index c is the one of member number k, counted from 0.                  *)
IsMember(c, k) ==
  c >= start /\ c \notin except /\ Cardinality(OfferedBefore(c)) = k

(* The members made from a template are the first ones it offers, in order: *)
(* none is excluded, read twice or passed over, though each is searched    *)
(* from the start (base/IncrementEnsemble.h:139-149).                      *)
FirstOffered ==
  template /\ ~listed => \A k \in 1 .. Len(read) : IsMember(read[k], k - 1)
=============================================================================
