------------------------------ MODULE FieldView ------------------------------
(***************************************************************************)
(* What a client of the wrapper of an increment or a state can rely on     *)
(* (interface/Increment.h:178-189, interface/State.h:134-143): the object  *)
(* is a value and a view of it as fields, and `trust' says what the view   *)
(* tells of the value.  Whether and when fields are filled is not part of  *)
(* it: a method of the object renews the view at once.                     *)
(***************************************************************************)
CONSTANT isState  \* the object is a state, not an increment

VARIABLES
  live,   \* the object exists
  value,  \* its interior points
  view,   \* the fields that fieldSet() returns
  trust,  \* what the view is known to be
  held,   \* a client can write to the fields
  lent    \* a client can write to the value

viewVars == <<live, value, view, trust, held, lent>>

(* The view is known to be that of the value, or to have its interior      *)
(* points; or it is what a client wrote, or is not known to be anything.   *)
Trust == {"current", "interior", "written", "stale"}

FieldsOf(v) == [interior |-> v, halo |-> v]

Init ==
  /\ ~live /\ ~held /\ ~lent
  /\ value = 0 /\ view = FieldsOf(0) /\ trust = "current"

------------------------------------------------------------------------------
Renewed == view' = FieldsOf(value') /\ trust' = "current"

(* The object comes and goes; references to it do not outlive it.          *)
Create == ~live /\ live' /\ Renewed /\ UNCHANGED <<held, lent>>
Destroy == live /\ ~live' /\ Renewed /\ ~held' /\ ~lent'

(* A method of the object: the view is that of its new value.              *)
Method == live /\ Renewed /\ UNCHANGED <<live, held, lent>>

(* A client takes the fields, and writes to them.                          *)
Take == live /\ held' /\ UNCHANGED <<live, value, view, trust, lent>>
WriteFields == held /\ trust' = "written" /\ UNCHANGED <<live, value, held, lent>>

(* A client takes the value, which drops what was written to the fields.   *)
Lend == live /\ lent' /\ Renewed /\ UNCHANGED <<live, value, held>>

(* The value changes past fields that were filled: it is written through a *)
(* reference, other fields are copied or added to it, those of an increment *)
(* are added back, or the model throws in between.  What a client wrote is *)
(* still known to be that, unless it was what was added.                   *)
Overtake ==
  /\ live /\ trust' \in {trust, "stale"} \cap {"written", "stale"}
  /\ UNCHANGED <<live, view, held, lent>>

(* The model throws while the fields are filled.                           *)
FillFails ==
  /\ live /\ trust = "current" /\ view = FieldsOf(value)
  /\ trust' = "stale" /\ UNCHANGED <<live, value, held, lent>>

(* The fields of a state are copied back and stay as they are.  (Those of  *)
(* an increment copied back are a method.)                                 *)
CopyBack ==
  /\ live /\ isState
  /\ value' = view.interior /\ trust' = "interior"
  /\ UNCHANGED <<live, view, held, lent>>

Next == Create \/ Destroy \/ Method \/ Take \/ WriteFields \/ Lend \/ Overtake
          \/ FillFails \/ CopyBack

Spec == Init /\ [][Next]_viewVars
=============================================================================
