--------------------------- MODULE MCEcmwfUpdate ---------------------------
(***************************************************************************)
(* Three files in two directories, one of them in extension/, and upstream *)
(* trees in which a file changes, and others and a directory come or go.   *)
(***************************************************************************)
EXTENDS EcmwfUpdate

CONSTANTS state, increment, field  \* files

MCFile == {state, increment, field}
MCExt == {increment}
MCDirOf == [f \in MCFile |-> IF f = field THEN "fields" ELSE "base"]
MCTree == { [f \in MCFile |-> IF f = field THEN 0 ELSE 1],
            [f \in MCFile |-> 1],
            [f \in MCFile |-> CASE f = state -> 2 [] f = increment -> 0 [] OTHER -> 1] }
=============================================================================
