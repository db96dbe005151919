---------------------------- MODULE MCFieldCache ----------------------------
(***************************************************************************)
(* Two increments and a state, two of which exist at a time: with a single *)
(* state, no method works on more than two objects.  No definition tells   *)
(* one increment from the other, so that their permutations are a symmetry. *)
(***************************************************************************)
EXTENDS FieldCache, FiniteSets, TLC

Symmetry == Permutations(Incs)

MaxLive == 2
AtMostMaxLive == Cardinality(live) <= MaxLive
=============================================================================
