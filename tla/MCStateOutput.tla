--------------------------- MODULE MCStateOutput ---------------------------
(***************************************************************************)
(* Configurations of every type, with and without what it needs, and the   *)
(* symmetries of the objects.                                              *)
(***************************************************************************)
EXTENDS StateOutput, TLC

MCConf ==
  LET Given(type, member, date) ==
        [type |-> type, exp |-> TRUE, prefix |-> FALSE, member |-> member, date |-> date]
  IN  { Given("an", None, None), Given("other", 1, 0),
        Given("fc", None, 0), Given("fc", 1, 1), Given("fc", None, None),
        Given("ens", 1, 0), Given("ens", 2, 0), Given("ens", 1, 1), Given("ens", None, 0),
        [Given("an", None, None) EXCEPT !.prefix = TRUE],
        [Given("an", None, None) EXCEPT !.exp = FALSE] }

Symmetry == Permutations(Geoms) \cup Permutations(Incs) \cup Permutations(Sts)
=============================================================================
