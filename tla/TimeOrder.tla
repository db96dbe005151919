------------------------------ MODULE TimeOrder ------------------------------
(***************************************************************************)
(* What the methods of oopsjedi::Increment that communicate through time   *)
(* (base/Increment.h) promise about their order, without messages, tags or *)
(* buffers: in each call a rank gives its part, and it returns from the    *)
(* call once the ranks it depends on have given theirs in the same call.   *)
(* TimeShift implements it.                                                *)
(***************************************************************************)
EXTENDS Integers

CONSTANTS
  Size,      \* number of ranks of the time communicator
  MaxCalls   \* bound: number of calls every rank makes

Rank == 0 .. Size - 1
CallNo == 1 .. MaxCalls

VARIABLES
  script,  \* the calls the program makes, the same on every rank
  given,   \* given[r]: the number of calls rank r has given its part in
  done     \* done[r]: the number of calls that have returned on rank r

(* The ranks whose part rank r cannot do without in call c.                *)
Needs(c, r) ==
  IF c.comm = "self" THEN {}
  ELSE CASE c.method = "shift_forward"  -> {r - 1} \cap Rank
         [] c.method = "shift_backward" -> {r + 1} \cap Rank
         [] c.method = "reduce"         -> Rank

Init ==
  /\ script \in [CallNo -> [method : {"shift_forward", "shift_backward", "reduce"},
                            comm : {"time", "self"}]]
  /\ given = [r \in Rank |-> 0]
  /\ done = [r \in Rank |-> 0]

Give(r) ==
  /\ given[r] = done[r] /\ given[r] < MaxCalls
  /\ given' = [given EXCEPT ![r] = @ + 1]
  /\ UNCHANGED <<script, done>>

(* A reduction may return on all ranks at once.                            *)
Return(returning) ==
  /\ \A r \in returning :
       /\ given[r] = done[r] + 1
       /\ \A s \in Needs(script[given[r]], r) : given[s] >= given[r]
  /\ done' = [r \in Rank |-> IF r \in returning THEN done[r] + 1 ELSE done[r]]
  /\ UNCHANGED <<script, given>>

Next == \/ \E r \in Rank : Give(r)
        \/ \E returning \in (SUBSET Rank) \ {{}} : Return(returning)

vars == <<script, given, done>>

Spec == Init /\ [][Next]_vars
=============================================================================
