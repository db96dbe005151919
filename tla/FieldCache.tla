----------------------------- MODULE FieldCache -----------------------------
(***************************************************************************)
(* The wrappers oopsjedi::Increment and oopsjedi::State (interface/ and    *)
(* base/): each owns an object of the model, `increment_' or `state_', and *)
(* a `mutable' ATLAS field set `fset_', filled by the first call of        *)
(* fieldSet() and emptied by the methods that change the model's object.   *)
(* Clients write into the field set and ask for it to be copied back       *)
(* (synchronizeFields) or added back (synchronizeFieldsAD); they may also  *)
(* copy any other field set in.                                            *)
(*                                                                         *)
(* The model's object is one number, the value of its interior points, in  *)
(* a finite ring that stands for the reals.  A field set holds that value  *)
(* twice: at the interior points and at the halo points that copy them.    *)
(***************************************************************************)
EXTENDS Integers

CONSTANTS
  Incs,      \* the increments
  Sts,       \* the states
  Modulus,   \* bound: the ring has Modulus elements
  Ranks,     \* the ranks of the fields a model's toFieldSet may return
  Throws     \* whether methods of the model may throw

ASSUME KindsAssumption == Incs \cap Sts = {}
ASSUME ModulusAssumption == Modulus \in Nat \ {0}
ASSUME ThrowsAssumption == Throws \in BOOLEAN

Obj == Incs \cup Sts
Val == 0 .. Modulus - 1
Fields == [interior : Val, halo : Val]
Empty == [interior |-> -1, halo |-> -1]
None == Empty

VARIABLES
  rank,     \* the rank of the fields this model returns
  live,     \* the objects that exist
  data,     \* data[o]: the values of the model's object
  fset,     \* fset[o]: the cached field set
  fieldRef, \* objects whose field set a client holds a reference to
  modelRef, \* objects whose model object a client holds a reference to
  got,      \* the rank of the fields fieldSet() returned last
  pending,  \* pending[o]: what a client wrote and has not synchronized
  behind    \* behind[o]: how far fset[o] is known to be the object's fields

vars == <<rank, live, data, fset, fieldRef, modelRef, got, pending, behind>>
(* `got', `pending' and `behind' are not the program's: they say what      *)
(* happened, for the properties.                                           *)

(* A field set is that of the object as it is, or of an object whose       *)
(* interior points were copied from it, or of an object changed past it.   *)
Behind == {"current", "interior", "stale"}

------------------------------------------------------------------------------
FieldsOf(v) == [interior |-> v, halo |-> v]
Ring(i) == i % Modulus

(* The methods that empty the field set before they change the model's     *)
(* object: `fset_.clear(); increment_->...'.                               *)
Changed(o, v) ==
  /\ o \in live
  /\ data' = [data EXCEPT ![o] = v]
  /\ fset' = [fset EXCEPT ![o] = Empty]
  /\ pending' = [pending EXCEPT ![o] = None]
  /\ behind' = [behind EXCEPT ![o] = "current"]
  /\ UNCHANGED <<rank, live, fieldRef, modelRef, got>>

(* The fault of a method that forgets to.                                  *)
ChangedOnly(o, v) ==
  /\ o \in live
  /\ data' = [data EXCEPT ![o] = v]
  /\ UNCHANGED <<rank, live, fset, fieldRef, modelRef, got, pending, behind>>

(* The model's object changes past the field set, which is left as it is.  *)
ChangedPast(o, v) ==
  /\ o \in live
  /\ data' = [data EXCEPT ![o] = v]
  /\ behind' = [behind EXCEPT ![o] = IF fset[o] = Empty THEN @ ELSE "stale"]
  /\ UNCHANGED <<rank, live, fset, fieldRef, modelRef, got, pending>>

(* Construction and destruction: a new wrapper has an empty field set, and *)
(* a copy is one of the other's model object, not of its field set.        *)
Created(o, v) ==
  /\ o \notin live
  /\ live' = live \cup {o}
  /\ data' = [data EXCEPT ![o] = v]
  /\ UNCHANGED <<rank, fset, fieldRef, modelRef, got, pending, behind>>

Construct(o) == \E v \in Val : Created(o, v)
ChangeResolution(o, p) == p \in live /\ \E v \in Val : Created(o, v)
Copy(o, p) == p \in live /\ Created(o, data[p])
CopyZero(o, p) == o \in Incs /\ p \in live /\ Created(o, 0)
Destroy(o) ==
  /\ o \in live
  /\ live' = live \ {o}
  /\ data' = [data EXCEPT ![o] = 0]
  /\ fset' = [fset EXCEPT ![o] = Empty]
  /\ fieldRef' = fieldRef \ {o}
  /\ modelRef' = modelRef \ {o}
  /\ pending' = [pending EXCEPT ![o] = None]
  /\ behind' = [behind EXCEPT ![o] = "current"]
  /\ UNCHANGED <<rank, got>>

(* The methods both wrappers have.                                         *)
Assign(o, p) == p \in live /\ Changed(o, data[p])
Zero(o) == Changed(o, 0)
Read(o) == \E v \in Val : Changed(o, v)
Accumul(o, w, x) == x \in live \cap Sts /\ Changed(o, Ring(data[o] + w * data[x]))
Deserialize(o) == Changed(o, data[o])

(* A method of the model that throws may leave anything in the object; in  *)
(* these methods the field set was emptied before.                         *)
ModelThrows(o) == Throws /\ \E v \in Val : Changed(o, v)

(* The methods of increments.                                              *)
Diff(dx, x1, x2) == {x1, x2} \subseteq live /\ Changed(dx, Ring(data[x1] - data[x2]))
Add(dx, dy) == dy \in live /\ Changed(dx, Ring(data[dx] + data[dy]))
Subtract(dx, dy) == dy \in live /\ Changed(dx, Ring(data[dx] - data[dy]))
ScaleOnly(dx, w) == ChangedOnly(dx, Ring(data[dx] * w))
Scale(dx, w) == Changed(dx, Ring(data[dx] * w))
Axpy(dx, w, dy) == dy \in live /\ Changed(dx, Ring(data[dx] + w * data[dy]))
SchurProduct(dx, dy) == dy \in live /\ Changed(dx, Ring(data[dx] * data[dy]))
Random(dx) == \E v \in Val : Changed(dx, v)

(* operator+=(State, Increment), through the non-const accessor state().   *)
AddToState(x, dx) == dx \in live /\ Changed(x, Ring(data[x] + data[dx]))

(* The non-const accessors increment() and state() empty the field set and *)
(* hand the model's object out; nothing empties it when the client writes. *)
(* The fault: the field set is left as it is.                              *)
ModelAccessOnly(o) ==
  /\ o \in live
  /\ modelRef' = modelRef \cup {o}
  /\ UNCHANGED <<rank, live, data, fset, fieldRef, got, pending, behind>>

ModelAccess(o) ==
  /\ o \in live
  /\ fset' = [fset EXCEPT ![o] = Empty]
  /\ modelRef' = modelRef \cup {o}
  /\ pending' = [pending EXCEPT ![o] = None]
  /\ behind' = [behind EXCEPT ![o] = "current"]
  /\ UNCHANGED <<rank, live, data, fieldRef, got>>

ModelWrite(o, v) == o \in modelRef /\ ChangedPast(o, v)

(* fieldSet(): fill the field set if it is empty.  The fault: always.      *)
AlwaysFilled(o) == FieldsOf(data[o])
Filled(o) == IF fset[o] = Empty THEN FieldsOf(data[o]) ELSE fset[o]

(* A field set just filled is checked to be of rank 2 (it is kept if it is *)
(* not); one that was there is returned as it is.                          *)
FieldSet(o) ==
  /\ o \in live
  /\ fset' = [fset EXCEPT ![o] = Filled(o)]
  /\ got' = IF fset[o] = Empty /\ rank # 2 THEN got ELSE rank
  /\ UNCHANGED <<rank, live, data, modelRef, pending, behind>>

FieldSetConst(o) == FieldSet(o) /\ UNCHANGED fieldRef
FieldSetRef(o) == FieldSet(o) /\ fieldRef' = (IF fset[o] = Empty /\ rank # 2
                                                THEN fieldRef ELSE fieldRef \cup {o})

(* toFieldSet may throw midway and leave the field set filled in part: the *)
(* next call finds that it is not empty.                                   *)
FillThrows(o, fields) ==
  /\ Throws /\ o \in live /\ fset[o] = Empty
  /\ fset' = [fset EXCEPT ![o] = fields]
  /\ behind' = [behind EXCEPT ![o] = "stale"]
  /\ UNCHANGED <<rank, live, data, fieldRef, modelRef, got, pending>>

(* The client writes through the reference, which refers to `fset_' itself. *)
FieldWrite(o, fields) ==
  /\ o \in fieldRef /\ fset[o] # Empty
  /\ fset' = [fset EXCEPT ![o] = fields]
  /\ pending' = [pending EXCEPT ![o] = fields]
  /\ UNCHANGED <<rank, live, data, fieldRef, modelRef, got, behind>>

(* The ATLAS interface is public and takes any field set.  fromFieldSet    *)
(* copies its interior points; Increment::fromFieldSet then empties the    *)
(* wrapper's own, State::fromFieldSet does not.  toFieldSetAD adds the     *)
(* interior points and what the halo points copy, and leaves the wrapper's *)
(* own.                                                                    *)
FromFieldSetIncrement(dx, fields) == Changed(dx, fields.interior)
FromFieldSetState(x, fields) == ChangedPast(x, fields.interior)
ToFieldSetAD(dx, fields) ==
  ChangedPast(dx, Ring(data[dx] + fields.interior + fields.halo))

(* The model's fromFieldSet or toFieldSetAD throws: anything may be in the *)
(* object, and fromFieldSet of increments has not come to its clear().     *)
FieldsThrow(o) == Throws /\ \E v \in Val : ChangedPast(o, v)

(* synchronizeFields() and synchronizeFieldsAD() pass the wrapper's own    *)
(* field set.  Without one the first fails an assertion (the fault: it has *)
(* none) and the second does nothing.                                      *)
SynchronizeUnchecked(dx) == FromFieldSetIncrement(dx, fset[dx])
SynchronizeIncrement(dx) == fset[dx] # Empty /\ FromFieldSetIncrement(dx, fset[dx])

SynchronizeState(x) ==
  /\ x \in live /\ fset[x] # Empty
  /\ data' = [data EXCEPT ![x] = fset[x].interior]
  /\ pending' = [pending EXCEPT ![x] = None]
  /\ behind' = [behind EXCEPT ![x] = "interior"]
  /\ UNCHANGED <<rank, live, fset, fieldRef, modelRef, got>>

SynchronizeAD(dx) ==
  /\ dx \in live /\ fset[dx] # Empty
  /\ data' = [data EXCEPT ![dx] = Ring(@ + fset[dx].interior + fset[dx].halo)]
  /\ pending' = [pending EXCEPT ![dx] = None]
  /\ behind' = [behind EXCEPT ![dx] = "stale"]
  /\ UNCHANGED <<rank, live, fset, fieldRef, modelRef, got>>

------------------------------------------------------------------------------
Init ==
  /\ rank \in Ranks
  /\ live = {}
  /\ data = [o \in Obj |-> 0]
  /\ fset = [o \in Obj |-> Empty]
  /\ fieldRef = {} /\ modelRef = {}
  /\ got = 2
  /\ pending = [o \in Obj |-> None]
  /\ behind = [o \in Obj |-> "current"]

Lifetime(o) == Construct(o) \/ Destroy(o)
Change(o) == Zero(o) \/ Read(o) \/ Deserialize(o) \/ ModelThrows(o)
               \/ \E w \in Val, x \in Sts : Accumul(o, w, x)
ChangeIncrement(dx) ==
  \/ Random(dx)
  \/ \E w \in Val : Scale(dx, w)
  \/ \E x1, x2 \in Sts : Diff(dx, x1, x2)
  \/ \E dy \in Incs : \/ Add(dx, dy) \/ Subtract(dx, dy) \/ SchurProduct(dx, dy)
                      \/ \E w \in Val : Axpy(dx, w, dy)
Between(kind) ==
  \E o, p \in kind : \/ ChangeResolution(o, p) \/ Copy(o, p)
                      \/ CopyZero(o, p) \/ Assign(o, p)
Access(o) == \/ FieldSetConst(o) \/ FieldSetRef(o) \/ ModelAccess(o)
             \/ \E fields \in Fields : FillThrows(o, fields) \/ FieldWrite(o, fields)
             \/ \E v \in Val : ModelWrite(o, v)
FieldsIncrement(dx) ==
  \/ SynchronizeIncrement(dx) \/ SynchronizeAD(dx)
  \/ \E fields \in Fields : FromFieldSetIncrement(dx, fields) \/ ToFieldSetAD(dx, fields)
FieldsState(x) ==
  \/ SynchronizeState(x)
  \/ \E fields \in Fields : FromFieldSetState(x, fields)

Next == \/ \E o \in Obj : Lifetime(o) \/ Change(o) \/ Access(o) \/ FieldsThrow(o)
        \/ \E dx \in Incs : ChangeIncrement(dx) \/ FieldsIncrement(dx)
        \/ \E x \in Sts : FieldsState(x) \/ \E dx \in Incs : AddToState(x, dx)
        \/ Between(Incs) \/ Between(Sts)

Spec == Init /\ [][Next]_vars

------------------------------------------------------------------------------
TypeOK ==
  /\ rank \in Ranks
  /\ live \subseteq Obj /\ fieldRef \subseteq live /\ modelRef \subseteq live
  /\ data \in [Obj -> Val]
  /\ fset \in [Obj -> Fields \cup {Empty}]
  /\ got \in Ranks \cup {2}
  /\ pending \in [Obj -> Fields \cup {None}]
  /\ behind \in [Obj -> Behind]

(* The cache never lags behind the model's object unnoticed: a cached      *)
(* field set is what toFieldSet would return now, and a state synchronized *)
(* from it still has its interior values, whatever methods ran or threw.   *)
(* The code lets these past it, and no others: a client that writes to the *)
(* field set, or to the model's object through a reference it kept;        *)
(* toFieldSetAD; State::fromFieldSet of another field set; a model that    *)
(* throws in fromFieldSet, toFieldSetAD or, filling the field set, in      *)
(* toFieldSet.                                                             *)
CacheIsCurrent ==
  \A o \in Obj : fset[o] # Empty /\ pending[o] = None =>
    /\ behind[o] = "current" => fset[o] = FieldsOf(data[o])
    /\ behind[o] = "interior" => fset[o].interior = data[o]

(* What a client wrote stays in the field set until it is synchronized or  *)
(* a method empties the field set: no accessor, const or not, refills it.  *)
PendingIsKept == \A o \in Obj : pending[o] # None => fset[o] = pending[o]

(* Every wrapper implements FieldView, where what fieldSet() would return, *)
(* from the cache or not, changes only in the ways that FieldView allows,  *)
(* and filling the cache or returning it is no step.  (This is             *)
(* View(o)!Spec for every object, with the quantifier inside the box for   *)
(* TLC.)                                                                   *)
Shown(o) == IF fset[o] = Empty THEN FieldsOf(data[o]) ELSE fset[o]
Trust(o) == IF pending[o] = None THEN behind[o] ELSE "written"
View(o) == INSTANCE FieldView WITH
  isState <- o \in Sts, live <- o \in live, value <- data[o], view <- Shown(o),
  trust <- Trust(o), held <- o \in fieldRef, lent <- o \in modelRef
ImplementsView ==
  /\ \A o \in Obj : View(o)!Init
  /\ [][\A o \in Obj : UNCHANGED View(o)!viewVars \/ View(o)!Next]_vars

(* The assertion of fieldSet(), base/Increment.h:215-217: `OOPS expects    *)
(* the model's Increment::toFieldSet method to return rank-2 fields'.      *)
OnlyRank2IsReturned == got = 2

(* interface/State.h:136-137: toFieldSet `copies State data into the       *)
(* fieldset, including halo', so the halo of the field set of a state to   *)
(* which nothing was written since it was synchronized is the state's.     *)
StateHaloIsCurrent ==
  \A x \in Sts : fset[x] # Empty /\ pending[x] = None /\ behind[x] # "stale"
                   => fset[x].halo = data[x]
=============================================================================
