-------------------------- MODULE FieldCacheProofs --------------------------
(***************************************************************************)
(* Proofs about FieldCache, for any objects and any ring of values.        *)
(***************************************************************************)
EXTENDS FieldCache, TLAPS

(* Nothing is pending or behind in an empty field set, and an object that  *)
(* does not exist has none.                                                *)
EmptyInv ==
  \A o \in Obj : /\ fset[o] = Empty => pending[o] = None /\ behind[o] = "current"
                 /\ o \notin live => fset[o] = Empty

IInv == TypeOK /\ EmptyInv /\ CacheIsCurrent /\ PendingIsKept

------------------------------------------------------------------------------
(* The ring is closed.                                                     *)
LEMMA RingIsVal == \A i \in Int : Ring(i) \in Val
BY ModulusAssumption DEF Ring, Val

(* A field set that holds values is not the empty one.                     *)
LEMMA FieldsAreNotEmpty == Empty \notin Fields /\ \A v \in Val : FieldsOf(v) \in Fields
BY DEF Empty, Fields, FieldsOf, Val

(* The changing methods are alike: all empty the field set.                *)
LEMMA ChangesAreAlike ==
  ASSUME TypeOK,
         \/ \E o \in Obj : Change(o)
         \/ \E dx \in Incs : ChangeIncrement(dx)
         \/ \E x \in Sts, dx \in Incs : AddToState(x, dx)
         \/ \E kind \in {Incs, Sts}, o, p \in Obj :
              o \in kind /\ p \in kind /\ Assign(o, p)
  PROVE  \E o \in Obj, v \in Val : Changed(o, v)
<1>0. /\ Val \subseteq Int /\ 0 \in Val
      /\ \A o \in Obj : data[o] \in Val /\ data[o] \in Int
      /\ Incs \subseteq Obj /\ Sts \subseteq Obj
  BY ModulusAssumption DEF TypeOK, Val, Obj
<1> HIDE DEF Val, Obj
<1>1. ASSUME NEW o \in Obj, Change(o)
      PROVE  \E v \in Val : Changed(o, v)
  <2>1. CASE Zero(o) \/ Read(o) \/ Deserialize(o) \/ ModelThrows(o)
    BY <1>0, <2>1 DEF Zero, Read, Deserialize, ModelThrows
  <2>2. ASSUME NEW w \in Val, NEW x \in Sts, Accumul(o, w, x)
        PROVE  \E v \in Val : Changed(o, v)
    <3>1. data[o] + w * data[x] \in Int
      BY <1>0
    <3> QED
      BY <2>2, <3>1, RingIsVal DEF Accumul
  <2> QED
    BY <1>1, <2>1, <2>2 DEF Change
<1>2. ASSUME NEW dx \in Incs, ChangeIncrement(dx)
      PROVE  \E v \in Val : Changed(dx, v)
  <2>1. CASE Random(dx)
    BY <2>1 DEF Random
  <2>2. ASSUME NEW w \in Val, Scale(dx, w)
        PROVE  \E v \in Val : Changed(dx, v)
    <3>1. data[dx] * w \in Int
      BY <1>0
    <3> QED
      BY <2>2, <3>1, RingIsVal DEF Scale
  <2>3. ASSUME NEW x1 \in Sts, NEW x2 \in Sts, Diff(dx, x1, x2)
        PROVE  \E v \in Val : Changed(dx, v)
    <3>1. data[x1] - data[x2] \in Int
      BY <1>0
    <3> QED
      BY <2>3, <3>1, RingIsVal DEF Diff
  <2>4. ASSUME NEW dy \in Incs, Add(dx, dy) \/ Subtract(dx, dy) \/ SchurProduct(dx, dy)
        PROVE  \E v \in Val : Changed(dx, v)
    <3>1. /\ data[dx] + data[dy] \in Int /\ data[dx] - data[dy] \in Int
          /\ data[dx] * data[dy] \in Int
      BY <1>0
    <3> QED
      BY <2>4, <3>1, RingIsVal DEF Add, Subtract, SchurProduct
  <2>5. ASSUME NEW dy \in Incs, NEW w \in Val, Axpy(dx, w, dy)
        PROVE  \E v \in Val : Changed(dx, v)
    <3>1. data[dx] + w * data[dy] \in Int
      BY <1>0
    <3> QED
      BY <2>5, <3>1, RingIsVal DEF Axpy
  <2> QED
    BY <1>2, <2>1, <2>2, <2>3, <2>4, <2>5 DEF ChangeIncrement
<1>3. ASSUME NEW x \in Sts, NEW dx \in Incs, AddToState(x, dx)
      PROVE  \E v \in Val : Changed(x, v)
  <2>1. data[x] + data[dx] \in Int
    BY <1>0
  <2> QED
    BY <1>3, <2>1, RingIsVal DEF AddToState
<1>4. ASSUME NEW o \in Obj, NEW p \in Obj, Assign(o, p)
      PROVE  \E v \in Val : Changed(o, v)
  BY <1>0, <1>4 DEF Assign
<1> QED
  BY <1>0, <1>1, <1>2, <1>3, <1>4

(* So are the methods that copy or add fields.                             *)
LEMMA FieldsAreAlike ==
  ASSUME TypeOK,
         \/ \E dx \in Incs : FieldsIncrement(dx)
         \/ \E x \in Sts : FieldsState(x)
         \/ \E o \in Obj : FieldsThrow(o)
  PROVE  \/ \E o \in Obj, v \in Val : Changed(o, v) \/ ChangedPast(o, v)
         \/ \E dx \in Incs : SynchronizeAD(dx)
         \/ \E x \in Sts : SynchronizeState(x)
<1>0. /\ Val \subseteq Int /\ Incs \subseteq Obj /\ Sts \subseteq Obj
      /\ \A o \in Obj : data[o] \in Int /\ fset[o] \in Fields \cup {Empty}
      /\ \A fields \in Fields : fields.interior \in Val /\ fields.halo \in Val
  BY DEF TypeOK, Val, Obj, Fields
<1> HIDE DEF Val, Obj, Fields, Empty
<1>1. ASSUME NEW dx \in Incs, NEW fields \in Fields,
             FromFieldSetIncrement(dx, fields) \/ ToFieldSetAD(dx, fields)
      PROVE  \E v \in Val : Changed(dx, v) \/ ChangedPast(dx, v)
  <2>1. data[dx] \in Int /\ fields.interior \in Int /\ fields.halo \in Int
    BY <1>0
  <2>2. data[dx] + fields.interior + fields.halo \in Int
    BY <2>1
  <2> QED
    BY <1>0, <1>1, <2>2, RingIsVal DEF FromFieldSetIncrement, ToFieldSetAD
<1>2. ASSUME NEW dx \in Incs, SynchronizeIncrement(dx)
      PROVE  \E v \in Val : Changed(dx, v)
  <2>1. fset[dx] \in Fields
    BY <1>0, <1>2 DEF SynchronizeIncrement
  <2> QED
    BY <1>0, <1>2, <2>1 DEF SynchronizeIncrement, FromFieldSetIncrement
<1>3. ASSUME NEW x \in Sts, NEW fields \in Fields, FromFieldSetState(x, fields)
      PROVE  \E v \in Val : ChangedPast(x, v)
  BY <1>0, <1>3 DEF FromFieldSetState
<1>4. ASSUME NEW o \in Obj, FieldsThrow(o)
      PROVE  \E v \in Val : ChangedPast(o, v)
  BY <1>4 DEF FieldsThrow
<1>5. ASSUME NEW dx \in Incs, FieldsIncrement(dx)
      PROVE  SynchronizeAD(dx) \/ \E v \in Val : Changed(dx, v) \/ ChangedPast(dx, v)
  BY <1>1, <1>2, <1>5 DEF FieldsIncrement
<1>6. ASSUME NEW x \in Sts, FieldsState(x)
      PROVE  SynchronizeState(x) \/ \E v \in Val : ChangedPast(x, v)
  BY <1>3, <1>6 DEF FieldsState
<1> QED
  BY <1>0, <1>4, <1>5, <1>6

(* So are the constructors.                                                *)
LEMMA CreationsAreAlike ==
  ASSUME TypeOK, NEW o \in Obj, NEW p \in Obj,
         Construct(o) \/ ChangeResolution(o, p) \/ Copy(o, p) \/ CopyZero(o, p)
  PROVE  \E v \in Val : Created(o, v)
<1>1. 0 \in Val /\ data[p] \in Val
  BY ModulusAssumption DEF TypeOK, Val
<1> QED
  BY <1>1 DEF Construct, ChangeResolution, Copy, CopyZero

(* Every step is one of these.                                            *)
LEMMA NextCases ==
  ASSUME TypeOK, [Next]_vars
  PROVE  \/ \E o \in Obj, v \in Val : Changed(o, v) \/ Created(o, v) \/ ChangedPast(o, v)
         \/ \E o \in Obj : Destroy(o) \/ ModelAccess(o) \/ FieldSetConst(o) \/ FieldSetRef(o)
         \/ \E o \in Obj, fields \in Fields : FieldWrite(o, fields) \/ FillThrows(o, fields)
         \/ \E dx \in Incs : SynchronizeAD(dx)
         \/ \E x \in Sts : SynchronizeState(x)
         \/ UNCHANGED vars
<1>1. ASSUME NEW kind \in {Incs, Sts}, Between(kind)
      PROVE  \E o \in Obj, v \in Val : Changed(o, v) \/ Created(o, v)
  <2>1. PICK o \in kind, p \in kind : \/ ChangeResolution(o, p) \/ Copy(o, p)
                                      \/ CopyZero(o, p) \/ Assign(o, p)
    BY <1>1 DEF Between
  <2>2. o \in Obj /\ p \in Obj
    BY DEF Obj
  <2> QED
    BY <2>1, <2>2, ChangesAreAlike, CreationsAreAlike
<1>2. ASSUME NEW o \in Obj, Lifetime(o)
      PROVE  Destroy(o) \/ \E v \in Val : Created(o, v)
  BY <1>2, CreationsAreAlike DEF Lifetime
<1>3. ASSUME NEW o \in Obj, NEW v \in Val, ModelWrite(o, v)
      PROVE  ChangedPast(o, v)
  BY <1>3 DEF ModelWrite
<1> QED
  BY <1>1, <1>2, <1>3, ChangesAreAlike, FieldsAreAlike DEF Next, Access

------------------------------------------------------------------------------
(* The invariant is inductive: one step per kind of action.                *)
LEMMA IInvIsInductive == IInv /\ [Next]_vars => IInv'
<1> SUFFICES ASSUME IInv, [Next]_vars PROVE IInv'
  OBVIOUS
<1> USE FieldsAreNotEmpty DEF None
<1>0. Incs \subseteq Obj /\ Sts \subseteq Obj
  BY DEF Obj
<1>1. ASSUME NEW o \in Obj, NEW v \in Val, Changed(o, v)
      PROVE  IInv'
  <2>1. TypeOK'
    BY <1>1 DEF IInv, TypeOK, Changed, Behind
  <2>2. \A p \in Obj : \/ fset'[p] = Empty /\ pending'[p] = None /\ behind'[p] = "current"
                       \/ /\ fset'[p] = fset[p] /\ pending'[p] = pending[p]
                          /\ behind'[p] = behind[p] /\ data'[p] = data[p]
    BY <1>1 DEF IInv, TypeOK, Changed
  <2> QED
    BY <1>1, <2>1, <2>2
    DEF IInv, EmptyInv, CacheIsCurrent, PendingIsKept, FieldsOf, Changed
<1>2. ASSUME NEW o \in Obj, NEW v \in Val, Created(o, v)
      PROVE  IInv'
  <2>1. TypeOK'
    BY <1>2 DEF IInv, TypeOK, Created
  <2>2. \A p \in Obj : p # o => data'[p] = data[p]
    BY <1>2 DEF IInv, TypeOK, Created
  <2>3. fset[o] = Empty /\ UNCHANGED <<fset, pending, behind>> /\ live \subseteq live'
    BY <1>2 DEF IInv, EmptyInv, Created
  <2> QED
    BY <2>1, <2>2, <2>3
    DEF IInv, EmptyInv, CacheIsCurrent, PendingIsKept, FieldsOf
<1>3. ASSUME NEW o \in Obj, NEW v \in Val, ChangedPast(o, v)
      PROVE  IInv'
  <2>1. TypeOK'
    BY <1>3 DEF IInv, TypeOK, ChangedPast, Behind
  <2>2. /\ UNCHANGED <<live, fset, pending>>
        /\ \A p \in Obj : p # o => data'[p] = data[p] /\ behind'[p] = behind[p]
        /\ fset[o] = Empty => behind'[o] = behind[o]
        /\ fset[o] # Empty => behind'[o] = "stale"
    BY <1>3 DEF IInv, TypeOK, ChangedPast
  <2> QED
    BY <2>1, <2>2 DEF IInv, EmptyInv, CacheIsCurrent, PendingIsKept, FieldsOf
<1>4. ASSUME NEW o \in Obj, Destroy(o) \/ ModelAccess(o)
      PROVE  IInv'
  <2>1. TypeOK'
    <3>1. 0 \in Val
      BY ModulusAssumption DEF Val
    <3> QED
      BY <1>4, <3>1 DEF IInv, TypeOK, Destroy, ModelAccess, Behind
  <2>2. \A p \in Obj : \/ fset'[p] = Empty /\ pending'[p] = None /\ behind'[p] = "current"
                       \/ /\ fset'[p] = fset[p] /\ pending'[p] = pending[p]
                          /\ behind'[p] = behind[p] /\ data'[p] = data[p]
                          /\ p # o
    BY <1>4 DEF IInv, TypeOK, Destroy, ModelAccess
  <2>3. live \ {o} \subseteq live'
    BY <1>4 DEF Destroy, ModelAccess
  <2> QED
    BY <2>1, <2>2, <2>3
    DEF IInv, EmptyInv, CacheIsCurrent, PendingIsKept, FieldsOf
<1>5. ASSUME NEW o \in Obj, FieldSetConst(o) \/ FieldSetRef(o)
      PROVE  IInv'
  <2>1. FieldSet(o) /\ (fieldRef' = fieldRef \/ fieldRef' = fieldRef \cup {o})
    BY <1>5 DEF FieldSetConst, FieldSetRef
  <2>2. Filled(o) \in Fields
    BY <2>1 DEF IInv, TypeOK, Filled
  <2>3. TypeOK'
    BY <2>1, <2>2 DEF IInv, TypeOK, FieldSet
  <2>4. \A p \in Obj : fset'[p] = IF p = o THEN Filled(o) ELSE fset[p]
    BY <2>1 DEF IInv, TypeOK, FieldSet
  <2>5. EmptyInv'
    BY <2>1, <2>2, <2>4 DEF IInv, EmptyInv, FieldSet
  <2>6. CacheIsCurrent'
    BY <2>1, <2>4 DEF IInv, EmptyInv, CacheIsCurrent, FieldSet, Filled, FieldsOf
  <2>7. PendingIsKept'
    BY <2>1, <2>4 DEF IInv, EmptyInv, PendingIsKept, FieldSet, Filled
  <2> QED
    BY <2>3, <2>5, <2>6, <2>7 DEF IInv
<1>6. ASSUME NEW o \in Obj, NEW fields \in Fields, FieldWrite(o, fields)
      PROVE  IInv'
  <2>1. TypeOK'
    BY <1>6 DEF IInv, TypeOK, FieldWrite
  <2>2. /\ \A p \in Obj : \/ fset'[p] = fields /\ pending'[p] = fields
                          \/ fset'[p] = fset[p] /\ pending'[p] = pending[p]
        /\ UNCHANGED <<live, data, behind>> /\ fset[o] # Empty
        /\ \A p \in Obj : p # o => fset'[p] = fset[p]
    BY <1>6 DEF IInv, TypeOK, FieldWrite
  <2>3. o \in live
    BY <2>2 DEF IInv, EmptyInv
  <2> QED
    BY <2>1, <2>2, <2>3 DEF IInv, EmptyInv, CacheIsCurrent, PendingIsKept, FieldsOf
<1>7. ASSUME NEW o \in Obj, NEW fields \in Fields, FillThrows(o, fields)
      PROVE  IInv'
  <2>1. TypeOK'
    BY <1>7 DEF IInv, TypeOK, FillThrows, Behind
  <2>2. /\ UNCHANGED <<live, data, pending>> /\ o \in live /\ pending[o] = None
        /\ fset'[o] = fields /\ behind'[o] = "stale"
        /\ \A p \in Obj : p # o => fset'[p] = fset[p] /\ behind'[p] = behind[p]
    BY <1>7 DEF IInv, TypeOK, EmptyInv, FillThrows
  <2> QED
    BY <2>1, <2>2 DEF IInv, EmptyInv, CacheIsCurrent, PendingIsKept, FieldsOf
<1>8. ASSUME NEW dx \in Incs, SynchronizeAD(dx)
      PROVE  IInv'
  <2>1. dx \in Obj /\ fset[dx] \in Fields /\ data[dx] \in Val
    BY <1>0, <1>8 DEF IInv, TypeOK, SynchronizeAD
  <2>2. Ring(data[dx] + fset[dx].interior + fset[dx].halo) \in Val
    <3>1. data[dx] + fset[dx].interior + fset[dx].halo \in Int
      BY <2>1 DEF Fields, Val
    <3> QED
      BY <3>1, RingIsVal
  <2>3. TypeOK'
    BY <1>8, <2>2 DEF IInv, TypeOK, SynchronizeAD, Behind
  <2>4. /\ behind'[dx] = "stale" /\ pending'[dx] = None
        /\ UNCHANGED <<live, fset>> /\ fset[dx] # Empty
        /\ \A p \in Obj : p # dx => /\ data'[p] = data[p] /\ behind'[p] = behind[p]
                                    /\ pending'[p] = pending[p]
    BY <1>8, <2>1 DEF IInv, TypeOK, SynchronizeAD
  <2> QED
    BY <2>3, <2>4 DEF IInv, EmptyInv, CacheIsCurrent, PendingIsKept, FieldsOf
<1>9. ASSUME NEW x \in Sts, SynchronizeState(x)
      PROVE  IInv'
  <2>1. x \in Obj /\ fset[x] \in Fields
    BY <1>0, <1>9 DEF IInv, TypeOK, SynchronizeState
  <2>2. TypeOK'
    BY <1>9, <2>1 DEF IInv, TypeOK, SynchronizeState, Fields, Behind
  <2>3. /\ behind'[x] = "interior" /\ pending'[x] = None
        /\ data'[x] = fset[x].interior
        /\ UNCHANGED <<live, fset>> /\ fset[x] # Empty
        /\ \A p \in Obj : p # x => /\ data'[p] = data[p] /\ behind'[p] = behind[p]
                                   /\ pending'[p] = pending[p]
    BY <1>9, <2>1 DEF IInv, TypeOK, SynchronizeState
  <2> QED
    BY <2>2, <2>3 DEF IInv, EmptyInv, CacheIsCurrent, PendingIsKept, FieldsOf
<1>10. CASE UNCHANGED vars
  BY <1>10 DEF vars, IInv, TypeOK, EmptyInv, CacheIsCurrent, PendingIsKept, FieldsOf
<1> QED
  BY <1>1, <1>2, <1>3, <1>4, <1>5, <1>6, <1>7, <1>8, <1>9, <1>10, NextCases DEF IInv

(* It holds of no objects.                                                 *)
LEMMA InitImpliesIInv == Init => IInv
BY ModulusAssumption DEF Init, IInv, TypeOK, EmptyInv, CacheIsCurrent, PendingIsKept,
                         None, Val, Behind

(* IInv holds throughout.                                                  *)
THEOREM Invariance == Spec => []IInv
BY InitImpliesIInv, IInvIsInductive, PTL DEF Spec

(* Types are kept; references are to objects that exist, whatever methods  *)
(* throw (interface/Increment.h, interface/State.h).                       *)
THEOREM TypeCorrect == Spec => []TypeOK
BY Invariance, PTL DEF IInv

(* The cached field set lags behind the model's object in the named cases  *)
(* only: by the methods that empty it after or not at all, by the writes   *)
(* of clients and by a model that throws.                                  *)
THEOREM CacheCoherence == Spec => []CacheIsCurrent
BY Invariance, PTL DEF IInv

(* No accessor overwrites what a client wrote and did not synchronize.     *)
THEOREM PendingSurvives == Spec => []PendingIsKept
BY Invariance, PTL DEF IInv

------------------------------------------------------------------------------
(* A step leaves an object as clients see it, or is one of FieldView.      *)
Seen(o) ==
  /\ o \in live' <=> o \in live
  /\ o \in fieldRef' <=> o \in fieldRef
  /\ o \in modelRef' <=> o \in modelRef
  /\ data'[o] = data[o] /\ Shown(o)' = Shown(o) /\ Trust(o)' = Trust(o)

LEMMA SeenIsUnchanged ==
  ASSUME NEW o \in Obj, Seen(o)
  PROVE  UNCHANGED View(o)!viewVars
<1>1. /\ (o \in live)' = (o \in live)
      /\ (o \in fieldRef)' = (o \in fieldRef)
      /\ (o \in modelRef)' = (o \in modelRef)
      /\ data'[o] = data[o] /\ Shown(o)' = Shown(o) /\ Trust(o)' = Trust(o)
  BY DEF Seen
<1> QED
  BY <1>1 DEF View!viewVars

(* A step changes what is seen of one object at most, as FieldView allows.  *)
LEMMA StepIsView ==
  ASSUME IInv, [Next]_vars, NEW p \in Obj
  PROVE  UNCHANGED View(p)!viewVars \/ View(p)!Next
<1> SUFFICES ASSUME ~Seen(p) PROVE View(p)!Next
  BY SeenIsUnchanged
<1> USE FieldsAreNotEmpty DEF None
<1>0. TypeOK /\ EmptyInv /\ Incs \subseteq Obj /\ Sts \subseteq Obj
  BY DEF IInv, Obj
<1>1. ASSUME NEW o \in Obj, NEW v \in Val, Changed(o, v)
      PROVE  View(p)!Next
  <2>1. p = o
    BY <1>0, <1>1 DEF Changed, Seen, Shown, Trust, TypeOK
  <2>2. View(p)!Method
    BY <1>0, <1>1, <2>1
    DEF Changed, TypeOK, Shown, Trust, View!Method, View!Renewed, FieldsOf, View!FieldsOf
  <2> QED
    BY <2>2 DEF View!Next
<1>2. ASSUME NEW o \in Obj, NEW v \in Val, Created(o, v)
      PROVE  View(p)!Next
  <2>1. p = o
    BY <1>0, <1>2 DEF Created, Seen, Shown, Trust, TypeOK
  <2>2. View(p)!Create
    BY <1>0, <1>2, <2>1
    DEF Created, TypeOK, EmptyInv, Shown, Trust, View!Create, View!Renewed, FieldsOf,
        View!FieldsOf
  <2> QED
    BY <2>2 DEF View!Next
<1>3. ASSUME NEW o \in Obj, NEW v \in Val, ChangedPast(o, v)
      PROVE  View(p)!Next
  <2>1. p = o
    BY <1>0, <1>3 DEF ChangedPast, Seen, Shown, Trust, TypeOK
  <2>2. CASE fset[o] = Empty
    <3>1. View(p)!Method
      BY <1>0, <1>3, <2>1, <2>2
      DEF ChangedPast, TypeOK, EmptyInv, Shown, Trust, View!Method, View!Renewed,
          FieldsOf, View!FieldsOf
    <3> QED
      BY <3>1 DEF View!Next
  <2>3. CASE fset[o] # Empty
    <3>1. View(p)!Overtake
      BY <1>0, <1>3, <2>1, <2>3 DEF ChangedPast, TypeOK, Shown, Trust, View!Overtake
    <3> QED
      BY <3>1 DEF View!Next
  <2> QED
    BY <2>2, <2>3
<1>4. ASSUME NEW o \in Obj, Destroy(o)
      PROVE  View(p)!Next
  <2>1. p = o
    BY <1>0, <1>4 DEF Destroy, Seen, Shown, Trust, TypeOK
  <2>2. View(p)!Destroy
    BY <1>0, <1>4, <2>1
    DEF Destroy, TypeOK, Shown, Trust, View!Destroy, View!Renewed, FieldsOf, View!FieldsOf
  <2> QED
    BY <2>2 DEF View!Next
<1>5. ASSUME NEW o \in Obj, ModelAccess(o)
      PROVE  View(p)!Next
  <2>1. p = o
    BY <1>0, <1>5 DEF ModelAccess, Seen, Shown, Trust, TypeOK
  <2>2. View(p)!Lend
    BY <1>0, <1>5, <2>1
    DEF ModelAccess, TypeOK, Shown, Trust, View!Lend, View!Renewed, FieldsOf, View!FieldsOf
  <2> QED
    BY <2>2 DEF View!Next
<1>6. ASSUME NEW o \in Obj, FieldSetConst(o) \/ FieldSetRef(o)
      PROVE  View(p)!Next
  <2>1. /\ FieldSet(o) /\ (fieldRef' = fieldRef \/ fieldRef' = fieldRef \cup {o})
        /\ Filled(o) \in Fields
    BY <1>0, <1>6 DEF FieldSetConst, FieldSetRef, FieldSet, Filled, TypeOK
  <2>2. /\ UNCHANGED <<live, modelRef, data, pending, behind>>
        /\ \A q \in Obj : Shown(q)' = Shown(q) /\ Trust(q)' = Trust(q)
    BY <1>0, <2>1 DEF FieldSet, Shown, Trust, Filled, TypeOK
  <2>3. p = o /\ p \in fieldRef'
    BY <2>1, <2>2 DEF Seen
  <2>4. View(p)!Take
    BY <2>1, <2>2, <2>3 DEF FieldSet, View!Take
  <2> QED
    BY <2>4 DEF View!Next
<1>7. ASSUME NEW o \in Obj, NEW fields \in Fields, FieldWrite(o, fields)
      PROVE  View(p)!Next
  <2>1. p = o
    BY <1>0, <1>7 DEF FieldWrite, Seen, Shown, Trust, TypeOK
  <2>2. View(p)!WriteFields
    BY <1>0, <1>7, <2>1 DEF FieldWrite, TypeOK, Trust, View!WriteFields
  <2> QED
    BY <2>2 DEF View!Next
<1>8. ASSUME NEW o \in Obj, NEW fields \in Fields, FillThrows(o, fields)
      PROVE  View(p)!Next
  <2>1. p = o
    BY <1>0, <1>8 DEF FillThrows, Seen, Shown, Trust, TypeOK
  <2>2. View(p)!FillFails
    BY <1>0, <1>8, <2>1
    DEF FillThrows, TypeOK, EmptyInv, Shown, Trust, View!FillFails, FieldsOf, View!FieldsOf
  <2> QED
    BY <2>2 DEF View!Next
<1>9. ASSUME NEW dx \in Incs, SynchronizeAD(dx)
      PROVE  View(p)!Next
  <2>1. p = dx
    BY <1>0, <1>9 DEF SynchronizeAD, Seen, Shown, Trust, TypeOK
  <2>2. View(p)!Overtake
    BY <1>0, <1>9, <2>1 DEF SynchronizeAD, TypeOK, Shown, Trust, View!Overtake
  <2> QED
    BY <2>2 DEF View!Next
<1>10. ASSUME NEW x \in Sts, SynchronizeState(x)
      PROVE  View(p)!Next
  <2>1. p = x /\ p \in Sts
    BY <1>0, <1>10 DEF SynchronizeState, Seen, Shown, Trust, TypeOK
  <2>2. View(p)!CopyBack
    BY <1>0, <1>10, <2>1 DEF SynchronizeState, TypeOK, Shown, Trust, View!CopyBack
  <2> QED
    BY <2>2 DEF View!Next
<1>11. CASE UNCHANGED vars
  BY <1>11 DEF vars, Seen, Shown, Trust
<1> QED
  BY <1>0, <1>1, <1>2, <1>3, <1>4, <1>5, <1>6, <1>7, <1>8, <1>9, <1>10, <1>11, NextCases

(* Every wrapper, with its field-set cache, implements FieldView.          *)
THEOREM CacheImplementsView == Spec => ImplementsView
<1>1. Init => \A o \in Obj : View(o)!Init
  BY DEF Init, View!Init, FieldsOf, View!FieldsOf, Empty, None, Shown, Trust
<1>2. IInv /\ [Next]_vars
        => [\A o \in Obj : UNCHANGED View(o)!viewVars \/ View(o)!Next]_vars
  BY StepIsView
<1> QED
  BY <1>1, <1>2, Invariance, PTL DEF Spec, ImplementsView
=============================================================================
