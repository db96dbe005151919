-------------------------- MODULE StateOutputProofs --------------------------
(***************************************************************************)
(* Where increments and states live and what files are called, for any     *)
(* geometries, communicators, objects and configurations of write.         *)
(***************************************************************************)
EXTENDS StateOutput, TLAPS

(* What object o may hold: its data are on the grid of its geometry; an    *)
(* increment reduces where it is spread, a state through its geometry.     *)
Sound(o, object) ==
  /\ object \in Object
  /\ Built(object.resol)
  /\ object.grid = geometry[object.resol].geom
  /\ o \in Incs => object.timeComm = object.spread
  /\ o \in Sts => object.timeComm = geometry[object.resol].timeComm

DistributionInv ==
  /\ geometry \in [Geoms -> Geometry \cup {None}]
  /\ obj \in [Obj -> Object \cup {None}]
  /\ \A o \in Obj : Live(o) => Sound(o, obj[o])

------------------------------------------------------------------------------
(* A geometry that is built is a geometry.                                 *)
LEMMA BuiltIsGeometry ==
  ASSUME DistributionInv, NEW g \in Geoms, Built(g)
  PROVE  geometry[g] \in Geometry
BY DEF DistributionInv, Built

(* Putting something sound into one object keeps the invariant.            *)
LEMMA PutIsSound ==
  ASSUME DistributionInv, NEW o \in Obj, NEW object, Sound(o, object),
         obj' = [obj EXCEPT ![o] = object], UNCHANGED geometry
  PROVE  DistributionInv'
<1>1. obj' \in [Obj -> Object \cup {None}]
  BY DEF DistributionInv, Sound
<1>2. ASSUME NEW p \in Obj, Live(p)' PROVE Sound(p, obj[p])'
  <2>1. CASE p = o
    <3>1. obj'[p] = object
      BY <2>1 DEF DistributionInv
    <3> QED
      BY <2>1, <3>1 DEF Sound, Built
  <2>2. CASE p # o
    <3>1. obj'[p] = obj[p]
      BY <2>2 DEF DistributionInv
    <3> QED
      BY <1>2, <3>1 DEF DistributionInv, Live, Sound, Built
  <2> QED
    BY <2>1, <2>2
<1> QED
  BY <1>1, <1>2 DEF DistributionInv

(* A geometry is built once, and what lives on the others does not move.   *)
LEMMA BuildIsSound == DistributionInv /\ Build => DistributionInv'
<1> SUFFICES ASSUME DistributionInv, Build PROVE DistributionInv'
  OBVIOUS
<1>1. PICK g \in Geoms, new \in Geometry :
        ~Built(g) /\ geometry' = [geometry EXCEPT ![g] = new] /\ UNCHANGED obj
  <2> USE CommAssumption DEF Geometry, Model
  <2>1. ASSUME NEW g \in Geoms, NEW comm \in Comm, NEW time \in TimeComm,
               BuildFromParameters(g, comm, time)
        PROVE  \E new \in Geometry :
                 ~Built(g) /\ geometry' = [geometry EXCEPT ![g] = new] /\ UNCHANGED obj
    BY <2>1 DEF BuildFromParameters
  <2>2. ASSUME NEW g \in Geoms, NEW ptr \in Pointers, BuildFromPointer(g, ptr)
        PROVE  \E new \in Geometry :
                 ~Built(g) /\ geometry' = [geometry EXCEPT ![g] = new] /\ UNCHANGED obj
    BY <2>2 DEF BuildFromPointer
  <2>3. ASSUME NEW g \in Geoms, BuildFromModel(g)
        PROVE  \E new \in Geometry :
                 ~Built(g) /\ geometry' = [geometry EXCEPT ![g] = new] /\ UNCHANGED obj
    BY <2>3 DEF BuildFromModel
  <2> QED
    BY <2>1, <2>2, <2>3 DEF Build
<1>2. geometry' \in [Geoms -> Geometry \cup {None}]
  BY <1>1 DEF DistributionInv
<1>3. ASSUME NEW o \in Obj, Live(o)' PROVE Sound(o, obj[o])'
  <2>1. Live(o) /\ Sound(o, obj[o])
    BY <1>1, <1>3 DEF Live, DistributionInv
  <2>2. obj[o].resol \in Geoms /\ obj[o].resol # g
    BY <1>1, <2>1 DEF Sound, Object
  <2>3. geometry'[obj[o].resol] = geometry[obj[o].resol]
    BY <1>1, <2>2 DEF DistributionInv
  <2> QED
    BY <1>1, <2>1, <2>3 DEF Sound, Built
<1> QED
  BY <1>1, <1>2, <1>3 DEF DistributionInv

(* What increments and states do alike.                                    *)
LEMMA ConstructIsSound ==
  ASSUME DistributionInv, NEW o \in Obj, NEW g \in Geoms, Construct(o, g)
  PROVE  DistributionInv'
<1> DEFINE new == [resol |-> g, timeComm |-> geometry[g].timeComm,
                   grid |-> geometry[g].geom, spread |-> geometry[g].timeComm]
<1>1. Built(g) /\ obj' = [obj EXCEPT ![o] = new] /\ UNCHANGED geometry
  BY DEF Construct, Made
<1>2. geometry[g] \in Geometry
  BY <1>1, BuiltIsGeometry
<1>3. Sound(o, new)
  BY <1>1, <1>2 DEF Sound, Object, Geometry
<1> QED
  BY <1>1, <1>3, PutIsSound

LEMMA DestroyIsSound ==
  ASSUME DistributionInv, NEW o \in Obj, Destroy(o)
  PROVE  DistributionInv'
BY DEF DistributionInv, Destroy, Live, Sound, Built

LEMMA AssignIsSound ==
  ASSUME DistributionInv, NEW o \in Obj, NEW p \in Obj, Assign(o, p),
         o \in Incs <=> p \in Incs
  PROVE  DistributionInv'
<1> DEFINE new == [obj[o] EXCEPT !.grid = obj[p].grid, !.spread = obj[p].spread]
<1>1. /\ obj' = [obj EXCEPT ![o] = new] /\ UNCHANGED geometry
      /\ Sound(o, obj[o]) /\ Sound(p, obj[p])
      /\ Equal(obj[o].resol, obj[p].resol) /\ obj[o].timeComm = obj[p].timeComm
  BY DEF Assign, TakeData, DistributionInv
<1>2. /\ new \in Object /\ new.resol = obj[o].resol /\ new.timeComm = obj[o].timeComm
      /\ new.grid = obj[p].grid /\ new.spread = obj[p].spread
  BY <1>1 DEF Sound, Object
<1> HIDE DEF new
<1>3. Sound(o, new)
  BY <1>1, <1>2 DEF Sound, Equal
<1> QED
  BY <1>1, <1>3, PutIsSound

(* An increment on another geometry stays spread as it was.                *)
LEMMA IncrementStepIsSound == DistributionInv /\ IncrementStep => DistributionInv'
<1> SUFFICES ASSUME DistributionInv, IncrementStep PROVE DistributionInv'
  OBVIOUS
<1> USE ObjAssumption DEF Obj
<1>1. ASSUME NEW dx \in Incs, NEW g \in Geoms, NEW dy \in Incs,
             ChangeResolutionIncrement(dx, g, dy)
      PROVE  DistributionInv'
  <2> DEFINE new == [obj[dy] EXCEPT !.resol = g, !.grid = geometry[g].geom]
  <2>1. /\ Built(g) /\ Sound(dy, obj[dy])
        /\ obj' = [obj EXCEPT ![dx] = new] /\ UNCHANGED geometry
    BY <1>1 DEF ChangeResolutionIncrement, Made, DistributionInv
  <2>2. geometry[g] \in Geometry
    BY <2>1, BuiltIsGeometry
  <2>3. /\ new \in Object /\ new.resol = g /\ new.grid = geometry[g].geom
        /\ new.timeComm = obj[dy].timeComm /\ new.spread = obj[dy].spread
    BY <2>1, <2>2 DEF Sound, Object, Geometry
  <2> HIDE DEF new
  <2>4. Sound(dx, new)
    BY <2>1, <2>3 DEF Sound
  <2> QED
    BY <2>1, <2>4, PutIsSound
<1>2. ASSUME NEW dx \in Incs, NEW dy \in Incs, CopyIncrement(dx, dy)
      PROVE  DistributionInv'
  <2>1. /\ Sound(dy, obj[dy]) /\ UNCHANGED geometry
        /\ obj' = [obj EXCEPT ![dx] = obj[dy]]
    BY <1>2 DEF CopyIncrement, Made, DistributionInv
  <2>2. Sound(dx, obj[dy])
    BY <2>1 DEF Sound
  <2> QED
    BY <2>1, <2>2, PutIsSound
<1> QED
  BY <1>1, <1>2, ConstructIsSound, DestroyIsSound, AssignIsSound DEF IncrementStep

(* A state on another geometry reduces through that one.                   *)
LEMMA ChangeResolutionStateIsSound ==
  ASSUME DistributionInv, NEW x \in Sts, NEW g \in Geoms, NEW y \in Sts,
         ChangeResolutionState(x, g, y)
  PROVE  DistributionInv'
<1> USE ObjAssumption DEF Obj
<1> DEFINE new == [obj[y] EXCEPT !.resol = g, !.grid = geometry[g].geom,
                                 !.timeComm = geometry[g].timeComm]
<1>1. /\ Built(g) /\ Sound(y, obj[y])
      /\ obj' = [obj EXCEPT ![x] = new] /\ UNCHANGED geometry
  BY DEF ChangeResolutionState, Made, DistributionInv
<1>2. geometry[g] \in Geometry
  BY <1>1, BuiltIsGeometry
<1>3. /\ new \in Object /\ new.resol = g /\ new.grid = geometry[g].geom
      /\ new.timeComm = geometry[g].timeComm
  BY <1>1, <1>2 DEF Sound, Object, Geometry
<1> HIDE DEF new
<1>4. Sound(x, new)
  BY <1>1, <1>3 DEF Sound
<1> QED
  BY <1>1, <1>4, PutIsSound

LEMMA CopyStateIsSound ==
  ASSUME DistributionInv, NEW x \in Sts, NEW y \in Sts, CopyState(x, y)
  PROVE  DistributionInv'
<1> USE ObjAssumption DEF Obj
<1> DEFINE new == [obj[y] EXCEPT !.timeComm = geometry[obj[y].resol].timeComm]
<1>1. /\ Sound(y, obj[y]) /\ UNCHANGED geometry /\ obj' = [obj EXCEPT ![x] = new]
  BY DEF CopyState, Made, DistributionInv
<1>2. new = obj[y]
  BY <1>1 DEF Sound, Object
<1>3. Sound(x, new)
  BY <1>1, <1>2 DEF Sound
<1> QED
  BY <1>1, <1>3, PutIsSound

(* No step of StateOutput moves an object but through those of Distribution. *)
LEMMA DistributionInvIsPreserved == DistributionInv /\ [Next]_vars => DistributionInv'
<1> SUFFICES ASSUME DistributionInv, [Next]_vars PROVE DistributionInv'
  OBVIOUS
<1>1. CASE ObjectStep
  <2> USE ObjAssumption DEF Obj
  <2> QED
    BY <1>1, DestroyIsSound, ConstructIsSound, ChangeResolutionStateIsSound,
       CopyStateIsSound, AssignIsSound
    DEF ObjectStep, ReadState
<1>2. CASE TimeStep \/ UNCHANGED vars
  <2>1. UNCHANGED distribution
    BY <1>2 DEF TimeStep, Read, UpdateTime, Write, vars, distribution
  <2> QED
    BY <2>1 DEF distribution, DistributionInv, Live, Sound, Built
<1> QED
  BY <1>1, <1>2, BuildIsSound, IncrementStepIsSound DEF Next

------------------------------------------------------------------------------
(* The file written last was written for what its name was made from.      *)
WrittenFor(conf) ==
  /\ file.time \in Time
  /\ file.member = conf.member
  /\ file.made <=> MakesPrefix(conf)
  /\ file.name = IF MakesPrefix(conf) THEN Prefix(conf, file.time) ELSE conf
  /\ MakesPrefix(conf) => ~Throws(conf)

FileInv == file # None => \E conf \in Conf : WrittenFor(conf)

TimeInv == validTime \in [Sts -> [Rank -> Time]]

(* Times stay within the bound, whose guards are those of ReadState, Read  *)
(* and UpdateTime.                                                         *)
LEMMA TimeInvIsPreserved == TimeInv /\ [Next]_vars => TimeInv'
<1> SUFFICES ASSUME TimeInv, [Next]_vars PROVE TimeInv'
  OBVIOUS
<1> USE SizeAssumption, MaxTimeAssumption DEF TimeInv, Rank, Time
<1>1. ASSUME NEW x \in Sts, NEW times \in [Rank -> Time],
             validTime' = [validTime EXCEPT ![x] = times]
      PROVE  TimeInv'
  BY <1>1
<1>2. CASE ObjectStep
  <2>1. ASSUME NEW x \in Sts, NEW y \in Sts, TakeTime(x, y) PROVE TimeInv'
    BY <2>1 DEF TakeTime
  <2>2. ASSUME NEW x \in Sts, NEW g \in Geoms, NEW nd \in BOOLEAN, ReadState(x, g, nd)
        PROVE  TimeInv'
    BY <2>2 DEF ReadState, At
  <2>3. ASSUME NEW x \in Sts, validTime' = [validTime EXCEPT ![x] = [r \in Rank |-> 0]]
        PROVE  TimeInv'
    BY <2>3
  <2> QED
    BY <1>2, <2>1, <2>2, <2>3 DEF ObjectStep
<1>3. CASE TimeStep
  <2>1. ASSUME NEW x \in Sts, NEW time \in Time, Read(x, time) PROVE TimeInv'
    BY <2>1 DEF Read
  <2>2. ASSUME NEW x \in Sts, NEW dt \in {-1, 1}, UpdateTime(x, dt) PROVE TimeInv'
    BY <2>2 DEF UpdateTime
  <2>3. ASSUME NEW x \in Sts, NEW r \in Rank, NEW conf \in Conf, Write(x, r, conf)
        PROVE  TimeInv'
    BY <2>3 DEF Write
  <2> QED
    BY <1>3, <2>1, <2>2, <2>3 DEF TimeStep
<1> QED
  BY <1>2, <1>3 DEF Next, output, vars

(* What a write leaves.                                                    *)
LEMMA WriteGivesFile ==
  ASSUME TimeInv, NEW x \in Sts, NEW r \in Rank, NEW conf \in Conf, Write(x, r, conf)
  PROVE  WrittenFor(conf)'
<1>1. /\ MakesPrefix(conf) => ~Throws(conf)
      /\ file' = [name |-> IF MakesPrefix(conf) THEN Prefix(conf, validTime[x][r]) ELSE conf,
                  made |-> MakesPrefix(conf),
                  time |-> validTime[x][r], member |-> conf.member]
  BY DEF Write
<1>2. validTime[x][r] \in Time
  BY DEF TimeInv
<1>3. /\ file'.time = validTime[x][r] /\ file'.member = conf.member
      /\ file'.made <=> MakesPrefix(conf)
      /\ file'.name = IF MakesPrefix(conf) THEN Prefix(conf, validTime[x][r]) ELSE conf
  BY <1>1
<1> QED
  BY <1>1, <1>2, <1>3 DEF WrittenFor, MakesPrefix, Throws, Prefix, Time

LEMMA FileInvIsPreserved == TimeInv /\ FileInv /\ [Next]_vars => FileInv'
<1> SUFFICES ASSUME TimeInv, FileInv, [Next]_vars PROVE FileInv'
  OBVIOUS
<1>1. (\E x \in Sts, r \in Rank, conf \in Conf : Write(x, r, conf)) \/ UNCHANGED file
  BY DEF Next, output, vars, ObjectStep, TimeStep, ReadState, TakeTime, Read, UpdateTime
<1>2. CASE UNCHANGED file
  BY <1>2 DEF FileInv, WrittenFor, MakesPrefix, Throws, Prefix, Time
<1> QED
  BY <1>1, <1>2, WriteGivesFile DEF FileInv

(* Nothing is built, made or written at first.                             *)
IInv == DistributionInv /\ TimeInv /\ FileInv

LEMMA InitImpliesIInv == Init => IInv
<1> SUFFICES ASSUME Init PROVE IInv
  OBVIOUS
<1>1. DistributionInv
  BY DEF Init, DistributionInit, DistributionInv, Live
<1>2. TimeInv
  BY SizeAssumption, MaxTimeAssumption DEF Init, TimeInv, Rank, Time
<1>3. FileInv
  BY DEF Init, FileInv
<1> QED
  BY <1>1, <1>2, <1>3 DEF IInv

(* The inductive invariant holds throughout.                               *)
THEOREM Invariance == Spec => []IInv
<1>1. IInv /\ [Next]_vars => IInv'
  BY DistributionInvIsPreserved, TimeInvIsPreserved, FileInvIsPreserved DEF IInv
<1> QED
  BY <1>1, InitImpliesIInv, PTL DEF Spec

(* Type correctness.                                                       *)
THEOREM TypeCorrect == Spec => []TypeOK
<1>1. IInv => TypeOK
  <2> SUFFICES ASSUME IInv PROVE TypeOK
    OBVIOUS
  <2>1. DistributionTypeOK /\ validTime \in [Sts -> [Rank -> Time]]
    BY DEF IInv, DistributionInv, TimeInv, DistributionTypeOK, Sound
  <2>2. ASSUME file # None
        PROVE  /\ file.time \in Time
               /\ file.made =>
                    /\ file.name.type \in Type
                    /\ (file.name.member # None) <=> (file.name.type = "ens")
                    /\ (file.name.date # None) <=> (file.name.type \in {"fc", "ens"})
               /\ ~file.made => file.name \in Conf
    <3>1. PICK conf \in Conf :
            /\ file.time \in Time
            /\ file.made <=> MakesPrefix(conf)
            /\ file.name = IF MakesPrefix(conf) THEN Prefix(conf, file.time) ELSE conf
            /\ MakesPrefix(conf) => ~Throws(conf)
      BY <2>2 DEF IInv, FileInv, WrittenFor
    <3>2. conf.type \in Type \cup {None}
      BY ConfAssumption DEF WriteConf
    <3>3. ASSUME file.made
          PROVE  /\ file.name.type \in Type
                 /\ (file.name.member # None) <=> (file.name.type = "ens")
                 /\ (file.name.date # None) <=> (file.name.type \in {"fc", "ens"})
      BY <3>1, <3>2, <3>3 DEF MakesPrefix, Throws, Prefix
    <3>4. ASSUME ~file.made PROVE file.name \in Conf
      BY <3>1, <3>4
    <3> QED
      BY <3>1, <3>3, <3>4
  <2> QED
    BY <2>1, <2>2 DEF TypeOK
<1> QED
  BY <1>1, Invariance, PTL

(* The data of every object are on the grid of its geometry.               *)
THEOREM DataStaysOnGeometry == Spec => []DataOnGeometry
<1>1. IInv => DataOnGeometry
  BY DEF IInv, DistributionInv, Sound, DataOnGeometry
<1> QED
  BY <1>1, Invariance, PTL

(* Increments are summed over the ranks they are spread over.              *)
THEOREM IncrementsReduceWhereSpread == Spec => []ReducedWhereSpread
<1>1. IInv => ReducedWhereSpread
  BY DEF IInv, DistributionInv, Sound, ReducedWhereSpread, Obj
<1> QED
  BY <1>1, Invariance, PTL

(* The assertion on the time communicators of states never fails.          *)
THEOREM StatesAgree == Spec => []StatesOfOneGeometryAgree
<1>1. IInv => StatesOfOneGeometryAgree
  BY DEF IInv, DistributionInv, Sound, StatesOfOneGeometryAgree, SecondAssertion, Equal, Obj
<1> QED
  BY <1>1, Invariance, PTL

(* No prefix of a dated type stands for two times, or two members.         *)
THEOREM NamesTellStates == Spec => FileTellsState
<1>1. ASSUME FileInv, \E conf \in Conf : WrittenFor(conf)',
             file # None, file'.name = file.name, file.made, file.name.type # "other"
      PROVE  /\ file'.time = file.time
             /\ file.name.type = "ens" => file'.member = file.member
  <2>1. PICK old \in Conf :
          /\ file.time \in Time /\ file.member = old.member /\ MakesPrefix(old)
          /\ file.name = Prefix(old, file.time) /\ ~Throws(old)
    BY <1>1 DEF FileInv, WrittenFor
  <2>2. PICK new \in Conf :
          /\ file'.time \in Time /\ file'.member = new.member
          /\ file'.name = IF MakesPrefix(new) THEN Prefix(new, file'.time) ELSE new
          /\ MakesPrefix(new) => ~Throws(new)
    BY <1>1 DEF WrittenFor, Time, MakesPrefix, Throws, Prefix
  <2>3. old \in WriteConf /\ new \in WriteConf
    BY ConfAssumption
  <2>4. MakesPrefix(new)
    <3>1. ASSUME ~MakesPrefix(new) PROVE FALSE
      <4>1. new = Prefix(old, file.time)
        BY <1>1, <2>1, <2>2, <3>1
      <4> QED
        BY <2>3, <4>1 DEF WriteConf, Prefix
    <3> QED
      BY <3>1
  <2>5. Prefix(new, file'.time) = Prefix(old, file.time)
    BY <1>1, <2>1, <2>2, <2>4
  <2>6. /\ new.type = old.type /\ old.type \in {"an", "fc", "ens"}
        /\ old.type = "ens" => new.member = old.member
        /\ old.type \in {"fc", "ens"} =>
             /\ new.date = old.date
             /\ file'.time - new.date = file.time - old.date
        /\ old.type = "an" => file'.time = file.time
    BY <1>1, <2>1, <2>3, <2>5 DEF Prefix, WriteConf, MakesPrefix, Type
  <2>7. old.type \in {"fc", "ens"} => old.date \in Int
    BY <2>1, <2>3 DEF Throws, WriteConf
  <2>8. file'.time = file.time
    BY <2>1, <2>2, <2>6, <2>7, MaxTimeAssumption DEF Time
  <2> QED
    BY <2>1, <2>2, <2>5, <2>6, <2>8 DEF Prefix
<1>2. IInv /\ [Next]_vars =>
        [file # None /\ file'.name = file.name /\ file.made /\ file.name.type # "other"
           => /\ file'.time = file.time
              /\ file.name.type = "ens" => file'.member = file.member]_file
  <2> SUFFICES ASSUME IInv, [Next]_vars, file' # file,
                      file # None, file'.name = file.name, file.made,
                      file.name.type # "other"
               PROVE  /\ file'.time = file.time
                      /\ file.name.type = "ens" => file'.member = file.member
    OBVIOUS
  <2>1. \E x \in Sts, r \in Rank, conf \in Conf : Write(x, r, conf)
    BY DEF Next, output, vars, ObjectStep, TimeStep, ReadState, TakeTime, Read, UpdateTime
  <2>2. \E conf \in Conf : WrittenFor(conf)'
    BY <2>1, WriteGivesFile DEF IInv
  <2> QED
    BY <1>1, <2>2 DEF IInv
<1> QED
  BY <1>2, Invariance, PTL DEF Spec, FileTellsState
=============================================================================
