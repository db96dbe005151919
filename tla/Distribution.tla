---------------------------- MODULE Distribution ----------------------------
(***************************************************************************)
(* Geometries and what lives on them: the communicators a Geometry is made *)
(* with (base/Geometry.h, interface/Geometry.h), and the geometry and time *)
(* communicator that each increment and state carries through its life     *)
(* (base/Increment.h:99-137, base/State.h:101-158).                        *)
(*                                                                         *)
(* Every rank runs the same program, so that one rank's pointers stand for *)
(* those of all.  The methods of increments and states that are not here   *)
(* change none of these pointers; clients give them operands that live on  *)
(* one grid and are spread alike, which the code does not check.           *)
(***************************************************************************)
CONSTANTS
  Geoms,     \* the objects of class Geometry
  Pointers,  \* geometries of the model that clients share by pointer
  Comm,      \* the communicators in space
  World,     \* mpi::world()
  TimeComm,  \* the communicators in time
  Myself,    \* mpi::myself()
  Incs,      \* the increments
  Sts,       \* the states
  None       \* no object

ASSUME CommAssumption == World \in Comm /\ Myself \in TimeComm
ASSUME ObjAssumption == Incs \cap Sts = {}

Obj == Incs \cup Sts
Model == Geoms \cup Pointers

VARIABLES
  geometry,  \* geometry[g]: the members of g
  obj        \* obj[o]: the members of o, and what its data are

distribution == <<geometry, obj>>

Geometry == [geom : Model, comm : Comm, timeComm : TimeComm]

(* `grid' and `spread' are not the program's: the geometry of the model    *)
(* that the data of an object are on, and the communicator over which its  *)
(* sub-windows are spread.                                                 *)
Object == [resol : Geoms, timeComm : TimeComm, grid : Model, spread : TimeComm]

Built(g) == geometry[g] # None
Live(o) == obj[o] # None

------------------------------------------------------------------------------
(* Geometry's constructors: from a configuration, which makes a geometry   *)
(* of the model, from a pointer to one, and from one that is copied.       *)
BuildFromParameters(g, comm, time) ==
  /\ ~Built(g)
  /\ geometry' = [geometry EXCEPT ![g] = [geom |-> g, comm |-> comm, timeComm |-> time]]
  /\ UNCHANGED obj

BuildFromPointer(g, ptr) ==
  /\ ~Built(g)
  /\ geometry' = [geometry EXCEPT ![g] = [geom |-> ptr, comm |-> World, timeComm |-> Myself]]
  /\ UNCHANGED obj

BuildFromModel(g) ==
  /\ ~Built(g)
  /\ geometry' = [geometry EXCEPT ![g] = [geom |-> g, comm |-> World, timeComm |-> Myself]]
  /\ UNCHANGED obj

(* Geometry::operator==, pointer by pointer.                               *)
Equal(g, h) ==
  /\ geometry[g].geom = geometry[h].geom
  /\ geometry[g].comm = geometry[h].comm
  /\ geometry[g].timeComm = geometry[h].timeComm

Made(o, object) ==
  /\ ~Live(o)
  /\ obj' = [obj EXCEPT ![o] = object]
  /\ UNCHANGED geometry

(* A new object on geometry g: built from variables and a date, from a     *)
(* configuration, or from an object of the model and the geometry that     *)
(* corresponds to it.                                                      *)
Construct(o, g) ==
  /\ Built(g)
  /\ Made(o, [resol |-> g, timeComm |-> geometry[g].timeComm,
              grid |-> geometry[g].geom, spread |-> geometry[g].timeComm])

(* Other's data on geometry g: an increment takes the time communicator of *)
(* the other one, a state that of the geometry.                            *)
ChangeResolutionIncrement(dx, g, dy) ==
  /\ Built(g) /\ Live(dy)
  /\ Made(dx, [obj[dy] EXCEPT !.resol = g, !.grid = geometry[g].geom])

(* The fault of a state that does as increments do.                        *)
ChangeResolutionAsIncrement(x, g, y) ==
  /\ Built(g) /\ Live(y)
  /\ Made(x, [obj[y] EXCEPT !.resol = g, !.grid = geometry[g].geom])

ChangeResolutionState(x, g, y) ==
  /\ Built(g) /\ Live(y)
  /\ Made(x, [obj[y] EXCEPT !.resol = g, !.grid = geometry[g].geom,
                            !.timeComm = geometry[g].timeComm])

(* Copies: increments copy the pointer, states ask their geometry again.   *)
CopyIncrement(dx, dy) == Live(dy) /\ Made(dx, obj[dy])

CopyState(x, y) ==
  /\ Live(y)
  /\ Made(x, [obj[y] EXCEPT !.timeComm = geometry[obj[y].resol].timeComm])

Destroy(o) ==
  /\ Live(o)
  /\ obj' = [obj EXCEPT ![o] = None]
  /\ UNCHANGED geometry

(* operator=: the data of p, if both assertions hold.  The faults leave    *)
(* out one of them.                                                        *)
TakeData(o, p) ==
  /\ obj' = [obj EXCEPT ![o].grid = obj[p].grid, ![o].spread = obj[p].spread]
  /\ UNCHANGED geometry

AssignAnyGeometry(o, p) ==
  /\ Live(o) /\ Live(p)
  /\ obj[o].timeComm = obj[p].timeComm
  /\ TakeData(o, p)

AssignAnyTimeComm(o, p) ==
  /\ Live(o) /\ Live(p)
  /\ Equal(obj[o].resol, obj[p].resol)
  /\ TakeData(o, p)

Assign(o, p) ==
  /\ Live(o) /\ Live(p)
  /\ Equal(obj[o].resol, obj[p].resol)
  /\ obj[o].timeComm = obj[p].timeComm
  /\ TakeData(o, p)

------------------------------------------------------------------------------
DistributionInit ==
  /\ geometry = [g \in Geoms |-> None]
  /\ obj = [o \in Obj |-> None]

Build ==
  \E g \in Geoms :
    \/ \E comm \in Comm, time \in TimeComm : BuildFromParameters(g, comm, time)
    \/ \E ptr \in Pointers : BuildFromPointer(g, ptr)
    \/ BuildFromModel(g)

IncrementStep ==
  \E dx \in Incs :
    \/ Destroy(dx)
    \/ \E g \in Geoms : \/ Construct(dx, g)
                        \/ \E dy \in Incs : ChangeResolutionIncrement(dx, g, dy)
    \/ \E dy \in Incs : CopyIncrement(dx, dy) \/ Assign(dx, dy)

StateStep ==
  \E x \in Sts :
    \/ Destroy(x)
    \/ \E g \in Geoms : \/ Construct(x, g)
                        \/ \E y \in Sts : ChangeResolutionState(x, g, y)
    \/ \E y \in Sts : CopyState(x, y) \/ Assign(x, y)

DistributionSpec ==
  DistributionInit /\ [][Build \/ IncrementStep \/ StateStep]_distribution

------------------------------------------------------------------------------
DistributionTypeOK ==
  /\ geometry \in [Geoms -> Geometry \cup {None}]
  /\ obj \in [Obj -> Object \cup {None}]
  /\ \A o \in Obj : Live(o) => Built(obj[o].resol)

(* The data of an object are on the grid of its own geometry, whatever was *)
(* assigned to it: two Geometry objects are equal only if they share the   *)
(* model's geometry (base/Geometry.h:182-188, base/Increment.h:133).       *)
DataOnGeometry ==
  \A o \in Obj : Live(o) => obj[o].grid = geometry[obj[o].resol].geom

(* The sums of dot_product_with and norm of an increment go over the ranks *)
(* its sub-windows are spread over, through every change of resolution,    *)
(* copy and assignment (base/Increment.h:111,119,134).                     *)
ReducedWhereSpread ==
  \A dx \in Incs : Live(dx) => obj[dx].timeComm = obj[dx].spread

(* Of objects on equal geometries, the second assertion of operator= holds *)
(* too.                                                                    *)
SecondAssertion(o, p) ==
  Live(o) /\ Live(p) /\ Equal(obj[o].resol, obj[p].resol)
    => obj[o].timeComm = obj[p].timeComm

(* Any two states on equal geometries can be assigned, wherever they came  *)
(* from: the assertion base/State.h:155 never fails.                       *)
StatesOfOneGeometryAgree == \A x, y \in Sts : SecondAssertion(x, y)

(* The assertion base/Increment.h:134, `timeComm_ == rhs.timeComm_', holds *)
(* of the increments of which the one before it does.                      *)
IncrementsOfOneGeometryAgree == \A dx, dy \in Incs : SecondAssertion(dx, dy)
=============================================================================
