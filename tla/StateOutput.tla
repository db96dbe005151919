----------------------------- MODULE StateOutput -----------------------------
(***************************************************************************)
(* The valid times of states on each rank and the files that State::write  *)
(* makes of them (base/State.h:109-127, 214-267, interface/State.h).  The  *)
(* name of a file is what the prefix is put together from; how dates and   *)
(* durations are formatted does not matter to what it tells.               *)
(***************************************************************************)
EXTENDS Distribution, Integers

CONSTANTS
  Size,     \* the number of ranks, those of every time communicator but Myself
  MaxTime,  \* bound: valid times are in 0 .. MaxTime, which the sub-windows fit in
  Conf      \* bound: the configurations given to write

Type == {"an", "fc", "ens", "other"}
WriteConf == [type : Type \cup {None}, exp : BOOLEAN, prefix : BOOLEAN,
              member : Nat \cup {None}, date : Int \cup {None}]

ASSUME SizeAssumption == Size \in Nat \ {0}
ASSUME MaxTimeAssumption == MaxTime \in Nat /\ Size - 1 <= MaxTime
ASSUME ConfAssumption == Conf \subseteq WriteConf

VARIABLES
  validTime,  \* validTime[x][r]: the valid time of state x on rank r
  file        \* the file written last, and the time and member it was written for

output == <<validTime, file>>
vars == <<geometry, obj, validTime, file>>

Rank == 0 .. Size - 1
Time == 0 .. MaxTime

------------------------------------------------------------------------------
(* StateParametersND::at: the entry of the list that is this rank's, or    *)
(* the only one.  The list gives the sub-windows' dates in turn.           *)
At(nd, comm, r) == IF nd /\ comm # Myself THEN r ELSE 0

ReadState(x, g, nd) ==
  /\ Construct(x, g)
  /\ validTime' = [validTime EXCEPT ![x] = [r \in Rank |-> At(nd, geometry[g].timeComm, r)]]
  /\ UNCHANGED file

(* The other constructors and operator= take the valid time of y.          *)
TakeTime(x, y) ==
  /\ validTime' = [validTime EXCEPT ![x] = validTime[y]]
  /\ UNCHANGED file

(* read: every rank is given the same file.                                *)
Read(x, time) ==
  /\ Live(x)
  /\ validTime' = [validTime EXCEPT ![x] = [r \in Rank |-> time]]
  /\ UNCHANGED <<distribution, file>>

UpdateTime(x, dt) ==
  /\ Live(x)
  /\ \A r \in Rank : validTime[x][r] + dt \in Time
  /\ validTime' = [validTime EXCEPT ![x] = [r \in Rank |-> @[r] + dt]]
  /\ UNCHANGED <<distribution, file>>

(* Whether write makes the prefix itself, and whether it then throws for   *)
(* want of the member or the date (the fault: of the date only).           *)
MakesPrefix(conf) == conf.type # None /\ conf.exp /\ ~conf.prefix
ThrowsLax(conf) == conf.type \in {"fc", "ens"} /\ conf.date = None
Throws(conf) ==
  \/ conf.type = "ens" /\ conf.member = None
  \/ conf.type \in {"fc", "ens"} /\ conf.date = None

(* What the prefix is put together from.  The fault: without the step.     *)
PrefixWithoutStep(conf, time) ==
  [type |-> conf.type,
   member |-> IF conf.type = "ens" THEN conf.member ELSE None,
   date |-> IF conf.type \in {"fc", "ens"} THEN conf.date ELSE None,
   step |-> None,
   time |-> IF conf.type = "an" THEN time ELSE None]

Prefix(conf, time) ==
  [type |-> conf.type,
   member |-> IF conf.type = "ens" THEN conf.member ELSE None,
   date |-> IF conf.type \in {"fc", "ens"} THEN conf.date ELSE None,
   step |-> IF conf.type \in {"fc", "ens"} THEN time - conf.date ELSE None,
   time |-> IF conf.type = "an" THEN time ELSE None]

(* Each rank writes its own state; without a prefix of its own, write      *)
(* passes the configuration on as it is.                                   *)
Write(x, r, conf) ==
  /\ Live(x)
  /\ MakesPrefix(conf) => ~Throws(conf)
  /\ file' = [name |-> IF MakesPrefix(conf) THEN Prefix(conf, validTime[x][r]) ELSE conf,
              made |-> MakesPrefix(conf),
              time |-> validTime[x][r], member |-> conf.member]
  /\ UNCHANGED <<distribution, validTime>>

------------------------------------------------------------------------------
Init ==
  /\ DistributionInit
  /\ validTime = [x \in Sts |-> [r \in Rank |-> 0]]
  /\ file = None

ObjectStep ==
  \E x \in Sts :
    \/ Destroy(x) /\ validTime' = [validTime EXCEPT ![x] = [r \in Rank |-> 0]] /\ UNCHANGED file
    \/ \E g \in Geoms, nd \in BOOLEAN : ReadState(x, g, nd)
    \/ \E g \in Geoms, y \in Sts : ChangeResolutionState(x, g, y) /\ TakeTime(x, y)
    \/ \E y \in Sts : (CopyState(x, y) \/ Assign(x, y)) /\ TakeTime(x, y)

TimeStep ==
  \E x \in Sts : \/ \E time \in Time : Read(x, time)
                 \/ \E dt \in {-1, 1} : UpdateTime(x, dt)
                 \/ \E r \in Rank, conf \in Conf : Write(x, r, conf)

Next ==
  \/ (Build \/ IncrementStep) /\ UNCHANGED output
  \/ ObjectStep
  \/ TimeStep

Spec == Init /\ [][Next]_vars

------------------------------------------------------------------------------
TypeOK ==
  /\ DistributionTypeOK
  /\ validTime \in [Sts -> [Rank -> Time]]
  /\ file # None =>
       /\ file.time \in Time
       /\ IF file.made
          THEN /\ file.name.type \in Type
               /\ (file.name.member # None) <=> (file.name.type = "ens")
               /\ (file.name.date # None) <=> (file.name.type \in {"fc", "ens"})
          ELSE file.name \in Conf

(* A file under a prefix that write made for an analysis, a forecast or an *)
(* ensemble is only ever written over by a state of the same valid time,   *)
(* and of the same member of an ensemble: not by another sub-window, rank  *)
(* or member (base/State.h:222-249).  The names hold nothing of the writes *)
(* before, so that comparing each write with the last one is enough.       *)
FileTellsState ==
  [][file # None /\ file'.name = file.name /\ file.made /\ file.name.type # "other"
       => /\ file'.time = file.time
          /\ file.name.type = "ens" => file'.member = file.member]_file
=============================================================================
