------------------------------ MODULE TimeShift ------------------------------
(***************************************************************************)
(* The methods of oopsjedi::Increment that communicate through time        *)
(* (base/Increment.h): shift_forward, shift_backward, and the reductions   *)
(* of dot_product_with and norm.  Every rank of a time communicator holds  *)
(* one increment, that of its own sub-window, and the ranks call the same  *)
(* methods in the same order (they run one program).  Between two calls    *)
(* nothing keeps them in step: one rank may be several calls ahead.        *)
(*                                                                         *)
(* The tag of a shift is a function-local `static int', so one counter     *)
(* per process and per method serves every increment and every             *)
(* communicator: an increment on the one-rank communicator that Geometry   *)
(* takes by default, oopsjedi::mpi::myself(), bumps it too.                *)
(***************************************************************************)
EXTENDS Integers

CONSTANTS
  Size,      \* number of ranks of the time communicator
  MaxCalls   \* bound: number of calls every rank makes

ASSUME SizeAssumption == Size \in Nat \ {0}
ASSUME MaxCallsAssumption == MaxCalls \in Nat

Rank == 0 .. Size - 1
CallNo == 1 .. MaxCalls
ShiftMethods == {"shift_forward", "shift_backward"}

(* What a rank calls: the method, and whether the increment it is called   *)
(* on is distributed in time or lives on mpi::myself().                    *)
Call == [method : ShiftMethods \cup {"reduce"}, comm : {"time", "self"}]

VARIABLES
  script,  \* the calls the program makes, the same on every rank
  call,    \* call[r]: the call rank r is in, MaxCalls + 1 once it has ended
  pc,      \* pc[r]: how far rank r is inside that call
  net,     \* messages sent and not yet received
  tag,     \* tag[r][m]: the static counter of method m in process r
  dx,      \* dx[r]: the values of rank r's time-distributed increment
  zz       \* zz[r]: the terms of the last sum through time returned to rank r

vars == <<script, call, pc, net, tag, dx, zz>>

(* A message, with two fields the program does not transmit: `call' and    *)
(* `val' say in which call, and with which values on the sender, it was    *)
(* sent, for the properties below.  `buf' is the serialized vector.        *)
Message == [src : Rank, dst : Rank, tag : Int, buf : {<<>>},
            call : CallNo, val : Int]

------------------------------------------------------------------------------
(* Where a call sends to and receives from.                                *)

Current(r) == script[call[r]]
IsShift(c) == c.method \in ShiftMethods
OnTime(c) == c.comm = "time"
Active(r, step) == call[r] \in CallNo /\ pc[r] = step

(* LateHasDest and LateHasSource are the faults of an off-by-one in the    *)
(* tests of `mytime' against the last and the first sub-window.            *)
LateHasDest(c, r) ==
  OnTime(c) /\ IF c.method = "shift_forward" THEN r + 1 <= Size ELSE r > 0
HasDest(c, r) ==
  OnTime(c) /\ IF c.method = "shift_forward" THEN r + 1 < Size ELSE r > 0

LateHasSource(c, r) ==
  OnTime(c) /\ IF c.method = "shift_forward" THEN r > 1 ELSE r + 1 < Size
HasSource(c, r) ==
  OnTime(c) /\ IF c.method = "shift_forward" THEN r > 0 ELSE r + 1 < Size
Dest(c, r)   == IF c.method = "shift_forward" THEN r + 1 ELSE r - 1
Source(c, r) == IF c.method = "shift_forward" THEN r - 1 ELSE r + 1

(* serialize appends nothing; deserialize leaves the values as they are    *)
(* (it only empties the field-set cache, see FieldCache).                  *)
Serialize(val) == <<>>
Deserialize(val, buf) == val

FirstTag == [m \in ShiftMethods |->
               IF m = "shift_forward" THEN 159357 ELSE 30951]

(* ++tag.  The first two operators are faults, for the record of what the  *)
(* properties detect: a counter that never moves, and one that moves only  *)
(* in a call that receives.                                                *)
ConstantTag(c, r) == tag[r][c.method]
TagOfReceivers(c, r) == tag[r][c.method] + (IF HasSource(c, r) THEN 1 ELSE 0)
NextTag(c, r) == tag[r][c.method] + 1

(* The end of a shift on rank r: count the tag, go to the next call.       *)
ShiftDone(r) ==
  /\ tag' = [tag EXCEPT ![r][Current(r).method] = NextTag(Current(r), r)]
  /\ call' = [call EXCEPT ![r] = @ + 1]
  /\ pc' = [pc EXCEPT ![r] = "enter"]

(* The messages MPI may deliver to rank r, which waits for the source and  *)
(* the tag of its call.                                                    *)
Matching(r) ==
  {m \in net : /\ m.dst = r
               /\ m.src = Source(Current(r), r)
               /\ m.tag = tag[r][Current(r).method]}

(* What a reduction sums, one term per rank (norm takes the root after).   *)
NoTerms == [q \in Rank |-> 0]
Terms(values) == [q \in Rank |-> values[q] * values[q]]

------------------------------------------------------------------------------
Init ==
  /\ script \in [CallNo -> Call]
  /\ call = [r \in Rank |-> 1]
  /\ pc = [r \in Rank |-> "enter"]
  /\ net = {}
  /\ tag = [r \in Rank |-> FirstTag]
  /\ dx = [r \in Rank |-> r + 1]
  /\ zz = [r \in Rank |-> NoTerms]

(* shift: if there is a next sub-window, serialize and send to it.         *)
ShiftSend(r) ==
  /\ Active(r, "enter") /\ IsShift(Current(r)) /\ HasDest(Current(r), r)
  /\ net' = net \cup
       {[src |-> r, dst |-> Dest(Current(r), r),
         tag |-> tag[r][Current(r).method], buf |-> Serialize(dx[r]),
         call |-> call[r], val |-> dx[r]]}
  /\ pc' = [pc EXCEPT ![r] = "sending"]
  /\ UNCHANGED <<script, call, tag, dx, zz>>

ShiftNoSend(r) ==
  /\ Active(r, "enter") /\ IsShift(Current(r)) /\ ~HasDest(Current(r), r)
  /\ pc' = [pc EXCEPT ![r] = "sent"]
  /\ UNCHANGED <<script, call, net, tag, dx, zz>>

(* A blocking send returns when its message has been received ...          *)
SendReturns(r) ==
  /\ Active(r, "sending")
  /\ \A m \in net : m.src = r => m.call # call[r]
  /\ pc' = [pc EXCEPT ![r] = "sent"]
  /\ UNCHANGED <<script, call, net, tag, dx, zz>>

(* ... or before, if MPI chooses to buffer it.                             *)
SendBuffered(r) ==
  /\ Active(r, "sending")
  /\ \E m \in net : m.src = r /\ m.call = call[r]
  /\ pc' = [pc EXCEPT ![r] = "sent"]
  /\ UNCHANGED <<script, call, net, tag, dx, zz>>

(* The fault of a receive that does not wait for its message.              *)
PollingReceive(r) ==
  /\ Active(r, "sent") /\ HasSource(Current(r), r)
  /\ net' = net \ Matching(r)
  /\ ShiftDone(r)
  /\ UNCHANGED <<script, dx, zz>>

(* shift: receive from the source.  Messages with equal source, tag and    *)
(* destination arrive in the order they were sent.                         *)
ShiftReceive(r) ==
  /\ Active(r, "sent") /\ HasSource(Current(r), r)
  /\ \E m \in Matching(r) :
       /\ \A n \in Matching(r) : m.call <= n.call
       /\ net' = net \ {m}
       /\ dx' = [dx EXCEPT ![r] = Deserialize(@, m.buf)]
  /\ ShiftDone(r)
  /\ UNCHANGED <<script, zz>>

(* shift: no source, so the increment is zeroed.  On mpi::myself() that is *)
(* another increment than the one distributed in time.  KeepWithoutSource  *)
(* is the fault of leaving it as it is.                                    *)
KeepWithoutSource(c, val) == val
WithoutSource(c, val) == IF OnTime(c) THEN 0 ELSE val

ShiftZero(r) ==
  /\ Active(r, "sent") /\ ~HasSource(Current(r), r)
  /\ dx' = [dx EXCEPT ![r] = WithoutSource(Current(r), @)]
  /\ ShiftDone(r)
  /\ UNCHANGED <<script, net, zz>>

(* dot_product_with and norm: the rank's own product, then allReduceInPlace *)
(* over the communicator.  On mpi::myself() that returns at once ...       *)
ReduceArrive(r) ==
  /\ Active(r, "enter") /\ ~IsShift(Current(r))
  /\ pc' = [pc EXCEPT ![r] = "reducing"]
  /\ UNCHANGED <<script, call, net, tag, dx, zz>>

ReduceAlone(r) ==
  /\ Active(r, "reducing") /\ ~OnTime(Current(r))
  /\ call' = [call EXCEPT ![r] = @ + 1]
  /\ pc' = [pc EXCEPT ![r] = "enter"]
  /\ UNCHANGED <<script, net, tag, dx, zz>>

(* ... and otherwise on all ranks, once all take part.  MPI pairs their    *)
(* arrivals whatever the calls they come from.                             *)
AllReduce ==
  /\ \A r \in Rank : Active(r, "reducing") /\ OnTime(Current(r))
  /\ zz' = [r \in Rank |-> Terms(dx)]
  /\ call' = [r \in Rank |-> call[r] + 1]
  /\ pc' = [r \in Rank |-> "enter"]
  /\ UNCHANGED <<script, net, tag, dx>>

(* The program has made its calls.                                         *)
Ended == \A r \in Rank : call[r] = MaxCalls + 1
Terminating == Ended /\ UNCHANGED vars

Step(r) == \/ ShiftSend(r) \/ ShiftNoSend(r) \/ SendReturns(r)
           \/ ShiftReceive(r) \/ ShiftZero(r)
           \/ ReduceArrive(r) \/ ReduceAlone(r)

Next == \/ \E r \in Rank : Step(r) \/ SendBuffered(r)
        \/ AllReduce
        \/ Terminating

(* Every rank runs on and every message that can be received is received;  *)
(* nothing promises that MPI buffers.                                      *)
Fairness == (\A r \in Rank : WF_vars(Step(r))) /\ WF_vars(AllReduce)

Spec == Init /\ [][Next]_vars /\ Fairness

------------------------------------------------------------------------------
TypeOK ==
  /\ script \in [CallNo -> Call]
  /\ call \in [Rank -> 1 .. MaxCalls + 1]
  /\ pc \in [Rank -> {"enter", "sending", "sent", "reducing"}]
  /\ net \subseteq Message
  /\ tag \in [Rank -> [ShiftMethods -> Int]]
  /\ dx \in [Rank -> Int]
  /\ zz \in [Rank -> [Rank -> Int]]

(* The tag alone tells the calls apart: while rank r waits in a shift, no  *)
(* message of another call has the source and the tag it waits for, however *)
(* far the other ranks are ahead (base/Increment.h: `++tag').              *)
TagIdentifiesCall ==
  \A r \in Rank : Active(r, "sent") /\ HasSource(Current(r), r) =>
     \A m \in Matching(r) : m.call = call[r]

(* No message is left behind: one that is still in the network is for the  *)
(* call its receiver is in or for a later one, so no rank ever leaves a    *)
(* shift without the message that was meant for it.                        *)
NoneLeftBehind == \A m \in net : call[m.dst] <= m.call

(* No rank is fed by an earlier or a later call, or runs ahead of what it  *)
(* depends on: the methods implement TimeOrder, each giving its part when  *)
(* it sends (or finds that it need not) or arrives at the reduction.       *)
Order == INSTANCE TimeOrder WITH
           given <- [r \in Rank |-> IF pc[r] = "enter" THEN call[r] - 1 ELSE call[r]],
           done  <- [r \in Rank |-> call[r] - 1]
OrderedThroughTime == Order!Spec

(* The lock-step execution, in which all ranks make call k together:       *)
(* LockStep[k][r] is rank r's increment after k calls.                     *)
AfterCall(values, c) ==
  IF IsShift(c) /\ OnTime(c)
    THEN [r \in Rank |->
            IF HasSource(c, r)
              THEN Deserialize(values[r], Serialize(values[Source(c, r)]))
              ELSE 0]
    ELSE values
LockStep[k \in 0 .. MaxCalls] ==
  IF k = 0 THEN [r \in Rank |-> r + 1] ELSE AfterCall(LockStep[k - 1], script[k])

TimeReductions(n) == {k \in 1 .. n : ~IsShift(script[k]) /\ OnTime(script[k])}

(* The interleaving does not show: every rank's values, and the sums it was *)
(* given, are those of the lock-step execution at the point the rank is at. *)
SameAsLockStep ==
  \A r \in Rank :
    /\ dx[r] = LockStep[call[r] - 1][r]
    /\ LET done == TimeReductions(call[r] - 1)
       IN zz[r] = IF done = {} THEN NoTerms
                  ELSE Terms(LockStep[CHOOSE k \in done : \A i \in done : i <= k])

(* What a rank can wait for: that its message is received, that the one    *)
(* for it arrives, that all others come to the reduction.                  *)
Waiting(r) ==
  \/ Active(r, "sending") /\ \E m \in net : m.src = r /\ m.call = call[r]
  \/ Active(r, "sent") /\ HasSource(Current(r), r) /\ Matching(r) = {}
  \/ /\ Active(r, "reducing") /\ OnTime(Current(r))
     /\ \E q \in Rank : ~(Active(q, "reducing") /\ OnTime(Current(q)))

(* The ranks never all wait for each other, even if MPI buffers no send:   *)
(* while calls are left, a rank with calls left is not waiting.            *)
NeverAllWaiting == Ended \/ \E r \in Rank : call[r] \in CallNo /\ ~Waiting(r)

(* All calls return on all ranks, even if MPI never buffers a send.        *)
EveryCallReturns == <>Ended

(* What the comment at base/Increment.h:172 says of a shift, `Receive      *)
(* values at beginning of my subwindow from previous subwindow': the       *)
(* receiver of a message ends with the values the sender sent.             *)
ReceivesValues ==
  [][\A m \in net : m \notin net' => dx'[m.dst] = m.val]_vars

=============================================================================
