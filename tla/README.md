# TLA+ verification of oopsjedi

oopsjedi gives applications written for the JEDI flavour of OOPS the classes
they expect, on top of the ECMWF flavour. `extension/oopsjedi` holds the files
that differ from upstream: C++ templates that wrap a model's own increments,
states and geometries, the library object, and parameters of ensembles.
`ecmwf.sh` overlays them on the upstream sources at configuration.

The modules here are translated from that code. They are checked by TLC on small
instances, and every safety property that a run checks and that holds is proved by
TLAPS for every value of the constants. Line numbers below are those of the files under
`src/`; `PROJECT.json` maps every definition to the lines it models, and lists
the hazards of the code with the properties that watch them.

## The system

| component | state | operations | what is hard |
|---|---|---|---|
| communication through time, `base/Increment.h` | one `static int tag` per process and method, messages under way, the increment of each rank | `shift_forward`, `shift_backward`, `dot_product_with`, `norm`, `print` | ranks are calls apart; blocking sends; shifts on two communicators share a counter; a reduction meets late shifts |
| Increment and State wrappers, `interface/` and `base/Increment.h`, `State.h` | the model's object, the `mutable` field set `fset_`, references that clients keep | every arithmetic method, `read`, `deserialize`, `fieldSet`, `synchronizeFields`, `synchronizeFieldsAD`, `fromFieldSet` and `toFieldSetAD` of any field set, the accessors | a cache next to its source, edited by clients; methods that change the source and keep the cache; a model that throws; an assertion in the filling branch only |
| ensemble members, `base/IncrementEnsemble.h` | the parameters; the members read | `deserialize`, `getIncrementParameters`, the reading constructor, `write` | an index search with exclusions, repeated for each member |
| ensemble perturbations, same file | the mean, the perturbations | constructors from one and from two ensembles of states | two loops that must not be one; sizes |
| library object, `util/LibOOPS.cc` | `rank_`, the switches, five channels made on first use | `initialise`, `testReferenceInitialise`, `finalise`, the channels' accessors | first use fixes a channel for good, and may come before `initialise`; a collective in `finalise`, guarded by each process's own environment |
| source update, `ecmwf.sh` | `oops-jcsda`, `src_tmp`, `src` with links, `extension/` | one run per configuration | no `set -e`: it goes on after failures, may be interrupted, and starts from what the last run left |
| geometry and communicators, `base/Geometry.h`, `interface/Geometry.h` | the model's geometry, the communicators in space and time; in each increment and state a reference to its geometry and a pointer to a time communicator | constructors, `operator==`; interpolation, copy and assignment of increments and states | the constructors do not agree on the communicator they take |
| state output, `base/State.h` | the valid time of each state | `read`, `updateTime`, `write` | every rank makes its own file name; the name must tell the state |
| `ModelData`, `LinearVariableChange`, `abor1_cpp.h`, `dot_product.h`, CMake files | none | constants, aborts, declarations | nothing |

How they interact: an `IncrementEnsemble` is a vector of `Increment`s; an
`Increment` is the wrapper of `interface/Increment.h` plus the pointer to the
time communicator of its `Geometry`; the shifts use the wrapper's `serialize`,
`deserialize` and `zero`, and these clear its field set; `+=` of a `State` and an
`Increment` goes through the accessor of the state that clears its field set.
All of them log through the channels of `LibOOPS`. The sources of all of them
come to the compiler through the links that `ecmwf.sh` makes.

Four compositions model this: `TimeShift` runs the methods of many ranks over one
network; `FieldCache` has the wrappers, and the operator that joins a state and an
increment, over one set of objects; `IncrementEnsemble` puts the constructors that
make an ensemble, `write` and the reading constructor around one disk; and
`StateOutput` puts the valid times of states on top of the geometries and
communicators of `Distribution`.

The repository relies on code that is not in it: ATLAS field sets, eckit's log
and MPI layer, `oopsjedi::mpi::send` and `receive`, GPTL, and the model itself.
The modules use them as this code does; their definitions are marked external.

## Modules

### TimeOrder and TimeShift

`TimeShift` has one action per step of a call. `script` is the program: the list
of calls, the same on every rank, each to `shift_forward`, `shift_backward` or a
reduction ("reduce": `dot_product_with` and `norm`), on an increment distributed
in time or on one of `mpi::myself()`, the communicator that `Geometry` takes by
default (`base/Geometry.h:66,70`). `call[r]` and `pc[r]` say where rank r is.

| action | code |
|---|---|
| `ShiftSend`, `ShiftNoSend` | `base/Increment.h:168-170`, `192-194`: `mpi::send` to the next or the previous sub-window, if there is one |
| `SendReturns`, `SendBuffered` | a blocking send returns when its message is received, or before if MPI buffers it |
| `ShiftReceive` | `173-174`, `197-198`: receive by source and tag; then `++tag` |
| `ShiftZero` | `175-177`, `199-201`: no source, the increment is zeroed; then `++tag` |
| `ReduceArrive`, `ReduceAlone`, `AllReduce` | `141-157`: `allReduceInPlace` over the communicator of the increment |

The tag belongs to a process and a method, not to an increment: `tag[r][m]`, with
the initial values of lines 164 and 188. Messages carry two fields that the
program does not transmit, the call they were sent in and the value the sender
had, so that properties can speak of them. Values are integers; `serialize`
appends nothing and `deserialize` changes nothing, as in
`interface/Increment.h:505-522`.

`TimeOrder` is what the methods promise about their order, with no messages and
no tags: a rank gives its part of a call and returns from the call once the ranks
it depends on have given theirs. `OrderedThroughTime` says that `TimeShift`
implements it, with `given` and `done` read off `call` and `pc`.

The properties: a tag identifies the call (`TagIdentifiesCall`), no message is
left behind (`NoneLeftBehind`), the values and sums are those of the execution in
which all ranks make each call together (`SameAsLockStep`), the ranks never all
wait for each other, though no send be buffered (`NeverAllWaiting`), and every call
returns (`EveryCallReturns`).

### FieldView and FieldCache

Each wrapper has `data[o]`, the value of the model's object, and `fset[o]`, the
field set: the same value at interior and at halo points after `toFieldSet`. The
reals are a finite ring, which is enough to tell a value from one that a method
changed. The actions fall into three kinds by what they do to the cache:

| operator | what it is | code |
|---|---|---|
| `Changed(o, v)` | the object changes and `fset_` is emptied, before it or, in `Increment::fromFieldSet`, after | the arithmetic, `read`, `zero`, `deserialize`, `accumul`, `Increment::fromFieldSet` |
| `ChangedPast(o, v)` | the object changes and `fset_` stays | a write through the reference of `increment()` or `state()`, `State::fromFieldSet`, `toFieldSetAD`, a model that throws in one of the two `fromFieldSet` or in `toFieldSetAD` |
| `FieldSet`, `FillThrows`, `FieldWrite`, `ModelAccess`, `SynchronizeState`, `SynchronizeAD` | those that fill `fset_`, edit it, empty it or copy it back | `base/Increment.h:209-256`, `base/State.h:160-199` |

`fromFieldSet` and `toFieldSetAD` are public and take any field set, and so do
`FromFieldSetIncrement`, `FromFieldSetState` and `ToFieldSetAD`; `synchronizeFields`
and `synchronizeFieldsAD` call them with the wrapper's own. `FieldSetRef` and
`ModelAccess` hand out references, through which clients write at any later time
(`FieldWrite`, `ModelWrite`).

`Throws` says whether the model's methods may throw. Where the wrapper empties
`fset_` first (`ModelThrows`) that leaves any value in the object and no cache.
`Increment::fromFieldSet` is the exception: it calls the model at
`interface/Increment.h:488` and clears at `489`, so that a throw leaves the cache of
before (`FieldsThrow`). A `toFieldSet` that throws leaves a field set that is filled
in part, which the next call returns as it is (`FillThrows`).

`pending`, `behind` and `got` record what happened, for the properties: what a client
wrote and has not synchronized, how far the cache is known to be the object's fields,
and what `fieldSet()` returned. `behind[o]` is `"current"`; `"interior"`, of a state
whose interior was copied back from it; or `"stale"`.

`CacheIsCurrent` and `PendingIsKept` are the two halves of a write-back cache: never
stale but in the known ways, and never dropping what was written into it by
returning it. The wrappers do not hide their cache. It becomes stale

- when a client writes to the object through a reference that it kept,
- in `toFieldSetAD`, of the wrapper's own field set or another
  (`interface/Increment.h:475-480`),
- in `State::fromFieldSet` of another field set (`interface/State.h:351-356`), and of
  the wrapper's own in its halo points,
- when the model throws in `fromFieldSet`, `toFieldSetAD` or `toFieldSet`,

and in no other way: that is the property. Each of these is in the list of hazards.

`FieldView` is what a client can rely on then, without a cache: a value, a view of it
as fields, and `trust`, which says what the view is known to be. A method of the
object renews the view at once, taking it is no change of it, and only the named steps
(`Overtake`, `FillFails`, `CopyBack`, `WriteFields`) make it anything else.
`ImplementsView` says that every wrapper implements it, where the view is the cached
field set if there is one and what `toFieldSet` would return if not: filling the
cache is a stutter. It is the refinement for all objects at once, with the quantifier
inside the box so that TLC can check it.

### EnsembleMembers, EnsemblePerturbations, IncrementEnsemble

`EnsembleMembers` has one action per turn of the loops of `getIncrementParameters`
(`139-149`): `Skip` an excluded index, `Pass` a member before the wanted one,
`Found`. The reading constructor asks for member after member (`NextListed`,
`NextFromTemplate`). `FirstOffered` compares with the reference definition: member
k is the index that has k offered ones before it.

`EnsemblePerturbations` has the constructors that make increments out of states
(`233-283` and `311-340`), one action per turn of a loop. Since the mean has the
weights 1/nens the departures are in units of that, and all numbers are integers.
The real code adds rounding; the properties are those of exact arithmetic.

`IncrementEnsemble` composes the two through the disk: it extends the first and
takes the second as the instance `Perts`, whose `pc` and `jj` are `maker` and
`made`. One job makes an ensemble and writes it (`Make`, `Write`: `344-352`), and
may abort in either; a second job deserializes any configuration and reads
(`Search`, `ReadListed`, `ReadFound`), and fails at a file that is not there
(`ReadFails`). `WrittenIsReread` is about both: a reader that sets neither `start`
nor `except`, or lists the files, gets the values that were made, in their order,
and misses a file only when it asks for more than were written, though the writer
numbers from `ii+1` (`349`) and the reader from a default of its own (`51`).
`AllRead` is the liveness of the two jobs.

### LibOOPS

`pc[r]` is the life of rank r's `Run`: `initialise`; then perhaps
`testReferenceInitialise`; then `finalise`, in the parts between which something can
happen: the collective summary of GPTL, the comparison of the test reference, which
may throw, and the reset of the channels. Each process reads an environment of its
own (`Configure`), so that the ranks need not agree on what is traced or timed.
`Logged(r, c)` is what an accessor returns, `channel[r][c]` what it has made.

The accessors have no guard: the object is static (`LibOOPS.cc:57`), and `GetChannel`
is possible before `initialise`, when `rank_` is 0 on every rank, and after
`finalise`. A statistics or test channel that was made too early speaks on every rank
from then on. `early[r]` records those, and `OnlyRank0Speaks` says that they and a
trace that the process's own `OOPSJEDI_TRACE` asks of every rank are all there is.

`SummaryIsShared` is about the one place where ranks meet: no rank waits in the
summary for one that takes timings too and has gone past it. If the environments
differ in `OOPSJEDI_PROFILE`, ranks do wait for ever for those that take no timings;
the model has those ends (`Abandoned`), and `EveryRankEnds` is that there are no others.

`teeOutput` is not modelled: it appends the rank to a file name and hands it to
eckit's log. Before `initialise` it takes every rank for rank 0, which is listed as a
hazard that no property covers.

### EcmwfUpdate

One run of the script per `Fetch`. A file's content is its upstream version and
how often the renaming has gone over it, so that a file renamed twice shows. The
loops visit their files in any order. The network may fail in `Fetch`;
`Interrupt` stops the script between two commands, and `CutCopyToSrc` and
`CutCopyModified` in the middle of a copy. `Publish` lets the upstream branch move
between runs, and `Develop` puts a file into `extension/` or takes it out, which may
leave a link in `src` that leads nowhere. `MCEcmwfUpdate` gives the constants
values.

### Distribution and StateOutput

`Distribution` has the pointers: `geometry[g]` is what a `Geometry` compares in
`operator==` (`base/Geometry.h:181-188`: the model's geometry, by pointer, and the
two communicators), and `obj[o]` the geometry and time communicator that an
increment or a state carries. The constructors of `Geometry` are `BuildFrom...`;
those of increments and states are `Construct`, `ChangeResolution...` and `Copy...`,
one per class where the classes differ: an interpolated increment keeps the time
communicator of the one it comes from (`base/Increment.h:111`), a state takes that
of the geometry (`base/State.h:133`). `Assign` has the two assertions of
`operator=`. `grid` and `spread` are not the program's: they say which geometry the
data are on and over which communicator the sub-windows are spread, so that
properties can relate the pointers to the data.

`DataOnGeometry` and `ReducedWhereSpread` say that what an object points to is
right for its data, through any sequence of constructions and assignments;
`StatesOfOneGeometryAgree` that the second assertion of a state's assignment never
fails when the first holds. The same of increments, `IncrementsOfOneGeometryAgree`,
does not hold, and a run shows it. One rank's pointers stand for all, since all run
one program.

`StateOutput` extends it with the valid time of each state on each rank and with
`State::write`. A file name is the record of what the prefix is put together from
(`Prefix`), or the configuration as it is. `file` is the file written last, since a
name does not depend on the writes before. `FileTellsState`: no file of an analysis,
a forecast or an ensemble is written over by a state of another time or member, be
it of another rank, sub-window or object. Increments have no such method; their
steps are those of `Distribution`.

## Runs

| run | instance | distinct states | result |
|---|---|---|---|
| `time_shift` | 3 ranks, 3 calls, every script | 57,342 | all properties hold |
| `time_shift_values` | 2 ranks, 1 call | small | `ReceivesValues` fails: a shift does not move values |
| `field_cache` | 2 increments, 1 state, two objects at a time, 3 values, a model that may throw | 108,691 | all hold, the refinement of `FieldView` included |
| `field_cache_rank` | 1 increment, 1 state | small | `OnlyRank2IsReturned` fails at the second call |
| `field_cache_halo` | 1 increment, 1 state | small | `StateHaloIsCurrent` fails after `synchronizeFields` |
| `increment_ensemble` | up to 3 states with values 0 and 1, up to 3 members, indices up to 4 | 2,699,503 | all hold |
| `lib_oops` | 2 ranks, every two environments; trace, statistics and test channels | 676,184 | all hold |
| `lib_oops_silent` | 2 ranks, every channel | small | the comment of line 164 does not hold |
| `ecmwf_update` | 3 files, 3 runs | 63,306 | all hold |
| `ecmwf_update_tree` | 3 files, 2 runs | small | the comment of line 40 does not hold |
| `state_output` | 2 geometries, a shared one, 2 communicators of each kind, 2 increments, 2 states, 2 ranks, times 0..2 | 374,641 | all hold |
| `distribution_assign` | as before, without states | small | the assertion of line 134 fails after that of line 133 held |

The runs that fail state what a comment or an assertion of the repository says;
`PROJECT.json` quotes it under `findings`.

Bounds and why they suffice:

- `TimeShift`: three ranks are the least with a rank that both sends and
  receives. Three calls let a rank be a full shift ahead of its receiver with a
  call on another communicator or in the other direction in between. `MaxCalls`
  bounds the program, not the interleaving; the proofs have no bound.
- `FieldCache`: with one state, no method works on more than two objects, so that
  the run has any two of two increments and a state exist at a time
  (`AtMostMaxLive`, a constraint); this covers the arguments that a method can
  have, itself included (`Diff` of two different states excepted, which the proof
  covers). Three values tell a sum from a difference. `MCFieldCache` declares the
  permutations of the increments a symmetry: no definition tells one from the other.
  The models of this run return fields of rank 2, those of `field_cache_rank` also
  of rank 3, and the proofs hold for any. The model may throw (`Throws`) in the run of
  the properties that hold; the two that fail do so without.
- `IncrementEnsemble`: exclusions before, between and after three members; two
  values tell the departures apart, and three members a mean taken too early. Reader
  and writer have sizes of their own, so that a reader asks for more or fewer files
  than there are.
- `LibOOPS`: rank 0 and another one. A third rank would only repeat the second. `Used`
  has the channels that are asked for. `info` and `debug` are left out of the run that
  takes all environments: `info` makes nothing on rank 0 and an empty channel
  elsewhere, `debug` writes to a prefix and never to eckit's channel, so that neither can
  break the properties. The proofs are for every `Used`.
- `EcmwfUpdate`: an extension file, a file that changes and one whose directory
  appears later; three runs let a bad first run, one that repairs it and a last one
  follow each other. Between any two of them upstream and the extension may change.
- `StateOutput`: two geometries may be equal (one shared pointer) or differ in the
  model's geometry or in either communicator; two objects of a kind are what an
  assignment needs. Two ranks give two sub-windows; times up to 2 let two states
  meet in time or not. The configurations cover every type with and without what it
  needs. Permutations of geometries, increments and states are symmetries. No
  property compares more than two objects, and the proofs have no bound.

Fairness. `TimeShift`: weak fairness of each rank's steps, `SendBuffered`
excepted: ranks are processes that run on, and a send for which a receive waits
completes; nothing promises that MPI buffers, so the liveness property does not
rely on it. `IncrementEnsemble`: weak fairness of the two sequential jobs, of which
one step or another is always possible until they end.
`LibOOPS`: each rank runs to the end of its `Run`, and the summary completes once
all ranks are in it; nothing brings to it a rank that takes no timings, and no fairness
is asked of the use of channels. The other modules state safety only.
`CHECK_DEADLOCK FALSE` is in the configurations of `EcmwfUpdate`, where nothing
happens after the last run; elsewhere the end is an explicit `Terminating` step
and TLC looks for deadlocks.

Each module also has fault operators, named in its comments as faults: the code
with a guard dropped, an off-by-one, a missing reset. They are in no
specification. `PROJECT.json` pairs each property with one that breaks it.

## Proofs

Eight modules hold theorems. They assume only that constants have their types
(`Size` and `Modulus` positive integers, bounds natural numbers, increments
distinct from states, the extension's files among the files, the sub-windows'
first dates within the bound on times, the channels asked for among the five).

**FiniteInduction.** Induction with a set in place of a predicate, from the
well-foundedness of the strict subsets of a finite set: a set of subsets has a
minimal one (`MinimalSubset`), a set of numbers a least and, if bounded, a greatest
one; what passes from a number to the next one holds up to any bound
(`IntervalInduction`), and what passes from the smaller subsets to a set holds of
all of it (`SubsetInduction`). The proofs about recursive functions and sums use it.

**TimeShiftProofs.** The invariant the runs check is not inductive: that a message
with the awaited tag is of the awaited call follows from how the tag counts.
`IInv` adds: each counter is its first value plus the number of calls of its method
that have returned (`TagInv`, with `Count` of a set of calls up to a call); every
message has the tag, source and destination of the call it was sent in and was sent
by a rank that has reached it (`NetInv`), one per sender and call (`OnePerCall`); a
rank that returned from a shift with a source was fed by it (`FedInv`); what was
sent to a rank that has not returned from the call is in the network (`NoneLost`);
and all ranks have returned from the same number of reductions (`ReduceInv`), which
puts ranks that meet in a reduction into the same call. `CountDistinguishes` then
turns equal tags into equal calls. Theorems: `TypeCorrect`, `TagsIdentifyCalls`,
`NoMessageLeftBehind`, and `ImplementsOrder`, the refinement of `TimeOrder`: steps
inside a call are `Give` or stutter, returns are `Return`.

`NoDeadlockWithoutBuffers`: take the ranks that are furthest behind, which are all
in one call, and suppose they all wait. None waits in a reduction, where one of them
would still have to arrive. None waits to receive: its source would be one of them
and would not have sent (`SentMatches`, by `NoneLost`), and such a rank does not wait.
So each waits for its message to be received, and by another of them
(`SendWaitsForDest`); but the last one in the direction of the shift has no such
receiver. `ExecutionsAreFinite` is the other half of `EveryCallReturns`: each step
takes a rank further, none takes one back, and a call takes three steps at most.

`InterleavingDoesNotShow`: the values of `LockStep` are defined by recursion on the
calls, so its defining equation is first shown to have a solution (`SolutionsExist`,
by `IntervalInduction`), and then `LockStepAfter` unfolds one call. A rank's value is
that of `LockStep` after the calls it has returned from; ranks that meet in a
reduction are in one call, so its terms are those of `LockStep` there, and no other
reduction through time lies between (`LastSumIsNew`, `LastSumStays`).

**FieldCacheProofs.** `CacheIsCurrent` and `PendingIsKept` with `TypeOK` and the
facts on references are inductive; the proof goes through the methods by the
effect they share: `Changed` (`ChangesAreAlike`), `Created` (`CreationsAreAlike`), and
of the methods that take fields `Changed`, `ChangedPast` or a synchronization
(`FieldsAreAlike`).

`CacheImplementsView` is the refinement of `FieldView`: with the invariant, every step
leaves an object as clients see it or is a step of its view (`StepIsView`).

**EnsembleMembersProofs.** `SearchInv`: in a search, `jj` is the number of offered
indices before `count` (by `OfferedBeforeNext`, one more or one excluded) and a
member is missing. With it `FirstOffered` is inductive. `SearchesEnd` gives the turns
a search has left: the members to pass and the excluded indices still ahead, one
less with each turn.

**IncrementEnsembleProofs.** `ReaderIsEnsembleMembers`: the reader of the composition
is a behaviour of `EnsembleMembers`, so its theorems carry over
(`ReadMembersAreFirstOffered`). `SpreadInv` follows the increments through the loops
of the maker: read up to `made`, less the mean up to `made`; it gives
`DeparturesKeepSpread`. `DeparturesCancel` needs their sum, which the community
modules define by recursion on subsets, with CHOOSE: `AdditionExists` and `SumAdds`
show that there is such a function and that `Sum` is its value, `SumOfChanged` that
changing one entry by d changes the sum by d. `SumInv` then follows the sum through
the two loops: nens times the mean while states are read (those not yet read into
are zero), less one mean with each increment that it is taken off, zero at the end.
`ReadersEndAsTheyShould` is that the reader ends only in the ways `AllRead` names.
For `WrittenEnsembleIsReread`, the disk is the prefix of the
ensemble that was written, each member read is the file of its index, and without
exclusions member k is index k.

**LibOOPSProofs.** Before `initialise` a rank has nothing switched on, so that only its
statistics and test channels can reach eckit's; afterwards its settings are those of
its own rank and environment (`SettingsInv`, with `Configured`). So a channel that
reaches eckit's is one that may (`MaySpeak`): of rank 0, of a trace that the process
asks of every rank, or made too early (`ChannelInv`); and `finalise` leaves none.
Ranks that take timings wait in the summary before they are past it, and its end
takes all past it together (`SummaryInv`); a rank that takes none never comes to it.
The safety properties follow, for ranks that agree on their environments or not.

**StateOutputProofs.** `Sound` is what any object may hold: data on the grid of its
geometry, an increment reduced where it is spread, a state with the communicator
of its geometry. Everything that puts something sound into an object keeps it
(`PutIsSound`), so that the steps of `Distribution` need one argument each. With
`TypeOK` for what `file` may hold, `NamesTellStates` follows from the fields of a
name: the date and the step make the time.

**EcmwfUpdateProofs.** The invariant follows the loops: `Processed` says how far the
renaming has come over each file of `src_tmp` (`PassesOver`, from `pc` and `todo`),
`Copied` which files of the clone are in `src` after their turn, `Linked` the same
for the links over them. A file of the clone that is in `src` as it should be is
never mistaken for an extension file seen through a link, because the content of
those is none of the script's (`SeenIsCopied`); hence the need for
`ExtensionIsKept` in the induction. `RunsMakeTheOverlay` is `Linked` at the end of
the last loop.

Model-checked only: liveness (`EveryCallReturns`, `AllRead`, `EveryRankEnds`), which
needs fairness and ENABLED. Of each, what a state or a step can say is proved: that
the ranks never all wait and each step is one of finitely many
(`NoDeadlockWithoutBuffers`, `ExecutionsAreFinite`), that searches end and readers
end only as they should (`SearchesEnd`, `ReadersEndAsTheyShould`), that no rank waits
in the summary for one that took part in it and has left (`NoneIsLeftInSummary`). The properties that do
not hold are shown by their runs and have no theorem.

## Not modelled

- Dates of increments (`updateTime`, `zero(date)` as to its date): the model's
  increment keeps them, and no code under `src/` reads them but to hand them on.
  `validTime` of states is modelled in `StateOutput`.
- The printing of dates and durations in file names: two formats of one date are
  one date in `Prefix`.
- Lifetimes of geometries: increments and states hold a reference to theirs
  (`base/Increment.h:93`), and clients keep geometries for longer.
- `packEigen` and `setEigen`: they call methods that abort.
- Methods that abort as not implemented, `ModelData`, `LinearVariableChange`.
- `print` of increments and states: collective through time as `norm` is.
- Iterators, coordinates, trees of `Geometry`: delegated to the model.
- Trapping of floating-point exceptions in `initialise`, and `teeOutput`.
- Models whose objects share memory with the ATLAS field set, so that a write to one
  is a write to the other; what is modelled is a field set that is a copy.
- Fields that the model writes to in part before it throws: any value stands for them.
- In `EcmwfUpdate`: the suffix of a file. The first loop of renaming leaves `.f` files
  out and the model does not, and upstream files with other suffixes than those the
  script lists are not in it. Without a clone, `cd oops-jcsda` fails and the `git`
  commands run in the directory of the caller; the model has the failed fetch, and not
  what happens to a repository there.
- In `StateOutput`: a prefix that a configuration gives never equals one that is put
  together from an experiment and a type.
- In `IncrementEnsemble`: the disk is empty at the start, so that files of an earlier,
  larger ensemble of the same name are not there. `WrittenIsReread` leaves out readers
  that set another `start` or `except` than the writer's numbering; they read other
  files, as their configuration says.
- The copies of `cmake/` and `tools/`, `diff.txt` and the two lists of `ecmwf.sh`;
  two configurations at a time.
- Calls that only some ranks make: the ranks of `TimeShift` run one program.

## Plan

Done, in this order: `TimeOrder` and `TimeShift` with their proofs, `FieldCache`
with its proofs, `EnsembleMembers` with its proofs, `EnsemblePerturbations`,
`LibOOPS`, `EcmwfUpdate`; then `Distribution` and `StateOutput` with their proofs,
`FieldView` and the proof that `FieldCache` implements it, `IncrementEnsemble` with
its proofs, and the proofs of `LibOOPS` and `EcmwfUpdate`; then `FiniteInduction`
and with it the absence of deadlock, the lock-step values and the sum of departures.

What could follow: `TimeShift` over the communicators of `Distribution`, with
increments that ranks hold on different geometries; and the dates of increments
under `axpy`, whose `check` compares them in the model.
