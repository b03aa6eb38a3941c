# TLA+ models of the SDV-IVN platform

The SDV-IVN platform turns what applications ask of an in-vehicle network (a QoS
class, a payload, a period) into DDS policies and IEEE 802.1 TSN configuration, refuses
what the network cannot carry, and keeps the registry of what it has admitted.
This directory holds TLA+ models of that program, the TLC runs that check them and the
proofs TLAPS checks. Paths are relative to `src/`.

## 1. The system

| Component | Source | State | Operations | Interacts with |
|---|---|---|---|---|
| QoS registry and mapper | `middleware/qos/mapper.py`, `schemas/yaml/qos-classes.yaml` | class table, fixed after the PCP policy is applied | load, `_validate`, `resolve`, `dds_qos`, `cbs_parameters`, `frer_config` | called by the service and the profile builder |
| Link admission | `mapper.py`, `admit` | none | judge a set of streams on one link | called by `register` under the lock |
| Gate schedule | `mapper.py` `build_gate_control_list`, `network/tsn/emit_yang.py` | none | windows of one port, tables of one port | called by the gate's plan |
| Stream registry | `api/network/service.py` | dict of streams, one lock | `register`, `unregister`, `get_stream`, `list_streams`, `topology`, `admission` | HTTP handler threads call it concurrently |
| Capability gate | `middleware/core/deploy.py`, `devices/device-classes.yaml` | the site; the mutable streams it is handed | `load_site`, `check`, `plan` | mapper, emitters, waivers given by the caller |
| 802.1CB emitter | `network/frer/emit_frer.py` | none | five nodes per redundant stream | merged into one document by `plan` |
| VLAN and tc emitter | `network/vlan/emit_vlan.py` | none | egress map, qdisc commands | a second realisation of the same stream |
| DDS emitters | `dds/fastdds`, `dds/cyclonedds` | none | text of vendor profiles | read a resolved stream |
| Stream monitor | `dds/monitor/stats.py` | counters and histories of one stream | `on_sample`, verdicts, reports | called per received sample |
| YANG validator | `schemas/yang/model.py` | schema tree | load, augment, validate paths | used by tests on emitted documents |
| Autoware profile | `profiles/autoware` | none | resolve a catalogue | drives the mapper |

What is hard, and the properties that make each component right:

- **Stream registry.** Threads interleave. Registration is check-then-act over a name and
  over a whole link's budget, so it is right only under the lock; the refusals raised
  inside the `with` block must give the lock back; listing and topology walk the live dict
  without the lock. Correct: no oversubscription under any interleaving, every call
  linearizable, no lost waiter, scans that are snapshots or failures.
- **Mapper.** Boundaries: fragment edges, zero periods, links without a feature, a PCP policy
  that moves two classes at once. Correct: a stream never asks its link for what the link
  lacks and gives up nothing the link has; a healthy talker meets the contract it is given.
- **Gate schedule.** Different periods in one cycle, windows rounded one by one, several
  classes. Correct: one window per protected class, windows that fill the cycle, and no stream whose window
  is too short for its frames.
- **Capability gate.** A call mutates the streams it is given, may fail afterwards, and the
  same objects are planned again for another device; many emitters write into one document
  keyed by path. Correct: nothing is deployed that the device cannot do, nothing is lost that
  nobody waived, a refusal changes nothing, no entry overwrites another.
- **FRER recovery windows.** Two paths that differ in delay and lose different frames, one history and
  one timer derived from the period; a talker that restarts its sequence numbers. Correct: each frame is passed on
  once, none is lost that one path delivered, a restart heals before the talker is declared dead.
- **Endpoint and DDS emitters.** The same stream is configured in four places (bridge, VLAN device, qdisc, two DDS
  vendors) by functions that do not know of each other. Correct: they agree on priority, queue,
  slope, window and contract.
- **Stream monitor.** Samples reordered, duplicated, lost and late, clocks that differ, a talker that
  stops. Correct: losses and misses are counted for what happened, and a verdict is about measurements.
- **YANG validator.** Augments of augments, and one pass in file order; a fallback that finds nested nodes. Correct: the
  tree is the one the modules define, no existing path is rejected, and what is accepted exists, which holds of the paths that
  start at the top of a module and not of the others.

## 2. Modules

| Module | Stands for | Extends |
|---|---|---|
| `QosProfile` | the two YAML profiles, as constants' values | |
| `QosMapper` | class table, framing, `resolve`, `dds_qos` | |
| `Admission` | what `_build` derives from a body, `admit` | `QosMapper` |
| `ReservationLedger` | abstract: what the stream API promises | `Admission` |
| `NetworkService` | the registry and its threads | `Admission`; instantiates `ReservationLedger` |
| `GateSchedule` | `build_gate_control_list` and `emit_yang` | `QosMapper` |
| `Deployment` | abstract: what a plan promises its caller | |
| `CapabilityGate` | `load_site` and `plan` over mutable streams | `GateSchedule`; instantiates `Deployment` |
| `EndpointShaping` | `emit_vlan`: egress map, queues, qdiscs | `GateSchedule` |
| `DdsProfiles` | what Fast DDS and Cyclone DDS are told | `QosMapper` |
| `FrerRecovery` | `frer_config` at work in a recovery function, two paths and a talker | `QosMapper` |
| `StreamMonitor` | `dds/monitor/stats.py`, a talker and a network | `QosMapper` |
| `YangTree` | `schemas/yang/model.py` | |
| `Configuration` | the composition of the pure modules, and their properties | `EndpointShaping`, `DdsProfiles` |
| `MCNetworkService`, `MCCapabilityGate`, `MCStreamMonitor`, `MCFrerRecovery`, `MCConfiguration` | instances for TLC | the module checked and `QosProfile` |
| `MCYangTree` | five YANG modules, and the fixpoint their tree is compared with | `YangTree` |
| `NetworkServiceProofs` | theorems: the registry, the ledger; scans and topology | `NetworkService`, `DataTheorems` |
| `CapabilityGateProofs` | theorems: plans, waivers, the deployment | `CapabilityGate`, TLAPS |
| `ConfigurationProofs`, `ScheduleProofs` | theorems: mapper, endpoint, DDS profiles; gate lists | `Configuration`, `DataTheorems` |
| `FrerRecoveryProofs`, `StreamMonitorProofs`, `YangTreeProofs` | theorems about recovery, monitor and tree | the module, `DataTheorems` |
| `DataTheorems` | lemmas on numbers, folds and sums | TLAPS and its libraries |

`Configuration` gives the pure modules a state so that their inputs can be walked: `r` is the request under
examination (while the port is empty one step changes one field of it), `q` the sequence of streams on a port (a step
adds or removes one), `port` its rate. Mapper, gate schedule, endpoint and DDS profiles are looked at in the same
states because what can go wrong is that they disagree. All instances resolve their streams with the modelled
mapper, so none contains a stream the code cannot build.

### NetworkService

`streams` is the dict as a set of its values (names are unique in it, which the proof of
`JudgementHolds` carries). `entries` is the same dict as its iterators see it: the
entry table of CPython, in which a deleted key leaves a hole and an insertion into a full
table first rebuilds it (`Packed`: the entries in their order, without the holes). `lock`, `pc`, `call`, `built`, `reply` are the lock and each handler
thread's position and locals. Each Python statement between which the interpreter may
switch threads, and whose order matters, is an action: `Build` (before the lock), `Acquire`,
`Lookup`, `Judge`, `Insert`, `Pop`, `Release`, `Get`, and for a scan `BeginScan`, one `Yield`
per element, `Exhaust` or `Abort`. `stable` and `rebuilt` are history, read by properties only.

### CapabilityGate

`object` holds the resolved streams between calls; `plan` and `job` are the plan under
construction and the arguments of the call. `Keep`, `Refuse`, `Waive` and `Unknown` are the
ways through one round of the loop over streams; `Checked`, `Schedule`, `Emit`, `Replicate`
and `Complete` are the rest of `plan`. `ResolveAgain` is a caller that resolves its request
once more, as `NetworkService.plan` does for every stream of every call. The configuration document is a
function from a path to what was written there, so that `dict.update` overwriting an entry is
visible. `waivers` is history: what was waived for each object since it was resolved.

`Deployment` is what a caller may rely on, without order, stages or documents: a call decides for each stream whether it is carried
as it is, carried without what was waived, or refused; it fails before its first decision or after its last; and what it
delivers is configured for exactly what the carried streams still demand (and the port's preemption), within what the device is known to do. The
mapping is at the end of `CapabilityGate`.

### FrerRecovery

`request`, `skew` and `restart` are chosen at the start and stay. `next` is the position of each path in the
sequence of frames: a path keeps its order and each frame on it arrives (`Deliver`) or does not (`Lose`), at a time that
follows from the period, the path's delay and the fragment count (`ArrivesAt`). `rec` is the state of the
recovery function: `any` (take the next frame whatever its number), `top` and `seen` (the window), `at` (when its timer was
last armed). `RecoveryWindow` and `Window` are the repository's; the algorithm is 802.1CB's. `passed`, `dropped` and `outage`
are history.

### StreamMonitor

`stats` is a `StreamStats`; `OnSample` is `on_sample`, and `Verdict` is `within_budget` with `"none"` for `None`. The talker
(`Publish`, `Stop`) and the network (`Lose`, `Deliver`, which may leave a copy behind) are the environment, `Pass` is time. With it
runs the DDS middleware's own deadline `timer`, against which the monitor's count is compared: a sample arms it, and when it runs
out (`Expire`) the listener is called (`reported`), the arrival is noted (`expired`), and the timer starts again, so that a silence
of several deadlines is reported several times, and one that lasts is reported at once. `clock` is the
relation between the hosts' clocks, of which the monitor is told `sync` and not `offset`. An observation may begin with a stream
the monitor does not know (`Unprofiled`).

### YangTree

The tree is the sequence of its nodes in the order `_expand` makes them, which is the order that decides what
`_by_module_name` is left with. The recursion of `_expand` is the agenda `todo`: what a call still has to do comes
before what its caller has to do after it. `Agenda` is `_build`'s two loops laid out; `ExpandModule`, `ListAugments` and
`Augment` are a round of them, `Use`, `Refine`, `Descend` and `Enter` the cases of `_expand`'s loop, `Make` the end of
the last one, when a node's children are in the tree and it joins them. `Statements` is what the files contain, at any depth. `Resolve` is
`resolve` without its texts; a path is a sequence of `[module, name, preds]`. The reference that
`MCYangTree` compares the tree with shares neither the agenda nor an order: a recursion over sets that applies each augment where it can,
until none is left to apply.

### Abstractions

- Rates, periods, windows and tolerances are exact rationals scaled to integers
  (microseconds, kb/s, `Grain` ticks per nanosecond), where the code uses floats.
  Rounding to nanoseconds is half-even on the exact value.
- Bandwidth is counted in units of `RateUnit`; `UnitsAssumption` states, and TLC checks on each
  instance, that every reservation is a whole number of units, so nothing is truncated.
- `redundancy` is `none` or `frer_dual`, the only values a class or a caller of the repository
  uses. Periods are not negative. `cycle_ms` is left at its default, as in every call of `src/` outside the tests.
- An idle slope is the set of streams it sums, a cbs qdisc the stream whose slopes it has; the values of an 802.1CB entry are the stream it is for.
- A plan is for one port, as `plan`'s signature has it.
- The dict's table grows to `TableSize` entries and is then rebuilt. CPython's own sizes
  (5, 10, 21, ...) matter only by when a rebuild happens, and the runs place it within reach.

## 3. Runs

| Run | Question | Answer |
|---|---|---|
| `registrations` | do interleaved calls keep the ceiling, answer as an atomic ledger would, and give the lock back? | yes |
| `scans` | when is an unlocked scan as good as a locked one, and does it end? | when the table was not rebuilt under it; yes |
| `configuration` | do mapper, gate schedule, endpoint and DDS profiles do right by a request, and agree? | yes, as far as the properties say |
| `plans` | do plans over the same streams keep what `Deployment` promises, whatever came before? | yes |
| `monitor` | are losses, misses and verdicts about what happened? | yes, within what each property grants |
| `recovery` | is each frame passed on once, and is a restart survived? | yes; loss only where the history is too short for fragments |
| `yang` | is one pass over the augments enough, and is what starts at the top accepted if and only if it exists? | if each comes after what it builds on; yes |
| `listing_fails` | does a listing always succeed? | no |
| `gate_window` | does every gated stream get a window a sample passes? | no, when slower than the cycle |
| `endpoint_gates` | does the endpoint open the queue of a protected class in its window? | no: the masks are the bridge's |
| `split_per_port` | is every redundant stream of a port split? | no: one entry per port |
| `yang_paths` | does every accepted path exist? | no: it may start at a nested node |

The runs answered "no" check one sentence of the documentation, a comment or a test each;
the sentence is quoted above the property. `PROJECT.json` lists them as findings.

### Bounds, and why they are enough

- `registrations`: two threads, eight requests. Two threads are enough for every race of
  check-then-act under one lock; the requests contain a set that fills the gigabit ceiling exactly, one
  that exceeds it by one unit, a second request of the same name, the same name on
  another link, a replicated stream, and the three ways a body fails. The proofs lift the
  bound for safety. For the lock's liveness, one thread that waits and one that keeps coming back are what it takes.
- `scans`, `listing_fails`: one writer, one reader, three names: enough for a
  removal and an insertion under one scan that leave the size of the dict as it was. `TableSize` is
  3 where rebuilds must be in reach, 5 (the table of a new dict) elsewhere.
- `configuration`: payloads on both sides of one and two fragments, at ten, and beyond twenty; a 250 us
  and a 100 ms period; every class, link and override, unknown names included; beside the
  profile's links, which have all features or none, one that lacks each of them alone. All sequences of up to three of nine
  streams of every class, on 10 and 1000 Mb/s, so that there are schedules that fit, that fill the cycle and that do not
  fit, two streams of one class, and classes with gaps between them. `gate_window` and
  `endpoint_gates` look at 1000 Mb/s only.
- `plans`: four streams that together need every capability, four lists of streams, four sets of waivers,
  all shipped device classes and two site devices. Calls follow each other without bound.

- `monitor`: four samples sent and four arrivals, delays up to one and a half periods: enough for a
  sample to be overtaken by two, for a hole and its late filling, for a silence before, between and after the others. The three
  streams are one whose deadline one lost sample breaks, one whose it does not, and one without a deadline. Delays are
  multiples of half a period; the offsets of synchronised clocks are smaller than that.
- `recovery`: eleven frames on two paths. The history is 4 frames, or 8 for the 500 us stream, so a path can fall out of
  the window on either side; 2 ms of skew put as many frames on the way as the window of a 500 us stream is made for;
  the 30 ms stream has a reset timeout of four periods, the others the floor of 10 ms, which eleven frames of the
  1 ms stream outlast. The restart, if any, is after five frames.
- `yang`, `yang_paths`: five modules in all 120 orders; dependencies two deep, an augment with a prefix of its own module
  left out, a name used at the top of a module and inside it. The paths tried are the nodes' own, and those with one name
  replaced, a beginning cut off, another module's label or another list's keys.

The configuration, the observation and the agenda have no notion of the system stopping: every state has a successor (`Over`, `Quiet`
and a built tree stutter). No run disables the deadlock check.

### Fairness

`registrations` and `scans` use `FairSpec`; no other run has a liveness property. A thread inside a handler keeps running
(`WF` on `Serve(t) \/ Acquire(t)` and on `Walk(t)`): the operating system schedules runnable threads and the interpreter
hands over the GIL. For a thread that waits, this says that a lock which stays free is taken, as `threading.Lock` does.
It is not strong fairness: Python's lock has no queue, so a thread may lose the race for ever, and `NoLostWaiter` says
exactly that this is the only way to wait for ever.
Nobody is obliged to make another call: `Invoke` and `BeginScan` have no fairness.

## 4. What is proved

Every theorem holds for any values of its module's constants that satisfy the assumptions named here. TLC evaluates the
assumptions on every run that extends the module, and checks on small instances nearly everything the theorems state;
`PROJECT.json` says which run goes with which theorem.

### The registry: `NetworkServiceProofs`

| Theorem | States |
|---|---|
| `RegistryCorrect` | `Spec => []RegistryInvariant` |
| `NeverOversubscribed` | `Spec => []NoOversubscription` |
| `TypeCorrect` | `Spec => []TypeOK` |
| `RemovedOnlyByName` | `Spec => LeavesOnlyByName` |
| `PromiseKept` | `Spec => []AdmissionIsAPromise` |
| `ImplementsLedger` | `Spec => LedgerSpec` |

Assumptions: `UnitsAssumption` (requests are finite, bandwidth is in whole units, no reservation is cut by `MaxUnits`),
`ThreadsAssumption` and `ScansAssumption` (writers and readers differ, placeholders differ from what they stand in for).

*The inductive invariant.* `NoOversubscription` alone is not inductive: `Insert` does not look at the link.
`RegistryInvariant` adds what the code carries from the judgement to the insertion:

- `LocalsOK`: whoever is between `Lookup` and `Release` holds the lock (so there is at most one such thread), and
  `built` is what the thread's request resolves to;
- `JudgementHolds`: a thread about to insert has a free name and a stream that fits, *now*. It survives the steps of
  other threads because only the lock's holder changes `streams` (`RegistryChanges`), and this is where the lock is
  needed.

`Insert` then makes `streams` the very set that was judged. A removal keeps the ceiling because the load of a subset is
no greater: `LoadMonotone` (the cardinality of a subset), hence `AdmitMonotone`. The empty registry is admitted by
`AdmitNothing`.

*The promise.* `AdmissionIsAPromise` follows from `RefusalHolds`: a thread that is about to give the lock back with a
refusal for the ceiling still has a stream that does not fit, because nobody has changed the link since it judged. If
the link held nothing but streams of a set that `admission` answered favourably, `AdmitMonotone` would make the stream
fit (`PromisedFits`).

*The refinement.* `reserved` is `streams`, `request` is `call`, `answer` is `reply`. `Build` that fails, `Lookup` that
finds the name, `Judge` that refuses, `Insert`, `Pop` and `Get` are the instants at which a call takes effect
(`WriterImplements`); all other steps are stutters. An insertion is a legal `Reserve` because the judgement still holds
when it happens.

### Scans without the lock: `NetworkServiceProofs`

| Theorem | States |
|---|---|
| `ScansCorrect` | `Spec => []ScanInvariant` |
| `ScansAreSnapshots` | `Spec => SnapshotUnlessRebuilt` |
| `RebuildsListOnce` | `Spec => []KeptStreamsListedOnce` |
| `TopologyAgreesWithAdmission` | `Spec => []TopologyBracketsAdmission` |

`ScanInvariant` relates the walked table to the registry and a scan to the table:

- `TableListsRegistry`: the entry table lists the registry, each stream once, and holes. It survives a rebuild because
  packing keeps the order and the elements (`PackedKeeps`, by induction over the table's length);
- `Consistent`: what a scan has seen *and* has been registered ever since lies behind the scan's position, hence is seen
  once; and as long as the table was not rebuilt, nothing behind the position is unseen. The first half holds even when
  a rebuild moves entries under the scan, because packing moves them towards the front; the second does not, which is
  why the property excepts rebuilds. `KeptStreamsListedOnce` is the half that remains: a rebuild may make a list miss a
  stream that was registered all along, and never makes it list one twice.

When a scan of a table that was not rebuilt ends, everything behind its position is seen and nothing is beyond it;
`SizeChanged` being false then leaves no room for an element that is not registered any more (`SeenExactly`, by
cardinality). The topology's figures: the second copies that only admission counts inject into the first ones
(`LoadBrackets`).

### Plans: `CapabilityGateProofs`

| Theorem | States |
|---|---|
| `GateCorrect`, `GateTypeCorrect` | `Spec => []GateInvariant`, `Spec => []TypeOK` |
| `WaiversAccountForLosses` | `Spec => []LossesAreWaived` |
| `RefusalsDoNotMutate` | `Spec => RefusalTouchesNothing` |
| `PlanCorrect` | `Spec => []PlanInvariant` |
| `DeploymentsAble`, `ConfigurationsAble` | `Spec => []DeploysWithinAbility`, `Spec => []ConfigWithinAbility` |
| `StreamsAnswered` | `NamesDistinct` gives `Spec => []EveryStreamAnswered` |
| `FrerListsMatch` | `BatchesDistinct` gives `Spec => []FrerListsAgree` |
| `ImplementsDeployment` | `Spec => DeploymentSpec` |

Assumptions: `ObjectsAssumption` (what is planned was resolved), `SiteFilesAssumption`, `NoJobAssumption`, and
`RequirementsAssumption`: the requirement map gives what a resolved stream may require the names `_degrade` knows. A
redundancy the map does not know would break it, and with it the theorems: a waiver for it would be recorded and nothing
taken away. `NamesDistinct` and `BatchesDistinct` are up to the caller, who may list a stream twice; `CallersAssumption`
has TLC check that the instance satisfies them.

*Losses.* `GateInvariant` says that each object is, field by field, `Degrade(Fresh, Lost)`: its request resolved and
then degraded once, by everything the history has waived. It is inductive because degrading twice is degrading by the
union (`DegradeTwice`), and it does not depend on the stage, so a call that raises leaves it true.

*Ability.* `DeployedAble` says that the device can do what each deployed stream still needs. It survives later rounds
because what a degraded stream needs is no more than before (`DegradeRemovesNeeds`). Every table of the configuration is
there because a deployed stream needs it, or because the device has preemption (`ConfigAble`), so what holds of the
streams holds of the document.

*Answers.* `RefusalsHold`: each refusal is for something a stream still lacks and no waiver covers; `Answers`: what has
been examined is deployed or refused. A stream cannot be both, because then the device would both have and lack the same
capability.

*Lists.* `ListsHold` counts the redundant streams that the last stage has been through and gives each its index below
`job.index`; it needs `NoRepeats`, since a stream met twice would be replicated twice.

*The refinement.* `Deployment` has one variable per promise: `taken` is what the objects' records say they lost,
`answer` is read off the plan, the remaining list and the batch, `features` off the finished document. `Keep`, `Waive`
and `Refuse` are the decisions; `Unknown` and a schedule that does not fit are the failures, before the first decision
and after the last (`CallOpens`); the stages are stutters; the end of the call is `Deliver`. Two further invariants are
needed. `LostDemanded`: nothing was taken that was not demanded, so that what a stream still needs is what it demanded
less what it lost (`NeedsRemain`). `ConfigFollows`: after each stage the document holds a feature exactly if a deployed
stream still has the setting for it. The decisions are about the streams as earlier calls
left them, which is why the objects' history is in the mapping.

### The pure functions: `ConfigurationProofs`, `ScheduleProofs`

| Theorem | States |
|---|---|
| `ConfigurationCorrect` | `Spec => []ConfigurationInvariant` |
| `FramesCarryThePayload` | `Spec => []FramingIsExact` |
| `ResolvesHonestly` | `Spec => []ResolutionIsHonest` |
| `HealthyTalkersKeepContracts` | `Spec => []HealthyTalkerKeepsContract` |
| `ContractsAgreeButForBudget` | `Spec => []VendorsMatchButForBudget` |
| `LastStreamShapes` | `Spec => []EndpointShapesLastStream` |
| `PrioritiesReachTheirQueues` | `UrgencyIsOrder` gives `Spec => []PriorityReachesItsQueue` |
| `ParticipantsMarkTheirMostUrgent` | `MarksFollowUrgency` gives `Spec => []ParticipantMarksItsMostUrgent` |
| `PoliciesKeepUrgency` | `FallbackStepsDown` gives `Spec => []PolicyKeepsUrgency` |
| `GatesPartitionTheCycle` | `Spec => []GatesPartitionCycle` |
| `SchedulesFillTheCycle` | `Spec => []ScheduleFillsCycle` |

Assumptions: `RegistryAssumption` (the profile passes `_validate`), `RequestsAssumption` (requests have the fields and
types of a body), `ClassesAssumption` (the types of a class's numbers), `PortAssumption`, `GrainAssumption` (the tick
divides every share of every cycle) and `GuardAssumption` (the guard band is not rounded to nothing, as it would be
beyond a Tb/s). `UrgencyIsOrder`, `MarksFollowUrgency` and `FallbackStepsDown` are not asked by `_validate`; the shipped
profile has all three, which `OrderAssumption` checks. They are hypotheses of the three theorems about orders because a
profile without them passes `_validate` and may break those properties. `FallbackStepsDown` is what
`_apply_pcp_policy` calls moving everything down one: what the fallback map moves goes down one in priority and queue, and
takes along the class it would run into. `_validate` only sees that no two classes share a priority: a map that moves a
class past another, or into another's queue, passes it.

The invariant is no more than that the streams of the port are what the mapper makes of requests: the properties are
about functions. What the functions compute by folding over sets and sequences is characterised once, in `DataTheorems`:
a fold over a finite set exists, is unique and takes one element at a time (`FoldsExist`, `SumStep`), by induction on
the set stated as a first-order fact about the set of good subsets (`SubsetInduction`, `NumberInduction`), since the
library's induction theorems take an operator. Then

- a gate list: the protected classes' ranks are a bijection onto the first numbers, so the windows are one after the
  other and do not meet; the masks of two entries differ, so `Merge` only drops windows of no length (`MergeKeeps`);
  each entry is off by half a nanosecond at most, and the last takes what is left of the cycle;
- a contract: the deadline is the period times a tolerance of at least one, so the period of a healthy talker meets it;
  the lease is a multiple of the deadline; both vendors' texts read back as the same duration (`DurationReadsBack`,
  `BudgetsReadBack`), so writer and reader match in everything but the budget one of them leaves out;
- a qdisc: those of a class are the choice of the greatest index of a stream in it, and the bridge's sum is the set of all
  its indices; the two are equal where the set has one element;
- a queue: with urgency an order, the rank of a class on the port and the priority that leaves the host order the same
  classes the same way (`QueueOrder`).

### Recovery: `FrerRecoveryProofs`

| Theorem | States |
|---|---|
| `RecoveryCorrect` | `Spec => []RecoveryInvariant` |
| `FramesPassOnce` | skews below 10 ms give `Spec => []AtMostOnce` |
| `NoFrameIsWithheld` | `Spec => []RedundancyWorks` |
| `RestartsHeal` | periodic streams, a tolerance of 1.5 and skews below 10 ms give `Spec => []RestartHealsWithinLease` |

Assumptions: `RedundantAssumption` (resolvable streams with two paths), `PathsAssumption`. The hypotheses of the
theorems are the facts the code rests on without checking them: 10 ms is the floor of the reset timeout, and between two
copies further apart than that the recovery function may forget the first. A class of tolerance 1.0 to 1.3, or an
event-driven stream with a period above some 25 ms, has a lease shorter than the reset timeout of four periods.
`HypothesesAssumption` has TLC check that the instance satisfies them.

`RecoveryInvariant` has a part per property. `CopiesOK`: as long as the second copy of a frame that was passed on is
still to come, the window knows the frame or has moved beyond it, and the timer was armed after it was sent; the second
copy is at most the skew later, so it meets a window that refuses it. `WindowOK`: without restarts the top of the window
is the latest frame passed on, and nothing that came through was withheld, because no more than `Overlap` frames lie
between the paths (`OverlapBounds`). `HealingOK`: what is refused after a restart was sent less than a timeout after the
timer was armed, and the timeout is shorter than the lease.

### The monitor: `StreamMonitorProofs`

| Theorem | States |
|---|---|
| `MonitorCorrect`, `MonitorTypeCorrect` | `Spec => []MonitorInvariant`, `Spec => []TypeOK` |
| `LossIsNotUnderstated` | `Spec => []LossCoversHoles` |
| `MissesAreSilences` | `Spec => []MissesAreEndedSilences` |
| `PunctualTalkersAreOnTime` | `Spec => []PunctualTalkerIsOnTime` |
| `VerdictsAreEarned` | `Spec => []VerdictIsEarned` |

Assumptions: `ClocksAssumption` (synchronised clocks differ by `Residual` at most), `MonitoredAssumption` (times are
whole ticks), `BoundsAssumption` (the bounds are numbers: any). `MonitorInvariant` ties the accumulator to the history
it forgets: `StatsOK` (it remembers the last arrival and the latency of each), `SilencesOK` (the middleware's timer has
run out on the last arrival exactly if it is older than the deadline, and on each earlier one exactly if the monitor
counted it), `TimerOK` (the timer is one deadline after the last arrival, or two and more once it has run out on it; the
listener was called once for each arrival in `expired` unless a silence exceeded two deadlines), `LossOK` (the numbers skipped cover the holes; the step needs that a number that is new and not skipped was
counted when it was passed over), `HistoryOK` (arrivals come in the order of their times).

### The YANG tree: `YangTreeProofs`

| Theorem | States |
|---|---|
| `TreeCorrect`, `TreeTypeCorrect` | `Spec => []TreeInvariant`, `Spec => []TypeOK` |
| `EveryAcceptedPath` | any path accepted leads to a node, segment by segment (`LeadsTo`) |
| `EveryRootedPath` | a path that starts at the top of the module it names leads to the node at its place |
| `RootedNearMissesExist` | `Spec => []RootedPathsExist` |
| `EveryNodeIsFound` | `Spec => [](SiblingsDiffer => ExistingPathsAccepted)` |

Assumptions: `ModulesAssumption` (the files have the fields and types of a parsed module, and an order is of all of
them) and `StatementsAssumption` (the same of a statement, and only a list has keys).

`TreeInvariant` is `TypeOK` and `Hanging`: the parent of each node is in the tree, is the root of a module, or is still
to be made; and so is the place that a statement is read for. A node joins the tree after its children, so while
`_expand` is under way there are nodes without a parent, and only the agenda says where they will hang: the types alone
would let a node exist whose path passes nowhere. Each action replaces the first task by tasks that are grounded if it
was (`ThenKeeps`, `ExpansionFollows`), and `Make` turns what was promised into what is there (`HangingMake`).

`Resolve` is a fold over the path; `ResolveStages` says what it is through the sequence of its intermediate results.
*Accepted paths*: `AcceptedPath` goes back along those results, by induction over the segments: each result was found below
one in the result before, so the node found has a node on its way for each segment of the path. `EveryAcceptedPath` is
about paths of any length with any labels. That the node is where the path says needs that the first step did not fall
back: then each result is at the place of the one before and one name more (`RootedStages`), and the last one at the
path's place (`RootedPath`, `EveryRootedPath`). The near misses TLC tries are a few of these paths.
*Existing paths*: along a node's own path the result is the node's ancestor and nothing else. The ancestors are there, by
`Hanging` and because a finished agenda promises nothing; and they are alone at their places if siblings have different names.
`SiblingsDiffer` is what YANG demands of the modules and the validator takes for granted; TLC checks it of the
instance's trees as part of `OnePassIsEnoughInOrder`.

## 5. What is only model-checked

- Liveness (`LockReleased`, `NoLostWaiter`, `ScanEnds`): the prover handles neither fairness nor `ENABLED`.
- `OnePassIsEnoughInOrder`: what it compares the tree with is a fixpoint defined by recursion over statements and
  augments, and what a recursion computes for every input is induction over data, which the prover does not do.
- What the five runs that expect a violation refute.

Stated by a theorem and by no run of its own: `RefusalTouchesNothing`, which says of one step, and with the plan's
lists, what `DeploymentSpec` says of the behaviour; `KeptStreamsListedOnce`, which says of every scan what
`SnapshotUnlessRebuilt` says of the fortunate ones; `EveryAcceptedPath` and `EveryRootedPath`, which are about more paths
than a run can try; and `YangTree`'s `TypeOK`.

## 6. What is not modelled, and why

- Serialisation, reports, OpenAPI rendering, XML and command-line text: formatting.
- `cbs_parameters` (credits) and the monitor's reported figures that no verdict rests on: real-number formulas without state.
- The Autoware profile: a driver without state that resolves a catalogue and prints the answers of calls that are modelled.
- The HTTP server: not in the repository. Its threads are the model's threads.
- Discovery, reconfiguration and device adapters: described in documents, no code.
- Parsing of YANG, YAML and instance paths.
- `NetworkService.classes` and `devices`: constants. `NetworkService.plan` is
  `CapabilityGate`'s `ResolveAgain` and `Call`; the `AdmissionError` of the schedule passes through it
  unhandled (`api/network/service.py:170`).
- The kernel and the bridge: what their configuration means is in the external definitions (`WirePcp`, `OpenQueues`,
  `Accepts`, `Recovered`), as far as the properties need it.
- Stream handles of 802.1CB are a salted hash modulo 65535 in the code and distinct names here.

## 7. Notes on the code

- `policy.admission_ceiling` of the profile is never read; `admit` has 0.75 as its default, and the model takes it from the code.
- A period of zero leaves `_build` as `ZeroDivisionError`, not as `Refused`; the ledger's `raised` verdict is that case.
- Entries of a gate list are rounded one by one. The sum may differ from the cycle by up to half a nanosecond
  per entry; `ScheduleFillsCycle` allows one.

Behaviours met while modelling that no run checks:

- An unlocked scan under which streams are removed and added, so that the dict's table is rebuilt, can
  end without an exception and miss a stream that was registered all along: the case `SnapshotUnlessRebuilt`
  excludes (`api/network/service.py:108`). `RebuildsListOnce` says what such a list is still worth.
- A stream of a gated class whose own shaper is not `tas` (its link has no gates) shares the queue and
  the window but is not counted in it (`middleware/qos/mapper.py:368`).
- `DeploymentPlan.degraded` is about the waivers of one call: a stream that an earlier call degraded
  is deployed by a plan that is `ok` and not `degraded`. The stream keeps its record, as `LossesAreWaived` requires.
- When the gates do not fit, `plan` raises after `_degrade` has rewritten the waived streams.
- A best-effort stream requires nothing and is deployed on a device of class `unverified`, whose
  description says that no class is.
- `max_frame` is the mean over the fragments of a sample, less than its full fragments when the last one is short
  (`middleware/qos/mapper.py:301`), where line 241 uses it as the class's own largest frame.
- `topology` counts a replicated stream once (`api/network/service.py:187`), admission twice; `TopologyBracketsAdmission` says
  that this is the only difference.
- `preemption` reads the class and not the stream (`network/tsn/emit_yang.py:128`): a stream whose preemption was waived for one
  device, planned again for a device that has it, is written down as express although the stream says otherwise.
- `history_length` counts frames, `burst` samples: a fragmented redundant stream whose paths differ by more than a period can
  have more frames on the way than the history holds, and then frames one path delivered are lost (`middleware/qos/mapper.py:341`). `RedundancyWorks`
  states how much fits: `Overlap`.
- A pair of samples that swap places is counted as a loss that did not happen (`dds/monitor/stats.py:120`); `LossCoversHoles` allows
  too many, never too few.
- The monitor's misses are not what a DDS DEADLINE listener reports (`dds/monitor/stats.py:108-110` says they are): the listener is
  called for every deadline that passes without a sample, the monitor counts the silence once; and the silence of a talker
  that has stopped is reported by the listener and never counted by the monitor. `MissesAreEndedSilences` says by how much they differ.
- A stream that one plan degraded for a device stays so if `plan` is given the same object for another device; the waiver's
  device is not looked at again (`middleware/core/deploy.py:192`). `NetworkService.plan` is not affected: it resolves afresh.
- `tc qdisc replace ... cbs` is written once per stream, for the queue of its class: the last stream's slopes
  are left (`network/vlan/emit_vlan.py:61`), where `emit_yang.cbsa` adds the streams of a class up. `EndpointShapesLastStream`
  says so: endpoint and bridge shape a queue alike exactly if its class has one stream on the port.
- On a port with safety streams only, priorities no stream has share the safety queue (`network/vlan/emit_vlan.py:49`).
- The taprio command has no cycle time, so the endpoint's cycle is the sum of its intervals, each cut to nanoseconds by
  `int(us * 1000)` of a float; it can be a nanosecond shorter than the bridge's `admin-cycle-time`, and the two drift apart.
- The Fast DDS reader profile has no latency budget while the writer's, and both of Cyclone's, have one
  (`dds/fastdds/emit.py:79-101`). DDS makes the default a requirement of zero, which no writer of a class with a budget meets: a
  vendor that checks it refuses the match. `VendorsMatchButForBudget` says that this is the only case.
- `_walk_schema` and `resolve` take the first segment for any node of that name in the module if there is none
  at its top (`schemas/yang/model.py:318`), which `AcceptedPathsExist` finds; a path that starts at the top is accepted only
  if it exists (`RootedPathsExist`). `resolve` accepts any known module's name as the label of a later segment, whatever
  module made the node (`schemas/yang/model.py:327`): both properties take the label for what the code takes it, a
  spelling to be checked.
- The repository's own modules have augments that the single pass drops because `rglob` sorts a module before the one it
  builds on (`ieee802-dot1q-ats-bridge`, `ieee802-dot1x-eapol` and others): the orders that `OnePassIsEnoughInOrder` excludes.
- `parse` joins concatenated strings with a blank, so an augment whose path is written in two pieces has no target
  (`schemas/yang/model.py:116`).
- `output-id` of a split is the handle plus the path's number, and may be another stream's handle; that VLAN ids of domains
  differ is not validated.

## 8. Plan

Done: the concurrent registry, then the mutable plans, the configuration of endpoint and DDS vendors beside the
bridge's, the recovery function, the monitor and the YANG tree, each on the pure functions it uses; two abstract
specifications, the ledger and the deployment, with proofs that the modules implement them; proofs of all safety
properties of the passing runs but one (section 5).

Next: an abstract elimination function (each frame passed on once, in time) that `FrerRecovery` implements where the
skew allows; and what a scan lists beside the streams registered all along, which needs a history of those that came
and went.
