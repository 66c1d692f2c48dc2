# NullTracer: formal models

TLA+ models of NullTracer, a detector of attack chains on Windows: what its parts
promise, checked by TLC on small instances and, for all that is said of their
safety, proved by TLAPS for every instance. Paths below are relative to
the repository's root.

## The system

| part | state | operations | talks to |
|---|---|---|---|
| **Ring buffer** (`driver/NullTracerDrv/ringbuf.c`) | slots, `Head`, `Tail`, three totals, one spin lock | init, destroy, write, read a batch, statistics | written by callbacks on any CPU, read by device requests |
| **Kernel callbacks** (`callbacks.c`) | the registrations | register and unregister, one handler each for processes, images, the registry | called by the kernel, end in `RingBufWrite` |
| **Driver** (`NullTracerDrv.c`, `ioctl.h`) | device, symbolic link, dispatch table | `DriverEntry` with rollback, unload, create/close, `READ_EVENTS`, `GET_STATS` | owns the ring and the callbacks, serves the agent |
| **ETW consumer** (`agent/etw_consumer.py`) | list of events, lock, session | `_on_event` on its own thread, start, stop, poll | polled by the agent |
| **Agent** (`agent/nulltracer_agent.py`) | the loaded chains, the reader's batch, the event at hand, log and rule files | loading rules, replay loop, live loop, `--stats`, alert log, choice of the rule | reads the ring, feeds the engine, calls the Sigma generator |
| **Correlation engine** (`engine/state_machine.py`, `models.py`, `schema.py`) | `active_tracks`, `process_tree` | `ingest` | called by the agent, one event at a time |
| **Sigma generator** (`sigma_generator/`) | the files of each chain | build a rule, score it, compile it to three query languages | called for each alert |
| **Validation** (`validation/`) | results of fixtures, samples of a thread | fixture suite, rates and verdict, benchmark runs | runs an engine of its own per fixture and run |

Data flows one way: callbacks write records into the ring; the agent fetches them
in batches by IOCTL, decodes each (`unpack_batch`; a ppid of 0 becomes none) and
gives it to `ingest`; after each record it polls the ETW consumer and ingests what
that had queued. `ingest` advances the partial matches ("tracks") of the chains and
returns alerts; each alert is appended to the log, and then a rule is written.

### What is hard in it, and what makes each part correct

* **Ring buffer.** Writers on several CPUs against a reader; indices that wrap; a
  ring that is full. Correct: the records read are the ones accepted, in order, and
  every lost one is counted. `LossFree` says so and is *violated*;
  `NothingIsDelivered` and `OnlyNewestRetained` say what happens instead.
* **Driver and callbacks.** Callbacks run while the driver unloads or fails to
  load. Correct: nothing touches a ring that is not there (`RingOutlivesUsers`);
  each failure and each unload undoes exactly what was done (`TearDownIsExact`,
  `NothingLeaks`) and comes to an end (`ThreadFinishes`).
* **Engine.** Many tracks advanced, finished and removed while the list is walked;
  greedy matching; parents that change; a walk up the tree without a bound.
  Correct: an alert is a whole occurrence of its chain (`TracksAreOccurrences`),
  none is lost or doubled (`TracksOnlyGrow`, `OneTrackPerStart`), and seen from
  outside it is a detector: none is missed and the call returns, with the exceptions
  the abstract specification names (`DetectsAttacks`).
* **Engine on a host.** The engine sees PIDs, and PIDs are reused; it never hears
  of exits, nor of processes that ran before the driver or whose record was dropped,
  and a parent may be spoofed. Correct: lineage in an alert is what Windows keeps
  (`LineageGenuine`), an alert rests on what really happened (`AlertsAreBacked`), an
  attack is reported if all of its descent could be seen (`NoVisibleAttackMissed`), a
  replay ends (`ReplayCompletes`).
* **Agent and ETW.** Two threads on one list; failures of files, device or engine
  half-way through an event; Ctrl+C anywhere. Correct: each event is ingested once
  and in its source's order (`EventsOnceInOrder`), log and rules account for the
  alerts (`AlertsAccounted`, `RuleOfItsChain`, `CompleteMeansAll`), and queued
  script blocks are not left waiting (`BatchFlushesEtw`) nor overtake more than the
  rest of a batch (`BoundedReordering`).
* **Agent on the ring.** Each part alone looks sound; together they are blind, as the
  ring hands out nothing and without a record script blocks are not polled
  (`LiveIsBlind`).
* **Sigma generator.** A rule should mean what its chain means, and its files are
  written one by one over those of an earlier rule. Correct: the rule fires only on
  what the steps accept (`OneTypeRuleImpliesSteps`) and only by what they test
  (`UnmappedIsSkipped`), the annotation fits the chain (`LowIsGeneric`), the files
  fit together (`QueriesFollowRule`, `CleanRunIsCurrent`).
* **Validation.** Fixtures may be missing and share the rules, some of
  which may not parse; a sampling thread may outlive the wait for it. Correct: the
  verdict is true of the fixtures (`VerdictIsRight`, `HollowSilences`), the stream is
  what it is said to be (`StreamAlerts`), the figures rest on the same samples
  (`OneLateSample`), and the report ends (`ReportEnds`).

`PROJECT.json` lists the hazards at their lines with the properties that cover them.

## Modules

**RingBuf** models `ringbuf.c` and the device-control handler. Each operation holds
the spin lock from first to last access, so each is one action and the CPUs are the
interleavings of these. `x & Mask` is a remainder; `x & Capacity`, which is what the
assignment to `Head` computes, keeps one bit; `MCRingBuf` compares both with the
bitwise `&` of the community modules. `HeadIdx` and `TailIdx` are words that wrap at
`Word`. `accepted` and `delivered` are history variables for `LossFree`.

**AttackChains** has what the rest talks about: events, chains, when an event fits a
step (`Fits`, from `_match_step`), and, independently of the engine's data structures,
what lineage and an occurrence of a chain are in a sequence of events. `OnTheWayUp`
is a closure over sets of pids where the engine walks.

**AttackDetection** is the abstract specification: three variables, the events seen,
the alarms raised and whether the detector is up. It says which alarms each event may
and must bring (`Sound`, `Complete`) and what may bring the detector down (`Break`).
CorrelationEngine instantiates it as `Detection`, with the alerts as alarms;
`DetectsAttacks` is `Detection!Spec`, so every call is a `Receive` or a `Break`.

**CorrelationEngine** models `ingest` with `_match_step` as one action (one thread
calls it). `Ingest` is a call that returns, `IngestLoops` one whose walk up
`process_tree` does not end (as far as it got), `IngestRaises` one that hits a chain
without steps. Text is opaque: the constant `Within` says which condition value
occurs in which field. An event is known by its position in `history`; a track by
its chain and first event, which is why the list `active_tracks` is a set here, with
`Before` as its order. The alert is the completed track. The walk is the recursive
function `CurrPpid`: more steps than `process_tree` has entries mean a cycle.

**HostCorrelation** extends it with the world the engine is judged against: a host
whose processes start (`Spawn`), exit unnoticed (`Exit`) and act (`Act`). Each report
is what the callback or the ETW consumer makes of it after `unpack_batch`, and is
ingested at once, as in a replay. The callbacks may be given no name, fail to read a
command line, and cut a text to its field (`Given`, `ReadCommandLine`, `Copied`).
`procs` and `truth` hold what really happened, which the engine can only infer.
A process has the `parent` Windows keeps, which the callback is given, and the
`creator` that started it; they differ where the creator named another
(`Spoofing`, README.md:62-64), and the engine is told of it or not (`reported`). The
host starts with any forest of processes nothing was reported of (`Forests`), and of
a later one the record may be dropped. `Claimed` is the tree of the parents Windows
keeps, `Visible` that of the creators, as far as the engine was told of them.
`LineageGenuine` compares the engine's tracks with `Claimed`, `AlertsAreBacked` also
with the events as they would be without any loss (`Happened`); `NoVisibleAttackMissed`
speaks of attacks in `Happened` that go along `Visible`. `ReusePids` switches reuse of
PIDs.

**DriverLifecycle** models loading and unloading: the driver's thread works through
`EntrySteps`, or after a failure through what `CallbacksUndo` and `EntryUndo` take
back, or through `UnloadSteps`, while CPUs enter registered callbacks and clients
open the device. Removing a callback is two steps: no new call begins, then it waits
for the calls under way (`Drained`). That, and that a driver with open handles is not
unloaded, is what the driver relies on from Windows.

**AgentLoop** models `run_agent` in its three modes, from `_load_chains`, which skips
what it cannot parse, to the end, with the reader, the alert log, the choice of the
rule and the ETW thread. `pc` is the place in the loop. A chain is its place in the
list of loaded ids, since two files may give one id. `heard` records, for each script
block, how far the records were when it was queued.
`poll_events` is two steps, copy and clear, with the lock held in between.
`IngestedFrom` counts the events of a source up to a place of `ingested`: the n-th
record is the n-th one ingested from the kernel, which is how `EventsOnceInOrder`
says once and in order. What the
driver and the engine return is left open: any batch, any of `AlertLists`, or a call
that raises or hangs.

**LivePipeline** puts the agent on the ring: it extends RingBuf and instantiates
AgentLoop, so that a request of the agent (`Read`, `Stats`) is one step of both, and
callbacks, other clients, the ETW thread and the user move one of them. The events
the driver "delivers" to the agent are the ones `ReadEvents` replied.

**SigmaGenerator** models `build_sigma_rule` with the field maps, the score and its
level as operators, and `SigmaAutoGenerator.generate` as the machine that writes the
rule file, compiles and writes the queries, any of which may fail. `Fires` says what
the rule means to a SIEM: all selections against one record, whose log source is the
first step's. `EngineAccepts` restates `_match_step` without lineage, to compare.
What pySigma makes of a rule is any of the outcomes `compile_rule` tells apart.
Text is opaque again: `Within` is the engine's reading of a value, `Contains`,
`EndsWith` and `Exact` Sigma's, which agree with it but for anchored values and those
in `Reshaped` (wildcards, double backslashes, a slash or star at the front that
`rule_builder.py:73` replaces).

**ValidationReport** models `report.py` with `metrics.py` and `benchmark.py`: the main
thread goes through the fixtures that are there, each with a new engine
(`NewEngine`; the engine is CorrelationEngine, which the module extends), then through the benchmark runs on the synthetic stream beside
the sampler's thread, and then decides, unless an exception came first: a file that
does not parse, a chain without steps, or `--events 0`, by which `report.py:159`
divides (`RunsDone`). `Join` may happen at any time: that is its
timeout. `AttackStarts` counts the attacks in a fixture by the definition in
AttackChains, not by the engine. What is in `samples/rules` is open: chains that all
have steps (`Chains`, "whole"), chains one of which has none (`HollowChains`, "hollow",
an instance of the engine of its own), or a file that does not parse.

**RingBufProofs**, **CorrelationEngineProofs**, **HostCorrelationProofs** (on the former), **DriverLifecycleProofs**,
**AgentLoopProofs**, **LivePipelineProofs**, **SigmaGeneratorProofs** and
**ValidationReportProofs** hold the theorems. **MCRingBuf**, **MCCorrelationEngine**, **MCHostCorrelation**,
**MCAgentLoop**, **MCLivePipeline**, **MCSigmaGenerator** and **MCValidationReport** give the constants their small values. Definitions headed "Variant:" are plausible
mistakes and are not part of any specification; each property is known to fail
under at least one of them.

## Runs

| run | shows |
|---|---|
| `live` | the agent on a ring of four slots, words of 3 bits, 6 callbacks: the ring's `TypeOK`, `NothingIsDelivered`, `OnlyNewestRetained`, and `LiveIsBlind` |
| `ring_1` | one slot: every record is refused and counted (`OneSlotAcceptsNothing`) |
| `ring_lossfree` | *violation* of `LossFree` by the first accepted record |
| `driver` | two CPUs, two clients, any number of loads, failures and unloads |
| `engine` | three chains, every sequence of 5 out of 10 events; the engine implements AttackDetection |
| `host_unique` | 3 PIDs, each used once, 3 events, one of them reported with a loss, up to two processes nothing is told of, any parent spoofed, two chains: alerts follow the parents Windows keeps and rest on real deeds, no attack is missed whose descent could be seen, the replay ends |
| `host_reuse_lineage` | *violation*: a stranger with a reused PID completes a chain |
| `host_reuse_replay` | *violation*: reuse makes `process_tree` cyclic and `ingest` hangs |
| `agent` | three rule directories, 3 records in batches of up to 2, 2 script blocks, failures and Ctrl+C everywhere |
| `sigma` | two rules for any of ten chains, every failure: files fit together, one-type rules are sound |
| `sigma_unmapped` | *violation*: a field without a Sigma name keeps the rule from matching |
| `validation` | any subset of four fixtures, three rule directories, two benchmark runs of 9 events with up to 3 samples |

**Bounds, and why they are enough.** `MaxCallbacks` 6 fills a ring of four slots, of which a correct one holds three, and
drops; with reads in between a correct index would go round the slots. The word of 8
values is twice the capacity. Reads of up to 3 records
are whole drains of such a ring.
`MaxEvents` 5 is a three-step chain with two events to spare: two overlapping
tracks, a parent told anew, a cycle of two or three pids and a walk over it all fit.
The events of `engine` include missing fields, events that bring their own parent and script
blocks without one. Three PIDs, of which the first process runs
through the session, allow a chain of two steps with a process in between or a stranger
beside it, and suffice for reuse; they are handed out lowest first, since the code only
compares them for equality. Three events and two chains, the LOLbin chain of three steps and a
pair, are a whole occurrence of either; two processes that are not reported (`MaxUnreported`) are a parent
and its child that both ran before, or one of them and one whose record was dropped.
(Stated over all creators instead of `Visible`, `NoVisibleAttackMissed` is violated within
these bounds: see Findings.) The runs with reuse have four events and one such process. One loss (`MaxLosses`) is either
in the chain or beside it; one image has a command line longer than its field, whose
part that fits lacks what the chain looks for. For the agent, a batch of two and a further batch,
with two script blocks, give every order of append, copy and clear, and a list of
two alerts every place between log and rule. The rule directories have an unparsable
file before two chains, one id twice, and nothing that parses. Two rules are what it takes for one to be written over another, and
the ten chains are one of each kind the generator's branches tell apart. The fixtures
of `validation` are one with an attack and noise in between, one of noise, and the two
halves of a chain, which (unlike the files of `samples/telemetry`) share pids, so that an engine kept from one to the next would
put them together; the directories have the LOLbin chain, a chain with no steps after
a good one, and an unparsable file; that there are no rules at all is a case of `Chains`
that only the theorems cover. Nine events are two whole
chains of the stream and the beginning of a third, and three samples allow one before, one
during and one after `stop`. Two CPUs and two clients are enough for
one of each to be inside while another enters or leaves.

**Deadlock.** It is checked for the ring, alone and under the agent, and the driver,
which never stop.
It is off for the engine and the host, which end at `MaxEvents` or at a call that
never returns, for the agent by itself, which ends after the recording, an error or
Ctrl+C, for the generator, which stops being called after `MaxRules`, and for the report, which
ends.

**Fairness.** `FairSpec` of DriverLifecycle: the system thread runs while it has
work, and each call of a callback ends, since a callback takes no lock but the
ring's and never waits; the service manager and the clients owe nothing.
`FairHostSpec`: the loop over a recording takes the next event when a call has
returned. `FairSpec` of AgentLoop: the agent's own thread keeps taking steps; the
user, the ETW thread and the contents of batches are not fair. `FairReportSpec`: the main thread takes its next step; the sampler's thread owes
nothing, which the timeout of the join is there for.

## Findings

1. `ringbuf.c:91`: `(Head + 1) & (Capacity - 1 + 1)` masks with the capacity, not
   with `Mask`, so `Head` stays 0 for every power of two above 1. No event ever
   reaches user space and nothing is counted as dropped (`ring_lossfree`; proved as
   `NeverDelivers`). In live mode the engine therefore sees no event at all, not even
   from ETW (`live`; proved as `LiveDetectsNothing`).
2. `state_machine.py:58`: PIDs of exited processes still count as members of the
   chain (`host_reuse_lineage`).
3. `state_machine.py:60`: the lineage loop does not end over a cycle of parents
   (`host_reuse_replay`). `engine` shows that a cycle is the only cause
   (`Break` of AttackDetection).
4. `rule_builder.py:64`: an unmapped condition is an entry that nothing matches
   (`sigma_unmapped`).

The models also mark where a property needs more than the code's comments say:

* `nulltracer_agent.py:487` finds the chain of an alert by substring search, so
  `RuleOfItsChain` supposes that no id occurs in the alert text of a chain with another
  id. With ids `chain_1` and `chain_10`, `ChainOf` picks whichever was loaded first for both.
  Of two files with one id, line 471 keeps the last, for the alerts of either.
* `nulltracer_agent.py:527` polls script blocks only after a kernel event, so
  `BatchFlushesEtw` supposes a record that is still to be yielded.
* `rule_builder.py:107` uses the first step's event type for the whole rule, so
  `OneTypeRuleImpliesSteps` supposes a single type; a chain of a process and a
  registry step may fire on the process alone. `rule_builder.py:68` reads `^...$` as
  an exact match, `rule_builder.py:73` puts one backslash for whatever slashes and
  stars a path begins with, and Sigma expands wildcards; the engine takes all of these
  literally, so the property leaves such values out.
* `nulltracer_agent.py:328` writes every text that does not begin with `#`, so a
  compile error becomes the contents of a query file, and a backend that gives no
  text leaves the file of an earlier rule (`CleanRunIsCurrent` says both).
* `state_machine.py:73` and `75` let an event without a command line or key pass every
  condition on it, so an alert may be false; `AlertsAreBacked` says that this is the only
  way, of every alert. A missing image path passes no condition, so `NoVisibleAttackMissed`
  supposes that it was given, and that no text was cut.
* `state_machine.py:59-64` walks `process_tree`, which has no entry for a process that ran before
  the driver or whose record was dropped, and the wrong one for a process with a spoofed
  parent. TLC finds both kinds of missed attack if `NoVisibleAttackMissed` is stated over
  the real creators: a script block in a process A that was there at the start, after
  which its child B, there as well, starts rundll32; and a process of the chain that
  names a process outside it as the parent of the next. README.md:62-64 accepts the
  second ("Advanced spoofing can bypass this"), and the first is documented nowhere.
  A spoofed parent can also put a process into a chain it does not belong to, so
  `LineageGenuine` speaks of the parents Windows keeps and not of the creators.
* `report.py:159` divides by the number of events, so `--events 0` ends the report in a
  `ZeroDivisionError` and without a verdict (`RunsDone`).
* `state_machine.py:36` raises for a chain without steps: no alert of any chain gets
  out of that call (`HollowSilences`).
* `_load_chains` skips a rule file that does not parse; `run_engine_on_fixture` and
  `_run_once` load the same directory and raise (`RulesRaise`).
* `report.py` prints "ALL CHECKS PASSED" over the fixtures that exist; a missing one is
  skipped (`SkipFixture`), and `VerdictIsRight` speaks of the ones present.
* `metrics.py:169` calls `run_engine_on_fixture` the "single point of truth" for the
  benchmark as well, which has a loop of its own (`benchmark.py:167-170`). Three of four
  events of its stream belong to the chain, where `benchmark.py:49-51` speaks of 25 %.

## Proofs

All theorems are of the specifications TLC checks, under the named assumptions on
the constants, which TLC evaluates in the runs.

*Ring* (`CapacityAssumption`: a power of two below and dividing the word;
`RecordsAssumption`, `BoundsAssumption`). `NeverDelivers` rests on the inductive
`LooksEmpty`: both indices are 0, and nothing was delivered. `NothingIsDelivered`
alone is not inductive, since equal indices other than 0 could part. Its core is the lemma `HeadStaysAtZero`: 1 & Capacity is 0 for a
power of two above 1. `KeepsOnlyTheNewest` adds what the slots hold and needs a
capacity above 1; `RingTypes` is inductive by itself.

A ring of one slot, which `RingBufInit` allows, has
its own `OneSlotStaysEmpty`.

*Engine* (`ChainAssumption`, `EventAssumption`, `NoneAssumption`). The invariant `IInv` joins `TypeOK`,
`AlertsAreComplete`, `OneTrackPerStart` and `StepsInOrder`: that a track's next step
exists needs that no complete track stays in the list, and that two tracks stay apart
after one has grown needs that they differed in chain or first event. The lemma
`Origins` says where a track of the next state comes from (it stayed, moved or
began); the others follow the three cases, also for the calls that fail. From it
follow `EngineTypes`, `StartsAreUnique`, `AlertsAreWholeAndInOrder` and
`NoMatchIsLost`; `TreeHoldsTheLatestParents` has a step of its own.

*Lineage.* The loop of `_match_step` is a recursive function on the natural numbers
(`CurrPpid`), AttackChains' `OnTheWayUp` a closure over sets. The first half of CorrelationEngineProofs shows that
they agree: what the loop visits is on the way up, and all of the way up is visited
before it has made more turns than the tree has entries. The induction this takes is
done over *sets* of numbers (`Least`, from `WFMin`: a set of numbers that is not empty
has a least element), because the induction theorems of the library take an
operator, for which the provers find no instance. `TracksAreGenuine` then needs
`LineageInv`, that the events of a track are in line by the parents known when each
arrived; `EngineDetects`, the refinement of AttackDetection, needs `Greedy` as well: as long
as no process is told another parent, each occurrence of the first steps of a chain is
followed by a track from the same event that is at least as far. Every call is then a
`Receive`, or a `Break` over a malformed chain or a cycle.

*Engine on a host* (those, `ReportAssumption`, `TextAssumption`). `HostDrivesEngine`: all
that holds of the engine holds of it on a host. For `LineageIsGenuine`,
`EveryAlertIsBacked` and `NoVisibleAttackIsMissed` the invariant ties the engine's tree to
the processes: with `ReusePids = FALSE`, which the theorems name as their hypothesis, a
pid is of one process for ever, and all elders of a process that are reported at all are
known by the time it does something. So the way up in the engine's tree is the way up
among the parents that were reported (`Parents`, `UpIsDescent`, `DescentIsUp`). That tree
lies between the other two: it has fewer links than `Claimed` and more than `Visible`, and
who is on the way up in a tree is so in one with more links (`FewerLinks`). From the first follow
`LineageIsGenuine` and, with what `Tells` keeps of each event and its report,
`EveryAlertIsBacked`; from the second and `Greedy`, `NoVisibleAttackIsMissed`. Whatever
processes ran before, were not reported or spoofed parents, none is excluded: the last
theorem names the premises under which an attack is not missed, image paths reported,
texts not cut, a descent along `Visible`, and chains that have steps, as one without ends the
engine. `HostTypeCorrect` holds with reuse too.

*Driver* (no assumptions). The invariant of `TypeCorrect`, `RingSafe`, `NoLeak` and `ExactTearDown` says
that a load is at a step of `DriverEntry` with exactly the effects of the steps before
it (`AtStep`), that a list of what is to be torn down names each thing that is up once,
the callbacks before the ring (`Undoes`), that whoever is inside a callback came by one
that is registered or being waited for, while the ring is there (`CallsAreSafe`), and
that handles are open only while the driver is loaded. The number of callers is arbitrary.

*Agent* (`ChainAssumption`, `AlertAssumption`, `BoundAssumption`). `Typed` joins
`TypeOK` with what each `pc` implies of the queues (`Thread`). `Ordered` and `Waiting` place the batch, the polled and the queued events
right behind those ingested, which is what makes `OnceAndInOrder` inductive: `poll` copies
under the lock and clears under the same lock, so nothing is appended in between.
`Even` and `Owing` say how many alerts are between engine, log and rule at each `pc`
(`AlertsReachTheLog`, `RulesAreOfTheirChains`, `CompleteReplay`). For
`ReorderingIsBounded`, `Awaited` says how many records may have been ingested since a
block was queued that still waits: one if it is polled, or will be before the next
record (`Soon`), and none otherwise (`Later`).

*Agent on the ring* (the ring's assumptions, and those of AgentLoop on rules, alerts
and bounds). `RingInPipeline` and `AgentInPipeline` show that the composition implements
both parts, step by step, so that all that is proved of the ring and of the agent
for any driver holds here. `LiveDetectsNothing` rests on `Blind`: the ring looks
empty, nothing was received or polled, and the agent is at none of the places it only
reaches with an event in its hands. That last part makes it inductive: a poll follows
an event only.

*Sigma generator* (`ChainsAssumption`, `IndicatorAssumption`, `TextAssumption`,
`BackendAssumption`). The invariant's `Progress` says what the files of the chain at
hand hold by how far `generate` has come: before the rule file is written all are older
than the rule; then the rule file is of it, and the query files of the backends still
to come are older, those done are what they are to be. `QueriesStayBehind` and `CleanRunsAreCurrent` follow; `RulesFireOnSteps`
and `LowMeansGeneric` are about the rule itself, for all chains and indicators.

*Validation* (the engine's assumptions, `CountAssumption`, `RulesAssumption`: all of the
one set of chains have steps and one of the other has none; `FixtureAssumption`: within
a fixture no process is told another parent, as in the files of `samples/telemetry`;
`StreamAssumption`: the synthetic events are events). The engine's invariants are kept by
each `Receive`, so what is proved of the engine is cited for every replay. Since no two alerts
have the same chain and first event, and none is false or missed, the alerts are as many
as attacks begin in the events given (`AlertsAreAttacks`). The invariant says where the
main thread is (`Stage`), that the engine is a new one that was given the first events of
this fixture, or of the stream, and no others, and that `found` counts its alerts
(`Replayed`), and that the results are those of the fixtures passed, one for each
(`SuiteInv`). With `RatesAgree`, which says of each result what the verdict asks of the
counts, `VerdictRight` follows; it is true of a verdict and not of a report that an exception has
ended. `OneHollowChainSilences` needs nothing of the engine but that it raises. For
`EveryFourthAlerts` the stream itself has to be understood: a chain of three steps that
fit the last three of each four events (`StreamRules`) has no occurrence but within one
block of four, since the first process of a block has a parent outside
(`AttackFillsBlock`), and each whole block holds one (`BlockIsAttack`), so there are `Count \div 4`.
`AtMostOneLateSample` rests on `SamplerInv`: once
`_stop` is set, the samples are those of that moment, or one more and the thread is past
its last (`OneLeft`); and each figure is read while that holds.

*Only model-checked:* liveness under fairness (`ThreadFinishes`, `ReplayCompletes`,
`BatchFlushesEtw`, `ReportEnds`), which is out of the provers' reach; and that the ring's
remainders are the bitwise operations of the code (`MCRingBuf`). The properties of runs that end in a violation are false.

## Not modelled

* Byte layouts, UTF-16 and FILETIME decoding: no property is about them. What paths and
  command lines may come to on their way through the callbacks is in HostCorrelation.
* The command lines and log messages: they change no state.
* What Windows does beyond the above: handle inheritance, sessions, how a parent is
  spoofed; `Spawn` lets a creator name any living process.
* Timestamps: no code reads them, neither the engine nor the agent, which interleaves
  its sources by arrival. (A record's is taken before the ring's lock, so they may even
  lie in the ring out of order.)
* Measured values of the benchmark, precision and F1, report text and JSON: arithmetic
  that is only printed. The stress test, test cases and PowerShell scripts: I/O around
  the system.
* What pySigma does inside, and the titles, tags and dates of a rule. The command
  line of the generator, which stops at an import of a function that is elsewhere.

## Plan

1. *Done:* ring, engine, engine on a host, driver life cycle, agent, the agent on the
   ring, Sigma generator, validation; the abstract detector and the engine's
   refinement of it; proofs of ring, engine and the agent on the ring.
2. *Done:* proofs of all safety properties the passing runs check; of the refinement of
   the detector in full, and of the composition of agent and ring.
3. *Left:* nothing of the properties stated here but liveness. What could follow is code
   that has no model yet: how pySigma reads a rule, and the generator's command line once
   its import is mended.
