-------------------------- MODULE ValidationReport --------------------------
(***************************************************************************)
(* The validation report (validation/report.py): every fixture is replayed *)
(* through an engine of its own and its alerts are counted                 *)
(* (validation/metrics.py); then a synthetic stream is replayed while a    *)
(* thread samples the process (validation/benchmark.py); the verdict comes *)
(* last.  Measured values are left out; how many there are is kept.        *)
(***************************************************************************)
EXTENDS CorrelationEngine

CONSTANTS
  HollowChains, \* like Chains, the rules of another directory
  Fixtures,     \* _FIXTURE_DEFS: [events, expected]
  Count,        \* --events
  Repeats,      \* --benchmark-repeats
  MaxSamples    \* bound of the model: samples of one run

ASSUME CountAssumption == {Count, Repeats, MaxSamples} \subseteq Nat

\* The rules of the one directory all have steps, those of the other do not.
ASSUME RulesAssumption ==
  Malformed(Chains) = {} /\ Malformed(HollowChains) # {}

\* Within a fixture of samples/telemetry every process has one parent.
ASSUME FixtureAssumption ==
  /\ Fixtures \in Seq([events : Seq(EventSpace), expected : Nat])
  /\ \A f \in DOMAIN Fixtures : StableParents(Fixtures[f].events)

VARIABLES
  rules_dir,     \* what samples/rules holds: Chains, "whole", HollowChains,
                 \* "hollow", or a file parse_chain_yaml raises on, "unparsable"
  present,       \* the fixtures that are there
  no_benchmark,  \* --no-benchmark
  pc,            \* where the main thread is
  fixture,       \* the fixture the suite is at
  results,       \* DetectionResults: [expected_alerts, actual_alerts]
  verdict,       \* "none", "pass", "fail", or "crash" for an exception
  run,           \* benchmark runs finished
  fed, found,    \* events the engine was given in this replay, and alerts returned
  thread,        \* where the sampler's thread is
  stop,          \* _ResourceSampler._stop
  samples,       \* length of _ResourceSampler._samples
  atStop,        \* history: that length when _stop was set
  cpus, mems     \* how many samples the averages of the last run rest on

replay == <<vars, fed, found>>
sampler == <<thread, stop, samples, atStop>>
options == <<rules_dir, present, no_benchmark>>
suite == <<fixture, results>>
figures == <<cpus, mems, run>>
reportVars == <<options, pc, suite, verdict, replay, sampler, figures>>

----------------------------------------------------------------------------
(* _make_event_stream: explorer, powershell -enc, rundll32 and WmiPrvSE,   *)
(* each the child of the one before, over and over.                        *)

Roles == <<"explorer.exe", "powershell.exe -enc", "rundll32.exe", "WmiPrvSE.exe">>

Pid(i) == 10000 + 10 * i

\* Variant: all have one parent.
SameParent(i) == 400

Ppid(i) == IF i % 4 = 0 THEN 400 ELSE Pid(i - 1)

Stream ==
  [n \in 1 .. Count |->
    [event_type |-> "ProcessCreate", pid |-> Pid(n - 1), ppid |-> Ppid(n - 1),
     image_path |-> Roles[1 + ((n - 1) % 4)], command_line |-> Roles[1 + ((n - 1) % 4)],
     registry_key |-> None]]

ASSUME StreamAssumption == Range(Stream) \subseteq EventSpace

Hollow == INSTANCE CorrelationEngine WITH Chains <- HollowChains

----------------------------------------------------------------------------
(* Replaying *)

Input == IF pc = "replay" THEN Fixtures[fixture].events ELSE Stream

Parses == rules_dir # "unparsable"

\* Variant: one engine serves all fixtures.
KeptEngine == UNCHANGED vars /\ fed' = 0 /\ found' = 0

\* CorrelationEngine(chains)
NewEngine ==
  /\ active_tracks' = {} /\ process_tree' = <<>>
  /\ alerts' = {} /\ history' = <<>> /\ status' = "running"
  /\ fed' = 0 /\ found' = 0

\* An exception nobody catches, which ends the sampler's daemon thread as well.
Crash == pc' = "done" /\ verdict' = "crash"

\* A file of the rules that cannot be parsed is not skipped here.
RulesRaise ==
  /\ \/ pc = "fixtures" /\ fixture \in present
     \/ pc = "bench" /\ run < Repeats
  /\ ~ Parses
  /\ Crash
  /\ UNCHANGED <<options, suite, replay, sampler, figures>>

IngestNext ==
  /\ pc \in {"replay", "stream"} /\ fed < Len(Input) /\ status = "running"
  /\ \/ rules_dir = "whole" /\ Receive(Input[fed + 1])
     \/ rules_dir = "hollow" /\ Hollow!Receive(Input[fed + 1])
  /\ fed' = fed + 1 /\ found' = found + Cardinality(alerts' \ alerts)
  /\ IF status' = "raised" THEN Crash ELSE UNCHANGED <<pc, verdict>>
  /\ UNCHANGED <<options, suite, sampler, figures>>

----------------------------------------------------------------------------
(* _run_detection_suite *)

\* Variant: a fixture that is not there counts as one without alerts.
SkipCounted ==
  /\ pc = "fixtures" /\ fixture \in (DOMAIN Fixtures) \ present
  /\ results' = Append(results, [expected_alerts |-> 0, actual_alerts |-> 0])
  /\ fixture' = fixture + 1
  /\ UNCHANGED <<options, pc, verdict, replay, sampler, figures>>

SkipFixture ==
  /\ pc = "fixtures" /\ fixture \in (DOMAIN Fixtures) \ present
  /\ fixture' = fixture + 1
  /\ UNCHANGED <<options, pc, results, verdict, replay, sampler, figures>>

LoadFixture ==
  /\ pc = "fixtures" /\ fixture \in present /\ Parses
  /\ NewEngine
  /\ pc' = "replay"
  /\ UNCHANGED <<options, suite, verdict, sampler, figures>>

FixtureDone ==
  /\ pc = "replay" /\ fed = Len(Input) /\ status = "running"
  /\ results' = Append(results, [expected_alerts |-> Fixtures[fixture].expected,
                                 actual_alerts   |-> found])
  /\ fixture' = fixture + 1 /\ pc' = "fixtures"
  /\ UNCHANGED <<options, verdict, replay, sampler, figures>>

SuiteDone ==
  /\ pc = "fixtures" /\ fixture = Len(Fixtures) + 1
  /\ pc' = IF no_benchmark THEN "verdict" ELSE "bench"
  /\ UNCHANGED <<options, suite, verdict, replay, sampler, figures>>

----------------------------------------------------------------------------
(* _run_once and _ResourceSampler *)

StartRun ==
  /\ pc = "bench" /\ run < Repeats /\ Parses
  /\ NewEngine
  /\ thread' = "warm" /\ stop' = FALSE /\ samples' = 0 /\ atStop' = 0
  /\ pc' = "stream"
  /\ UNCHANGED <<options, suite, verdict, figures>>

SetStop ==
  /\ pc = "stream" /\ fed = Len(Input) /\ status = "running"
  /\ stop' = TRUE /\ atStop' = samples
  /\ pc' = "join"
  /\ UNCHANGED <<options, suite, verdict, replay, thread, samples, figures>>

\* Variant: join has no timeout.
JoinForever ==
  /\ pc = "join" /\ thread = "ended"
  /\ pc' = "cpus"
  /\ UNCHANGED <<options, suite, verdict, replay, sampler, figures>>

\* The thread has ended, or two seconds have passed.
Join ==
  /\ pc = "join"
  /\ pc' = "cpus"
  /\ UNCHANGED <<options, suite, verdict, replay, sampler, figures>>

\* stop returns the list itself, which is read twice.  A thread that is still
\* running by then is of no interest to the next run, which has its own list.
ReadCpus ==
  /\ pc = "cpus"
  /\ cpus' = samples /\ pc' = "mems"
  /\ UNCHANGED <<options, suite, verdict, replay, sampler, mems, run>>

ReadMems ==
  /\ pc = "mems"
  /\ mems' = samples /\ run' = run + 1 /\ pc' = "bench"
  /\ UNCHANGED <<options, suite, verdict, replay, sampler, cpus>>

\* _render_overhead divides by the number of events, unless there was no run.
RunsDone ==
  /\ pc = "bench" /\ run = Repeats
  /\ IF Count = 0 /\ Repeats > 0 THEN Crash ELSE pc' = "verdict" /\ UNCHANGED verdict
  /\ UNCHANGED <<options, suite, replay, sampler, figures>>

Goes(from, to) ==
  /\ thread = from /\ thread' = to
  /\ UNCHANGED <<stop, samples, atStop>>

Measure ==
  /\ thread = "measure" /\ samples < MaxSamples
  /\ samples' = samples + 1 /\ thread' = "wait"
  /\ UNCHANGED <<stop, atStop>>

\* Variant: the wait is not cut short, and not asked whether it was.
StopUnseen == Goes("check", "measure")

\* while not self._stop.is_set()
TestStop == IF stop THEN Goes("check", "ended") ELSE Goes("check", "measure")

\* _loop; psutil may refuse to measure.
Sample ==
  /\ pc # "done"
  /\ \/ Goes("warm", "check") \/ TestStop
     \/ Measure \/ Goes("measure", "ended") \/ Goes("wait", "check")
  /\ UNCHANGED <<options, pc, suite, verdict, replay, figures>>

----------------------------------------------------------------------------
(* The verdict *)

IsTruePositive(r)  == r.expected_alerts > 0 /\ r.actual_alerts >= r.expected_alerts
IsFalseNegative(r) == r.expected_alerts > 0 /\ r.actual_alerts < r.expected_alerts
IsFalsePositive(r) == r.expected_alerts = 0 /\ r.actual_alerts > 0

TP == Cardinality({i \in DOMAIN results : IsTruePositive(results[i])})
FN == Cardinality({i \in DOMAIN results : IsFalseNegative(results[i])})
FP == Cardinality({i \in DOMAIN results : IsFalsePositive(results[i])})

\* detection_rate = 1.0 and false_positive_rate = 0.0; a rate over nothing is 0.
Decide ==
  /\ pc = "verdict"
  /\ verdict' = IF TP > 0 /\ FN = 0 /\ FP = 0 THEN "pass" ELSE "fail"
  /\ pc' = "done"
  /\ UNCHANGED <<options, suite, replay, sampler, figures>>

ReportInit ==
  /\ Init
  /\ rules_dir \in {"whole", "hollow", "unparsable"}
  /\ present \in SUBSET DOMAIN Fixtures /\ no_benchmark \in BOOLEAN
  /\ pc = "fixtures" /\ fixture = 1 /\ results = <<>> /\ verdict = "none"
  /\ fed = 0 /\ found = 0
  /\ thread = "ended" /\ stop = FALSE /\ samples = 0 /\ atStop = 0
  /\ cpus = 0 /\ mems = 0 /\ run = 0

Main ==
  \/ SkipFixture \/ LoadFixture \/ FixtureDone \/ SuiteDone
  \/ StartRun \/ SetStop \/ Join \/ ReadCpus \/ ReadMems \/ RunsDone
  \/ RulesRaise \/ IngestNext \/ Decide

ReportNext == Main \/ Sample

ReportSpec == ReportInit /\ [][ReportNext]_reportVars

\* The main thread runs; the sampler may be held up by the system for ever.
FairReportSpec == ReportSpec /\ WF_reportVars(Main)

----------------------------------------------------------------------------
(* Properties *)

\* The report's state: one result per fixture that was there and has been
\* replayed, no thread without its run, no verdict before the end.
ReportTypeOK ==
  /\ fixture \in 1 .. Len(Fixtures) + 1 /\ run \in 0 .. Repeats
  /\ Len(results) = Cardinality({f \in present : f < fixture})
  /\ \A i \in DOMAIN results : results[i].actual_alerts \in Nat
  /\ thread \in {"warm", "check", "measure", "wait", "ended"}
  /\ pc \in {"fixtures", "replay"} => thread = "ended"
  /\ (verdict = "none") = (pc # "done")
  /\ verdict \in {"none", "pass", "fail", "crash"}

\* The starts of attacks in a sequence of events, by the definition of an
\* occurrence and not by what the engine does.
AttackStarts(evs) ==
  {start \in (DOMAIN Chains) \X (DOMAIN evs) :
     \E pos \in Positions(evs, start[1]) :
       pos # <<>> /\ pos[1] = start[2] /\ Occurrence(evs, start[1], pos)}

AsExpected(f) ==
  LET attacks == Cardinality(AttackStarts(Fixtures[f].events))
  IN  IF Fixtures[f].expected = 0 THEN attacks = 0 ELSE attacks >= Fixtures[f].expected

\* "ALL CHECKS PASSED" means what it says of the fixtures that are there: each
\* of them holds the attacks it should and no other, whatever fixtures were
\* replayed before it, and one at least holds an attack.  And it is said
\* whenever that is so and no exception got in the way.
VerdictIsRight ==
  verdict \in {"pass", "fail"} =>
    (verdict = "pass") = /\ rules_dir = "whole"
                         /\ \E f \in present : Fixtures[f].expected > 0
                         /\ \A f \in present : AsExpected(f)

\* Rules with a chain without steps never pass, and no alert for any of the
\* other chains gets out.
HollowSilences ==
  rules_dir = "hollow" =>
    verdict # "pass" /\ found = 0 /\ \A i \in DOMAIN results : results[i].actual_alerts = 0

\* The rules the stream was made for: one chain, the three steps of which fit
\* powershell -enc, rundll32 and WmiPrvSE and no other event of it.
StreamRules ==
  /\ DOMAIN Chains = {1} /\ Len(Chains[1].steps) = 3
  /\ \A k \in 1 .. 3, n \in DOMAIN Stream : Fits(Chains[1].steps[k], Stream[n]) <=> (n - 1) % 4 = k

\* "Every 4th event is a complete LOLbin chain (triggering an alert)": a stream
\* of n events completes n \div 4 chains, for the chain it was made for.
StreamAlerts ==
  pc = "join" /\ rules_dir = "whole" /\ StreamRules => found = Count \div 4

\* Although stop does not wait for the thread for ever, at most one sample is
\* taken after it was asked to end; so the mean of the CPU and the peak of the
\* memory rest on the same samples, or on all but that one.
OneLateSample ==
  /\ stop => samples <= atStop + 1
  /\ pc = "bench" => mems - cpus \in {0, 1}

\* The report comes to an end, even if the sampler's thread is held up, since
\* no fixture has a cycle of parents.
ReportEnds == <>(pc = "done")
============================================================================
