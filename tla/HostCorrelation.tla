-------------------------- MODULE HostCorrelation --------------------------
(***************************************************************************)
(* The correlation engine fed by a host: processes start, act and exit,    *)
(* and the engine ingests what the producers report of them, each event in *)
(* order, as a replay of recorded telemetry does.  procs and truth are     *)
(* what really happened, which the engine can only infer from PIDs and     *)
(* from texts that may be missing or cut short.  Of processes that ran     *)
(* before the driver, or whose record was dropped, it is told nothing, and *)
(* a process may be given another parent than the one that created it.     *)
(* The producers are driver/NullTracerDrv/callbacks.c, whose records       *)
(* unpack_batch of agent/nulltracer_agent.py turns into events, and        *)
(* agent/etw_consumer.py.                                                  *)
(***************************************************************************)
EXTENDS CorrelationEngine

CONSTANTS
  Pids,          \* PIDs the host hands out
  Images,        \* pairs <<image path, command line>> a process may be run as
  Targets,       \* images a process may load and registry keys it may set
  Cut,           \* texts too long for their field -> the part that fits into it
  MaxLosses,     \* bound of the model: reports that lack something
  MaxUnreported, \* bound of the model: processes the engine is not told of
  ReusePids,     \* whether the PID of an exited process may be handed out again
  Spoofing       \* whether a creator may name another process as the parent

ASSUME HostAssumption ==
  /\ Pids \subseteq Nat \ {0} /\ Pids # {} /\ {ReusePids, Spoofing} \subseteq BOOLEAN
  /\ MaxUnreported \in Nat \ {0}

VARIABLES
  procs,   \* every process of the host, each a HostProcess
  alive,   \* indices of the processes that have not exited
  truth    \* what each event of history is about: [actor, event], the process
           \* and the event as it would be reported without any loss

host == <<procs, alive, truth>>
hostVars == <<vars, host>>

----------------------------------------------------------------------------
(* Telemetry *)

Telemetry(type, pid, ppid, image, cmd, key) ==
  [event_type |-> type, pid |-> pid, ppid |-> ppid, image_path |-> image,
   command_line |-> cmd, registry_key |-> key]

\* _CopyUnicodeStringSafe
Copied(text) == IF text \in DOMAIN Cut THEN Cut[text] ELSE text

\* _ReadCommandLine: nothing if the process or its parameters are out of reach.
ReadCommandLine(text) == {None, Copied(text)}

\* A name the kernel may leave out.
Given(text) == {None, Copied(text)}

CreateEvent(pid, ppid, run) ==
  Telemetry("ProcessCreate", pid, ppid, run[1], run[2], None)

\* ParentProcessId is 0, which becomes no ppid.
LoadEvent(pid, target) == Telemetry("ImageLoad", pid, None, target, None, None)

\* Only the pid and the key are filled in.
SetEvent(pid, target) == Telemetry("RegistrySet", pid, None, None, None, target)

\* What NullTracerCreateProcessCallback may report of a creation, and the other
\* callbacks of a load and of a key that is set.
CreateReports(e) ==
  {Telemetry("ProcessCreate", e.pid, e.ppid, image, cmd, None) :
     image \in Given(e.image_path), cmd \in ReadCommandLine(e.command_line)}

LoadReports(e) == {[e EXCEPT !.image_path = image] : image \in Given(e.image_path)}

SetReports(e) == {[e EXCEPT !.registry_key = key] : key \in Given(e.registry_key)}

\* EtwConsumer._on_event: a script block passes for a process creation.
ScriptEvent(pid, text) ==
  Telemetry("ProcessCreate", pid, None, "powershell.exe", text, None)

\* The engine takes whatever the producers may report.
ASSUME ReportAssumption ==
  /\ \A p, q \in Pids, run \in Images : CreateReports(CreateEvent(p, q, run)) \subseteq EventSpace
  /\ \A p \in Pids, x \in Targets :
       LoadReports(LoadEvent(p, x)) \cup SetReports(SetEvent(p, x)) \subseteq EventSpace
  /\ \A p \in Pids, run \in Images : run[2] # None => ScriptEvent(p, run[2]) \in EventSpace

\* What the beginning of a text contains, the text contains too, and nothing but
\* an empty value is contained in a text that is not there.
ASSUME TextAssumption ==
  \A pair \in Within : \A text \in Targets \cup {run[1] : run \in Images} \cup {run[2] : run \in Images} :
    pair[2] \in Given(text) => <<pair[1], text>> \in Within

----------------------------------------------------------------------------
(* The host *)

\* parent is what Windows keeps and the callback is given, creator who it was;
\* both are indices of procs, 0 for a process that had exited before.
HostProcess == [pid : Pids, parent : Nat, creator : Nat, reported : BOOLEAN]

\* Each process is younger than its parent and its creator.
Younger(ps, q) ==
  /\ ps[q].parent \in 0 .. q - 1 /\ ps[q].creator \in 0 .. q - 1
  /\ ps[q].parent # ps[q].creator => Spoofing

Used(ps) == {ps[q].pid : q \in DOMAIN ps}

\* The code only compares PIDs for equality, so the host hands out the lowest of
\* those it has not used yet.
New(ps, p) == p \notin Used(ps) /\ \A r \in Pids : r < p => r \in Used(ps)

Free(p) ==
  \/ New(procs, p)
  \/ ReusePids /\ p \in Used(procs) /\ \A q \in alive : procs[q].pid # p

Unreported == Cardinality({q \in DOMAIN procs : ~ procs[q].reported})

Losses == Cardinality({i \in DOMAIN truth : history[i] # truth[i].event})

\* Process q does e, and the engine is given one of the reports.
Report(q, e, reports) ==
  /\ \E r \in reports : (r # e => Losses < MaxLosses) /\ Receive(r)
  /\ truth' = Append(truth, [actor |-> q, event |-> e])

Child(p, parent, creator, reported) ==
  [pid |-> p, parent |-> parent, creator |-> creator, reported |-> reported]

\* Process q creates one with parent r, itself unless it spoofs.  The record of
\* it may be dropped by a full ring.
Spawn(q, r, p, run) ==
  /\ Free(p) /\ (r # q => Spoofing)
  /\ \/ /\ LET e == CreateEvent(p, procs[r].pid, run)
           IN  Report(Len(procs) + 1, e, CreateReports(e))
        /\ procs' = Append(procs, Child(p, r, q, TRUE))
     \/ /\ Unreported < MaxUnreported
        /\ procs' = Append(procs, Child(p, r, q, FALSE))
        /\ UNCHANGED <<vars, truth>>
  /\ alive' = alive \cup {Len(procs) + 1}

\* The callback ignores terminations: the engine never hears of an exit.  The
\* first process stands for the part of the system that outlives the session.
Exit(q) ==
  /\ q # 1
  /\ alive' = alive \ {q}
  /\ UNCHANGED <<vars, procs, truth>>

Load(q, x) == LET e == LoadEvent(procs[q].pid, x) IN Report(q, e, LoadReports(e))

Set(q, x) == LET e == SetEvent(procs[q].pid, x) IN Report(q, e, SetReports(e))

RunScript(q, text) == LET e == ScriptEvent(procs[q].pid, text) IN Report(q, e, {e})

Act(q) ==
  /\ \/ \E x \in Targets : Load(q, x) \/ Set(q, x)
     \/ \E run \in {r \in Images : r[2] # None} : RunScript(q, run[2])
  /\ UNCHANGED <<procs, alive>>

\* What may run when the driver is loaded: a forest the engine knows nothing of.
Forests ==
  {f \in UNION {[1 .. n -> [pid : Pids, parent : 0 .. n - 1, creator : 0 .. n - 1,
                           reported : {FALSE}]] : n \in 1 .. MaxUnreported} :
     \A q \in DOMAIN f : Younger(f, q) /\ New(SubSeq(f, 1, q - 1), f[q].pid)}

HostInit ==
  /\ Init
  /\ procs \in Forests
  /\ alive = DOMAIN procs /\ truth = <<>>

HostNext ==
  /\ status = "running" /\ Len(history) < MaxEvents
  /\ \E q \in alive :
       \/ \E r \in alive, p \in Pids, run \in Images : Spawn(q, r, p, run)
       \/ Exit(q)
       \/ Act(q)

HostSpec == HostInit /\ [][HostNext]_hostVars

\* The recorded events keep coming until the last: the loop over the reader
\* in run_agent takes the next one whenever the call of ingest has returned.
FairHostSpec == HostSpec /\ WF_hostVars(HostNext)

----------------------------------------------------------------------------
(* Properties *)

HostTypeOK ==
  /\ TypeOK
  /\ procs \in Seq(HostProcess)
  /\ \A q \in DOMAIN procs : Younger(procs, q) /\ (procs[q].reported => procs[q].parent # 0)
  /\ alive \subseteq DOMAIN procs /\ 1 \in alive
  /\ Len(truth) = Len(history)
  /\ \A i \in DOMAIN truth : truth[i].actor \in DOMAIN procs /\ truth[i].event.pid = history[i].pid

\* The parents Windows keeps, whoever named them.
Claimed == [q \in DOMAIN procs |-> procs[q].parent]

\* The creators, of the processes the engine was told of with them as parents.
Visible ==
  [q \in DOMAIN procs |->
     IF procs[q].reported /\ procs[q].parent = procs[q].creator THEN procs[q].creator ELSE 0]

\* Each event after the first is of a process that descends from that of an
\* earlier one, or of the same.
InFamily(tree, pos) ==
  \A i \in 2 .. Len(pos) : \E j \in 1 .. i - 1 :
    OnTheWayUp(tree, truth[pos[i]].actor, truth[pos[j]].actor)

Happened == [i \in DOMAIN truth |-> truth[i].event]

\* "must be spawned by a process in the chain": every alert, and every
\* partial match, follows the parenthood of processes and not a coincidence of
\* PIDs.  A parent is who Windows says, as the creator may have named another.
LineageGenuine == \A t \in Tracks : InFamily(Claimed, t.matched_events)

Optional == {"command_line", "registry_key"}

\* What process did in event i fits the step, but for conditions on a command
\* line or a key of which nothing was reported.
FitsButUnread(step, i) ==
  /\ Happened[i].event_type = step.event_type
  /\ \A field \in DOMAIN step.conditions \cap Conditioned :
       FieldRejects(field, step.conditions[field], Happened[i]) =>
         field \in Optional /\ history[i][field] = None

\* Every alert, and every partial match, rests on what processes of one family
\* really did: all a step asks is true of its event, or cannot be known since
\* the command line or the key was not reported.  A text that was cut, an image
\* path that is missing or a process beside the chain never makes up for it.
AlertsAreBacked ==
  \A t \in Tracks :
    /\ InFamily(Claimed, t.matched_events)
    /\ \A k \in DOMAIN t.matched_events : FitsButUnread(StepsOf(t)[k], t.matched_events[k])

\* The image path was reported, and no text was cut.
Told(i) ==
  /\ history[i].image_path = Happened[i].image_path
  /\ \A field \in Optional : history[i][field] \in {None, Happened[i][field]}

\* An attack is not missed if it goes from creator to created by way of
\* processes the engine was told of, under their creators: there is an alert
\* that begins with its first event and was raised no later than its last,
\* whatever else the host did in between, what parents were spoofed elsewhere
\* and what ran before, even if processes of the chain had exited and command
\* lines or keys of its events could not be read.
NoVisibleAttackMissed ==
  status = "running" =>
    \A c \in DOMAIN Chains \ Malformed(Chains) : \A pos \in Positions(history, c) :
      InOrder(Happened, c, pos) /\ InFamily(Visible, pos) /\ (\A i \in Range(pos) : Told(i)) =>
        \E t \in alerts : /\ t.chain = c /\ Start(t) = pos[1]
                          /\ t.matched_events[Len(pos)] <= pos[Len(pos)]

\* Every event of a recording is processed: no call of ingest keeps the
\* replay from reaching its last event ("Processed all events").
ReplayCompletes == <>(Len(history) = MaxEvents /\ status = "running")
============================================================================
