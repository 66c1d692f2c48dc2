----------------------------- MODULE AgentLoop -----------------------------
(***************************************************************************)
(* The agent (run_agent of agent/nulltracer_agent.py) with the ETW         *)
(* consumer of agent/etw_consumer.py beside it: chains are loaded, events  *)
(* come from the driver in batches and from ETW on a thread of its own,    *)
(* each is given to the engine, and each alert is logged and answered by a *)
(* rule.  With --stats the agent asks the driver for its totals and ends.  *)
(*                                                                         *)
(* The driver hands out any batches, the engine any alerts (see RingBuf    *)
(* and CorrelationEngine for what they really do).  Every file operation   *)
(* and every device request may fail, and the user may press Ctrl+C        *)
(* between any two steps once the loop has begun.                          *)
(***************************************************************************)
EXTENDS Naturals, Sequences, SequencesExt, FiniteSets

CONSTANTS
  RuleDirs,    \* what --rules may name: sequences of the ids of its files
  Unparsable,  \* in place of the id of a file parse_chain_yaml raises on
  Mentions,    \* Mentions[id]: the ids that occur in the text of its alerts
  AlertLists,  \* what one call of engine.ingest may return, chains by place
  BatchSize,   \* bound of the model: records of one batch (256 in the code)
  MaxKernel,   \* bound of the model: events the driver or the recording has
  MaxEtw       \* bound of the model: script blocks captured

ASSUME ChainAssumption ==
  \A dir \in RuleDirs :
    dir \in Seq(Range(dir)) /\ \A id \in Range(dir) \ {Unparsable} : id \in Mentions[id]

ASSUME AlertAssumption == AlertLists \subseteq Seq(Nat \ {0}) /\ <<>> \in AlertLists

ASSUME BoundAssumption == {BatchSize, MaxKernel, MaxEtw} \subseteq Nat \ {0}

VARIABLES
  mode,       \* "live", "replay" or "stats"
  chains,     \* the ids of the chains _load_chains has returned
  pc,         \* where the agent's thread is
  exit,       \* "none" while the loop runs, then why it ended
  session,    \* the ETW session: "absent", "running", "failed", "stopped"
  batch,      \* records of the last batch, or of the recording, not yielded yet
  events,     \* EtwConsumer._events
  polled,     \* what poll_events has returned and is not processed yet
  event,      \* the argument of _process_event
  alerts,     \* alerts of that event, from the one at hand on
  delivered,  \* history: records the driver has handed out
  captured,   \* history: script blocks the ETW thread has queued
  heard,      \* history: for each, the records ingested and handed out by then
  ingested,   \* history: the events given to the engine
  raised,     \* history: the alerts the engine has returned, as places in chains
  log,        \* the alerts in the alert log, oldest first
  rules       \* history: the chains a rule was written for

Setting == <<mode, chains>>
Queues == <<batch, events, polled>>
Results == <<ingested, raised, log, rules>>
Sources == <<delivered, captured, heard>>
vars == <<Setting, pc, exit, session, Queues, event, alerts, Sources, Results>>

Kernel(n) == [from |-> "kernel", n |-> n]
Etw(n) == [from |-> "etw", n |-> n]

Events == [from : {"kernel", "etw"}, n : Nat]

\* How many of the first n events given to the engine came from a source.
IngestedFrom(source, n) == Cardinality({i \in 1 .. n : ingested[i].from = source})

Given(source) == IngestedFrom(source, Len(ingested))

Recording == [n \in 1 .. MaxKernel |-> Kernel(n)]

----------------------------------------------------------------------------
(* The ETW thread *)

\* Variant: poll_events takes no lock.
Unlocked == FALSE

\* poll_events is between its copy and its clear.
Locked == pc = "clear"

\* _on_event with a script block; anything else it ignores.
OnEvent ==
  /\ session = "running" /\ ~ Locked /\ captured < MaxEtw
  /\ captured' = captured + 1
  /\ events' = Append(events, Etw(captured + 1))
  /\ heard' = Append(heard, [ingested |-> Given("kernel"), delivered |-> delivered])
  /\ UNCHANGED <<Setting, pc, exit, session, batch, polled, event, alerts, delivered, Results>>

\* run_job logs what etw.ETW.start raises, and the thread ends.
CaptureFails ==
  /\ session = "running"
  /\ session' = "failed"
  /\ UNCHANGED <<Setting, pc, exit, Queues, event, alerts, Sources, Results>>

----------------------------------------------------------------------------
(* Starting and ending *)

Init ==
  /\ mode \in {"live", "replay", "stats"} /\ chains = <<>>
  /\ pc = "load" /\ exit = "none" /\ session = "absent"
  /\ batch = <<>> /\ events = <<>> /\ polled = <<>>
  /\ event = Kernel(0) /\ alerts = <<>>
  /\ delivered = 0 /\ captured = 0 /\ heard = <<>>
  /\ ingested = <<>> /\ raised = <<>> /\ log = <<>> /\ rules = <<>>

\* _load_chains skips the files it cannot parse; without a chain the agent ends.
LoadChains ==
  /\ pc = "load"
  /\ \E dir \in RuleDirs :
       LET parsable == {i \in DOMAIN dir : dir[i] # Unparsable}
       IN  \E at \in [1 .. Cardinality(parsable) -> parsable] :
             /\ \A i, j \in DOMAIN at : i < j => at[i] < at[j]
             /\ chains' = [i \in DOMAIN at |-> dir[at[i]]]
  /\ IF chains' = <<>> THEN pc' = "done" /\ exit' = "norules"
                      ELSE pc' = "start" /\ exit' = exit
  /\ UNCHANGED <<mode, session, Queues, event, alerts, Sources, Results>>

\* A directory for the results cannot be made, the recording not be read or
\* etw_consumer.start not make its session: this is before the try.
StartFails ==
  /\ pc = "start"
  /\ pc' = "done" /\ exit' = "crash"
  /\ UNCHANGED <<Setting, session, Queues, event, alerts, Sources, Results>>

StartStats ==
  /\ pc = "start" /\ mode = "stats"
  /\ pc' = "open"
  /\ UNCHANGED <<Setting, exit, session, Queues, event, alerts, Sources, Results>>

StartReplay ==
  /\ pc = "start" /\ mode = "replay"
  /\ pc' = "yield" /\ batch' = Recording /\ delivered' = MaxKernel
  /\ UNCHANGED <<Setting, exit, session, events, polled, event, alerts, captured, heard, Results>>

\* Where pywintrace cannot be imported there is no EtwConsumer.
StartLive ==
  /\ pc = "start" /\ mode = "live"
  /\ session' \in {"absent", "running"}
  /\ pc' = "open"
  /\ UNCHANGED <<Setting, exit, Queues, event, alerts, Sources, Results>>

\* Variant: why the loop ended is forgotten.
LeaveSilently(why) ==
  /\ pc' = IF mode = "live" THEN "finally" ELSE "done"
  /\ UNCHANGED <<Setting, exit, session, Queues, event, alerts, Sources>>

\* What the handlers of the mode make of the reason to end: replay has none,
\* and --stats has one for OSError.
Handled(why) ==
  \/ mode = "live" \/ why = "complete"
  \/ mode = "stats" /\ why = "device"

\* The loop is left; only a live run has a finally.
Leave(why) ==
  /\ exit' = IF Handled(why) THEN why ELSE "crash"
  /\ pc' = IF mode = "live" THEN "finally" ELSE "done"
  /\ UNCHANGED <<Setting, session, Queues, event, alerts, Sources>>

\* With --replay as well, only the path of the recording is printed.
StatsOfReplay ==
  /\ pc = "start" /\ mode = "stats"
  /\ Leave("complete")
  /\ UNCHANGED Results

Stop ==
  /\ pc = "finally"
  /\ pc' = "done"
  /\ session' = IF session = "absent" THEN "absent" ELSE "stopped"
  /\ UNCHANGED <<Setting, exit, Queues, event, alerts, Sources, Results>>

\* Ctrl+C, which also breaks a call of ingest that does not return.
Interrupt ==
  /\ pc \notin {"load", "start", "finally", "done"}
  /\ Leave("user")
  /\ UNCHANGED Results

----------------------------------------------------------------------------
(* DriverEventReader *)

\* The path is missing, or this is not Windows.  Where an invalid handle is
\* not recognised the first request fails instead.
OpenFails ==
  /\ pc = "open"
  /\ \E why \in {"device", "crash"} : Leave(why)
  /\ UNCHANGED Results

Open ==
  /\ pc = "open"
  /\ pc' = IF mode = "stats" THEN "stats" ELSE "ioctl"
  /\ UNCHANGED <<Setting, exit, session, Queues, event, alerts, Sources, Results>>

\* IOCTL_NULLTRACER_READ_EVENTS returns records, the oldest first.
ReadBatch ==
  /\ pc = "ioctl"
  /\ \E n \in 1 .. BatchSize :
       /\ delivered + n <= MaxKernel
       /\ batch' = [i \in 1 .. n |-> Kernel(delivered + i)]
       /\ delivered' = delivered + n
  /\ pc' = "yield"
  /\ UNCHANGED <<Setting, exit, session, events, polled, event, alerts, captured, heard, Results>>

ReadNothing ==
  /\ pc = "ioctl"
  /\ pc' = "sleep"
  /\ UNCHANGED <<Setting, exit, session, Queues, event, alerts, Sources, Results>>

ReadFails == pc \in {"ioctl", "stats"} /\ Leave("device") /\ UNCHANGED Results

\* get_stats: one request, and the totals are printed.
ReadStats == pc = "stats" /\ Leave("complete") /\ UNCHANGED Results

Wake ==
  /\ pc = "sleep"
  /\ pc' = "ioctl"
  /\ UNCHANGED <<Setting, exit, session, Queues, event, alerts, Sources, Results>>

\* The generator yields the next record; after the last it reads again.
Yield ==
  /\ pc = "yield" /\ batch # <<>>
  /\ event' = Head(batch) /\ batch' = Tail(batch) /\ pc' = "ingest"
  /\ UNCHANGED <<Setting, exit, session, events, polled, alerts, Sources, Results>>

ReadAgain ==
  /\ pc = "yield" /\ batch = <<>> /\ mode = "live"
  /\ pc' = "ioctl"
  /\ UNCHANGED <<Setting, exit, session, Queues, event, alerts, Sources, Results>>

\* from_dict raises on an entry of the recording that is no event.
EntryRaises ==
  /\ pc = "yield" /\ batch # <<>> /\ mode = "replay"
  /\ Leave("crash")
  /\ UNCHANGED Results

ReplayComplete ==
  /\ pc = "yield" /\ batch = <<>> /\ mode = "replay"
  /\ Leave("complete")
  /\ UNCHANGED Results

----------------------------------------------------------------------------
(* _process_event *)

Ingest ==
  /\ pc = "ingest"
  /\ ingested' = Append(ingested, event)
  /\ \E list \in AlertLists \cap Seq(DOMAIN chains) : alerts' = list /\ raised' = raised \o list
  /\ pc' = "alerts"
  /\ UNCHANGED <<Setting, exit, session, Queues, event, Sources, log, rules>>

\* A chain without steps makes ingest raise IndexError.
IngestRaises ==
  /\ pc = "ingest"
  /\ ingested' = Append(ingested, event)
  /\ Leave("crash")
  /\ UNCHANGED <<raised, log, rules>>

\* A cycle in process_tree keeps ingest from returning.
IngestLoops ==
  /\ pc = "ingest"
  /\ ingested' = Append(ingested, event)
  /\ pc' = "hung"
  /\ UNCHANGED <<Setting, exit, session, Queues, event, alerts, Sources, raised, log, rules>>

\* Variant: the test for the id is missing.
AnyChain(alert) == 1

\* chain_by_id has the ids in the order of their first chains, each with its
\* last chain; the first id that occurs in the text of the alert is taken.
ChainOf(alert) ==
  LET first == SelectInSeq(chains, LAMBDA d : d \in Mentions[chains[alert]])
  IN  SelectLastInSeq(chains, LAMBDA d : d = chains[first])

\* Variant: the log gets what the rule was made for, after the rule.
RuleFirst ==
  /\ pc = "alerts" /\ alerts # <<>>
  /\ rules' = Append(rules, ChainOf(Head(alerts)))
  /\ pc' = "rule"
  /\ UNCHANGED <<Setting, exit, session, Queues, event, alerts, Sources, ingested, raised, log>>

WriteAlert ==
  /\ pc = "alerts" /\ alerts # <<>>
  /\ log' = Append(log, Head(alerts))
  /\ pc' = "rule"
  /\ UNCHANGED <<Setting, exit, session, Queues, event, alerts, Sources, ingested, raised, rules>>

\* Variant: the failure is caught and the loop goes on to the next alert.
FailureIgnored ==
  /\ pc \in {"alerts", "rule"} /\ alerts # <<>>
  /\ alerts' = Tail(alerts) /\ pc' = "alerts"
  /\ UNCHANGED <<Setting, exit, session, Queues, event, Sources, Results>>

\* An OSError of any file ends a live run as a device error.
WriteFails ==
  /\ pc \in {"alerts", "rule"} /\ alerts # <<>>
  /\ Leave("device")
  /\ UNCHANGED Results

\* generate writes the rule.  Its queries may fail to compile or be written;
\* that is only logged.
Generate ==
  /\ pc = "rule"
  /\ rules' = Append(rules, ChainOf(Head(alerts)))
  /\ alerts' = Tail(alerts)
  /\ pc' = "alerts"
  /\ UNCHANGED <<Setting, exit, session, Queues, event, Sources, ingested, raised, log>>

----------------------------------------------------------------------------
(* Between the events *)

\* Variant: script blocks are not polled.
NeverPolled == IF event.from = "etw" THEN "etw" ELSE "yield"

\* Variant: script blocks are polled once for each batch, at its end.
PolledPerBatch ==
  IF event.from = "etw" THEN "etw"
  ELSE IF session = "absent" \/ batch # <<>> THEN "yield" ELSE "poll"

\* Where the thread goes when an event is dealt with.
AfterEvent ==
  IF event.from = "etw" THEN "etw" ELSE IF session = "absent" THEN "yield" ELSE "poll"

EventDone ==
  /\ pc = "alerts" /\ alerts = <<>>
  /\ pc' = AfterEvent
  /\ UNCHANGED <<Setting, exit, session, Queues, event, alerts, Sources, Results>>

\* poll_events, under the lock.
PollCopy ==
  /\ pc = "poll"
  /\ polled' = events /\ pc' = "clear"
  /\ UNCHANGED <<Setting, exit, session, batch, events, event, alerts, Sources, Results>>

PollClear ==
  /\ pc = "clear"
  /\ events' = <<>> /\ pc' = "etw"
  /\ UNCHANGED <<Setting, exit, session, batch, polled, event, alerts, Sources, Results>>

NextScriptBlock ==
  /\ pc = "etw" /\ polled # <<>>
  /\ event' = Head(polled) /\ polled' = Tail(polled) /\ pc' = "ingest"
  /\ UNCHANGED <<Setting, exit, session, batch, events, alerts, Sources, Results>>

NoMoreScriptBlocks ==
  /\ pc = "etw" /\ polled = <<>>
  /\ pc' = "yield"
  /\ UNCHANGED <<Setting, exit, session, Queues, event, alerts, Sources, Results>>

----------------------------------------------------------------------------
\* What the driver answers a request with.
DriverReply == ReadBatch \/ ReadNothing \/ ReadStats

OwnStep ==
  \/ LoadChains \/ StartFails \/ StartStats \/ StatsOfReplay
  \/ StartReplay \/ StartLive \/ Stop
  \/ OpenFails \/ Open \/ ReadFails \/ Wake
  \/ Yield \/ EntryRaises \/ ReadAgain \/ ReplayComplete
  \/ Ingest \/ IngestRaises \/ IngestLoops
  \/ WriteAlert \/ WriteFails \/ Generate
  \/ EventDone \/ PollCopy \/ PollClear \/ NextScriptBlock \/ NoMoreScriptBlocks

AgentStep == DriverReply \/ OwnStep

Next == AgentStep \/ Interrupt \/ OnEvent \/ CaptureFails

Spec == Init /\ [][Next]_vars

\* The agent's thread goes on as long as it can; nothing is promised of the
\* user, of ETW, or of what the driver hands out.
FairSpec == Spec /\ WF_vars(AgentStep)

----------------------------------------------------------------------------
(* Properties *)

Running == exit = "none" /\ pc # "hung"

\* The thread, the session and the queues fit together: only a live run has an
\* ETW session, without one nothing is queued, and no run goes on that has no
\* chain to look for.
TypeOK ==
  /\ mode \in {"live", "replay", "stats"}
  /\ exit \in {"none", "norules", "complete", "user", "device", "crash"}
  /\ (chains = <<>>) = (pc = "load" \/ exit = "norules")
  /\ (exit = "none") = (pc \notin {"finally", "done"})
  /\ session \in {"absent", "running", "failed", "stopped"}
  /\ mode # "live" => session = "absent"
  /\ session = "absent" => events = <<>> /\ polled = <<>>
  /\ event \in Events /\ (event.from = "etw" => session # "absent")
  /\ pc \in {"ingest", "hung"} => event.n > 0
  /\ pc = "rule" => alerts # <<>>
  /\ {batch, events, polled, ingested} \subseteq Seq(Events)
  /\ {raised, log, rules, alerts} \subseteq Seq(DOMAIN chains)
  /\ delivered \in 0 .. MaxKernel /\ captured \in 0 .. MaxEtw
  /\ heard \in [1 .. captured -> [ingested : 0 .. MaxKernel, delivered : 0 .. MaxKernel]]

\* Every record the driver hands out and every script block the ETW thread
\* queues reaches the engine once and in its order: the n-th it is given of a
\* source is the n-th of that source, and while the loop runs the others are
\* at hand or waiting in exactly one place, none lost and none twice, also
\* while the ETW thread appends during a poll.
EventsOnceInOrder ==
  LET atHand(source) == IF pc = "ingest" /\ event.from = source THEN <<event>> ELSE <<>>
      queued == IF pc = "clear" THEN <<>> ELSE events
      rest(source, total) ==
        [i \in 1 .. total - Given(source) |-> [from |-> source, n |-> Given(source) + i]]
  IN  /\ \A i \in DOMAIN ingested : ingested[i].n = IngestedFrom(ingested[i].from, i)
      /\ Given("kernel") <= delivered /\ Given("etw") <= captured
      /\ Running => /\ atHand("kernel") \o batch = rest("kernel", delivered)
                    /\ atHand("etw") \o polled \o queued = rest("etw", captured)

\* The alert log says what the engine said, in the same order.  Only alerts
\* of the last event can be missing from it, and only when the loop has ended
\* in between; and a rule is written only for an alert that is in the log.
AlertsAccounted ==
  /\ IsPrefix(log, raised) /\ Len(raised) - Len(log) <= Len(alerts)
  /\ Running /\ pc # "rule" => raised = log \o alerts
  /\ Len(rules) <= Len(log) /\ Len(log) <= Len(rules) + 1
  /\ Running /\ pc # "rule" => Len(rules) = Len(log)

\* "Extract chain ID from the alert string and generate Sigma": as long as no
\* id occurs in the alert text of a chain with another id, the rule written for
\* an alert has the id of the chain the alert is about; and where several
\* files give that id, it is the rule of the last one, whichever raised it.
RuleOfItsChain ==
  (\A c, d \in DOMAIN chains : chains[d] \in Mentions[chains[c]] => chains[c] = chains[d]) =>
    \A i \in DOMAIN rules :
      /\ chains[rules[i]] = chains[log[i]]
      /\ \A c \in DOMAIN chains : chains[c] = chains[log[i]] => c <= rules[i]

\* "Replay complete. Processed all events.": then the engine has had the
\* whole recording, and every alert is in the log and has its rule.
CompleteMeansAll ==
  exit = "complete" /\ mode = "replay" =>
    ingested = Recording /\ log = raised /\ Len(rules) = Len(log)

\* The loop takes script blocks between records and not by timestamp.  Still,
\* each reaches the engine at most one record after the moment it was queued,
\* and so before every later record, and it overtakes at most the rest of one
\* batch: the records handed out before it and ingested after it.
BoundedReordering ==
  \A i \in DOMAIN ingested :
    ingested[i].from = "etw" =>
      LET then == heard[ingested[i].n]
          now  == IngestedFrom("kernel", i)
      IN  /\ now <= then.ingested + 1
          /\ then.delivered - now <= BatchSize - 1

Ingested(e) == \E i \in DOMAIN ingested : ingested[i] = e

\* A script block that is queued while records of a batch are still to be
\* yielded reaches the engine without waiting for another batch, unless the
\* loop ends or hangs before.  One that is queued later waits for a record, for
\* ever if the driver hands out none: there is no poll between the batches.
BatchFlushesEtw ==
  \A n \in 1 .. MaxEtw :
    (captured >= n /\ batch # <<>>) ~> (Ingested(Etw(n)) \/ ~ Running)
============================================================================
