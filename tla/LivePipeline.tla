---------------------------- MODULE LivePipeline ----------------------------
(***************************************************************************)
(* The agent on the driver: its requests are answered by the ring, which   *)
(* the callbacks fill and which other clients of the device read as well.  *)
(* The agent runs live, or with --stats; a replay needs no driver.         *)
(***************************************************************************)
EXTENDS RingBuf

CONSTANTS RuleDirs, Unparsable, Mentions, AlertLists, MaxEtw  \* see AgentLoop

VARIABLES
  mode, chains, pc, exit, session, batch, events, polled, event, alerts,
  captured, heard, ingested, raised, log, rules,  \* see AgentLoop
  received  \* history: the records the agent was handed

\* The agent numbers the records it gets; DriverEventReader asks for a whole
\* batch with a buffer that holds one.
Agent ==
  INSTANCE AgentLoop
    WITH delivered <- received, BatchSize <- MaxRequest, MaxKernel <- MaxCallbacks

agent == <<mode, chains, pc, exit, session, batch, events, polled, event, alerts,
           received, captured, heard, ingested, raised, log, rules>>

pipeline == <<vars, agent>>

PipelineInit == Init /\ Agent!Init /\ mode # "replay"

\* Callbacks, and other clients of the device.
DriverAlone == Next /\ UNCHANGED agent

\* A request of read_events takes what the ring has.
Read ==
  /\ ReadEvents(MaxRequest, MaxRequest)
  /\ received' = received + Len(reply'.records)
  /\ IF reply'.records = <<>> THEN Agent!ReadNothing ELSE Agent!ReadBatch

Stats == GetStats /\ Agent!ReadStats

\* The agent's own steps, the ETW thread and the user leave the ring alone.
AgentAlone ==
  /\ Agent!OwnStep \/ Agent!Interrupt \/ Agent!OnEvent \/ Agent!CaptureFails
  /\ UNCHANGED vars

PipelineNext == DriverAlone \/ Read \/ Stats \/ AgentAlone

PipelineSpec == PipelineInit /\ [][PipelineNext]_pipeline

----------------------------------------------------------------------------
(* Properties *)

\* A live run detects nothing whatever happens on the host: the ring hands out
\* no record, without a record script blocks are not polled, and so not one
\* event reaches the engine, no alert is logged and no rule written, while the
\* script blocks pile up in the list of the ETW consumer.
LiveIsBlind ==
  /\ received = 0 /\ ingested = <<>> /\ polled = <<>>
  /\ log = <<>> /\ rules = <<>>
  /\ events = [n \in 1 .. captured |-> Agent!Etw(n)]
============================================================================
