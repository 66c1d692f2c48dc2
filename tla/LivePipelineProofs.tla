------------------------- MODULE LivePipelineProofs -------------------------
(* Proofs about LivePipeline: for every ring, any rules and any number of  *)
(* callbacks, script blocks and requests.                                  *)
EXTENDS LivePipeline, RingBufProofs

----------------------------------------------------------------------------
(* The composition is made of its parts *)

\* What the pipeline does to the ring is what the ring does by itself.
LEMMA RingStep == [PipelineNext]_pipeline => [Next]_vars
<1>1. ASSUME Read PROVE Next
  <2>1. MaxRequest \in 0 .. MaxRequest
    BY BoundsAssumption
  <2> QED
    BY <1>1, <2>1 DEF Read, Next
<1>2. Stats => Next
  BY DEF Stats, Next
<1> QED
  BY <1>1, <1>2 DEF PipelineNext, DriverAlone, AgentAlone, pipeline

\* What it does to the agent is a step of the agent, or none.
LEMMA AgentStep == [PipelineNext]_pipeline => [Agent!Next]_(Agent!vars)
<1>1. Read => Agent!Next
  BY DEF Read, Agent!Next, Agent!AgentStep, Agent!DriverReply
<1>2. Stats => Agent!Next
  BY DEF Stats, Agent!Next, Agent!AgentStep, Agent!DriverReply
<1>3. AgentAlone => Agent!Next
  BY DEF AgentAlone, Agent!Next, Agent!AgentStep
<1>4. UNCHANGED agent => UNCHANGED Agent!vars
  BY DEF agent, Agent!vars, Agent!Setting, Agent!Queues, Agent!Sources, Agent!Results
<1> QED
  BY <1>1, <1>2, <1>3, <1>4 DEF PipelineNext, DriverAlone, pipeline

\* Whatever holds of the ring by itself holds of the ring under the agent.
THEOREM RingInPipeline == PipelineSpec => Spec
BY RingStep, PTL DEF PipelineSpec, PipelineInit, Spec

\* Whatever holds of the agent against any driver holds of it on this one.
THEOREM AgentInPipeline == PipelineSpec => Agent!Spec
<1>1. PipelineInit => Agent!Init
  BY DEF PipelineInit
<1> QED
  BY <1>1, AgentStep, PTL DEF PipelineSpec, Agent!Spec

----------------------------------------------------------------------------
(* The inductive invariant.  That the agent is handed no record needs the  *)
(* ring to look empty; that it ingests none needs it never to be at a      *)
(* place of the loop it reaches only with an event in its hands.           *)

EmptyHanded ==
  /\ mode # "replay"
  /\ pc \in {"load", "start", "open", "ioctl", "stats", "sleep", "finally", "done"}
  /\ captured \in Nat

Blind == LooksEmpty /\ EmptyHanded /\ LiveIsBlind

LEMMA BlindInit == PipelineInit => Blind
BY LooksEmptyInit DEF PipelineInit, Agent!Init, Blind, EmptyHanded, LiveIsBlind

\* A request of the agent returns no record.
LEMMA ReadIsEmpty ==
  ASSUME Blind, Read
  PROVE  reply'.records = <<>> /\ received' = received /\ Agent!ReadNothing
<1>1. MaxRecords(MaxRequest, MaxRequest) \in Nat
  BY BoundsAssumption DEF MaxRecords
<1>2. Batch(MaxRecords(MaxRequest, MaxRequest)) = <<>>
  BY <1>1, EmptyBatch DEF Blind, LooksEmpty
<1>3. reply'.records = <<>>
  BY <1>2 DEF Read, ReadEvents
<1>4. received' = received
  BY <1>3 DEF Read, Blind, LiveIsBlind
<1> QED
  BY <1>3, <1>4 DEF Read

LEMMA BlindStep == Blind /\ [PipelineNext]_pipeline => Blind'
<1> SUFFICES ASSUME Blind, [PipelineNext]_pipeline
             PROVE  EmptyHanded' /\ LiveIsBlind'
  BY RingStep, LooksEmptyStep DEF Blind
<1> USE DEF Blind, EmptyHanded, LiveIsBlind
<1> USE DEF Agent!Setting, Agent!Queues, Agent!Sources, Agent!Results, Agent!Etw
<1>1. CASE Read
  BY <1>1, ReadIsEmpty DEF Agent!ReadNothing
<1>2. CASE Stats
  BY <1>2 DEF Stats, Agent!ReadStats, Agent!Leave
<1>3. CASE Agent!OnEvent
  <2>1. events' = Append(events, Agent!Etw(captured + 1)) /\ captured' = captured + 1
    BY <1>3 DEF Agent!OnEvent
  <2>2. events' = [n \in 1 .. captured' |-> Agent!Etw(n)]
    BY <2>1
  <2> QED
    BY <1>3, <2>1, <2>2 DEF Agent!OnEvent
<1>4. CASE Agent!CaptureFails \/ Agent!Interrupt
  BY <1>4 DEF Agent!CaptureFails, Agent!Interrupt, Agent!Leave
<1>5. CASE Agent!OwnStep
  BY <1>5 DEF Agent!OwnStep, Agent!LoadChains, Agent!StartFails, Agent!StartStats,
    Agent!StatsOfReplay, Agent!StartReplay, Agent!StartLive, Agent!Stop, Agent!OpenFails, Agent!Open,
    Agent!ReadFails, Agent!Wake, Agent!Yield, Agent!EntryRaises, Agent!ReadAgain,
    Agent!ReplayComplete, Agent!Ingest, Agent!IngestRaises, Agent!IngestLoops,
    Agent!WriteAlert, Agent!WriteFails, Agent!Generate, Agent!EventDone,
    Agent!PollCopy, Agent!PollClear, Agent!NextScriptBlock,
    Agent!NoMoreScriptBlocks, Agent!Leave
<1>6. CASE DriverAlone \/ UNCHANGED pipeline
  BY <1>6 DEF DriverAlone, pipeline, agent
<1> QED
  BY <1>1, <1>2, <1>3, <1>4, <1>5, <1>6 DEF PipelineNext, AgentAlone

\* For every ring and every set of rules, a live run hands the engine nothing.
THEOREM LiveDetectsNothing == PipelineSpec => []LiveIsBlind
<1>1. Blind => LiveIsBlind
  BY DEF Blind
<1> QED
  BY <1>1, BlindInit, BlindStep, PTL DEF PipelineSpec
============================================================================
