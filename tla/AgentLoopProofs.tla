-------------------------- MODULE AgentLoopProofs --------------------------
(***************************************************************************)
(* Proofs about AgentLoop: for every set of directories, every text of the *)
(* alerts, any alerts of the engine and any sizes.  Each part of the       *)
(* inductive invariant is shown with the help of the parts before it.      *)
(***************************************************************************)
EXTENDS AgentLoop, FiniteSetTheorems, SequenceTheorems, WellFoundedInduction, TLAPS

----------------------------------------------------------------------------
(* Types, and where the thread can be *)

Places == {"load", "start", "open", "stats", "ioctl", "sleep", "yield", "ingest",
           "hung", "alerts", "rule", "poll", "clear", "etw", "finally", "done"}

\* Where the thread is and what it has done so far fit together: nothing is
\* captured before a session, a replay sends no request and has the recording,
\* only a live run polls.
Thread ==
  /\ pc \in Places
  /\ pc \in {"load", "start"} => session = "absent" /\ ingested = <<>>
  /\ session = "absent" => captured = 0
  /\ pc \in {"poll", "clear", "etw"} => session # "absent"
  /\ pc \in {"poll", "clear"} => event.from = "kernel"
  /\ pc = "stats" => mode = "stats"
  /\ mode = "replay" => pc \notin {"open", "stats", "ioctl", "sleep"}
  /\ mode = "replay" /\ pc \notin {"load", "start", "done"} => delivered = MaxKernel
  /\ chains \in Seq(Range(chains))
  /\ \A i \in DOMAIN chains : chains[i] \in Mentions[chains[i]]


Typed == TypeOK /\ Thread

LEMMA TypedInit == Init => Typed
<1> SUFFICES ASSUME Init PROVE Typed
  OBVIOUS
<1>1. {batch, events, polled, ingested} \subseteq Seq(Events)
  BY DEF Init
<1>2. {raised, log, rules, alerts} \subseteq Seq(DOMAIN chains)
  BY DEF Init
<1>3. heard \in [1 .. captured -> [ingested : 0 .. MaxKernel, delivered : 0 .. MaxKernel]]
  BY DEF Init
<1>4. TypeOK
  BY <1>1, <1>2, <1>3, BoundAssumption DEF Init, TypeOK, Events, Kernel
<1>5. chains \in Seq(Range(chains)) /\ \A i \in DOMAIN chains : chains[i] \in Mentions[chains[i]]
  BY DEF Init
<1> QED
  BY <1>4, <1>5 DEF Init, Typed, Thread, Places

\* Every set of natural numbers that is not empty has a least element.
LEMMA LeastOf ==
  ASSUME NEW T \in SUBSET Nat, T # {}
  PROVE  \E x \in T : \A y \in T : x <= y
<1> DEFINE R == OpToRel(<, Nat)
<1>1. IsWellFoundedOn(R, Nat) /\ \A x, y \in Nat : <<y, x>> \in R <=> y < x
  BY NatLessThanWellFounded DEF OpToRel
<1> HIDE DEF R
<1>2. PICK x \in T : \A y \in T : ~ (<<y, x>> \in R)
  BY <1>1, WFMin
<1>3. \A y \in T : x \in Nat /\ y \in Nat /\ ~ (y < x)
  BY <1>1, <1>2
<1>4. \A y \in T : x <= y
  BY <1>3
<1> QED
  BY <1>4

\* The first and the last place of a sequence that a set of places has.
LEMMA MinOfPlaces ==
  ASSUME NEW n \in Nat, NEW T \in SUBSET (1 .. n), T # {}
  PROVE  Min(T) \in T
<1>1. \E x \in T : \A y \in T : x <= y
  BY LeastOf
<1> QED
  BY <1>1 DEF Min

LEMMA MaxOfPlaces ==
  ASSUME NEW n \in Nat, NEW T \in SUBSET (1 .. n), T # {}
  PROVE  Max(T) \in T /\ \A y \in T : y <= Max(T)
<1> DEFINE U == {n - x : x \in T}
<1>1. U \in SUBSET Nat /\ U # {}
  <2>1. \A x \in T : n - x \in Nat
    OBVIOUS
  <2> QED
    BY <2>1
<1> HIDE DEF U
<1>2. PICK u \in U : \A v \in U : u <= v
  BY <1>1, LeastOf
<1>3. PICK x \in T : u = n - x
  BY DEF U
<1>4. ASSUME NEW y \in T
      PROVE  y <= x
  <2>1. n - y \in U
    BY DEF U
  <2>2. n - x <= n - y
    BY <1>2, <1>3, <2>1
  <2> QED
    BY <2>2
<1>5. \E z \in T : \A y \in T : y <= z
  BY <1>4
<1> QED
  BY <1>5 DEF Max

\* ChainOf finds the first id that the alert mentions, and its last chain.
LEMMA ChainFound ==
  ASSUME Thread, NEW a \in DOMAIN chains
  PROVE  /\ ChainOf(a) \in DOMAIN chains
         /\ chains[ChainOf(a)] \in Mentions[chains[a]]
         /\ \A c \in DOMAIN chains : chains[c] = chains[ChainOf(a)] => c <= ChainOf(a)
<1>1. Len(chains) \in Nat /\ DOMAIN chains = 1 .. Len(chains)
  BY DEF Thread
<1> DEFINE T == {i \in 1 .. Len(chains) : chains[i] \in Mentions[chains[a]]}
           first == SelectInSeq(chains, LAMBDA d : d \in Mentions[chains[a]])
           U == {i \in 1 .. Len(chains) : chains[i] = chains[first]}
<1>2. a \in T
  BY <1>1 DEF Thread
<1>3. first = Min(T)
  BY <1>2 DEF SelectInSeq
<1>4. first \in T
  BY <1>1, <1>2, <1>3, MinOfPlaces
<1> HIDE DEF first
<1>5. first \in U
  BY <1>4
<1>6. Max(U) \in U /\ \A c \in U : c <= Max(U)
  BY <1>1, <1>5, MaxOfPlaces
<1>7. ChainOf(a) = Max(U)
  BY <1>5 DEF ChainOf, SelectLastInSeq, first
<1> QED
  BY <1>1, <1>4, <1>6, <1>7

\* What _load_chains returns are chains that have their own id.
LEMMA LoadedChains ==
  ASSUME LoadChains
  PROVE  /\ chains' \in Seq(Range(chains'))
         /\ (\A i \in DOMAIN chains : chains[i] \in Mentions[chains[i]])'
<1>1. PICK dir \in RuleDirs :
        \E at \in [1 .. Cardinality({i \in DOMAIN dir : dir[i] # Unparsable})
                    -> {i \in DOMAIN dir : dir[i] # Unparsable}] :
          chains' = [i \in DOMAIN at |-> dir[at[i]]]
  BY DEF LoadChains
<1> DEFINE parsable == {i \in DOMAIN dir : dir[i] # Unparsable}
           n == Cardinality(parsable)
<1>2. dir \in Seq(Range(dir)) /\ \A id \in Range(dir) \ {Unparsable} : id \in Mentions[id]
  BY ChainAssumption
<1>3. n \in Nat
  <2>1. Len(dir) \in Nat /\ DOMAIN dir = 1 .. Len(dir)
    BY <1>2
  <2>2. IsFiniteSet(DOMAIN dir)
    BY <2>1, FS_Interval
  <2> QED
    BY <2>2, FS_Subset, FS_CardinalityType
<1>4. PICK at \in [1 .. n -> parsable] : chains' = [i \in 1 .. n |-> dir[at[i]]]
  BY <1>1
<1> HIDE DEF n
<1>5. \A i \in 1 .. n : chains'[i] \in Range(dir) \ {Unparsable}
  BY <1>4 DEF Range
<1>6. \A i \in 1 .. n : chains'[i] \in Range(chains')
  BY <1>4 DEF Range
<1>7. chains' \in [1 .. n -> Range(chains')]
  BY <1>4, <1>6
<1>8. chains' \in Seq(Range(chains'))
  BY <1>3, <1>7
<1>9. DOMAIN chains' = 1 .. n
  BY <1>4
<1> QED
  BY <1>2, <1>5, <1>8, <1>9

\* An action that leaves the sources, the queues, the alerts and the results.
Quiet == UNCHANGED <<mode, chains, Queues, event, alerts, Sources, Results>>

LEMMA QuietIsTyped ==
  ASSUME Typed, Quiet,
         \/ StartFails \/ StartStats \/ StatsOfReplay \/ StartLive \/ Stop
         \/ OpenFails \/ Open \/ ReadFails \/ Wake \/ EntryRaises \/ ReadAgain
         \/ ReplayComplete \/ WriteFails \/ EventDone \/ NoMoreScriptBlocks
         \/ ReadNothing \/ ReadStats \/ Interrupt \/ CaptureFails
  PROVE  Typed'
<1>1. /\ {batch, events, polled, ingested}' \subseteq Seq(Events)
      /\ {raised, log, rules, alerts}' \subseteq Seq(DOMAIN chains)'
      /\ heard' \in [1 .. captured -> [ingested : 0 .. MaxKernel, delivered : 0 .. MaxKernel]]'
      /\ event' \in Events /\ delivered' \in 0 .. MaxKernel /\ captured' \in 0 .. MaxEtw
  BY DEF Quiet, Queues, Sources, Results, Typed, TypeOK
<1>2. /\ chains' \in Seq(Range(chains'))
      /\ (\A i \in DOMAIN chains : chains[i] \in Mentions[chains[i]])'
  BY DEF Quiet, Typed, Thread
<1>3. TypeOK'
  <2> USE DEF Quiet, Queues, Sources, Typed, TypeOK, Thread, StartFails, StartStats,
      StatsOfReplay, StartLive, Stop, OpenFails, Open, ReadFails, Wake, EntryRaises,
      ReadAgain, ReplayComplete, WriteFails, EventDone, NoMoreScriptBlocks, ReadNothing,
      ReadStats, Interrupt, CaptureFails, Leave, Handled, AfterEvent
  <2>1. (exit \in {"none", "norules", "complete", "user", "device", "crash"})'
    OBVIOUS
  <2>2. ((chains = <<>>) = (pc = "load" \/ exit = "norules"))'
    OBVIOUS
  <2>3. ((exit = "none") = (pc \notin {"finally", "done"}))'
    OBVIOUS
  <2>4. (session \in {"absent", "running", "failed", "stopped"})'
    OBVIOUS
  <2>5. (mode # "live" => session = "absent")'
    OBVIOUS
  <2>6. (session = "absent" => events = <<>> /\ polled = <<>>)'
    OBVIOUS
  <2>7. (event.from = "etw" => session # "absent")'
    OBVIOUS
  <2>8. (pc \in {"ingest", "hung"} => event.n > 0)' /\ (pc = "rule" => alerts # <<>>)'
    OBVIOUS
  <2> QED
    BY <1>1, <2>1, <2>2, <2>3, <2>4, <2>5, <2>6, <2>7, <2>8
<1>4. Thread'
  <2> USE DEF Quiet, Queues, Sources, Typed, TypeOK, Thread, StartFails, StartStats,
      StatsOfReplay, StartLive, Stop, OpenFails, Open, ReadFails, Wake, EntryRaises,
      ReadAgain, ReplayComplete, WriteFails, EventDone, NoMoreScriptBlocks, ReadNothing,
      ReadStats, Interrupt, CaptureFails, Leave, Handled, AfterEvent
  <2>1. (pc \in Places)'
    BY DEF Places
  <2>2. (pc \in {"load", "start"} => session = "absent")'
    OBVIOUS
  <2>3. (session = "absent" => captured = 0)'
    OBVIOUS
  <2>4. (pc \in {"poll", "clear", "etw"} => session # "absent")'
    OBVIOUS
  <2>5. (pc \in {"poll", "clear"} => event.from = "kernel")'
    BY DEF Events
  <2>6. (pc = "stats" => mode = "stats")'
    OBVIOUS
  <2>7. (mode = "replay" => pc \notin {"open", "stats", "ioctl", "sleep"})'
    OBVIOUS
  <2>8. (mode = "replay" /\ pc \notin {"load", "start", "done"} => delivered = MaxKernel)'
    OBVIOUS
  <2> QED
    BY <1>2, <2>1, <2>2, <2>3, <2>4, <2>5, <2>6, <2>7, <2>8
<1> QED
  BY <1>3, <1>4 DEF Typed

\* Head and Tail of a sequence that is not empty, element by element.
LEMMA HeadAndTail ==
  ASSUME NEW S, NEW q \in Seq(S), q # <<>>
  PROVE  /\ Head(q) \in S /\ Head(q) = q[1] /\ Tail(q) \in Seq(S)
         /\ Len(q) \in Nat \ {0} /\ Len(Tail(q)) = Len(q) - 1
         /\ \A i \in 1 .. Len(q) - 1 : Tail(q)[i] = q[i + 1]
BY HeadTailProperties, EmptySeq, LenProperties

LEMMA LoadIsTyped ==
  ASSUME Typed, LoadChains
  PROVE  Typed'
<1>1. /\ mode' = mode /\ session' = session /\ UNCHANGED <<batch, events, polled, event, alerts>>
      /\ delivered' = delivered /\ captured' = captured /\ heard' = heard
      /\ ingested' = ingested /\ raised' = raised /\ log' = log /\ rules' = rules
      /\ pc = "load" /\ IF chains' = <<>> THEN pc' = "done" /\ exit' = "norules"
                                        ELSE pc' = "start" /\ exit' = exit
  BY DEF LoadChains, Queues, Sources, Results
<1>2. chains = <<>> /\ session = "absent" /\ exit = "none"
  BY <1>1 DEF Typed, TypeOK, Thread
<1>3. \A q \in {raised, log, rules, alerts} : q = <<>>
  <2>1. \A q \in {raised, log, rules, alerts} : q \in Seq({})
    BY <1>2 DEF Typed, TypeOK
  <2> QED
    BY <2>1
<1>4. {raised, log, rules, alerts}' \subseteq Seq(DOMAIN chains)'
  BY <1>1, <1>3
<1>5. TypeOK'
  BY <1>1, <1>2, <1>4 DEF Typed, TypeOK
<1>6. Thread'
  BY <1>1, <1>2, LoadedChains DEF Typed, Thread, Places
<1> QED
  BY <1>5, <1>6 DEF Typed

LEMMA ReplayIsTyped ==
  ASSUME Typed, StartReplay
  PROVE  Typed'
<1>1. Recording \in Seq(Events)
  <2>1. \A n \in 1 .. MaxKernel : Kernel(n) \in Events
    BY BoundAssumption DEF Kernel, Events
  <2> QED
    BY <2>1, BoundAssumption DEF Recording
<1>2. TypeOK'
  BY <1>1, BoundAssumption DEF Typed, TypeOK, Thread, StartReplay, Setting, Results
<1>3. Thread'
  BY DEF Typed, TypeOK, Thread, Places, StartReplay, Setting, Results
<1> QED
  BY <1>2, <1>3 DEF Typed

\* What the engine was given so far is counted by a natural number.
LEMMA CountType ==
  ASSUME NEW n \in Nat, NEW source
  PROVE  IngestedFrom(source, n) \in Nat /\ IngestedFrom(source, n) <= n
<1>1. IsFiniteSet(1 .. n) /\ Cardinality(1 .. n) = n
  BY FS_Interval
<1> QED
  BY <1>1, FS_Subset, FS_CardinalityType DEF IngestedFrom

LEMMA CaptureIsTyped ==
  ASSUME Typed, OnEvent, Given("kernel") <= delivered
  PROVE  Typed'
<1>1. Given("kernel") \in 0 .. MaxKernel
  BY CountType, LenProperties, BoundAssumption DEF Given, Typed, TypeOK
<1> DEFINE R == [ingested : 0 .. MaxKernel, delivered : 0 .. MaxKernel]
           r == [ingested |-> Given("kernel"), delivered |-> delivered]
<1>2. r \in R
  BY <1>1 DEF Typed, TypeOK
<1>3. captured \in Nat /\ captured' = captured + 1 /\ captured' \in 0 .. MaxEtw
  BY BoundAssumption DEF OnEvent, Typed, TypeOK
<1>4. heard \in [1 .. captured -> R] /\ heard' = Append(heard, r)
  BY DEF OnEvent, Typed, TypeOK
<1> HIDE DEF R, r
<1>5. heard' \in [1 .. captured' -> R]
  <2>1. heard \in Seq(R) /\ Len(heard) = captured
    BY <1>3, <1>4
  <2>2. heard' \in Seq(R) /\ Len(heard') = captured'
    BY <1>2, <1>3, <1>4, <2>1, AppendProperties
  <2> QED
    BY <2>2, LenProperties
<1>6. events' \in Seq(Events)
  <2>1. Etw(captured + 1) \in Events
    BY <1>3 DEF Etw, Events
  <2> QED
    BY <2>1 DEF OnEvent, Typed, TypeOK
<1>7. TypeOK'
  BY <1>3, <1>5, <1>6 DEF Typed, TypeOK, OnEvent, Setting, Results, R
<1>8. Thread'
  BY <1>3 DEF Typed, TypeOK, Thread, OnEvent, Setting, Results
<1> QED
  BY <1>7, <1>8 DEF Typed

\* A step of the thread that takes no alert from the engine and no chain.
LEMMA QueueStepIsTyped ==
  ASSUME Typed,
         ReadBatch \/ Yield \/ PollCopy \/ PollClear \/ NextScriptBlock,
         Yield \/ NextScriptBlock => event'.n > 0,
         Yield => event'.from = "kernel"
  PROVE  Typed'
<1>1. batch' \in Seq(Events) /\ delivered' \in 0 .. MaxKernel
  <2>1. CASE ReadBatch
    <3>1. PICK n \in 1 .. BatchSize :
            /\ delivered + n <= MaxKernel /\ delivered' = delivered + n
            /\ batch' = [i \in 1 .. n |-> Kernel(delivered + i)]
      BY <2>1 DEF ReadBatch
    <3>2. n \in Nat /\ MaxKernel \in Nat /\ delivered \in Nat
      BY BoundAssumption DEF Typed, TypeOK
    <3>3. \A i \in 1 .. n : Kernel(delivered + i) \in Events
      BY <3>2 DEF Kernel, Events
    <3>4. batch' \in [1 .. n -> Events]
      BY <3>1, <3>3
    <3>5. batch' \in Seq(Events)
      BY <3>2, <3>4
    <3> QED
      BY <3>1, <3>2, <3>5
  <2>2. CASE Yield
    BY <2>2, HeadAndTail DEF Yield, Sources, Typed, TypeOK
  <2> QED
    BY <2>1, <2>2 DEF PollCopy, PollClear, NextScriptBlock, Sources, Typed, TypeOK
<1>2. {events, polled, ingested}' \subseteq Seq(Events)
  <2>1. NextScriptBlock => polled' = Tail(polled) /\ polled \in Seq(Events) /\ polled # <<>>
    BY DEF Typed, TypeOK, ReadBatch, Yield, PollCopy, PollClear, NextScriptBlock
  <2>2. NextScriptBlock => polled' \in Seq(Events)
    BY <2>1, HeadAndTail
  <2>3. ingested' = ingested /\ (events' = events \/ events' = <<>>)
    BY DEF Results, ReadBatch, Yield, PollCopy, PollClear, NextScriptBlock
  <2>4. polled' = polled \/ polled' = events \/ NextScriptBlock
    BY DEF Typed, TypeOK, ReadBatch, Yield, PollCopy, PollClear, NextScriptBlock
  <2>5. ingested \in Seq(Events) /\ events \in Seq(Events) /\ polled \in Seq(Events)
    BY DEF Typed, TypeOK, ReadBatch, Yield, PollCopy, PollClear, NextScriptBlock
  <2>6. events' \in Seq(Events) /\ ingested' \in Seq(Events)
    BY <2>3, <2>5, EmptySeq
  <2>7. polled' \in Seq(Events)
    BY <2>2, <2>4, <2>5
  <2> QED
    BY <2>6, <2>7
<1>3. event' \in Events
  <2>1. Yield => event' = Head(batch) /\ batch \in Seq(Events) /\ batch # <<>>
    BY DEF Typed, TypeOK, ReadBatch, Yield, PollCopy, PollClear, NextScriptBlock
  <2>2. NextScriptBlock => event' = Head(polled) /\ polled \in Seq(Events) /\ polled # <<>>
    BY DEF Typed, TypeOK, ReadBatch, Yield, PollCopy, PollClear, NextScriptBlock
  <2>3. Yield \/ NextScriptBlock \/ event' = event
    BY DEF Typed, TypeOK, ReadBatch, Yield, PollCopy, PollClear, NextScriptBlock
  <2> QED
    BY <2>1, <2>2, <2>3, HeadAndTail DEF Typed, TypeOK
<1>4. (event.from = "etw" => session # "absent")'
  BY DEF Typed, TypeOK, ReadBatch, Yield, PollCopy, PollClear, NextScriptBlock
<1>5. UNCHANGED <<captured, heard, raised, log, rules, mode, chains, exit, session, alerts>>
  BY DEF Setting, Sources, Results, ReadBatch, Yield, PollCopy, PollClear, NextScriptBlock
<1>6. TypeOK'
  BY <1>1, <1>2, <1>3, <1>4, <1>5 DEF Typed, TypeOK, ReadBatch, Yield, PollCopy, PollClear, NextScriptBlock
<1>7. Thread'
  BY <1>1, <1>5 DEF Thread, Places, Sources, Typed, TypeOK, ReadBatch, Yield, PollCopy, PollClear, NextScriptBlock
<1> QED
  BY <1>6, <1>7 DEF Typed

\* A call of ingest, the log entry and the rule that follow.
LEMMA EngineStepIsTyped ==
  ASSUME Typed,
         Ingest \/ IngestRaises \/ IngestLoops \/ WriteAlert \/ Generate
  PROVE  Typed'
<1>1. UNCHANGED <<mode, chains, session, batch, events, polled, event, delivered, captured, heard>>
  <2>1. CASE Ingest
    BY <2>1 DEF Ingest, Setting, Queues, Sources
  <2>2. CASE IngestRaises
    BY <2>2 DEF IngestRaises, Leave, Setting, Queues, Sources
  <2>3. CASE IngestLoops
    BY <2>3 DEF IngestLoops, Setting, Queues, Sources
  <2>4. CASE WriteAlert
    BY <2>4 DEF WriteAlert, Setting, Queues, Sources
  <2>5. CASE Generate
    BY <2>5 DEF Generate, Setting, Queues, Sources
  <2> QED
    BY <2>1, <2>2, <2>3, <2>4, <2>5
<1>2. ingested' \in Seq(Events)
  <2>1. ingested \in Seq(Events) /\ event \in Events
    BY DEF Typed, TypeOK
  <2>2. ingested' = ingested \/ ingested' = Append(ingested, event)
    BY DEF Ingest, IngestRaises, IngestLoops, WriteAlert, Generate
  <2> QED
    BY <2>1, <2>2, AppendProperties
<1>3. {raised, log, rules, alerts}' \subseteq Seq(DOMAIN chains)'
  <2> DEFINE S == DOMAIN chains
  <2>1. raised \in Seq(S) /\ log \in Seq(S) /\ rules \in Seq(S) /\ alerts \in Seq(S)
    BY DEF Typed, TypeOK
  <2>2. S' = S
    BY <1>1
  <2>3. ASSUME WriteAlert \/ Generate
        PROVE  /\ Head(alerts) \in S /\ Tail(alerts) \in Seq(S)
               /\ ChainOf(Head(alerts)) \in S
    <3>1. alerts # <<>>
      BY <2>3 DEF WriteAlert, Generate, Typed, TypeOK
    <3> QED
      BY <2>1, <3>1, HeadAndTail, ChainFound DEF Typed
  <2>4. CASE Ingest
    <3>1. PICK list \in Seq(S) : alerts' = list /\ raised' = raised \o list
      BY <2>4 DEF Ingest
    <3>2. raised \o list \in Seq(S)
      BY <2>1, ConcatProperties
    <3>3. log' = log /\ rules' = rules
      BY <2>4 DEF Ingest
    <3> HIDE DEF S
    <3> QED
      BY <2>1, <2>2, <3>1, <3>2, <3>3 DEF S
  <2>5. CASE IngestRaises \/ IngestLoops
    BY <2>1, <2>2, <2>5 DEF IngestRaises, IngestLoops, Leave
  <2>6. CASE WriteAlert
    <3>1. log' = Append(log, Head(alerts)) /\ raised' = raised /\ rules' = rules /\ alerts' = alerts
      BY <2>6 DEF WriteAlert
    <3>2. log' \in Seq(S)
      BY <2>1, <2>3, <2>6, <3>1, AppendProperties
    <3> QED
      BY <2>1, <2>2, <3>1, <3>2
  <2>7. CASE Generate
    <3>1. /\ rules' = Append(rules, ChainOf(Head(alerts))) /\ alerts' = Tail(alerts)
          /\ raised' = raised /\ log' = log
      BY <2>7 DEF Generate
    <3>2. rules' \in Seq(S)
      BY <2>1, <2>3, <2>7, <3>1, AppendProperties
    <3> QED
      BY <2>1, <2>2, <2>3, <2>7, <3>1, <3>2
  <2> QED
    BY <2>4, <2>5, <2>6, <2>7
<1>4. /\ exit' \in {"none", "norules", "complete", "user", "device", "crash"}
      /\ (exit' = "none") = (pc' \notin {"finally", "done"})
      /\ (pc' = "load" \/ exit' = "norules") = (pc = "load" \/ exit = "norules")
      /\ pc' \in {"ingest", "hung"} => event.n > 0
      /\ pc' = "rule" => alerts' # <<>>
  BY DEF Typed, TypeOK, Ingest, IngestRaises, IngestLoops, WriteAlert, Generate, Leave, Handled
<1>5. TypeOK'
  BY <1>1, <1>2, <1>3, <1>4 DEF Typed, TypeOK
<1>6. Thread'
  BY <1>1 DEF Typed, TypeOK, Thread, Places, Ingest, IngestRaises, IngestLoops, WriteAlert,
    Generate, Leave
<1> QED
  BY <1>5, <1>6 DEF Typed

----------------------------------------------------------------------------
(* The events, from their sources to the engine *)

\* 1 while an event of the source is at hand, and 0 otherwise.
Hand(source) == IF pc = "ingest" /\ event.from = source THEN 1 ELSE 0

\* The number of the last event of a source that is given or at hand.
Reached(source) == Given(source) + Hand(source)

\* Each event of a source has its number, and the waiting ones follow on.
Ordered ==
  /\ \A i \in DOMAIN ingested : ingested[i].n = IngestedFrom(ingested[i].from, i)
  /\ Given("kernel") <= delivered /\ Given("etw") <= captured
Waiting ==
  /\ pc = "ingest" => event.n = Given(event.from) + 1
  /\ Reached("kernel") + Len(batch) = delivered
  /\ pc \in {"load", "start", "open", "ioctl", "sleep"} => batch = <<>>
  /\ \A j \in DOMAIN batch : batch[j] = Kernel(Reached("kernel") + j)
  /\ \A j \in DOMAIN polled : polled[j] = Etw(Reached("etw") + j)
  /\ pc = "clear" => Reached("etw") + Len(polled) = captured
  /\ pc # "clear" =>
       /\ Reached("etw") + Len(polled) + Len(events) = captured
       /\ \A j \in DOMAIN events : events[j] = Etw(Reached("etw") + Len(polled) + j)
  /\ pc \in {"clear", "etw"} \/ (pc \in {"ingest", "alerts", "rule"} /\ event.from = "etw") \/ polled = <<>>

InOrder == Ordered /\ (Running => Waiting)

\* One more event given to the engine is counted for its source.
LEMMA CountGrows ==
  ASSUME Typed, ingested' = Append(ingested, event)
  PROVE  /\ Len(ingested) \in Nat /\ Len(ingested)' = Len(ingested) + 1
         /\ ingested'[Len(ingested) + 1] = event
         /\ \A i \in 1 .. Len(ingested) : ingested'[i] = ingested[i]
         /\ \A source : \A n \in 0 .. Len(ingested) :
              IngestedFrom(source, n)' = IngestedFrom(source, n)
         /\ \A source : Given(source)' = Given(source) + (IF event.from = source THEN 1 ELSE 0)
<1> DEFINE n == Len(ingested)
<1>1. ingested \in Seq(Events) /\ event \in Events
  BY DEF Typed, TypeOK
<1>2. /\ n \in Nat /\ Len(ingested)' = n + 1 /\ ingested'[n + 1] = event
      /\ \A i \in 1 .. n : ingested'[i] = ingested[i]
  BY <1>1, AppendProperties, LenProperties
<1>3. ASSUME NEW source, NEW m \in 0 .. n
      PROVE  IngestedFrom(source, m)' = IngestedFrom(source, m)
  <2>1. {i \in 1 .. m : ingested'[i].from = source} = {i \in 1 .. m : ingested[i].from = source}
    BY <1>2
  <2> QED
    BY <2>1 DEF IngestedFrom
<1>4. ASSUME NEW source
      PROVE  Given(source)' = Given(source) + (IF event.from = source THEN 1 ELSE 0)
  <2> DEFINE A == {i \in 1 .. n : ingested[i].from = source}
             B == {i \in 1 .. n + 1 : ingested'[i].from = source}
  <2>1. A \subseteq 1 .. n /\ n + 1 \notin A
    BY <1>2
  <2>2. B = IF event.from = source THEN A \cup {n + 1} ELSE A
    BY <1>2
  <2>3. Given(source) = Cardinality(A) /\ Given(source)' = Cardinality(B)
    BY <1>2 DEF Given, IngestedFrom
  <2>4. IsFiniteSet(1 .. n)
    BY <1>2, FS_Interval
  <2> HIDE DEF n, A, B
  <2>5. IsFiniteSet(A)
    BY <2>1, <2>4, FS_Subset
  <2>6. Cardinality(A) \in Nat /\ Cardinality(A \cup {n + 1}) = Cardinality(A) + 1
    BY <2>1, <2>5, FS_AddElement, FS_CardinalityType
  <2>7. CASE event.from = source
    BY <2>2, <2>3, <2>6, <2>7
  <2>8. CASE event.from # source
    BY <2>2, <2>3, <2>6, <2>8
  <2> QED
    BY <2>7, <2>8
<1> QED
  BY <1>2, <1>3, <1>4

\* The counts are natural numbers.
LEMMA GivenType ==
  ASSUME Typed
  PROVE  \A source : Given(source) \in Nat /\ Hand(source) \in {0, 1}
BY CountType, LenProperties DEF Typed, TypeOK, Given, Hand

LEMMA InOrderInit == Init => InOrder
<1> SUFFICES ASSUME Init PROVE InOrder
  OBVIOUS
<1>1. ingested = <<>> /\ batch = <<>> /\ polled = <<>> /\ events = <<>>
  BY DEF Init
<1>2. \A source : Given(source) = 0
  <2>1. \A source : {i \in 1 .. Len(ingested) : ingested[i].from = source} = {}
    BY <1>1
  <2> QED
    BY <2>1, FS_EmptySet DEF Given, IngestedFrom
<1> QED
  BY <1>1, <1>2 DEF Init, InOrder, Ordered, Waiting, Reached, Hand

\* As long as the engine is given nothing, the events it has keep their order.
LEMMA OrderedStays ==
  ASSUME Typed, Ordered, ingested' = ingested, delivered' >= delivered, captured' >= captured,
         delivered' \in Nat, captured' \in Nat
  PROVE  Ordered' /\ \A source : Given(source)' = Given(source)
<1>1. \A source : Given(source)' = Given(source)
  BY DEF Given, IngestedFrom
<1>2. \A source, n : IngestedFrom(source, n)' = IngestedFrom(source, n)
  BY DEF IngestedFrom
<1>3. (\A i \in DOMAIN ingested : ingested[i].n = IngestedFrom(ingested[i].from, i))'
  BY <1>2 DEF Ordered
<1>4. Given("kernel") <= delivered' /\ Given("etw") <= captured'
  BY GivenType DEF Ordered, Typed, TypeOK
<1> QED
  BY <1>1, <1>3, <1>4 DEF Ordered

\* A step between places where nothing is at hand and nothing being copied.
LEMMA WaitingStays ==
  ASSUME Typed, Waiting, ingested' = ingested,
         UNCHANGED <<batch, polled, events, event, delivered, captured>>,
         pc \notin {"ingest", "clear"}, pc' \notin {"ingest", "clear"},
         pc' \in {"load", "start", "open", "ioctl", "sleep"} => batch = <<>>,
         \/ pc' = "etw" \/ (pc' \in {"alerts", "rule"} /\ event.from = "etw") \/ polled = <<>>
  PROVE  Waiting'
<1>1. \A source : Given(source)' = Given(source)
  BY DEF Given, IngestedFrom
<1>2. Hand("kernel") = 0 /\ Hand("etw") = 0 /\ Hand("kernel")' = 0 /\ Hand("etw")' = 0
  BY DEF Hand
<1>3. Reached("kernel")' = Reached("kernel") /\ Reached("etw")' = Reached("etw")
  BY <1>1, <1>2 DEF Reached
<1> QED
  BY <1>3 DEF Waiting

\* A script block is queued.
LEMMA CaptureInOrder ==
  ASSUME Typed, InOrder, OnEvent
  PROVE  InOrder'
<1>1. /\ ingested' = ingested /\ pc' = pc /\ exit' = exit /\ event' = event
      /\ batch' = batch /\ polled' = polled /\ delivered' = delivered
      /\ captured' = captured + 1 /\ events' = Append(events, Etw(captured + 1)) /\ pc # "clear"
  BY DEF OnEvent, Locked, Results
<1>2. captured \in Nat /\ delivered \in Nat
  BY BoundAssumption DEF Typed, TypeOK
<1>3. Ordered' /\ \A source : Given(source)' = Given(source)
  BY <1>1, <1>2, OrderedStays DEF InOrder
<1>4. \A source : Hand(source)' = Hand(source)
  BY <1>1 DEF Hand
<1>5. \A source : Reached(source)' = Reached(source)
  BY <1>3, <1>4 DEF Reached
<1>6. ASSUME Waiting
      PROVE  Waiting'
  <2>1. /\ Len(events) \in Nat /\ Len(polled) \in Nat /\ Len(events') = Len(events) + 1
        /\ DOMAIN events' = 1 .. Len(events) + 1 /\ DOMAIN events = 1 .. Len(events)
        /\ events'[Len(events) + 1] = Etw(captured + 1)
        /\ \A j \in 1 .. Len(events) : events'[j] = events[j]
    <3>1. events \in Seq(Events) /\ polled \in Seq(Events) /\ Etw(captured + 1) \in Events
      BY <1>2 DEF Typed, TypeOK, Etw, Events
    <3> QED
      BY <1>1, <3>1, AppendProperties, LenProperties
  <2>2. Reached("etw") \in Nat
    BY GivenType DEF Reached
  <2>3. captured + 1 = Reached("etw") + Len(polled) + (Len(events) + 1)
    BY <1>1, <1>6, <2>1, <2>2 DEF Waiting
  <2>4. \A j \in DOMAIN events' : events'[j] = Etw(Reached("etw") + Len(polled) + j)
    BY <1>1, <1>6, <2>1, <2>2, <2>3 DEF Waiting
  <2> QED
    BY <1>1, <1>3, <1>5, <1>6, <2>1, <2>3, <2>4 DEF Waiting
<1> QED
  BY <1>1, <1>3, <1>6 DEF InOrder, Running

\* A batch is read, or the recording.
LEMMA BatchInOrder ==
  ASSUME Typed, InOrder, ReadBatch \/ StartReplay
  PROVE  InOrder'
<1>1. /\ ingested' = ingested /\ captured' = captured /\ polled' = polled /\ events' = events
      /\ event' = event /\ pc \in {"start", "ioctl"} /\ pc' = "yield" /\ exit' = exit
  BY DEF ReadBatch, StartReplay, Results
<1>2. captured \in Nat /\ delivered \in Nat /\ exit = "none"
  BY <1>1, BoundAssumption DEF Typed, TypeOK
<1>3. Waiting
  BY <1>1, <1>2 DEF InOrder, Running
<1>4. Given("kernel") = delivered /\ Hand("kernel") = 0 /\ Hand("etw") = 0
  <2>1. Hand("kernel") = 0 /\ Hand("etw") = 0 /\ batch = <<>>
    BY <1>1, <1>3 DEF Hand, Waiting
  <2> QED
    BY <1>3, <2>1, GivenType DEF Waiting, Reached
<1>5. PICK n \in Nat : /\ delivered' = delivered + n
                       /\ batch' = [i \in 1 .. n |-> Kernel(delivered + i)]
  <2>1. CASE ReadBatch
    BY <2>1, BoundAssumption DEF ReadBatch
  <2>2. CASE StartReplay
    <3>1. ingested = <<>>
      BY <2>2 DEF Typed, Thread, StartReplay
    <3>2. {i \in 1 .. Len(ingested) : ingested[i].from = "kernel"} = {}
      BY <3>1
    <3>3. delivered = 0
      BY <1>4, <3>2, FS_EmptySet DEF Given, IngestedFrom
    <3>4. batch' = [i \in 1 .. MaxKernel |-> Kernel(delivered + i)]
      BY <2>2, <3>3, BoundAssumption DEF StartReplay, Recording
    <3> QED
      BY <2>2, <3>3, <3>4, BoundAssumption DEF StartReplay
  <2> QED
    BY <2>1, <2>2
<1>6. Ordered' /\ \A source : Given(source)' = Given(source)
  BY <1>1, <1>2, <1>5, OrderedStays DEF InOrder
<1>7. Hand("kernel")' = 0 /\ Hand("etw")' = 0
  BY <1>1 DEF Hand
<1>8. Reached("kernel")' = delivered /\ Reached("etw")' = Reached("etw")
  BY <1>4, <1>6, <1>7, GivenType DEF Reached
<1>9. Len(batch') = n /\ DOMAIN batch' = 1 .. n
  BY <1>5
<1>10. Waiting'
  BY <1>1, <1>3, <1>5, <1>8, <1>9 DEF Waiting
<1> QED
  BY <1>6, <1>10 DEF InOrder

\* The next record, or the next script block, is taken in hand.
LEMMA YieldInOrder ==
  ASSUME Typed, InOrder, Yield
  PROVE  InOrder' /\ event'.from = "kernel" /\ event'.n > 0
<1>1. /\ ingested' = ingested /\ captured' = captured /\ polled' = polled /\ events' = events
      /\ delivered' = delivered /\ exit' = exit /\ pc = "yield" /\ pc' = "ingest"
      /\ batch # <<>> /\ event' = Head(batch) /\ batch' = Tail(batch)
  BY DEF Yield, Results, Sources
<1>2. captured \in Nat /\ delivered \in Nat /\ exit = "none"
  BY <1>1, BoundAssumption DEF Typed, TypeOK
<1>3. Waiting
  BY <1>1, <1>2 DEF InOrder, Running
<1>4. Ordered' /\ \A source : Given(source)' = Given(source)
  BY <1>1, <1>2, OrderedStays DEF InOrder
<1>5. /\ event' = batch[1] /\ Len(batch) \in Nat \ {0} /\ Len(batch') = Len(batch) - 1
      /\ DOMAIN batch = 1 .. Len(batch) /\ DOMAIN batch' = 1 .. Len(batch) - 1
      /\ \A j \in 1 .. Len(batch) - 1 : batch'[j] = batch[j + 1]
  <2>1. batch \in Seq(Events)
    BY DEF Typed, TypeOK
  <2> QED
    BY <1>1, <2>1, HeadAndTail, LenProperties
<1>6. Reached("kernel") = Given("kernel") /\ Reached("etw") = Given("etw") /\ Given("kernel") \in Nat
  BY <1>1, GivenType DEF Reached, Hand
<1>7. event' = Kernel(Given("kernel") + 1)
  BY <1>3, <1>5, <1>6 DEF Waiting
<1>8. Reached("kernel")' = Given("kernel") + 1 /\ Reached("etw")' = Reached("etw")
  BY <1>1, <1>4, <1>6, <1>7, GivenType DEF Reached, Hand, Kernel
<1>9. \A j \in DOMAIN batch' : batch'[j] = Kernel(Given("kernel") + 1 + j)
  <2>1. \A j \in 1 .. Len(batch) - 1 : batch'[j] = Kernel(Given("kernel") + (j + 1))
    BY <1>3, <1>5, <1>6 DEF Waiting
  <2>2. \A j \in 1 .. Len(batch) - 1 : Given("kernel") + (j + 1) = Given("kernel") + 1 + j
    BY <1>5, <1>6
  <2> QED
    BY <1>5, <2>1, <2>2
<1>10. polled = <<>> /\ Given("kernel") + 1 + Len(batch') = delivered
  BY <1>1, <1>3, <1>5, <1>6 DEF Waiting
<1>11. (pc = "ingest" => event.n = Given(event.from) + 1)'
  BY <1>4, <1>7 DEF Kernel
<1>12. \A j \in DOMAIN batch' : batch'[j] = Kernel(Reached("kernel")' + j)
  BY <1>8, <1>9
<1>13. Reached("kernel")' + Len(batch') = delivered'
  BY <1>1, <1>8, <1>10
<1>14. Waiting'
  BY <1>1, <1>3, <1>8, <1>10, <1>11, <1>12, <1>13 DEF Waiting
<1> QED
  BY <1>4, <1>6, <1>7, <1>14 DEF InOrder, Kernel

LEMMA ScriptBlockInOrder ==
  ASSUME Typed, InOrder, NextScriptBlock
  PROVE  InOrder' /\ event'.from = "etw" /\ event'.n > 0
<1>1. /\ ingested' = ingested /\ captured' = captured /\ batch' = batch /\ events' = events
      /\ delivered' = delivered /\ exit' = exit /\ pc = "etw" /\ pc' = "ingest"
      /\ polled # <<>> /\ event' = Head(polled) /\ polled' = Tail(polled)
  BY DEF NextScriptBlock, Results, Sources
<1>2. captured \in Nat /\ delivered \in Nat /\ exit = "none"
  BY <1>1, BoundAssumption DEF Typed, TypeOK
<1>3. Waiting
  BY <1>1, <1>2 DEF InOrder, Running
<1>4. Ordered' /\ \A source : Given(source)' = Given(source)
  BY <1>1, <1>2, OrderedStays DEF InOrder
<1>5. /\ event' = polled[1] /\ Len(polled) \in Nat \ {0} /\ Len(polled') = Len(polled) - 1
      /\ DOMAIN polled = 1 .. Len(polled) /\ DOMAIN polled' = 1 .. Len(polled) - 1
      /\ \A j \in 1 .. Len(polled) - 1 : polled'[j] = polled[j + 1]
  <2>1. polled \in Seq(Events)
    BY DEF Typed, TypeOK
  <2> QED
    BY <1>1, <2>1, HeadAndTail, LenProperties
<1>6. Reached("kernel") = Given("kernel") /\ Reached("etw") = Given("etw") /\ Given("etw") \in Nat
  BY <1>1, GivenType DEF Reached, Hand
<1>7. event' = Etw(Given("etw") + 1)
  BY <1>3, <1>5, <1>6 DEF Waiting
<1>8. Reached("etw")' = Given("etw") + 1 /\ Reached("kernel")' = Reached("kernel")
  BY <1>1, <1>4, <1>6, <1>7, GivenType DEF Reached, Hand, Etw
<1>9. \A j \in DOMAIN polled' : polled'[j] = Etw(Given("etw") + 1 + j)
  <2>1. \A j \in 1 .. Len(polled) - 1 : polled'[j] = Etw(Given("etw") + (j + 1))
    BY <1>3, <1>5, <1>6 DEF Waiting
  <2>2. \A j \in 1 .. Len(polled) - 1 : Given("etw") + (j + 1) = Given("etw") + 1 + j
    BY <1>5, <1>6
  <2> QED
    BY <1>5, <2>1, <2>2
<1>10. Reached("etw")' + Len(polled') = Reached("etw") + Len(polled)
  BY <1>5, <1>6, <1>8
<1>11. Waiting'
  BY <1>1, <1>3, <1>4, <1>7, <1>8, <1>9, <1>10 DEF Waiting, Etw
<1> QED
  BY <1>4, <1>6, <1>7, <1>11 DEF InOrder, Etw

\* poll_events copies the list and clears it.
LEMMA PollInOrder ==
  ASSUME Typed, InOrder, PollCopy \/ PollClear
  PROVE  InOrder'
<1>1. /\ ingested' = ingested /\ captured' = captured /\ batch' = batch
      /\ delivered' = delivered /\ exit' = exit /\ event' = event
      /\ \/ pc = "poll" /\ pc' = "clear" /\ events' = events /\ polled' = events
         \/ pc = "clear" /\ pc' = "etw" /\ events' = <<>> /\ polled' = polled
  BY DEF PollCopy, PollClear, Results, Sources
<1>2. captured \in Nat /\ delivered \in Nat /\ exit = "none"
  BY <1>1, BoundAssumption DEF Typed, TypeOK
<1>3. Waiting
  BY <1>1, <1>2 DEF InOrder, Running
<1>4. Ordered' /\ \A source : Given(source)' = Given(source)
  BY <1>1, <1>2, OrderedStays DEF InOrder
<1>5. \A source : Hand(source) = 0 /\ Hand(source)' = 0
  BY <1>1 DEF Hand
<1>6. \A source : Reached(source)' = Reached(source) /\ Reached(source) \in Nat
  BY <1>4, <1>5, GivenType DEF Reached
<1>7. Len(events) \in Nat /\ Len(polled) \in Nat
  BY LenProperties DEF Typed, TypeOK
<1>8. CASE pc = "poll"
  <2>1. polled = <<>>
    BY <1>3, <1>8 DEF Waiting
  <2>2. Len(polled) = 0 /\ Reached("etw") + 0 = Reached("etw")
    BY <1>6, <2>1
  <2>3. /\ Reached("etw") + Len(events) = captured
        /\ \A j \in DOMAIN events : events[j] = Etw(Reached("etw") + j)
    BY <1>3, <1>8, <2>2 DEF Waiting
  <2> QED
    BY <1>1, <1>3, <1>4, <1>6, <1>8, <2>3 DEF InOrder, Waiting
<1>9. CASE pc = "clear"
  <2>1. events' = <<>> /\ Len(events') = 0 /\ DOMAIN events' = {} /\ pc' = "etw" /\ polled' = polled
    BY <1>1, <1>9
  <2>2. Reached("etw") + Len(polled) + 0 = captured
    BY <1>3, <1>6, <1>7, <1>9 DEF Waiting
  <2> QED
    BY <1>1, <1>3, <1>4, <1>6, <1>9, <2>1, <2>2 DEF InOrder, Waiting
<1> QED
  BY <1>1, <1>8, <1>9

\* The event at hand is given to the engine, whatever becomes of the call.
LEMMA IngestInOrder ==
  ASSUME Typed, InOrder, Ingest \/ IngestRaises \/ IngestLoops
  PROVE  InOrder'
<1>1. /\ ingested' = Append(ingested, event) /\ captured' = captured /\ batch' = batch
      /\ delivered' = delivered /\ event' = event /\ polled' = polled /\ events' = events
      /\ pc = "ingest" /\ pc' \in {"alerts", "hung", "finally", "done"}
  BY DEF Ingest, IngestRaises, IngestLoops, Leave, Queues, Sources
<1>2. captured \in Nat /\ delivered \in Nat /\ exit = "none" /\ event.from \in {"kernel", "etw"}
  BY <1>1, BoundAssumption DEF Typed, TypeOK, Events
<1>3. Waiting
  BY <1>1, <1>2 DEF InOrder, Running
<1>0. PICK n : n = Len(ingested)
  OBVIOUS
<1>4. /\ n \in Nat /\ Len(ingested)' = n + 1 /\ ingested'[n + 1] = event
      /\ \A i \in 1 .. n : ingested'[i] = ingested[i]
      /\ \A source : \A m \in 0 .. n : IngestedFrom(source, m)' = IngestedFrom(source, m)
      /\ \A source : Given(source)' = Given(source) + (IF event.from = source THEN 1 ELSE 0)
  BY <1>0, <1>1, CountGrows
<1>5. DOMAIN ingested = 1 .. n /\ DOMAIN ingested' = 1 .. n + 1
  <2>1. ingested \in Seq(Events) /\ event \in Events
    BY DEF Typed, TypeOK
  <2> QED
    BY <1>0, <1>1, <1>4, <2>1, AppendProperties, LenProperties
<1>6. \A source \in {"kernel", "etw"} :
        /\ Reached(source)' = Reached(source) /\ Given(source)' = Reached(source)
        /\ Reached(source) \in Nat
  <2>1. \A source : Hand(source)' = 0
    BY <1>1 DEF Hand
  <2>2. \A source : Hand(source) = IF event.from = source THEN 1 ELSE 0
    BY <1>1 DEF Hand
  <2> QED
    BY <1>4, <2>1, <2>2, GivenType DEF Reached
<1>7. Ordered'
  <2>1. \A source : source = event.from => event.n = Given(source)'
    BY <1>1, <1>3, <1>4 DEF Waiting
  <2>2. \A source : Given(source)' = IngestedFrom(source, n + 1)'
    BY <1>4 DEF Given
  <2>3. ASSUME NEW i \in 1 .. n + 1, NEW source, source = ingested'[i].from
        PROVE  ingested'[i].n = IngestedFrom(source, i)'
    <3>1. CASE i = n + 1
      BY <1>4, <2>1, <2>2, <2>3, <3>1
    <3>2. CASE i \in 1 .. n
      <4>1. ingested[i].n = IngestedFrom(source, i) /\ ingested'[i] = ingested[i]
        BY <1>4, <1>5, <2>3, <3>2 DEF InOrder, Ordered
      <4> QED
        BY <1>4, <3>2, <4>1
    <3> QED
      BY <1>4, <3>1, <3>2
  <2>5. (\A i \in DOMAIN ingested : ingested[i].n = IngestedFrom(ingested[i].from, i))'
    BY <1>5, <2>3 DEF IngestedFrom
  <2>4. Given("kernel")' <= delivered' /\ Given("etw")' <= captured'
    <3>1. Len(batch) \in Nat /\ Len(polled) \in Nat /\ Len(events) \in Nat
      BY LenProperties DEF Typed, TypeOK
    <3> QED
      BY <1>1, <1>2, <1>3, <1>6, <3>1 DEF Waiting
  <2> QED
    BY <2>4, <2>5 DEF Ordered
<1>8. pc' = "alerts" => Waiting'
  BY <1>1, <1>2, <1>3, <1>6 DEF Waiting
<1>9. Running' => pc' = "alerts"
  BY <1>1 DEF Running, Ingest, IngestRaises, IngestLoops, Leave, Handled
<1> QED
  BY <1>7, <1>8, <1>9 DEF InOrder

LEMMA InOrderStep == Typed /\ InOrder /\ [Next]_vars => InOrder'
<1> SUFFICES ASSUME Typed, InOrder, [Next]_vars
             PROVE  InOrder'
  OBVIOUS
<1>1. captured \in Nat /\ delivered \in Nat
  BY BoundAssumption DEF Typed, TypeOK
<1>2. ASSUME ingested' = ingested, delivered' = delivered, captured' = captured, ~ Running'
      PROVE  InOrder'
  BY <1>1, <1>2, OrderedStays DEF InOrder
<1>3. ASSUME LoadChains \/ StartFails \/ StartStats \/ StatsOfReplay \/ StartLive \/ Stop
             \/ OpenFails \/ Open \/ ReadFails \/ Wake \/ EntryRaises \/ ReadAgain
             \/ ReplayComplete \/ WriteAlert \/ WriteFails \/ Generate \/ EventDone
             \/ NoMoreScriptBlocks \/ ReadNothing \/ ReadStats \/ Interrupt
      PROVE  InOrder'
  <2>1. /\ ingested' = ingested /\ delivered' = delivered /\ captured' = captured
        /\ UNCHANGED <<batch, polled, events, event>>
    BY <1>3 DEF LoadChains, StartFails, StartStats, StatsOfReplay, StartLive, Stop, OpenFails,
      Open, ReadFails, Wake, EntryRaises, ReadAgain, ReplayComplete, WriteAlert, WriteFails,
      Generate, EventDone, NoMoreScriptBlocks, ReadNothing, ReadStats, Interrupt, Leave,
      Queues, Sources, Results
  <2>2. CASE Running'
    <3>1. Running /\ pc \notin {"ingest", "clear"} /\ pc' \notin {"ingest", "clear"}
      BY <1>3, <2>2 DEF Running, Typed, TypeOK, LoadChains, StartFails, StartStats, StatsOfReplay,
        StartLive, Stop, OpenFails, Open, ReadFails, Wake, EntryRaises, ReadAgain, ReplayComplete,
        WriteAlert, WriteFails, Generate, EventDone, NoMoreScriptBlocks, ReadNothing, ReadStats,
        Interrupt, Leave, Handled, AfterEvent
    <3>2. Waiting
      BY <3>1 DEF InOrder
    <3>3. pc' \in {"load", "start", "open", "ioctl", "sleep"} => batch = <<>>
      BY <1>3, <2>2, <3>2 DEF Waiting, Running, LoadChains, StartFails, StartStats, StatsOfReplay,
        StartLive, Stop, OpenFails, Open, ReadFails, Wake, EntryRaises, ReadAgain, ReplayComplete,
        WriteAlert, WriteFails, Generate, EventDone, NoMoreScriptBlocks, ReadNothing, ReadStats,
        Interrupt, Leave, Handled, AfterEvent
    <3>4. \/ pc' = "etw" \/ (pc' \in {"alerts", "rule"} /\ event.from = "etw") \/ polled = <<>>
      BY <1>3, <2>2, <3>2 DEF Waiting, Running, LoadChains, StartFails, StartStats, StatsOfReplay,
        StartLive, Stop, OpenFails, Open, ReadFails, Wake, EntryRaises, ReadAgain, ReplayComplete,
        WriteAlert, WriteFails, Generate, EventDone, NoMoreScriptBlocks, ReadNothing, ReadStats,
        Interrupt, Leave, Handled, AfterEvent
    <3>5. Waiting'
      BY <2>1, <3>1, <3>2, <3>3, <3>4, WaitingStays
    <3> QED
      BY <1>1, <2>1, <3>5, OrderedStays DEF InOrder
  <2> QED
    BY <1>2, <2>1, <2>2
<1>4. ASSUME CaptureFails \/ UNCHANGED vars
      PROVE  InOrder'
  <2>1. UNCHANGED <<ingested, delivered, captured, batch, polled, events, event, pc, exit>>
    BY <1>4 DEF CaptureFails, vars, Queues, Sources, Results
  <2>2. \A source : Given(source)' = Given(source) /\ Hand(source)' = Hand(source)
    BY <2>1 DEF Given, IngestedFrom, Hand
  <2>3. Reached("kernel")' = Reached("kernel") /\ Reached("etw")' = Reached("etw")
    BY <2>2 DEF Reached
  <2>4. Ordered'
    BY <1>1, <2>1, OrderedStays DEF InOrder
  <2>5. Waiting => Waiting'
    BY <2>1, <2>2, <2>3 DEF Waiting
  <2> QED
    BY <2>1, <2>4, <2>5 DEF InOrder, Running
<1> QED
  BY <1>3, <1>4, CaptureInOrder, BatchInOrder, YieldInOrder, ScriptBlockInOrder, PollInOrder,
    IngestInOrder DEF Next, AgentStep, DriverReply, OwnStep

LEMMA TypedStep == Typed /\ InOrder /\ [Next]_vars => Typed'
<1> SUFFICES ASSUME Typed, InOrder, [Next]_vars
             PROVE  Typed'
  OBVIOUS
<1>1. ASSUME StartFails \/ StartStats \/ StatsOfReplay \/ StartLive \/ Stop
             \/ OpenFails \/ Open \/ ReadFails \/ Wake \/ EntryRaises \/ ReadAgain
             \/ ReplayComplete \/ WriteFails \/ EventDone \/ NoMoreScriptBlocks
             \/ ReadNothing \/ ReadStats \/ Interrupt \/ CaptureFails
      PROVE  Typed'
  <2>1. Quiet
    BY <1>1 DEF Quiet, StartFails, StartStats, StatsOfReplay, StartLive, Stop, OpenFails, Open,
      ReadFails, Wake, EntryRaises, ReadAgain, ReplayComplete, WriteFails, EventDone,
      NoMoreScriptBlocks, ReadNothing, ReadStats, Interrupt, CaptureFails, Leave, Setting,
      Queues, Sources, Results
  <2> QED
    BY <1>1, <2>1, QuietIsTyped
<1>2. ASSUME OnEvent PROVE Typed'
  BY <1>2, CaptureIsTyped DEF InOrder, Ordered
<1>3. ASSUME ReadBatch \/ Yield \/ PollCopy \/ PollClear \/ NextScriptBlock
      PROVE  Typed'
  BY <1>3, QueueStepIsTyped, YieldInOrder, ScriptBlockInOrder
<1>4. ASSUME UNCHANGED vars PROVE Typed'
  BY <1>4 DEF Typed, TypeOK, Thread, vars, Setting, Queues, Sources, Results
<1> QED
  BY <1>1, <1>2, <1>3, <1>4, LoadIsTyped, ReplayIsTyped, EngineStepIsTyped
    DEF Next, AgentStep, DriverReply, OwnStep

LEMMA TypedAndInOrder == Spec => [](Typed /\ InOrder)
BY TypedInit, InOrderInit, TypedStep, InOrderStep, PTL DEF Spec

\* For every setting the thread, the session and the queues fit together.
THEOREM AgentTypes == Spec => []TypeOK
<1>1. Typed => TypeOK
  BY DEF Typed
<1> QED
  BY <1>1, TypedAndInOrder, PTL

\* The events of a source after its n-th, up to a last one.
After(from, n, total) == [i \in 1 .. total - n |-> [from |-> from, n |-> n + i]]

\* What waits, in order, is the rest of what the source has handed out.
LEMMA RestOf ==
  ASSUME NEW q \in Seq(Events), NEW from \in {"kernel", "etw"}, NEW n \in Nat, NEW total \in Nat,
         n + Len(q) = total,
         \A j \in DOMAIN q : q[j] = [from |-> from, n |-> n + j]
  PROVE  q = After(from, n, total)
<1>1. Len(q) \in Nat /\ DOMAIN q = 1 .. Len(q) /\ q \in [1 .. Len(q) -> Events]
  BY LenProperties
<1>2. total - n = Len(q)
  BY <1>1
<1> QED
  BY <1>1, <1>2 DEF After

\* An event at hand comes before those that wait.
LEMMA HandBefore ==
  ASSUME NEW e \in Events, NEW q \in Seq(Events)
  PROVE  /\ <<e>> \o q \in Seq(Events) /\ Len(<<e>> \o q) = Len(q) + 1 /\ Len(q) \in Nat
         /\ DOMAIN (<<e>> \o q) = 1 .. Len(q) + 1
         /\ (<<e>> \o q)[1] = e
         /\ \A j \in 1 .. Len(q) : (<<e>> \o q)[j + 1] = q[j]
<1> DEFINE h == <<e>>
<1>1. h \in Seq(Events) /\ Len(h) = 1 /\ h[1] = e
  OBVIOUS
<1> HIDE DEF h
<1>2. Len(q) \in Nat
  BY LenProperties
<1>3. /\ h \o q \in Seq(Events) /\ Len(h \o q) = 1 + Len(q)
      /\ \A i \in 1 .. 1 + Len(q) : (h \o q)[i] = IF i <= 1 THEN h[i] ELSE q[i - 1]
  <2>1. /\ h \o q \in Seq(Events) /\ Len(h \o q) = Len(h) + Len(q)
        /\ \A i \in 1 .. Len(h) + Len(q) : (h \o q)[i] = IF i <= Len(h) THEN h[i] ELSE q[i - Len(h)]
    BY <1>1, ConcatProperties
  <2> QED
    BY <1>1, <2>1
<1>4. DOMAIN (h \o q) = 1 .. Len(q) + 1 /\ (h \o q)[1] = e
  BY <1>1, <1>2, <1>3, LenProperties
<1>5. \A j \in 1 .. Len(q) : (h \o q)[j + 1] = q[j]
  <2>1. ASSUME NEW j \in 1 .. Len(q)
        PROVE  (h \o q)[j + 1] = q[j]
    <3>1. j + 1 \in 1 .. 1 + Len(q) /\ ~ (j + 1 <= 1) /\ (j + 1) - 1 = j
      BY <1>2
    <3> QED
      BY <1>3, <3>1
  <2> QED
    BY <2>1
<1> QED
  BY <1>2, <1>3, <1>4, <1>5 DEF h

LEMMA HandThenRest ==
  ASSUME NEW e \in Events, NEW q \in Seq(Events), NEW from \in {"kernel", "etw"},
         NEW n \in Nat, NEW total \in Nat,
         n + 1 + Len(q) = total, e = [from |-> from, n |-> n + 1],
         \A j \in DOMAIN q : q[j] = [from |-> from, n |-> n + 1 + j]
  PROVE  <<e>> \o q = After(from, n, total)
<1> DEFINE h == <<e>> \o q
<1>1. /\ h \in Seq(Events) /\ Len(h) = Len(q) + 1 /\ DOMAIN h = 1 .. Len(q) + 1
      /\ Len(q) \in Nat /\ DOMAIN q = 1 .. Len(q)
      /\ h[1] = e /\ \A j \in 1 .. Len(q) : h[j + 1] = q[j]
  BY HandBefore, LenProperties
<1> HIDE DEF h
<1>2. ASSUME NEW j \in DOMAIN h
      PROVE  h[j] = [from |-> from, n |-> n + j]
  <2>1. CASE j = 1
    BY <1>1, <2>1
  <2>2. CASE j # 1
    <3>1. j - 1 \in 1 .. Len(q) /\ (j - 1) + 1 = j /\ n + 1 + (j - 1) = n + j
      BY <1>1, <2>2
    <3> QED
      BY <1>1, <3>1
  <2> QED
    BY <2>1, <2>2
<1>3. n + Len(h) = total
  BY <1>1
<1>4. h = After(from, n, total)
  BY <1>1, <1>2, <1>3, RestOf
<1> QED
  BY <1>4 DEF h

\* For every setting each event reaches the engine once and in its order.
THEOREM OnceAndInOrder == Spec => []EventsOnceInOrder
<1>1. ASSUME Typed, InOrder PROVE EventsOnceInOrder
  <2>1. SUFFICES ASSUME Running
                 PROVE  \A queued, atK, atE :
                   /\ queued = (IF pc = "clear" THEN <<>> ELSE events)
                   /\ atK = (IF pc = "ingest" /\ event.from = "kernel" THEN <<event>> ELSE <<>>)
                   /\ atE = (IF pc = "ingest" /\ event.from = "etw" THEN <<event>> ELSE <<>>)
                   => /\ atK \o batch = After("kernel", Given("kernel"), delivered)
                      /\ atE \o polled \o queued = After("etw", Given("etw"), captured)
    BY <1>1 DEF EventsOnceInOrder, InOrder, Ordered, After
  <2>2. Waiting
    BY <1>1, <2>1 DEF InOrder
  <2>3. /\ batch \in Seq(Events) /\ polled \in Seq(Events) /\ events \in Seq(Events)
        /\ event \in Events /\ delivered \in Nat /\ captured \in Nat
    BY <1>1, BoundAssumption DEF Typed, TypeOK
  <2>4. Given("kernel") \in Nat /\ Given("etw") \in Nat
    BY <1>1, GivenType
  <2> SUFFICES ASSUME NEW queued, NEW atK, NEW atE,
                   queued = (IF pc = "clear" THEN <<>> ELSE events),
                   atK = (IF pc = "ingest" /\ event.from = "kernel" THEN <<event>> ELSE <<>>),
                   atE = (IF pc = "ingest" /\ event.from = "etw" THEN <<event>> ELSE <<>>)
               PROVE  /\ atK \o batch = After("kernel", Given("kernel"), delivered)
                      /\ atE \o polled \o queued = After("etw", Given("etw"), captured)
    OBVIOUS
  <2>5. queued \in Seq(Events)
    BY <2>3, EmptySeq
  <2>6. Len(batch) \in Nat /\ DOMAIN batch = 1 .. Len(batch)
    BY <2>3, LenProperties
  <2>7. atK \o batch = After("kernel", Given("kernel"), delivered)
    <3>1. CASE pc = "ingest" /\ event.from = "kernel"
      <4>1. Reached("kernel") = Given("kernel") + 1
        BY <3>1 DEF Reached, Hand
      <4>2. event = [from |-> "kernel", n |-> Given("kernel") + 1]
        BY <2>2, <2>3, <3>1 DEF Waiting, Events
      <4>3. /\ Given("kernel") + 1 + Len(batch) = delivered
            /\ \A j \in DOMAIN batch : batch[j] = [from |-> "kernel", n |-> Given("kernel") + 1 + j]
        BY <2>2, <4>1 DEF Waiting, Kernel
      <4>4. <<event>> \o batch = After("kernel", Given("kernel"), delivered)
        BY <2>3, <2>4, <4>2, <4>3, HandThenRest
      <4> QED
        BY <3>1, <4>4
    <3>2. CASE ~ (pc = "ingest" /\ event.from = "kernel")
      <4>1. atK \o batch = batch
        BY <2>3, <3>2, ConcatEmptySeq
      <4>2. Reached("kernel") = Given("kernel")
        BY <2>4, <3>2 DEF Reached, Hand
      <4>3. /\ Given("kernel") + Len(batch) = delivered
            /\ \A j \in DOMAIN batch : batch[j] = [from |-> "kernel", n |-> Given("kernel") + j]
        BY <2>2, <4>2 DEF Waiting, Kernel
      <4> QED
        BY <2>3, <2>4, <4>1, <4>3, RestOf
    <3> QED
      BY <3>1, <3>2
  <2> DEFINE w == polled \o queued
  <2>8. /\ w \in Seq(Events) /\ Len(w) \in Nat /\ DOMAIN w = 1 .. Len(w)
        /\ Reached("etw") + Len(w) = captured
        /\ \A j \in 1 .. Len(w) : w[j] = [from |-> "etw", n |-> Reached("etw") + j]
    <3>1. /\ w \in Seq(Events) /\ Len(w) = Len(polled) + Len(queued)
          /\ \A i \in 1 .. Len(polled) + Len(queued) :
               w[i] = IF i <= Len(polled) THEN polled[i] ELSE queued[i - Len(polled)]
      BY <2>3, <2>5, ConcatProperties
    <3> HIDE DEF w
    <3>2. /\ Len(polled) \in Nat /\ DOMAIN polled = 1 .. Len(polled) /\ Len(queued) \in Nat
          /\ DOMAIN queued = 1 .. Len(queued) /\ Len(w) \in Nat /\ DOMAIN w = 1 .. Len(w)
      BY <2>3, <2>5, <3>1, LenProperties
    <3>3. Reached("etw") \in Nat
      BY <1>1, GivenType DEF Reached
    <3>4. /\ Reached("etw") + Len(polled) + Len(queued) = captured
          /\ \A j \in DOMAIN queued : queued[j] = Etw(Reached("etw") + Len(polled) + j)
      <4>1. CASE pc = "clear"
        <5>1. Len(queued) = 0 /\ DOMAIN queued = {}
          BY <4>1
        <5> QED
          BY <2>2, <3>2, <3>3, <4>1, <5>1 DEF Waiting
      <4>2. CASE pc # "clear"
        BY <2>2, <4>2 DEF Waiting
      <4> QED
        BY <4>1, <4>2
    <3>5. ASSUME NEW j \in 1 .. Len(w)
          PROVE  w[j] = Etw(Reached("etw") + j)
      <4>1. CASE j <= Len(polled)
        BY <2>2, <3>1, <3>2, <4>1 DEF Waiting
      <4>2. CASE ~ (j <= Len(polled))
        <5>1. j - Len(polled) \in DOMAIN queued /\ w[j] = queued[j - Len(polled)]
          BY <3>1, <3>2, <4>2
        <5>2. Reached("etw") + Len(polled) + (j - Len(polled)) = Reached("etw") + j
          BY <3>2, <3>3
        <5> QED
          BY <3>4, <5>1, <5>2
      <4> QED
        BY <4>1, <4>2
    <3> QED
      BY <3>1, <3>2, <3>3, <3>4, <3>5 DEF Etw
  <2>9. atE \o polled \o queued = atE \o w
    <3>1. atE \in Seq(Events)
      BY <2>3, EmptySeq
    <3>2. \A s, t, u \in Seq(Events) : (s \o t) \o u = s \o (t \o u)
      BY ConcatAssociative
    <3> QED
      BY <2>3, <2>5, <3>1, <3>2
  <2> HIDE DEF w
  <2>10. atE \o w = After("etw", Given("etw"), captured)
    <3>1. CASE pc = "ingest" /\ event.from = "etw"
      <4>1. Reached("etw") = Given("etw") + 1
        BY <3>1 DEF Reached, Hand
      <4>2. event = [from |-> "etw", n |-> Given("etw") + 1]
        BY <2>2, <2>3, <3>1 DEF Waiting, Events
      <4>3. /\ Given("etw") + 1 + Len(w) = captured
            /\ \A j \in DOMAIN w : w[j] = [from |-> "etw", n |-> Given("etw") + 1 + j]
        BY <2>8, <4>1
      <4>4. <<event>> \o w = After("etw", Given("etw"), captured)
        BY <2>3, <2>4, <2>8, <4>2, <4>3, HandThenRest
      <4> QED
        BY <3>1, <4>4
    <3>2. CASE ~ (pc = "ingest" /\ event.from = "etw")
      <4>1. atE \o w = w
        BY <2>8, <3>2, ConcatEmptySeq
      <4>2. Reached("etw") = Given("etw")
        BY <2>4, <3>2 DEF Reached, Hand
      <4>3. /\ Given("etw") + Len(w) = captured
            /\ \A j \in DOMAIN w : w[j] = [from |-> "etw", n |-> Given("etw") + j]
        BY <2>8, <4>2
      <4> QED
        BY <2>3, <2>4, <2>8, <4>1, <4>3, RestOf
    <3> QED
      BY <3>1, <3>2
  <2> QED
    BY <2>7, <2>9, <2>10
<1> QED
  BY <1>1, TypedAndInOrder, PTL

----------------------------------------------------------------------------
(* The alerts, from the engine to the log and the rules *)

\* Every alert is in the log and has its rule, or waits; or one has no rule yet.
Even == raised = log \o alerts /\ Len(rules) = Len(log)
Owing ==
  /\ alerts # <<>> /\ log # <<>> /\ log[Len(log)] = Head(alerts)
  /\ raised = log \o Tail(alerts) /\ Len(log) = Len(rules) + 1

Alerting ==
  /\ IF exit = "none" THEN IF pc = "rule" THEN Owing ELSE Even ELSE Even \/ Owing
  /\ exit = "none" /\ pc \notin {"alerts", "rule"} => alerts = <<>>
  /\ \A i \in DOMAIN rules : rules[i] = ChainOf(log[i])

LEMMA AlertLengths ==
  ASSUME Typed
  PROVE  /\ raised \in Seq(DOMAIN chains) /\ log \in Seq(DOMAIN chains)
         /\ rules \in Seq(DOMAIN chains) /\ alerts \in Seq(DOMAIN chains)
         /\ Len(log) \in Nat /\ Len(rules) \in Nat /\ Len(alerts) \in Nat
         /\ DOMAIN rules = 1 .. Len(rules) /\ DOMAIN log = 1 .. Len(log)
<1>1. /\ raised \in Seq(DOMAIN chains) /\ log \in Seq(DOMAIN chains)
      /\ rules \in Seq(DOMAIN chains) /\ alerts \in Seq(DOMAIN chains)
  BY DEF Typed, TypeOK
<1> DEFINE S == DOMAIN chains
<1> HIDE DEF S
<1>2. log \in Seq(S) /\ rules \in Seq(S) /\ alerts \in Seq(S)
  BY <1>1 DEF S
<1> QED
  BY <1>1, <1>2, LenProperties

LEMMA AlertingInit == Init => Alerting
<1> SUFFICES ASSUME Init PROVE Alerting
  OBVIOUS
<1>1. raised = log \o alerts
  BY DEF Init
<1> QED
  BY <1>1 DEF Init, Alerting, Even

\* The first of the alerts gets into the log.
LEMMA LogAlerting ==
  ASSUME Typed, Alerting, WriteAlert
  PROVE  Alerting'
<1>1. /\ pc = "alerts" /\ pc' = "rule" /\ alerts # <<>> /\ log' = Append(log, Head(alerts))
      /\ UNCHANGED <<exit, chains, alerts, raised, rules>>
  BY DEF WriteAlert, Setting
<1>2. exit = "none" /\ Even /\ \A i \in DOMAIN rules : rules[i] = ChainOf(log[i])
  BY <1>1 DEF Typed, TypeOK, Alerting
<1> DEFINE S == DOMAIN chains
<1>3. /\ raised \in Seq(S) /\ log \in Seq(S) /\ rules \in Seq(S) /\ alerts \in Seq(S)
      /\ Len(log) \in Nat /\ DOMAIN rules = 1 .. Len(rules)
  BY AlertLengths
<1> HIDE DEF S
<1>4. Head(alerts) \in S /\ Tail(alerts) \in Seq(S) /\ alerts = <<Head(alerts)>> \o Tail(alerts)
  BY <1>1, <1>3, HeadAndTail
<1>5. /\ log' # <<>> /\ Len(log') = Len(log) + 1 /\ log'[Len(log')] = Head(alerts)
      /\ \A i \in 1 .. Len(log) : log'[i] = log[i]
  BY <1>1, <1>3, <1>4, AppendProperties
<1>6. raised = log' \o Tail(alerts)
  <2>1. log' = log \o <<Head(alerts)>>
    BY <1>1, <1>3, <1>4, AppendIsConcat
  <2>2. <<Head(alerts)>> \in Seq(S)
    BY <1>4
  <2>3. (log \o <<Head(alerts)>>) \o Tail(alerts) = log \o (<<Head(alerts)>> \o Tail(alerts))
    BY <1>3, <1>4, <2>2, ConcatAssociative
  <2> QED
    BY <1>2, <1>4, <2>1, <2>3 DEF Even
<1>7. Owing'
  BY <1>1, <1>2, <1>5, <1>6 DEF Owing, Even
<1>8. \A a : ChainOf(a)' = ChainOf(a)
  BY <1>1 DEF ChainOf, SelectInSeq, SelectLastInSeq
<1>9. \A i \in DOMAIN rules : rules[i] = ChainOf(log'[i])
  BY <1>2, <1>3, <1>5 DEF Even
<1> QED
  BY <1>1, <1>2, <1>7, <1>8, <1>9 DEF Alerting

\* The alert that owes its rule gets it.
LEMMA RuleAlerting ==
  ASSUME Typed, Alerting, Generate
  PROVE  Alerting'
<1>1. /\ pc = "rule" /\ pc' = "alerts" /\ rules' = Append(rules, ChainOf(Head(alerts)))
      /\ alerts' = Tail(alerts) /\ UNCHANGED <<exit, chains, raised, log>>
  BY DEF Generate, Setting
<1>2. exit = "none" /\ Owing /\ \A i \in DOMAIN rules : rules[i] = ChainOf(log[i])
  BY <1>1 DEF Typed, TypeOK, Alerting
<1> DEFINE S == DOMAIN chains
<1>3. /\ log \in Seq(S) /\ rules \in Seq(S) /\ alerts \in Seq(S)
      /\ Len(rules) \in Nat /\ DOMAIN rules = 1 .. Len(rules)
  BY AlertLengths
<1>4. Head(alerts) \in S /\ ChainOf(Head(alerts)) \in S
  BY <1>2, <1>3, HeadAndTail, ChainFound DEF Owing, Typed
<1> HIDE DEF S
<1>5. /\ Len(rules') = Len(rules) + 1 /\ DOMAIN rules' = 1 .. Len(rules) + 1
      /\ rules'[Len(rules) + 1] = ChainOf(Head(alerts))
      /\ \A i \in 1 .. Len(rules) : rules'[i] = rules[i]
  <2>1. rules' \in Seq(S)
    BY <1>1, <1>3, <1>4, AppendProperties
  <2> QED
    BY <1>1, <1>3, <1>4, <2>1, AppendProperties, LenProperties
<1>6. Even'
  BY <1>1, <1>2, <1>5 DEF Even, Owing
<1>7. \A i \in DOMAIN rules' : rules'[i] = ChainOf(log[i])
  <2>1. rules'[Len(rules) + 1] = ChainOf(log[Len(rules) + 1])
    BY <1>2, <1>5 DEF Owing
  <2>2. \A i \in 1 .. Len(rules) + 1 : i \in 1 .. Len(rules) \/ i = Len(rules) + 1
    BY <1>3
  <2> QED
    BY <1>2, <1>3, <1>5, <2>1, <2>2
<1>8. \A a : ChainOf(a)' = ChainOf(a)
  BY <1>1 DEF ChainOf, SelectInSeq, SelectLastInSeq
<1> QED
  BY <1>1, <1>2, <1>6, <1>7, <1>8 DEF Alerting

\* The engine returns alerts, when none waits.
LEMMA EngineAlerting ==
  ASSUME Typed, Alerting, Ingest
  PROVE  Alerting'
<1> DEFINE S == DOMAIN chains
<1>1. PICK list \in Seq(S) : alerts' = list /\ raised' = raised \o list
  BY DEF Ingest
<1>2. pc = "ingest" /\ pc' = "alerts" /\ UNCHANGED <<exit, chains, log, rules>>
  BY DEF Ingest, Setting
<1>3. exit = "none" /\ Even /\ alerts = <<>> /\ \A i \in DOMAIN rules : rules[i] = ChainOf(log[i])
  BY <1>2 DEF Typed, TypeOK, Alerting
<1>4. raised = log
  BY <1>3, AlertLengths, ConcatEmptySeq DEF Even
<1>5. \A a : ChainOf(a)' = ChainOf(a)
  BY <1>2 DEF ChainOf, SelectInSeq, SelectLastInSeq
<1> QED
  BY <1>1, <1>2, <1>3, <1>4, <1>5 DEF Alerting, Even

LEMMA AlertingStep == Typed /\ Alerting /\ [Next]_vars => Alerting'
<1> SUFFICES ASSUME Typed, Alerting, [Next]_vars
             PROVE  Alerting'
  OBVIOUS
<1>1. ASSUME LoadChains PROVE Alerting'
  <2>1. UNCHANGED <<alerts, raised, log, rules>> /\ pc = "load" /\ pc' # "rule" /\ pc' # "alerts"
    BY <1>1 DEF LoadChains, Results
  <2>2. chains = <<>> /\ exit = "none"
    BY <2>1 DEF Typed, TypeOK
  <2>3. rules = <<>>
    <3>1. rules \in Seq({})
      BY <2>2 DEF Typed, TypeOK
    <3> QED
      BY <3>1
  <2> QED
    BY <2>1, <2>2, <2>3 DEF Alerting, Even, Owing
<1>2. ASSUME UNCHANGED <<chains, alerts, raised, log, rules>>,
             exit = "none" => \/ exit' # "none"
                              \/ exit' = exit /\ pc' = pc
                              \/ exit' = exit /\ pc # "rule" /\ pc' # "rule" /\ alerts = <<>>,
             exit # "none" => exit' = exit
      PROVE  Alerting'
  <2>1. \A a : ChainOf(a)' = ChainOf(a)
    BY <1>2 DEF ChainOf, SelectInSeq, SelectLastInSeq
  <2>2. (\A i \in DOMAIN rules : rules[i] = ChainOf(log[i]))'
    BY <1>2, <2>1 DEF Alerting
  <2>3. (Even' <=> Even) /\ (Owing' <=> Owing)
    BY <1>2 DEF Even, Owing
  <2> QED
    BY <1>2, <2>2, <2>3 DEF Alerting
<1>3. ASSUME StartFails \/ StartStats \/ StatsOfReplay \/ StartReplay \/ StartLive \/ Stop
             \/ OpenFails \/ Open \/ ReadFails \/ Wake \/ Yield \/ EntryRaises \/ ReadAgain
             \/ ReplayComplete \/ WriteFails \/ EventDone \/ NoMoreScriptBlocks
             \/ ReadBatch \/ ReadNothing \/ ReadStats \/ Interrupt
             \/ PollCopy \/ PollClear \/ NextScriptBlock \/ IngestRaises \/ IngestLoops
      PROVE  Alerting'
  <2> USE DEF StartFails, StartStats, StatsOfReplay, StartReplay, StartLive, Stop, OpenFails, Open,
      ReadFails, Wake, Yield, EntryRaises, ReadAgain, ReplayComplete, WriteFails, EventDone,
      NoMoreScriptBlocks, ReadBatch, ReadNothing, ReadStats, Interrupt, PollCopy, PollClear,
      NextScriptBlock, IngestRaises, IngestLoops, Leave
  <2>1. UNCHANGED <<chains, alerts, raised, log, rules>>
    BY <1>3 DEF Setting, Results
  <2>2. exit = "none" => \/ exit' # "none"
                         \/ exit' = exit /\ pc' = pc
                         \/ exit' = exit /\ pc # "rule" /\ pc' # "rule" /\ alerts = <<>>
    BY <1>3 DEF Alerting, Handled, AfterEvent
  <2>3. exit # "none" => exit' = exit
    BY <1>3 DEF Typed, TypeOK
  <2> QED
    BY <1>2, <2>1, <2>2, <2>3
<1>4. ASSUME OnEvent \/ CaptureFails \/ UNCHANGED vars
      PROVE  Alerting'
  <2>1. UNCHANGED <<chains, alerts, raised, log, rules, exit, pc>>
    BY <1>4 DEF OnEvent, CaptureFails, vars, Setting, Results
  <2> QED
    BY <1>2, <2>1
<1> QED
  BY <1>1, <1>3, <1>4, LogAlerting, RuleAlerting, EngineAlerting
    DEF Next, AgentStep, DriverReply, OwnStep

LEMMA AlertingHolds == Spec => [](Typed /\ InOrder /\ Alerting)
<1>1. Typed /\ Alerting /\ [Next]_vars => Alerting'
  BY AlertingStep
<1> QED
  BY <1>1, AlertingInit, TypedAndInOrder, PTL DEF Spec

\* For every setting the log says what the engine said, and a rule is written
\* only for an alert that is in the log.
THEOREM AlertsReachTheLog == Spec => []AlertsAccounted
<1>1. ASSUME Typed, Alerting PROVE AlertsAccounted
  <2> DEFINE S == DOMAIN chains
  <2>1. /\ raised \in Seq(S) /\ log \in Seq(S) /\ rules \in Seq(S) /\ alerts \in Seq(S)
        /\ Len(log) \in Nat /\ Len(rules) \in Nat /\ Len(alerts) \in Nat
    BY <1>1, AlertLengths
  <2> HIDE DEF S
  <2>2. ASSUME NEW x \in Seq(S), raised = log \o x
        PROVE  IsPrefix(log, raised) /\ Len(raised) - Len(log) = Len(x)
    <3>1. Len(x) \in Nat /\ Len(raised) = Len(log) + Len(x)
      BY <2>1, <2>2, ConcatProperties, LenProperties
    <3>2. SubSeq(raised, 1, Len(log)) = log
      BY <2>1, <2>2, SubSeqOfConcat1, SubSeqFull
    <3>3. SubSeq(log, 1, Len(log)) = log
      BY <2>1, SubSeqFull
    <3> QED
      BY <2>1, <3>1, <3>2, <3>3 DEF IsPrefix
  <2>3. Running /\ pc # "rule" => Even
    BY <1>1 DEF Alerting, Running
  <2>4. /\ IsPrefix(log, raised) /\ Len(raised) - Len(log) <= Len(alerts)
        /\ Len(rules) <= Len(log) /\ Len(log) <= Len(rules) + 1
    <3>1. CASE Even
      BY <2>1, <2>2, <3>1 DEF Even
    <3>2. CASE Owing
      <4>1. Tail(alerts) \in Seq(S) /\ Len(Tail(alerts)) = Len(alerts) - 1
        BY <2>1, <3>2, HeadAndTail DEF Owing
      <4>2. IsPrefix(log, raised) /\ Len(raised) - Len(log) = Len(alerts) - 1
        BY <2>2, <3>2, <4>1 DEF Owing
      <4> QED
        BY <2>1, <3>2, <4>2 DEF Owing
    <3> QED
      BY <1>1, <3>1, <3>2 DEF Alerting
  <2> QED
    BY <2>3, <2>4 DEF AlertsAccounted, Even
<1> QED
  BY <1>1, AlertingHolds, PTL

\* For every setting in which no chain mentions another's id, a rule has the
\* id of the chain of its alert, and is that of the last chain with this id.
THEOREM RulesAreOfTheirChains == Spec => []RuleOfItsChain
<1>1. ASSUME Typed, Alerting PROVE RuleOfItsChain
  <2> SUFFICES ASSUME \A c, d \in DOMAIN chains : chains[d] \in Mentions[chains[c]] => chains[c] = chains[d],
                      NEW i \in DOMAIN rules
               PROVE  /\ chains[rules[i]] = chains[log[i]]
                      /\ \A c \in DOMAIN chains : chains[c] = chains[log[i]] => c <= rules[i]
    BY DEF RuleOfItsChain
  <2>1. rules[i] = ChainOf(log[i])
    BY <1>1 DEF Alerting
  <2>2. log[i] \in DOMAIN chains
    <3>1. Even \/ Owing
      BY <1>1 DEF Alerting
    <3>2. Len(log) \in Nat /\ Len(rules) \in Nat /\ DOMAIN rules = 1 .. Len(rules)
      BY <1>1, AlertLengths
    <3>3. i \in 1 .. Len(log)
      BY <3>1, <3>2 DEF Even, Owing
    <3> QED
      BY <1>1, <3>3, AlertLengths, ElementOfSeq
  <2>3. /\ ChainOf(log[i]) \in DOMAIN chains
        /\ chains[ChainOf(log[i])] \in Mentions[chains[log[i]]]
        /\ \A c \in DOMAIN chains : chains[c] = chains[ChainOf(log[i])] => c <= ChainOf(log[i])
    BY <1>1, <2>2, ChainFound DEF Typed
  <2> QED
    BY <2>1, <2>2, <2>3
<1> QED
  BY <1>1, AlertingHolds, PTL

----------------------------------------------------------------------------
(* A replay that is complete *)

\* Without an ETW session the engine is given records only, in their order.
LEMMA OnlyRecords ==
  ASSUME Typed, Ordered, session = "absent"
  PROVE  Len(ingested) = Given("kernel") /\ ingested = [i \in 1 .. Given("kernel") |-> Kernel(i)]
<1>1. /\ ingested \in Seq(Events) /\ Len(ingested) \in Nat /\ DOMAIN ingested = 1 .. Len(ingested)
      /\ ingested \in [1 .. Len(ingested) -> Events]
  BY LenProperties DEF Typed, TypeOK
<1>2. \A i \in 1 .. Len(ingested) : ingested[i].from = "kernel"
  <2>1. Given("etw") = 0
    BY GivenType DEF Typed, Thread, Ordered
  <2>2. {i \in 1 .. Len(ingested) : ingested[i].from = "etw"} = {}
    <3> DEFINE T == {i \in 1 .. Len(ingested) : ingested[i].from = "etw"}
    <3>1. Cardinality(T) = 0
      BY <2>1 DEF Given, IngestedFrom
    <3>2. T \subseteq 1 .. Len(ingested) /\ IsFiniteSet(1 .. Len(ingested))
      BY <1>1, FS_Interval
    <3> HIDE DEF T
    <3>3. IsFiniteSet(T)
      BY <3>2, FS_Subset
    <3>4. T = {}
      BY <3>1, <3>3, FS_EmptySet
    <3> QED
      BY <3>4 DEF T
  <2> QED
    BY <1>1, <2>2 DEF Events
<1>3. ASSUME NEW n \in 0 .. Len(ingested)
      PROVE  IngestedFrom("kernel", n) = n
  <2>1. {i \in 1 .. n : ingested[i].from = "kernel"} = 1 .. n
    BY <1>1, <1>2
  <2>2. n \in Nat /\ Cardinality(1 .. n) = n
    BY <1>1, FS_Interval
  <2> QED
    BY <2>1, <2>2 DEF IngestedFrom
<1>4. Len(ingested) = Given("kernel")
  BY <1>1, <1>3 DEF Given
<1>5. \A i \in 1 .. Len(ingested) : ingested[i] = Kernel(i)
  <2>1. ASSUME NEW i \in 1 .. Len(ingested)
        PROVE  ingested[i] = Kernel(i)
    <3>1. ingested[i].from = "kernel" /\ ingested[i].n = i /\ ingested[i] \in Events
      BY <1>1, <1>2, <1>3 DEF Ordered
    <3> QED
      BY <3>1 DEF Kernel, Events
  <2> QED
    BY <2>1
<1> QED
  BY <1>1, <1>4, <1>5

LEMMA CompleteStep == Typed /\ InOrder /\ Alerting /\ CompleteMeansAll /\ [Next]_vars => CompleteMeansAll'
<1> SUFFICES ASSUME Typed, InOrder, Alerting, CompleteMeansAll, [Next]_vars,
                    exit' = "complete", mode' = "replay"
             PROVE  (ingested = Recording /\ log = raised /\ Len(rules) = Len(log))'
  BY DEF CompleteMeansAll
<1>1. mode = "replay"
  BY DEF Next, AgentStep, DriverReply, OwnStep, LoadChains, StartFails, StartStats, StatsOfReplay,
    StartReplay, StartLive, Stop, OpenFails, Open, ReadFails, Wake, Yield, EntryRaises, ReadAgain,
    ReplayComplete, Ingest, IngestRaises, IngestLoops, WriteAlert, WriteFails, Generate, EventDone,
    PollCopy, PollClear, NextScriptBlock, NoMoreScriptBlocks, ReadBatch, ReadNothing, ReadStats,
    Interrupt, OnEvent, CaptureFails, Leave, Setting, vars
<1>2. CASE ReplayComplete
  <2>1. /\ pc = "yield" /\ batch = <<>> /\ UNCHANGED <<ingested, log, raised, rules, batch>>
    BY <1>2 DEF ReplayComplete, Leave, Queues, Results
  <2>2. exit = "none" /\ session = "absent" /\ delivered = MaxKernel
    BY <1>1, <2>1 DEF Typed, TypeOK, Thread
  <2>3. Even /\ alerts = <<>> /\ log = raised
    BY <2>1, <2>2, AlertLengths, ConcatEmptySeq DEF Alerting, Even
  <2>4. Waiting
    BY <2>1, <2>2 DEF InOrder, Running
  <2>5. Given("kernel") = MaxKernel
    BY <2>1, <2>2, <2>4, GivenType DEF Waiting, Reached, Hand
  <2>6. ingested = Recording
    BY <2>2, <2>5, OnlyRecords DEF InOrder, Recording
  <2> QED
    BY <2>1, <2>3, <2>6 DEF Even, Recording
<1>3. CASE exit = "complete"
  <2>1. pc \in {"finally", "done"}
    BY <1>3 DEF Typed, TypeOK
  <2>2. UNCHANGED <<ingested, log, raised, rules>>
    BY <2>1 DEF Next, AgentStep, DriverReply, OwnStep, LoadChains, StartFails, StartStats,
      StatsOfReplay, StartReplay, StartLive, Stop, OpenFails, Open, ReadFails, Wake, Yield,
      EntryRaises, ReadAgain, ReplayComplete, Ingest, IngestRaises, IngestLoops, WriteAlert,
      WriteFails, Generate, EventDone, PollCopy, PollClear, NextScriptBlock, NoMoreScriptBlocks,
      ReadBatch, ReadNothing, ReadStats, Interrupt, OnEvent, CaptureFails, Results, vars
  <2> QED
    BY <1>1, <1>3, <2>2 DEF CompleteMeansAll, Recording
<1>4. exit = "complete" \/ ReplayComplete
  BY <1>1 DEF Typed, Thread, Next, AgentStep, DriverReply, OwnStep, LoadChains, StartFails,
    StartStats, StatsOfReplay, StartReplay, StartLive, Stop, OpenFails, Open, ReadFails, Wake, Yield,
    EntryRaises, ReadAgain, Ingest, IngestRaises, IngestLoops, WriteAlert, WriteFails, Generate,
    EventDone, PollCopy, PollClear, NextScriptBlock, NoMoreScriptBlocks, ReadBatch, ReadNothing,
    ReadStats, Interrupt, OnEvent, CaptureFails, Leave, Handled, vars
<1> QED
  BY <1>2, <1>3, <1>4

\* For every recording: when a replay is complete the engine has had all of
\* it, and every alert is in the log and has its rule.
THEOREM CompleteReplay == Spec => []CompleteMeansAll
<1>1. Init => CompleteMeansAll
  BY DEF Init, CompleteMeansAll
<1> QED
  BY <1>1, CompleteStep, AlertingHolds, PTL DEF Spec

----------------------------------------------------------------------------
(* How far script blocks and records get out of their order *)

\* Script blocks are polled before the next record is yielded.
Due == pc = "poll" \/ (pc \in {"alerts", "rule"} /\ event.from = "kernel")

Soon(n) == /\ Given("kernel") <= heard[n].ingested + 1
           /\ heard[n].delivered - Given("kernel") <= BatchSize - 1
Later(n) == /\ Given("kernel") <= heard[n].ingested
            /\ heard[n].delivered - Given("kernel") <= BatchSize

\* A live batch is never longer than BatchSize, nor as long once begun.
BatchBound ==
  exit = "none" /\ mode = "live" =>
    Len(batch) <= BatchSize /\ (pc # "yield" => Len(batch) <= BatchSize - 1)

\* What is known of each script block that has not been given to the engine.
Awaited ==
  /\ pc = "ingest" /\ event.from = "etw" => Soon(event.n)
  /\ \A j \in DOMAIN polled : Soon(polled[j].n)
  /\ pc # "clear" => \A j \in DOMAIN events : IF Due THEN Soon(events[j].n) ELSE Later(events[j].n)

Fresh == BatchBound /\ (Running => Awaited)

\* What is known of the numbers of the script blocks that wait.
LEMMA WaitingNumbers ==
  ASSUME Typed, Waiting
  PROVE  /\ Given("kernel") \in Nat /\ Given("kernel") <= delivered /\ delivered \in Nat /\ captured \in Nat
         /\ Len(batch) \in Nat
         /\ pc = "ingest" /\ event.from = "etw" => event.n \in 1 .. captured
         /\ \A j \in DOMAIN polled : polled[j].n \in 1 .. captured
         /\ pc # "clear" => \A j \in DOMAIN events : events[j].n \in 1 .. captured
<1>1. /\ Len(batch) \in Nat /\ Len(polled) \in Nat /\ Len(events) \in Nat
      /\ DOMAIN polled = 1 .. Len(polled) /\ DOMAIN events = 1 .. Len(events)
  BY LenProperties DEF Typed, TypeOK
<1>2. /\ Given("kernel") \in Nat /\ Given("etw") \in Nat /\ Hand("kernel") \in {0, 1} /\ Hand("etw") \in {0, 1}
      /\ Reached("kernel") = Given("kernel") + Hand("kernel") /\ Reached("etw") = Given("etw") + Hand("etw")
  BY GivenType DEF Reached
<1>3. delivered \in Nat /\ captured \in Nat
  BY BoundAssumption DEF Typed, TypeOK
<1>4. Given("kernel") <= delivered
  BY <1>1, <1>2, <1>3 DEF Waiting
<1>5. Reached("etw") + Len(polled) <= captured
  BY <1>1, <1>2, <1>3 DEF Waiting
<1>6. ASSUME pc = "ingest", event.from = "etw"
      PROVE  event.n \in 1 .. captured
  <2>1. event.n = Given("etw") + 1 /\ Hand("etw") = 1
    BY <1>6 DEF Waiting, Hand
  <2> QED
    BY <1>1, <1>2, <1>3, <1>5, <2>1
<1>7. ASSUME NEW j \in DOMAIN polled
      PROVE  polled[j].n \in 1 .. captured
  <2>1. polled[j].n = Reached("etw") + j
    BY DEF Waiting, Etw
  <2> QED
    BY <1>1, <1>2, <1>3, <1>5, <2>1
<1>8. ASSUME pc # "clear", NEW j \in DOMAIN events
      PROVE  events[j].n \in 1 .. captured
  <2>1. events[j].n = Reached("etw") + Len(polled) + j /\ Reached("etw") + Len(polled) + Len(events) = captured
    BY <1>8 DEF Waiting, Etw
  <2> QED
    BY <1>1, <1>2, <1>3, <2>1
<1> QED
  BY <1>1, <1>2, <1>3, <1>4, <1>6, <1>7, <1>8

LEMMA FreshInit == Init => Fresh /\ BoundedReordering
<1> SUFFICES ASSUME Init PROVE Fresh /\ BoundedReordering
  OBVIOUS
<1>1. Len(batch) = 0 /\ DOMAIN polled = {} /\ DOMAIN events = {} /\ DOMAIN ingested = {} /\ pc = "load"
  BY DEF Init
<1> QED
  BY <1>1, BoundAssumption DEF Fresh, BatchBound, Awaited, BoundedReordering

\* What was said of a script block stays true as long as the engine is given
\* no other record.
LEMMA MomentStays ==
  ASSUME Typed, ingested' = ingested,
         heard' = heard \/ \A n \in 1 .. captured : heard'[n] = heard[n]
  PROVE  /\ Given("kernel")' = Given("kernel")
         /\ \A n \in 1 .. captured : (Soon(n)' <=> Soon(n)) /\ (Later(n)' <=> Later(n))
<1>1. Given("kernel")' = Given("kernel")
  BY DEF Given, IngestedFrom
<1>2. \A n \in 1 .. captured : heard'[n] = heard[n]
  OBVIOUS
<1> QED
  BY <1>1, <1>2 DEF Soon, Later

LEMMA BatchBoundStep == Typed /\ BatchBound /\ [Next]_vars => BatchBound'
<1> SUFFICES ASSUME Typed, BatchBound, [Next]_vars
             PROVE  BatchBound'
  OBVIOUS
<1>1. CASE ReadBatch
  <2>1. PICK n \in 1 .. BatchSize : batch' = [i \in 1 .. n |-> Kernel(delivered + i)]
    BY <1>1 DEF ReadBatch
  <2>2. n \in Nat /\ n <= BatchSize
    BY <2>1, BoundAssumption
  <2>3. Len(batch') = n
    BY <2>1, <2>2
  <2> QED
    BY <1>1, <2>2, <2>3 DEF ReadBatch, BatchBound
<1>2. CASE Yield
  <2>1. batch \in Seq(Events) /\ batch # <<>> /\ batch' = Tail(batch) /\ pc = "yield"
        /\ exit = exit' /\ mode = mode'
    BY <1>2 DEF Yield, Typed, TypeOK, Setting
  <2>2. Len(batch) \in Nat \ {0} /\ Len(batch') = Len(batch) - 1
    BY <2>1, HeadAndTail
  <2> QED
    BY <2>1, <2>2, BoundAssumption DEF BatchBound
<1>3. CASE StartReplay
  BY <1>3 DEF StartReplay, BatchBound, Setting
<1>4. CASE ReadAgain
  <2>1. batch' = <<>>
    BY <1>4 DEF ReadAgain, Queues
  <2>2. Len(batch') = 0
    BY <2>1
  <2> QED
    BY <2>2, BoundAssumption DEF BatchBound
<1>5. CASE UNCHANGED <<batch, mode>> /\ (exit' = "none" => exit = "none" /\ (pc = "yield" => pc' = "yield"))
  BY <1>5 DEF BatchBound
<1>6. ASSUME LoadChains \/ StartFails \/ StartStats \/ StatsOfReplay \/ StartLive \/ Stop
             \/ OpenFails \/ Open \/ ReadFails \/ Wake \/ EntryRaises
             \/ ReplayComplete \/ Ingest \/ IngestRaises \/ IngestLoops \/ WriteAlert \/ WriteFails
             \/ Generate \/ EventDone \/ PollCopy \/ PollClear \/ NextScriptBlock \/ NoMoreScriptBlocks
             \/ ReadNothing \/ ReadStats \/ Interrupt \/ OnEvent \/ CaptureFails \/ UNCHANGED vars
      PROVE  UNCHANGED <<batch, mode>> /\ (exit' = "none" => exit = "none" /\ (pc = "yield" => pc' = "yield"))
  <2> USE DEF LoadChains, StartFails, StartStats, StatsOfReplay, StartLive, Stop, OpenFails, Open,
    ReadFails, Wake, EntryRaises, ReplayComplete, Ingest, IngestRaises, IngestLoops, WriteAlert,
    WriteFails, Generate, EventDone, PollCopy, PollClear, NextScriptBlock, NoMoreScriptBlocks,
    ReadNothing, ReadStats, Interrupt, OnEvent, CaptureFails, vars, Leave
  <2>1. UNCHANGED <<batch, mode>>
    BY <1>6 DEF Setting, Queues
  <2>2. exit' = "none" => exit = "none" /\ (pc = "yield" => pc' = "yield")
    BY <1>6 DEF Typed, TypeOK, Handled
  <2> QED
    BY <2>1, <2>2
<1> QED
  BY <1>1, <1>2, <1>3, <1>4, <1>5, <1>6 DEF Next, AgentStep, DriverReply, OwnStep

\* The script blocks the engine has had are among those captured.
LEMMA IngestedNumbers ==
  ASSUME Typed, Ordered
  PROVE  \A i \in DOMAIN ingested : ingested[i].from = "etw" => ingested[i].n \in 1 .. captured
<1> SUFFICES ASSUME NEW i \in DOMAIN ingested, ingested[i].from = "etw"
             PROVE  ingested[i].n \in 1 .. captured
  OBVIOUS
<1>1. Len(ingested) \in Nat /\ i \in 1 .. Len(ingested) /\ captured \in Nat
  BY LenProperties, BoundAssumption DEF Typed, TypeOK
<1> DEFINE A == {k \in 1 .. i : ingested[k].from = "etw"}
           B == {k \in 1 .. Len(ingested) : ingested[k].from = "etw"}
<1>2. A \subseteq B /\ i \in A /\ B \subseteq 1 .. Len(ingested)
  BY <1>1
<1>3. ingested[i].n = Cardinality(A) /\ Cardinality(B) <= captured
  BY DEF Ordered, Given, IngestedFrom
<1> HIDE DEF A, B
<1>4. IsFiniteSet(B)
  <2>1. IsFiniteSet(1 .. Len(ingested))
    BY <1>1, FS_Interval
  <2> QED
    BY <1>2, <2>1, FS_Subset
<1>5. IsFiniteSet(A) /\ Cardinality(A) <= Cardinality(B)
  BY <1>2, <1>4, FS_Subset
<1>6. Cardinality(A) \in Nat /\ Cardinality(B) \in Nat /\ Cardinality(A) # 0
  BY <1>2, <1>4, <1>5, FS_CardinalityType, FS_EmptySet
<1> QED
  BY <1>1, <1>3, <1>5, <1>6

\* What the engine has had stays as it was.
LEMMA BoundStays ==
  ASSUME Typed, Ordered, BoundedReordering, ingested' = ingested,
         \A n \in 1 .. captured : heard'[n] = heard[n]
  PROVE  BoundedReordering'
<1>1. \A i \in DOMAIN ingested : IngestedFrom("kernel", i)' = IngestedFrom("kernel", i)
  BY DEF IngestedFrom
<1>2. \A i \in DOMAIN ingested : ingested[i].from = "etw" => heard'[ingested[i].n] = heard[ingested[i].n]
  BY IngestedNumbers
<1> QED
  BY <1>1, <1>2 DEF BoundedReordering

\* Awaited in the next state, each script block by its number.
LEMMA AwaitedNext ==
  ASSUME \A n : pc' = "ingest" /\ event'.from = "etw" /\ n = event'.n => Soon(n)',
         \A n : \A j \in DOMAIN polled' : n = polled'[j].n => Soon(n)',
         pc' # "clear" => \A n : \A j \in DOMAIN events' :
                            n = events'[j].n => IF Due' THEN Soon(n)' ELSE Later(n)'
  PROVE  Awaited'
BY DEF Awaited, Soon, Later

\* The moments recorded so far.
LEMMA MomentsType ==
  ASSUME Typed
  PROVE  /\ heard \in Seq([ingested : 0 .. MaxKernel, delivered : 0 .. MaxKernel])
         /\ Len(heard) = captured /\ captured \in Nat
<1> DEFINE R == [ingested : 0 .. MaxKernel, delivered : 0 .. MaxKernel]
<1>1. heard \in [1 .. captured -> R] /\ captured \in Nat
  BY BoundAssumption DEF Typed, TypeOK
<1> HIDE DEF R
<1>2. heard \in Seq(R) /\ Len(heard) = captured
  BY <1>1
<1> QED
  BY <1>1, <1>2 DEF R

\* A script block is queued: it will be polled after at most one record more.
LEMMA CaptureFresh ==
  ASSUME Typed, InOrder, Fresh, BoundedReordering, OnEvent
  PROVE  (Running => Awaited)' /\ BoundedReordering'
<1>1. /\ ingested' = ingested /\ pc' = pc /\ exit' = exit /\ event' = event /\ polled' = polled
      /\ events' = Append(events, Etw(captured + 1)) /\ pc # "clear" /\ session = "running"
      /\ heard' = Append(heard, [ingested |-> Given("kernel"), delivered |-> delivered])
  BY DEF OnEvent, Locked, Results
<1>2. captured \in Nat /\ Len(heard) = captured
  BY MomentsType
<1>3. /\ \A n \in 1 .. captured : heard'[n] = heard[n]
      /\ heard'[captured + 1] = [ingested |-> Given("kernel"), delivered |-> delivered]
  <2> DEFINE R == [ingested : 0 .. MaxKernel, delivered : 0 .. MaxKernel]
             r == [ingested |-> Given("kernel"), delivered |-> delivered]
  <2>1. heard \in Seq(R) /\ r \in R
    <3>1. Given("kernel") \in 0 .. MaxKernel
      BY GivenType, BoundAssumption DEF InOrder, Ordered, Typed, TypeOK
    <3>2. delivered \in 0 .. MaxKernel
      BY DEF Typed, TypeOK
    <3> QED
      BY <3>1, <3>2, MomentsType
  <2>2. heard' = Append(heard, r)
    BY <1>1
  <2> HIDE DEF R, r
  <2>3. heard'[captured + 1] = r /\ \A n \in 1 .. captured : heard'[n] = heard[n]
    BY <1>2, <2>1, <2>2, AppendProperties
  <2> QED
    BY <2>3 DEF r
<1>4. BoundedReordering'
  BY <1>1, <1>3, BoundStays DEF InOrder
<1>5. /\ Given("kernel")' = Given("kernel") /\ (Due' <=> Due)
      /\ \A n \in 1 .. captured : (Soon(n)' <=> Soon(n)) /\ (Later(n)' <=> Later(n))
  BY <1>1, <1>3, MomentStays DEF Due
<1>6. ASSUME Running
      PROVE  Awaited'
  <2>1. Waiting /\ Awaited /\ mode = "live" /\ exit = "none"
    BY <1>1, <1>6 DEF InOrder, Fresh, Running, Typed, TypeOK
  <2>2. /\ Given("kernel") \in Nat /\ Given("kernel") <= delivered /\ delivered \in Nat /\ Len(batch) \in Nat
        /\ pc = "ingest" /\ event.from = "etw" => event.n \in 1 .. captured
        /\ \A j \in DOMAIN polled : polled[j].n \in 1 .. captured
        /\ \A j \in DOMAIN events : events[j].n \in 1 .. captured
    BY <1>1, <2>1, WaitingNumbers
  <2>3. /\ DOMAIN events' = 1 .. Len(events) + 1 /\ DOMAIN events = 1 .. Len(events) /\ Len(events) \in Nat
        /\ events'[Len(events) + 1] = Etw(captured + 1)
        /\ \A j \in 1 .. Len(events) : events'[j] = events[j]
    <3>1. events \in Seq(Events) /\ Etw(captured + 1) \in Events
      BY <1>2 DEF Typed, TypeOK, Etw, Events
    <3> QED
      BY <1>1, <3>1, AppendProperties, LenProperties
  <2>4. delivered - Given("kernel") = Hand("kernel") + Len(batch) /\ Hand("kernel") \in {0, 1}
    BY <2>1, <2>2, GivenType DEF Waiting, Reached
  <2>5. Len(batch) <= BatchSize /\ (pc # "yield" => Len(batch) <= BatchSize - 1)
    BY <2>1 DEF Fresh, BatchBound
  <2>6. BatchSize \in Nat
    BY BoundAssumption
  <2>7. CASE Due
    <3>1. Hand("kernel") = 0 /\ pc # "yield"
      BY <2>7 DEF Due, Hand
    <3>2. \A n : n = captured + 1 => Soon(n)'
      BY <1>2, <1>3, <1>5, <2>2, <2>4, <2>5, <2>6, <3>1 DEF Soon
    <3>3. \A n : \A j \in DOMAIN events' : n = events'[j].n => Soon(n)'
      <4>1. ASSUME NEW n, NEW j \in DOMAIN events', n = events'[j].n
            PROVE  Soon(n)'
        <5>1. CASE j = Len(events) + 1
          BY <2>3, <3>2, <4>1, <5>1 DEF Etw
        <5>2. CASE j \in 1 .. Len(events)
          BY <1>1, <1>5, <2>1, <2>2, <2>3, <2>7, <4>1, <5>2 DEF Awaited
        <5> QED
          BY <2>3, <5>1, <5>2
      <4> QED
        BY <4>1
    <3>4. \A n : \A j \in DOMAIN polled' : n = polled'[j].n => Soon(n)'
      BY <1>1, <1>5, <2>1, <2>2 DEF Awaited
    <3> QED
      BY <1>1, <1>5, <2>7, <3>1, <3>3, <3>4, AwaitedNext DEF Due
  <2>8. CASE ~ Due
    <3>1. Hand("kernel") + Len(batch) <= BatchSize
      BY <2>2, <2>4, <2>5, <2>6 DEF Hand
    <3>2. \A n : n = captured + 1 => Later(n)'
      BY <1>2, <1>3, <1>5, <2>2, <2>4, <2>6, <3>1 DEF Later
    <3>3. \A n : \A j \in DOMAIN events' : n = events'[j].n => Later(n)'
      <4>1. ASSUME NEW n, NEW j \in DOMAIN events', n = events'[j].n
            PROVE  Later(n)'
        <5>1. CASE j = Len(events) + 1
          BY <2>3, <3>2, <4>1, <5>1 DEF Etw
        <5>2. CASE j \in 1 .. Len(events)
          BY <1>1, <1>5, <2>1, <2>2, <2>3, <2>8, <4>1, <5>2 DEF Awaited
        <5> QED
          BY <2>3, <5>1, <5>2
      <4> QED
        BY <4>1
    <3>4. \A n : \A j \in DOMAIN polled' : n = polled'[j].n => Soon(n)'
      BY <1>1, <1>5, <2>1, <2>2 DEF Awaited
    <3>5. \A n : pc' = "ingest" /\ event'.from = "etw" /\ n = event'.n => Soon(n)'
      BY <1>1, <1>5, <2>1, <2>2 DEF Awaited
    <3> QED
      BY <1>5, <2>8, <3>3, <3>4, <3>5, AwaitedNext
  <2> QED
    BY <2>7, <2>8
<1> QED
  BY <1>1, <1>4, <1>6 DEF Running

\* An event is given to the engine: after a record the script blocks are due,
\* and a script block comes as soon as it was due.
LEMMA IngestFresh ==
  ASSUME Typed, InOrder, Fresh, BoundedReordering, Ingest \/ IngestRaises \/ IngestLoops
  PROVE  (Running => Awaited)' /\ BoundedReordering'
<1>1. /\ ingested' = Append(ingested, event) /\ heard' = heard /\ event' = event /\ polled' = polled
      /\ events' = events /\ captured' = captured
      /\ pc = "ingest" /\ (Running' => pc' = "alerts")
  BY DEF Ingest, IngestRaises, IngestLoops, Leave, Handled, Queues, Sources, Running
<1>2. exit = "none" /\ Running
  BY <1>1 DEF Typed, TypeOK, Running
<1>3. Waiting /\ Awaited
  BY <1>2 DEF InOrder, Fresh
<1>4. PICK n : n = Len(ingested)
  OBVIOUS
<1>5. /\ n \in Nat /\ Len(ingested)' = n + 1 /\ ingested'[n + 1] = event
      /\ \A i \in 1 .. n : ingested'[i] = ingested[i]
      /\ \A source : \A m \in 0 .. n : IngestedFrom(source, m)' = IngestedFrom(source, m)
      /\ \A source : Given(source)' = Given(source) + (IF event.from = source THEN 1 ELSE 0)
  BY <1>1, <1>4, CountGrows
<1>6. DOMAIN ingested = 1 .. n /\ DOMAIN ingested' = 1 .. n + 1
  <2>1. ingested \in Seq(Events) /\ event \in Events
    BY DEF Typed, TypeOK
  <2> QED
    BY <1>1, <1>4, <1>5, <2>1, AppendProperties, LenProperties
<1>7. event.from \in {"kernel", "etw"}
  BY DEF Typed, TypeOK, Events
<1>8. /\ Given("kernel") \in Nat /\ captured \in Nat
      /\ \A j \in DOMAIN polled : polled[j].n \in 1 .. captured
      /\ \A j \in DOMAIN events : events[j].n \in 1 .. captured
  BY <1>1, <1>3, WaitingNumbers
<1>9. \A m \in 1 .. captured : heard[m].ingested \in Nat /\ heard[m].delivered \in Nat
  BY BoundAssumption DEF Typed, TypeOK
<1>10. BatchSize \in Nat
  BY BoundAssumption
<1>11. BoundedReordering'
  <2>1. ASSUME NEW i \in 1 .. n + 1, ingested'[i].from = "etw", NEW m, m = ingested'[i].n
        PROVE  /\ IngestedFrom("kernel", i)' <= heard[m].ingested + 1
               /\ heard[m].delivered - IngestedFrom("kernel", i)' <= BatchSize - 1
    <3>1. CASE i = n + 1
      <4>1. IngestedFrom("kernel", i)' = Given("kernel")'
        BY <1>5, <3>1 DEF Given, IngestedFrom
      <4>2. Given("kernel")' = Given("kernel")
        BY <1>5, <1>8, <2>1, <3>1
      <4>3. Soon(m)
        BY <1>1, <1>3, <1>5, <2>1, <3>1 DEF Awaited
      <4> QED
        BY <4>1, <4>2, <4>3 DEF Soon
    <3>2. CASE i \in 1 .. n
      BY <1>5, <1>6, <2>1, <3>2 DEF BoundedReordering
    <3> QED
      BY <1>5, <3>1, <3>2
  <2> QED
    BY <1>1, <1>6, <2>1 DEF BoundedReordering, IngestedFrom
<1>12. ASSUME Running' PROVE Awaited'
  <2>1. pc' = "alerts"
    BY <1>1, <1>12
  <2>2. CASE event.from = "kernel"
    <3>1. polled' = <<>> /\ Due'
      BY <1>1, <1>3, <2>1, <2>2 DEF Waiting, Due
    <3>2. ASSUME NEW m, NEW j \in DOMAIN events', m = events'[j].n
          PROVE  Soon(m)'
      <4>1. Later(m) /\ m \in 1 .. captured
        BY <1>1, <1>3, <1>8, <2>2, <3>2 DEF Awaited, Due
      <4>2. Given("kernel")' = Given("kernel") + 1
        BY <1>5, <2>2
      <4> QED
        BY <1>1, <1>8, <1>9, <1>10, <4>1, <4>2 DEF Soon, Later
    <3>3. \A m : \A j \in DOMAIN polled' : m = polled'[j].n => Soon(m)'
      BY <3>1
    <3> QED
      BY <2>1, <3>1, <3>2, <3>3, AwaitedNext
  <2>3. CASE event.from = "etw"
    <3>1. Given("kernel")' = Given("kernel") /\ ~ Due' /\ ~ Due
      BY <1>1, <1>5, <1>8, <2>1, <2>3 DEF Due
    <3>2. \A m : (Soon(m)' <=> Soon(m)) /\ (Later(m)' <=> Later(m))
      BY <1>1, <3>1 DEF Soon, Later
    <3>3. \A m : \A j \in DOMAIN polled' : m = polled'[j].n => Soon(m)'
      BY <1>1, <1>3, <3>2 DEF Awaited
    <3>4. \A m : \A j \in DOMAIN events' : m = events'[j].n => Later(m)'
      BY <1>1, <1>3, <3>1, <3>2 DEF Awaited
    <3> QED
      BY <2>1, <3>1, <3>3, <3>4, AwaitedNext
  <2> QED
    BY <1>7, <2>2, <2>3
<1> QED
  BY <1>11, <1>12

\* The steps between the events.
LEMMA OtherFresh ==
  ASSUME Typed, InOrder, Fresh, BoundedReordering,
         ingested' = ingested, heard' = heard,
         Running' =>
           /\ Running
           /\ \/ /\ UNCHANGED <<polled, events, event>>
                 /\ pc # "clear" /\ pc' # "clear"
                 /\ pc' = "ingest" => pc = "ingest"
                 /\ (Due' <=> Due) \/ events = <<>>
              \/ UNCHANGED <<polled, events, event, pc>>
              \/ Yield \/ NextScriptBlock \/ PollCopy \/ PollClear
  PROVE  (Running => Awaited)' /\ BoundedReordering'
<1>1. BoundedReordering'
  BY BoundStays DEF InOrder
<1>2. /\ Given("kernel")' = Given("kernel")
      /\ \A n : (Soon(n)' <=> Soon(n)) /\ (Later(n)' <=> Later(n))
  <2>1. Given("kernel")' = Given("kernel")
    BY DEF Given, IngestedFrom
  <2> QED
    BY <2>1 DEF Soon, Later
<1>3. ASSUME Running' PROVE Awaited'
  <2>1. Waiting /\ Awaited
    BY <1>3 DEF InOrder, Fresh
  <2>2. CASE /\ UNCHANGED <<polled, events, event>>
             /\ pc # "clear" /\ pc' # "clear"
             /\ pc' = "ingest" => pc = "ingest"
             /\ (Due' <=> Due) \/ events = <<>>
    <3>1. \A n : \A j \in DOMAIN polled' : n = polled'[j].n => Soon(n)'
      BY <1>2, <2>1, <2>2 DEF Awaited
    <3>2. \A n : \A j \in DOMAIN events' : n = events'[j].n => IF Due' THEN Soon(n)' ELSE Later(n)'
      BY <1>2, <2>1, <2>2 DEF Awaited
    <3>3. \A n : pc' = "ingest" /\ event'.from = "etw" /\ n = event'.n => Soon(n)'
      BY <1>2, <2>1, <2>2 DEF Awaited
    <3> QED
      BY <3>1, <3>2, <3>3, AwaitedNext
  <2>3. CASE UNCHANGED <<polled, events, event, pc>>
    <3>1. \A n : \A j \in DOMAIN polled' : n = polled'[j].n => Soon(n)'
      BY <1>2, <2>1, <2>3 DEF Awaited
    <3>2. pc' # "clear" => \A n : \A j \in DOMAIN events' : n = events'[j].n => IF Due' THEN Soon(n)' ELSE Later(n)'
      BY <1>2, <2>1, <2>3 DEF Awaited, Due
    <3>3. \A n : pc' = "ingest" /\ event'.from = "etw" /\ n = event'.n => Soon(n)'
      BY <1>2, <2>1, <2>3 DEF Awaited
    <3> QED
      BY <3>1, <3>2, <3>3, AwaitedNext
  <2>4. CASE Yield
    <3>1. /\ UNCHANGED <<polled, events>> /\ pc = "yield" /\ pc' = "ingest" /\ event'.from = "kernel"
          /\ ~ Due /\ ~ Due'
      BY <2>4, YieldInOrder DEF Yield, Due
    <3>2. \A n : \A j \in DOMAIN polled' : n = polled'[j].n => Soon(n)'
      BY <1>2, <2>1, <3>1 DEF Awaited
    <3>3. \A n : \A j \in DOMAIN events' : n = events'[j].n => Later(n)'
      BY <1>2, <2>1, <3>1 DEF Awaited
    <3> QED
      BY <3>1, <3>2, <3>3, AwaitedNext
  <2>5. CASE NextScriptBlock
    <3>1. /\ events' = events /\ pc = "etw" /\ pc' = "ingest" /\ event' = Head(polled)
          /\ polled' = Tail(polled) /\ polled # <<>> /\ ~ Due /\ ~ Due'
      BY <2>5 DEF NextScriptBlock, Due
    <3>2. /\ event' = polled[1] /\ Len(polled) \in Nat \ {0} /\ DOMAIN polled = 1 .. Len(polled)
          /\ DOMAIN polled' = 1 .. Len(polled) - 1
          /\ \A j \in 1 .. Len(polled) - 1 : polled'[j] = polled[j + 1]
      <4>1. polled \in Seq(Events)
        BY DEF Typed, TypeOK
      <4> QED
        BY <3>1, <4>1, HeadAndTail, LenProperties
    <3>3. \A n : n = event'.n => Soon(n)'
      BY <1>2, <2>1, <3>2 DEF Awaited
    <3>4. \A n : \A j \in DOMAIN polled' : n = polled'[j].n => Soon(n)'
      <4>1. \A j \in 1 .. Len(polled) - 1 : j + 1 \in DOMAIN polled /\ polled'[j] = polled[j + 1]
        BY <3>2
      <4> QED
        BY <1>2, <2>1, <3>2, <4>1 DEF Awaited
    <3>5. \A n : \A j \in DOMAIN events' : n = events'[j].n => Later(n)'
      BY <1>2, <2>1, <3>1 DEF Awaited
    <3> QED
      BY <3>1, <3>3, <3>4, <3>5, AwaitedNext
  <2>6. CASE PollCopy
    <3>1. events' = events /\ polled' = events /\ pc = "poll" /\ pc' = "clear" /\ Due
      BY <2>6 DEF PollCopy, Due
    <3>2. \A n : \A j \in DOMAIN polled' : n = polled'[j].n => Soon(n)'
      BY <1>2, <2>1, <3>1 DEF Awaited
    <3> QED
      BY <3>1, <3>2, AwaitedNext
  <2>7. CASE PollClear
    <3>1. events' = <<>> /\ polled' = polled /\ pc = "clear" /\ pc' = "etw"
      BY <2>7 DEF PollClear
    <3>2. \A n : \A j \in DOMAIN polled' : n = polled'[j].n => Soon(n)'
      BY <1>2, <2>1, <3>1 DEF Awaited
    <3>3. DOMAIN events' = {}
      BY <3>1
    <3> QED
      BY <3>1, <3>2, <3>3, AwaitedNext
  <2> QED
    BY <1>3, <2>2, <2>3, <2>4, <2>5, <2>6, <2>7
<1> QED
  BY <1>1, <1>3

LEMMA FreshStep ==
  Typed /\ InOrder /\ Fresh /\ BoundedReordering /\ [Next]_vars => Fresh' /\ BoundedReordering'
<1> SUFFICES ASSUME Typed, InOrder, Fresh, BoundedReordering, [Next]_vars
             PROVE  (Running => Awaited)' /\ BoundedReordering'
  BY BatchBoundStep DEF Fresh
<1>1. ASSUME LoadChains \/ StartFails \/ StartStats \/ StatsOfReplay \/ StartReplay \/ StartLive
             \/ Stop \/ OpenFails \/ Open \/ ReadFails \/ Wake \/ EntryRaises \/ ReadAgain
             \/ ReplayComplete \/ WriteAlert \/ WriteFails \/ Generate \/ EventDone
             \/ NoMoreScriptBlocks \/ ReadBatch \/ ReadNothing \/ ReadStats \/ Interrupt
      PROVE  (Running => Awaited)' /\ BoundedReordering'
  <2> USE DEF LoadChains, StartFails, StartStats, StatsOfReplay, StartReplay, StartLive, Stop,
    OpenFails, Open, ReadFails, Wake, EntryRaises, ReadAgain, ReplayComplete, WriteAlert, WriteFails,
    Generate, EventDone, NoMoreScriptBlocks, ReadBatch, ReadNothing, ReadStats, Interrupt, Leave
  <2>1. ingested' = ingested /\ heard' = heard /\ UNCHANGED <<polled, events, event>>
    BY <1>1 DEF Queues, Sources, Results
  <2>2. Running' => Running /\ pc # "clear" /\ pc' # "clear" /\ pc' # "ingest"
    BY <1>1 DEF Running, Typed, TypeOK, Handled, AfterEvent
  <2>3. Running' => (Due' <=> Due) \/ events = <<>>
    BY <1>1, <2>1 DEF Running, Typed, TypeOK, Handled, AfterEvent, Due, Events
  <2> HIDE DEF LoadChains, StartFails, StartStats, StatsOfReplay, StartReplay, StartLive, Stop,
    OpenFails, Open, ReadFails, Wake, EntryRaises, ReadAgain, ReplayComplete, WriteAlert, WriteFails,
    Generate, EventDone, NoMoreScriptBlocks, ReadBatch, ReadNothing, ReadStats, Interrupt, Leave
  <2> QED
    BY <2>1, <2>2, <2>3, OtherFresh
<1>2. ASSUME Yield \/ NextScriptBlock \/ PollCopy \/ PollClear
      PROVE  (Running => Awaited)' /\ BoundedReordering'
  <2>1. ingested' = ingested /\ heard' = heard /\ Running
    BY <1>2 DEF Yield, NextScriptBlock, PollCopy, PollClear, Sources, Results, Running, Typed, TypeOK
  <2> QED
    BY <1>2, <2>1, OtherFresh
<1>3. ASSUME CaptureFails \/ UNCHANGED vars
      PROVE  (Running => Awaited)' /\ BoundedReordering'
  <2>1. UNCHANGED <<ingested, heard, polled, events, event, pc, exit>>
    BY <1>3 DEF CaptureFails, vars, Queues, Sources, Results
  <2> QED
    BY <2>1, OtherFresh DEF Running
<1> QED
  BY <1>1, <1>2, <1>3, CaptureFresh, IngestFresh DEF Next, AgentStep, DriverReply, OwnStep

\* For every size of a batch: a script block reaches the engine at most one
\* record late, and overtakes at most the rest of one batch.
THEOREM ReorderingIsBounded == Spec => []BoundedReordering
BY FreshInit, FreshStep, TypedAndInOrder, PTL DEF Spec

============================================================================
