----------------------- MODULE ValidationReportProofs -----------------------
(***************************************************************************)
(* Proofs about ValidationReport, for every set of fixtures and of rules,  *)
(* every number of events, runs and samples.  Two invariants: one of the   *)
(* thread that samples the process, in which the engine plays no part; and *)
(* one of the main thread, which rests on what is proved of the engine: it *)
(* returns one alert per attack, so each result is right and the verdict.  *)
(***************************************************************************)
EXTENDS ValidationReport, CorrelationEngineProofs, SequenceTheorems

----------------------------------------------------------------------------
(* The inductive invariant.  Once it is asked to end the thread is past    *)
(* its last sample or has one to take; both figures are read after that.   *)

Places == {"warm", "check", "measure", "wait", "ended"}

SamplerTypes ==
  /\ thread \in Places /\ stop \in BOOLEAN
  /\ samples \in Nat /\ atStop \in Nat /\ cpus \in Nat /\ mems \in Nat

OneLeft ==
  stop => \/ samples = atStop
          \/ samples = atStop + 1 /\ thread \in {"wait", "check", "ended"}

Figures ==
  /\ pc \in {"join", "cpus", "mems"} => stop
  /\ pc = "mems" => atStop <= cpus /\ cpus <= samples
  /\ pc \in {"fixtures", "replay", "bench"} => mems - cpus \in {0, 1}

SamplerInv == SamplerTypes /\ OneLeft /\ Figures

LEMMA SamplerInit == ReportInit => SamplerInv
<1> SUFFICES ASSUME ReportInit PROVE SamplerInv
  OBVIOUS
<1>1. ~ stop /\ stop \in BOOLEAN
  BY DEF ReportInit
<1>2. pc = "fixtures" /\ thread = "ended" /\ samples = 0 /\ atStop = 0 /\ cpus = 0 /\ mems = 0
  BY DEF ReportInit
<1>3. SamplerTypes
  BY <1>1, <1>2 DEF SamplerTypes, Places
<1>4. OneLeft
  BY <1>1 DEF OneLeft
<1>5. mems - cpus = 0
  BY <1>2
<1>6. Figures
  BY <1>2, <1>5 DEF Figures
<1> QED
  BY <1>3, <1>4, <1>6 DEF SamplerInv

----------------------------------------------------------------------------
(* Steps *)

\* Most steps of the main thread leave the sampler and its figures alone; what
\* is left to see is where they lead.
LEMMA Elsewhere ==
  ASSUME SamplerInv, UNCHANGED <<thread, stop, samples, atStop, cpus, mems>>,
         \/ pc' \in {pc, "done", "stream", "verdict"}
         \/ pc' = "join" /\ stop
         \/ pc' = "cpus" /\ pc = "join"
         \/ {pc, pc'} \subseteq {"fixtures", "replay", "bench"}
  PROVE  SamplerInv'
<1>1. SamplerTypes' /\ OneLeft'
  BY DEF SamplerInv, SamplerTypes, OneLeft
<1>2. Figures'
  BY DEF SamplerInv, Figures
<1> QED
  BY <1>1, <1>2 DEF SamplerInv

\* The suite does not know of the sampler.
LEMMA SuiteSteps ==
  ASSUME SamplerInv,
         \/ SkipFixture \/ LoadFixture \/ FixtureDone \/ SuiteDone
         \/ RulesRaise \/ IngestNext \/ RunsDone \/ Decide \/ Join
  PROVE  SamplerInv'
<1> USE DEF sampler, figures
<1>1. CASE SkipFixture
  BY <1>1, Elsewhere, SMT DEF SkipFixture
<1>2. CASE LoadFixture
  BY <1>2, Elsewhere, SMT DEF LoadFixture
<1>3. CASE FixtureDone
  BY <1>3, Elsewhere, SMT DEF FixtureDone
<1>4. CASE SuiteDone
  BY <1>4, Elsewhere, SMT DEF SuiteDone
<1>5. CASE RulesRaise
  BY <1>5, Elsewhere, SMT DEF RulesRaise, Crash
<1>6. CASE IngestNext
  BY <1>6, Elsewhere, SMT DEF IngestNext, Crash
<1>7. CASE RunsDone \/ Decide \/ Join
  BY <1>7, Elsewhere, SMT DEF RunsDone, Crash, Decide, Join
<1> QED
  BY <1>1, <1>2, <1>3, <1>4, <1>5, <1>6, <1>7

\* A run begins with a thread and a list of its own, ends by asking the thread
\* to stop, and reads the list twice.
LEMMA RunSteps ==
  ASSUME SamplerInv, StartRun \/ SetStop \/ ReadCpus \/ ReadMems
  PROVE  SamplerInv'
<1> USE DEF SamplerInv, SamplerTypes, Places, OneLeft, Figures
<1>1. CASE StartRun
  BY <1>1 DEF StartRun, figures
<1>2. CASE SetStop
  BY <1>2 DEF SetStop, figures
<1>3. CASE ReadCpus
  BY <1>3 DEF ReadCpus, sampler
<1>4. CASE ReadMems
  BY <1>4 DEF ReadMems, sampler
<1> QED
  BY <1>1, <1>2, <1>3, <1>4

\* The thread takes a sample only behind a test that found stop unset.
LEMMA ThreadSteps ==
  ASSUME SamplerInv, Sample
  PROVE  SamplerInv'
<1> USE DEF SamplerInv, SamplerTypes, Places, OneLeft, Figures, Goes, Sample, figures
<1>1. CASE Goes("warm", "check")
  BY <1>1
<1>2. CASE TestStop
  BY <1>2 DEF TestStop
<1>3. CASE Measure
  BY <1>3 DEF Measure
<1>4. CASE Goes("measure", "ended") \/ Goes("wait", "check")
  BY <1>4
<1> QED
  BY <1>1, <1>2, <1>3, <1>4

LEMMA SamplerStep == SamplerInv /\ [ReportNext]_reportVars => SamplerInv'
<1> SUFFICES ASSUME SamplerInv, [ReportNext]_reportVars PROVE SamplerInv'
  OBVIOUS
<1>1. CASE Main
  BY <1>1, SuiteSteps, RunSteps DEF Main
<1>2. CASE UNCHANGED reportVars
  BY <1>2, Elsewhere DEF reportVars, sampler, figures
<1> QED
  BY <1>1, <1>2, ThreadSteps DEF ReportNext

----------------------------------------------------------------------------
(* What an engine has returned.  An alert is told from the others by its   *)
(* chain and its first event, so there are as many as attacks have begun.  *)

Starts == [t \in alerts |-> <<t.chain, Start(t)>>]

LEMMA StartsAreApart ==
  ASSUME IInv, NEW T, \A t \in alerts : <<t.chain, Start(t)>> \in T
  PROVE  Starts \in Injection(alerts, T)
<1>1. Starts \in [alerts -> T]
  BY DEF Starts
<1>2. \A t, u \in alerts : Starts[t] = Starts[u] => t = u
  <2>1. ASSUME NEW t \in alerts, NEW u \in alerts, Starts[t] = Starts[u]
        PROVE  t.chain = u.chain /\ Start(t) = Start(u)
    BY <2>1 DEF Starts
  <2> QED
    BY <2>1 DEF IInv, OneTrackPerStart, Tracks
<1> QED
  BY <1>1, <1>2 DEF Injection, IsInjective

LEMMA FinitelyManyAlerts ==
  ASSUME IInv
  PROVE  IsFiniteSet(alerts) /\ Cardinality(alerts) \in Nat
<1> DEFINE T == (DOMAIN Chains) \X (1 .. Len(history))
<1>1. DOMAIN Chains = 1 .. Len(Chains) /\ Len(Chains) \in Nat
  BY ChainAssumption
<1>2. IsFiniteSet(1 .. Len(history)) /\ IsFiniteSet(DOMAIN Chains)
  BY <1>1, FS_Interval DEF IInv, TypeOK
<1>3. IsFiniteSet(T)
  BY <1>2, FS_Product
<1>4. \A t \in alerts : <<t.chain, Start(t)>> \in T
  BY TrackFacts DEF Tracks
<1>5. Starts \in Injection(alerts, T)
  BY <1>4, StartsAreApart
<1>6. IsFiniteSet(alerts)
  BY <1>3, <1>5, FS_Injection
<1> QED
  BY <1>6, FS_CardinalityType

LEMMA AlertsAreAttacks ==
  ASSUME IInv, LineageInv, Greedy, status = "running", StableParents(history)
  PROVE  Cardinality(AttackStarts(history)) = Cardinality(alerts)
<1> DEFINE A == AttackStarts(history)
<1>1. ASSUME NEW t \in alerts
      PROVE  <<t.chain, Start(t)>> \in A
  <2> DEFINE c == t.chain
             pos == t.matched_events
             S == DOMAIN history
             l == Len(Chains[t.chain].steps)
  <2>1. /\ t \in Tracks /\ c \in DOMAIN Chains /\ pos \in Seq(S) /\ Start(t) \in S
        /\ Len(pos) = l /\ l \in Nat \ {0}
    BY TrackFacts DEF Tracks, IInv, TypeOK, AlertsAreComplete, Complete, StepsOf
  <2>2. Occurrence(history, c, pos)
    BY <2>1 DEF IInv, LineageInv, StepsInOrder, Occurrence, InLine
  <2>3. pos \in [1 .. l -> S] /\ pos # <<>>
    <3> HIDE DEF pos, S, l
    <3> QED
      BY <2>1
  <2>4. pos \in Positions(history, c) /\ pos[1] = Start(t)
    BY <2>3 DEF Positions, Start
  <2>5. <<c, Start(t)>> \in (DOMAIN Chains) \X S
    BY <2>1
  <2> HIDE DEF pos
  <2> QED
    BY <2>2, <2>3, <2>4, <2>5 DEF AttackStarts
<1>2. ASSUME NEW a \in A
      PROVE  \E t \in alerts : Starts[t] = a
  <2> DEFINE c == a[1]
             S == DOMAIN history
             l == Len(Chains[a[1]].steps)
  <2>1. PICK pos \in Positions(history, c) :
          pos # <<>> /\ pos[1] = a[2] /\ Occurrence(history, c, pos)
    BY DEF AttackStarts
  <2>2. c \in DOMAIN Chains /\ a = <<a[1], a[2]>> /\ l \in Nat
    BY ChainAssumption DEF AttackStarts
  <2>3. pos \in Seq(S) /\ Len(pos) = l /\ l # 0
    <3>1. pos \in [1 .. l -> S]
      BY DEF Positions
    <3> HIDE DEF S, l
    <3> QED
      BY <2>1, <2>2, <3>1
  <2>4. PICK t \in Tracks : t.chain = c /\ Start(t) = pos[1] /\ t.current_step_index >= l
    <3>1. Len(pos) \in 1 .. Len(Chains[c].steps)
      BY <2>2, <2>3
    <3>2. Followed(c, pos)
      BY <2>1, <2>2, <2>3, <3>1 DEF Greedy
    <3> QED
      BY <2>3, <3>2 DEF Followed
  <2>5. t.current_step_index = l
    BY <2>2, <2>4, TrackFacts DEF StepsOf
  <2>6. t \in alerts
    BY <2>4, <2>5 DEF IInv, AlertsAreComplete, Complete, StepsOf, Tracks
  <2> QED
    BY <2>1, <2>2, <2>4, <2>6 DEF Starts
<1>3. Starts \in Injection(alerts, A)
  BY <1>1, StartsAreApart
<1> HIDE DEF A
<1>4. Starts \in Bijection(alerts, A)
  BY <1>2, <1>3 DEF Bijection, Surjection, Injection
<1> QED
  BY <1>4, FinitelyManyAlerts, FS_Bijection DEF ExistsBijection, A

----------------------------------------------------------------------------
(* The synthetic stream: blocks of four events, in each of which every      *)
(* process is the child of the one before.                                  *)

LEMMA StreamFacts ==
  /\ Count \in Nat /\ Len(Stream) = Count /\ DOMAIN Stream = 1 .. Count
  /\ Stream \in Seq(EventSpace)
  /\ \A n \in 1 .. Count :
       /\ Stream[n].event_type = "ProcessCreate"
       /\ Stream[n].pid = 10000 + 10 * (n - 1)
       /\ Stream[n].ppid = IF (n - 1) % 4 = 0 THEN 400 ELSE 10000 + 10 * (n - 2)
       /\ IsPid(Stream[n].ppid) /\ Stream[n].ppid # None
<1>1. Count \in Nat
  BY CountAssumption
<1>2. DOMAIN Stream = 1 .. Count /\ Len(Stream) = Count
  BY <1>1 DEF Stream
<1>3. \A n \in 1 .. Count : Stream[n] \in EventSpace
  BY <1>2, StreamAssumption DEF Range
<1>4. Stream = [n \in 1 .. Count |-> Stream[n]]
  BY DEF Stream
<1>5. Stream \in Seq(EventSpace)
  <2>1. Stream \in [1 .. Count -> EventSpace]
    BY <1>3, <1>4
  <2> QED
    BY <1>1, <2>1
<1>6. ASSUME NEW n \in 1 .. Count
      PROVE  /\ Stream[n].event_type = "ProcessCreate"
             /\ Stream[n].pid = 10000 + 10 * (n - 1)
             /\ Stream[n].ppid = IF (n - 1) % 4 = 0 THEN 400 ELSE 10000 + 10 * (n - 2)
             /\ IsPid(Stream[n].ppid) /\ Stream[n].ppid # None
  <2>1. /\ Stream[n].event_type = "ProcessCreate"
        /\ Stream[n].pid = Pid(n - 1) /\ Stream[n].ppid = Ppid(n - 1)
    BY DEF Stream
  <2>2. Stream[n].ppid = IF (n - 1) % 4 = 0 THEN 400 ELSE 10000 + 10 * (n - 2)
    BY <2>1 DEF Ppid, Pid
  <2>3. Stream[n].ppid \in Nat \ {0}
    <3>1. (n - 1) % 4 # 0 => n >= 2
      OBVIOUS
    <3> QED
      BY <2>2, <3>1
  <2> QED
    BY <2>1, <2>2, <2>3, NoneAssumption DEF Pid, IsPid
<1> QED
  BY <1>1, <1>2, <1>5, <1>6

\* Every process is created once, so its parent is known from then on.
LEMMA StreamTree ==
  ASSUME NEW n \in 1 .. Count
  PROVE  /\ \A i \in 1 .. n : /\ Stream[i].pid \in DOMAIN TreeAfter(Stream, n)
                              /\ TreeAfter(Stream, n)[Stream[i].pid] = Stream[i].ppid
         /\ \A p \in DOMAIN TreeAfter(Stream, n) : \E i \in 1 .. n : Stream[i].pid = p
<1>1. n \in Nat /\ \A i \in 1 .. n : i \in 1 .. Count
  BY StreamFacts
<1>2. ASSUME NEW i \in 1 .. n
      PROVE  /\ Stream[i].pid \in DOMAIN TreeAfter(Stream, n)
             /\ TreeAfter(Stream, n)[Stream[i].pid] = Stream[i].ppid
  <2> DEFINE p == Stream[i].pid
  <2>1. Names(Stream, i, p)
    BY <1>1, StreamFacts DEF Names
  <2>2. ASSUME NEW j \in i + 1 .. n
        PROVE  ~ Names(Stream, j, p)
    <3>1. j \in 1 .. Count /\ i \in 1 .. Count /\ j # i
      BY <1>1
    <3>2. Stream[j].pid # Stream[i].pid
      BY <3>1, StreamFacts
    <3> QED
      BY <3>2 DEF Names
  <2> HIDE DEF p
  <2>3. p \in DOMAIN TreeAfter(Stream, n) /\ TreeAfter(Stream, n)[p] = Stream[i].ppid
    BY <1>1, <2>1, <2>2, LatestName
  <2> QED
    BY <2>3 DEF p
<1>3. \A p \in DOMAIN TreeAfter(Stream, n) : \E i \in 1 .. n : Stream[i].pid = p
  BY <1>1, NamedPids DEF Names
<1> QED
  BY <1>2, <1>3

LEMMA StreamIsStable == StableParents(Stream)
<1> SUFFICES ASSUME NEW i \in 1 .. Count, NEW n \in i .. Count
             PROVE  /\ Stream[i].pid \in DOMAIN TreeAfter(Stream, n)
                    /\ TreeAfter(Stream, n)[Stream[i].pid] = Stream[i].ppid
  BY StreamFacts DEF StableParents
<1>1. n \in 1 .. Count /\ i \in 1 .. n
  BY StreamFacts
<1> QED
  BY <1>1, StreamTree

\* Up from an event there are only earlier ones of its block.
LEMMA BlocksAreApart ==
  ASSUME NEW k \in 1 .. 3, NEW n \in 1 .. Count, (n - 1) % 4 = k,
         NEW m \in SUBSET (1 .. n - 1), InLineage(Stream, n, m)
  PROVE  \E i \in m : n - k <= i
<1> DEFINE tree  == TreeAfter(Stream, n)
           first == Stream[n].ppid
           Known == DOMAIN tree \cup Range(tree) \cup {first}
           Block == {Stream[i].pid : i \in n - k .. n} \cup {400}
           S     == Known \cap Block
<1>1. /\ n \in Nat /\ \A i \in 1 .. n : i \in 1 .. Count
      /\ n - k \in 1 .. n /\ (n - k - 1) % 4 = 0 /\ n - 1 \in n - k .. n
  <2>1. n \in Nat \ {0} /\ Count \in Nat
    BY StreamFacts
  <2>2. \A i \in 1 .. n : i \in 1 .. Count
    BY <2>1
  <2>3. k \in {1, 2, 3}
    OBVIOUS
  <2>4. n - k >= 1 /\ (n - k - 1) % 4 = 0
    BY <2>1, <2>3
  <2> QED
    BY <2>1, <2>2, <2>3, <2>4
<1>2. first = Stream[n - 1].pid /\ first \in S
  <2>1. first = Stream[n - 1].pid
    BY <1>1, StreamFacts
  <2> QED
    BY <1>1, <2>1
<1>3. ASSUME NEW p \in S \cap DOMAIN tree
      PROVE  tree[p] \in S
  <2>1. PICK i \in 1 .. n : Stream[i].pid = p
    BY StreamTree
  <2>2. tree[p] = Stream[i].ppid /\ tree[p] \in Known
    BY <2>1, StreamTree DEF Range
  <2>3. p # 400 /\ i \in 1 .. Count
    <3>1. i \in 1 .. Count /\ i \in Nat
      BY <1>1
    <3>2. p = 10000 + 10 * (i - 1)
      BY <2>1, <3>1, StreamFacts
    <3> QED
      BY <3>1, <3>2
  <2>4. PICK j \in n - k .. n : Stream[j].pid = p
    BY <2>3
  <2>5. i = j
    <3>1. j \in 1 .. Count
      BY <1>1, <2>4
    <3> QED
      BY <2>1, <2>3, <2>4, <3>1, StreamFacts
  <2>6. CASE (i - 1) % 4 = 0
    BY <2>2, <2>3, <2>6, StreamFacts
  <2>7. CASE (i - 1) % 4 # 0
    <3>1. i # n - k
      BY <1>1, <2>7
    <3>2. i - 1 \in n - k .. n /\ i - 1 \in 1 .. Count
      BY <1>1, <2>4, <2>5, <3>1
    <3>3. Stream[i].ppid = Stream[i - 1].pid
      BY <2>3, <2>7, <3>2, StreamFacts
    <3> QED
      BY <2>2, <3>2, <3>3
  <2> QED
    BY <2>6, <2>7
<1>4. PICK i \in m : Stream[i].pid = Stream[n].pid \/ OnTheWayUp(tree, first, Stream[i].pid)
  <2>1. IsPid(Stream[n].ppid)
    BY StreamFacts
  <2> QED
    BY <2>1 DEF InLineage
<1>5. i \in 1 .. Count /\ i < n
  BY <1>1
<1>6. Stream[i].pid # Stream[n].pid
  BY <1>5, StreamFacts
<1>7. Stream[i].pid \in S
  <2>1. S \in SUBSET Known
    OBVIOUS
  <2> HIDE DEF S
  <2> QED
    BY <1>2, <1>3, <1>4, <1>6, <2>1 DEF OnTheWayUp
<1>8. Stream[i].pid # 400
  BY <1>5, StreamFacts
<1>9. PICK j \in n - k .. n : Stream[j].pid = Stream[i].pid
  BY <1>7, <1>8
<1>10. j \in 1 .. Count
  BY <1>1
<1>11. i = j
  BY <1>5, <1>9, <1>10, StreamFacts
<1> QED
  BY <1>5, <1>9, <1>11

LEMMA RolesFit ==
  ASSUME StreamRules, NEW k \in 1 .. 3, NEW n \in 1 .. Count
  PROVE  Fits(Chains[1].steps[k], Stream[n]) <=> (n - 1) % 4 = k
<1>1. n \in DOMAIN Stream
  BY StreamFacts
<1> QED
  BY <1>1, Zenon DEF StreamRules

LEMMA AttackFillsBlock ==
  ASSUME StreamRules, NEW pos \in Positions(Stream, 1), Occurrence(Stream, 1, pos)
  PROVE  pos[1] \in 1 .. Count /\ pos[1] % 4 = 2 /\ pos[1] + 2 <= Count
<1>1. pos \in [1 .. 3 -> 1 .. Count] /\ Count \in Nat
  BY StreamFacts DEF Positions, StreamRules
<1>2. DOMAIN pos = 1 .. 3 /\ Len(pos) = 3
  BY <1>1
<1>3. \A k \in 1 .. 3 : pos[k] \in 1 .. Count /\ (pos[k] - 1) % 4 = k
  <2>1. \A k \in 1 .. 3 : pos[k] \in 1 .. Count
    BY <1>1
  <2>2. \A k \in 1 .. 3 : Fits(Chains[1].steps[k], Stream[pos[k]])
    BY <1>2 DEF Occurrence, InOrder
  <2> QED
    BY <2>1, <2>2, RolesFit
<1>4. pos[1] < pos[2] /\ pos[2] < pos[3]
  <2>1. \A k \in 1 .. 3 : k > 1 => pos[k - 1] < pos[k]
    BY <1>2 DEF Occurrence, InOrder
  <2>2. pos[2 - 1] < pos[2] /\ pos[3 - 1] < pos[3]
    BY <2>1
  <2> QED
    BY <2>2
<1>5. ASSUME NEW k \in 2 .. 3
      PROVE  \E j \in 1 .. k - 1 : pos[k] - k <= pos[j]
  <2> DEFINE n == pos[k]
             m == {pos[j] : j \in 1 .. k - 1}
  <2>1. InLineage(Stream, n, m)
    BY <1>2 DEF Occurrence
  <2>2. k \in 1 .. 3 /\ n \in 1 .. Count /\ (n - 1) % 4 = k
    BY <1>3
  <2>3. m \in SUBSET (1 .. n - 1)
    BY <1>3, <1>4
  <2> HIDE DEF n, m
  <2>4. PICK i \in m : n - k <= i
    BY <2>1, <2>2, <2>3, BlocksAreApart
  <2> QED
    BY <2>4 DEF n, m
<1>6. pos[2] - 2 <= pos[1]
  <2>1. \E j \in 1 .. 2 - 1 : pos[2] - 2 <= pos[j]
    BY <1>5
  <2> QED
    BY <2>1
<1>7. pos[3] - 3 <= pos[2]
  <2>1. \E j \in 1 .. 3 - 1 : pos[3] - 3 <= pos[j]
    BY <1>5
  <2>2. pos[3] - 3 <= pos[1] \/ pos[3] - 3 <= pos[2]
    BY <2>1
  <2> QED
    BY <1>3, <1>4, <2>2
<1> DEFINE a == pos[1]
           b == pos[2]
           c == pos[3]
<1>8. /\ a \in 1 .. Count /\ b \in 1 .. Count /\ c \in 1 .. Count
      /\ (a - 1) % 4 = 1 /\ (b - 1) % 4 = 2 /\ (c - 1) % 4 = 3
      /\ a < b /\ b < c /\ b - 2 <= a /\ c - 3 <= b
  BY <1>3, <1>4, <1>6, <1>7
<1> SUFFICES a % 4 = 2 /\ a + 2 <= Count
  BY <1>8
<1> HIDE DEF a, b, c
<1>9. b = a + 1
  BY <1>1, <1>8
<1>10. c = b + 1
  BY <1>1, <1>8
<1> QED
  BY <1>1, <1>8, <1>9, <1>10

LEMMA BlockIsAttack ==
  ASSUME StreamRules, NEW i \in 1 .. Count, i % 4 = 2, i + 2 <= Count
  PROVE  \E pos \in Positions(Stream, 1) : pos # <<>> /\ pos[1] = i /\ Occurrence(Stream, 1, pos)
<1> DEFINE pos == [k \in 1 .. 3 |-> i + k - 1]
<1>1. Count \in Nat /\ i \in Nat
  BY StreamFacts
<1>2. /\ pos \in [1 .. 3 -> 1 .. Count] /\ DOMAIN pos = 1 .. 3 /\ Len(pos) = 3
      /\ pos[1] = i /\ \A k \in 1 .. 3 : pos[k] = i + k - 1
  BY <1>1
<1> HIDE DEF pos
<1>3. pos \in Positions(Stream, 1) /\ pos # <<>>
  <2>1. Len(Chains[1].steps) = 3 /\ DOMAIN Stream = 1 .. Count
    BY StreamFacts DEF StreamRules
  <2>2. pos \in Positions(Stream, 1)
    BY <1>2, <2>1 DEF Positions
  <2>3. 1 \in DOMAIN pos
    BY <1>2
  <2> QED
    BY <2>2, <2>3
<1>4. \A k \in 1 .. 3 : pos[k] \in 1 .. Count /\ (pos[k] - 1) % 4 = k
  BY <1>1, <1>2
<1>5. InOrder(Stream, 1, pos)
  <2>1. \A k \in DOMAIN pos : Fits(Chains[1].steps[k], Stream[pos[k]])
    BY <1>2, <1>4, RolesFit
  <2>2. \A k \in DOMAIN pos : k > 1 => pos[k - 1] < pos[k]
    BY <1>1, <1>2
  <2> QED
    BY <2>1, <2>2 DEF InOrder
<1>6. ASSUME NEW k \in 2 .. 3
      PROVE  InLineage(Stream, pos[k], {pos[j] : j \in 1 .. k - 1})
  <2> DEFINE n == pos[k]
             m == {pos[j] : j \in 1 .. k - 1}
  <2>1. n \in 1 .. Count /\ n - 1 \in 1 .. Count /\ n - 1 \in m /\ (n - 1) % 4 # 0
    <3>1. k - 1 \in 1 .. k - 1 /\ k - 1 \in 1 .. 3 /\ k \in 1 .. 3
      OBVIOUS
    <3>2. pos[k - 1] \in m /\ pos[k - 1] = pos[k] - 1
      BY <1>1, <1>2, <3>1
    <3> QED
      BY <1>4, <3>1, <3>2
  <2> HIDE DEF n, m
  <2>2. Stream[n].ppid = Stream[n - 1].pid /\ IsPid(Stream[n].ppid)
    BY <2>1, StreamFacts
  <2>3. OnTheWayUp(TreeAfter(Stream, n), Stream[n].ppid, Stream[n - 1].pid)
    BY <2>2 DEF OnTheWayUp
  <2>4. InLineage(Stream, n, m)
    BY <2>1, <2>2, <2>3 DEF InLineage
  <2> QED
    BY <2>4 DEF n, m
<1>7. Occurrence(Stream, 1, pos)
  BY <1>2, <1>5, <1>6 DEF Occurrence
<1> QED
  BY <1>2, <1>3, <1>7

LEMMA AttacksOfStream ==
  ASSUME StreamRules
  PROVE  Cardinality(AttackStarts(Stream)) = Count \div 4
<1> DEFINE N == Count \div 4
           A == AttackStarts(Stream)
           F == [j \in 1 .. N |-> <<1, 4 * j - 2>>]
<1>1. Count \in Nat /\ N \in Nat
  BY StreamFacts
<1>2. ASSUME NEW j \in 1 .. N
      PROVE  <<1, 4 * j - 2>> \in A
  <2>1. 4 * j - 2 \in 1 .. Count /\ (4 * j - 2) % 4 = 2 /\ (4 * j - 2) + 2 <= Count
    BY <1>1
  <2>2. <<1, 4 * j - 2>> \in (DOMAIN Chains) \X (DOMAIN Stream)
    BY <2>1, StreamFacts DEF StreamRules
  <2> QED
    BY <2>1, <2>2, BlockIsAttack DEF AttackStarts
<1>3. ASSUME NEW a \in A
      PROVE  \E j \in 1 .. N : <<1, 4 * j - 2>> = a
  <2>1. /\ a \in (DOMAIN Chains) \X (DOMAIN Stream)
        /\ \E pos \in Positions(Stream, a[1]) : pos[1] = a[2] /\ Occurrence(Stream, a[1], pos)
    BY DEF AttackStarts
  <2>2. a[1] = 1 /\ a = <<1, a[2]>>
    BY <2>1 DEF StreamRules
  <2>3. a[2] \in 1 .. Count /\ a[2] % 4 = 2 /\ a[2] + 2 <= Count
    BY <2>1, <2>2, AttackFillsBlock
  <2>4. PICK j \in 1 .. N : 4 * j - 2 = a[2]
    <3> DEFINE i == a[2]
               j == (a[2] + 2) \div 4
    <3> SUFFICES j \in 1 .. N /\ 4 * j - 2 = i
      OBVIOUS
    <3> QED
      BY <1>1, <2>3
  <2> QED
    BY <2>2, <2>4
<1> HIDE DEF A, N
<1>4. F \in [1 .. N -> A]
  BY <1>2
<1>5. \A j, k \in 1 .. N : F[j] = F[k] => j = k
  <2>1. ASSUME NEW j \in 1 .. N, NEW k \in 1 .. N, F[j] = F[k]
        PROVE  j = k
    <3>1. <<1, 4 * j - 2>> = <<1, 4 * k - 2>>
      BY <2>1
    <3>2. 4 * j - 2 = 4 * k - 2
      BY <3>1
    <3> QED
      BY <1>1, <3>2
  <2> QED
    BY <2>1
<1>6. F \in Injection(1 .. N, A)
  BY <1>4, <1>5 DEF Injection, IsInjective
<1>7. \A a \in A : \E j \in 1 .. N : F[j] = a
  BY <1>3
<1>8. F \in Bijection(1 .. N, A)
  BY <1>4, <1>6, <1>7 DEF Bijection, Surjection
<1>9. Cardinality(A) = N
  BY <1>1, <1>8, FS_CountingElements DEF ExistsBijection
<1> QED
  BY <1>9 DEF A, N

----------------------------------------------------------------------------
(* Where the main thread is *)

Stages ==
  {"fixtures", "replay", "bench", "stream", "join", "cpus", "mems", "verdict", "done"}

Stage ==
  /\ pc \in Stages /\ rules_dir \in {"whole", "hollow", "unparsable"}
  /\ present \in SUBSET DOMAIN Fixtures
  /\ fixture \in 1 .. Len(Fixtures) + 1 /\ run \in 0 .. Repeats
  /\ pc = "replay" => fixture \in present /\ Parses
  /\ pc \in {"stream", "join", "cpus", "mems"} => run < Repeats
  /\ pc \notin {"fixtures", "replay", "done"} => fixture = Len(Fixtures) + 1
  /\ pc \in {"fixtures", "replay"} => thread = "ended"
  /\ thread \in Places
  /\ verdict \in {"none", "pass", "fail", "crash"}
  /\ verdict = "none" <=> pc # "done"

LEMMA FixturesTyped ==
  /\ Len(Fixtures) \in Nat /\ DOMAIN Fixtures = 1 .. Len(Fixtures)
  /\ \A f \in DOMAIN Fixtures :
       /\ Fixtures[f].events \in Seq(EventSpace) /\ Fixtures[f].expected \in Nat
       /\ StableParents(Fixtures[f].events)
<1> DEFINE Fixture == [events : Seq(EventSpace), expected : Nat]
<1>1. Fixtures \in Seq(Fixture)
  BY FixtureAssumption
<1>2. Len(Fixtures) \in Nat /\ DOMAIN Fixtures = 1 .. Len(Fixtures)
  BY <1>1
<1>3. \A f \in DOMAIN Fixtures : Fixtures[f] \in Fixture
  <2> HIDE DEF Fixture
  <2> QED
    BY <1>1
<1> QED
  BY <1>2, <1>3, FixtureAssumption

LEMMA StageInit == ReportInit => Stage
<1> SUFFICES ASSUME ReportInit PROVE Stage
  OBVIOUS
<1>1. 1 \in 1 .. Len(Fixtures) + 1 /\ 0 \in 0 .. Repeats
  BY FixturesTyped, CountAssumption
<1>2. pc = "fixtures" /\ fixture = 1 /\ run = 0 /\ thread = "ended" /\ verdict = "none"
  BY DEF ReportInit
<1>3. rules_dir \in {"whole", "hollow", "unparsable"} /\ present \in SUBSET DOMAIN Fixtures
  BY DEF ReportInit
<1> QED
  BY <1>1, <1>2, <1>3 DEF Stage, Stages, Places

LEMMA StageStep == Stage /\ [ReportNext]_reportVars => Stage'
<1> SUFFICES ASSUME Stage, [ReportNext]_reportVars PROVE Stage'
  OBVIOUS
<1> USE FixturesTyped, CountAssumption DEF Stage, Stages, Places, options, suite, figures, sampler, Parses
<1>1. CASE SkipFixture
  BY <1>1, SMT DEF SkipFixture
<1>2. CASE LoadFixture
  BY <1>2, SMT DEF LoadFixture
<1>3. CASE FixtureDone
  BY <1>3, SMT DEF FixtureDone
<1>4. CASE SuiteDone
  BY <1>4, SMT DEF SuiteDone
<1>5. CASE StartRun
  BY <1>5, SMT DEF StartRun
<1>6. CASE SetStop
  BY <1>6, SMT DEF SetStop
<1>7. CASE Join \/ ReadCpus \/ ReadMems \/ RunsDone
  BY <1>7, SMT DEF Join, ReadCpus, ReadMems, RunsDone, Crash
<1>8. CASE RulesRaise
  BY <1>8, SMT DEF RulesRaise, Crash
<1>9. CASE IngestNext
  BY <1>9, SMT DEF IngestNext, Crash
<1>10. CASE Decide
  BY <1>10, SMT DEF Decide
<1>11. CASE Sample
  BY <1>11, SMT DEF Sample, TestStop, Measure, Goes
<1>12. CASE UNCHANGED reportVars
  BY <1>12, SMT DEF reportVars
<1> QED
  BY <1>1, <1>2, <1>3, <1>4, <1>5, <1>6, <1>7, <1>8, <1>9, <1>10, <1>11, <1>12 DEF ReportNext, Main

----------------------------------------------------------------------------
(* The engine at work.  It has been given the first events of the fixture,  *)
(* or of the stream, and no others; and found counts its alerts.            *)

Works == IInv /\ LineageInv /\ Greedy

Given(evs) == Len(history) = fed /\ \A i \in 1 .. fed : history[i] = evs[i]

Replayed ==
  /\ rules_dir = "whole" => Works
  /\ rules_dir # "whole" => alerts = {}
  /\ found = Cardinality(alerts)
  /\ pc \in {"replay", "stream"} => fed \in 0 .. Len(Input) /\ (rules_dir = "whole" => Given(Input))
  /\ pc = "join" /\ rules_dir = "whole" => status = "running" /\ history = Stream

LEMMA NewWorks ==
  ASSUME Init'
  PROVE  Works'
<1>1. (Init => IInv)'
  BY IInvInit, PTL
<1>2. (Init => LineageInv)'
  BY LineageInit, PTL
<1>3. (Init => Greedy)'
  BY GreedyInit, PTL
<1> QED
  BY <1>1, <1>2, <1>3 DEF Works

LEMMA ReceiveWorks ==
  ASSUME Works, status = "running", NEW e \in EventSpace, Receive(e)
  PROVE  Works' /\ history' = Append(history, e) /\ alerts \subseteq alerts'
<1>1. Works'
  BY ReceiveKeepsIInv, ReceiveKeepsLineage, ReceiveKeepsGreedy DEF Works
<1>2. history' = Append(history, e) /\ alerts \subseteq alerts'
  BY DEF Receive, Ingest, IngestLoops, IngestRaises, Process
<1> QED
  BY <1>1, <1>2

LEMMA IdleWorks ==
  ASSUME Works, UNCHANGED vars
  PROVE  Works'
BY IInvStep, LineageStep, GreedyStep DEF Works

\* Whatever rules there are, one without steps is among them, so a call that
\* does not loop raises, and neither returns an alert.
LEMMA HollowReturnsNothing ==
  ASSUME NEW e, Hollow!Receive(e)
  PROVE  alerts' = alerts
<1>1. ~ Hollow!Ingest(e)
  BY RulesAssumption DEF Hollow!Ingest, Hollow!Malformed, Malformed
<1> QED
  BY <1>1 DEF Hollow!Receive, Hollow!IngestLoops, Hollow!IngestRaises, Hollow!Process, Hollow!Returned

LEMMA InputTyped ==
  ASSUME Stage
  PROVE  Input \in Seq(EventSpace) /\ Len(Input) \in Nat
<1>1. pc = "replay" => fixture \in DOMAIN Fixtures
  BY DEF Stage
<1> QED
  BY <1>1, FixturesTyped, StreamFacts DEF Input

LEMMA ReplayedInit == ReportInit => Replayed
<1> SUFFICES ASSUME ReportInit PROVE Replayed
  OBVIOUS
<1>1. Init /\ alerts = {} /\ found = 0 /\ pc = "fixtures"
  BY DEF ReportInit, Init
<1>2. Works
  BY <1>1, IInvInit, LineageInit, GreedyInit DEF Works
<1> QED
  BY <1>1, <1>2, FS_EmptySet DEF Replayed

\* A new engine has been given nothing.
LEMMA EngineIsNew ==
  ASSUME Stage', NewEngine, pc' # "join"
  PROVE  Replayed'
<1>1. Init' /\ alerts' = {} /\ history' = <<>> /\ fed' = 0 /\ found' = 0
  BY DEF NewEngine, Init
<1>2. Works'
  BY <1>1, NewWorks
<1>3. Input' \in Seq(EventSpace) /\ Len(Input') \in Nat
  <2>1. (Stage => Input \in Seq(EventSpace) /\ Len(Input) \in Nat)'
    BY InputTyped, PTL
  <2> QED
    BY <2>1
<1>4. 0 \in 0 .. Len(Input')
  BY <1>3
<1>5. Len(history') = 0 /\ \A i \in 1 .. 0 : history'[i] = Input'[i]
  BY <1>1
<1> QED
  BY <1>1, <1>2, <1>4, <1>5, FS_EmptySet DEF Replayed, Given

\* Between two replays the engine is left alone.
LEMMA EngineRests ==
  ASSUME Replayed, UNCHANGED <<replay, rules_dir>>,
         \/ pc' \notin {"replay", "stream", "join"}
         \/ pc' = pc /\ fixture' = fixture
  PROVE  Replayed'
<1>1. UNCHANGED vars /\ fed' = fed /\ found' = found /\ rules_dir' = rules_dir
  BY DEF replay
<1>2. alerts' = alerts /\ history' = history /\ status' = status
  BY <1>1 DEF vars
<1>3. rules_dir' = "whole" => Works'
  BY <1>1, IdleWorks DEF Replayed
<1>4. CASE pc' \notin {"replay", "stream", "join"}
  BY <1>1, <1>2, <1>3, <1>4 DEF Replayed
<1>5. CASE pc' = pc /\ fixture' = fixture
  <2>1. Input' = Input
    BY <1>5 DEF Input, Stream
  <2>2. Given(Input)' <=> Given(Input)
    BY <1>1, <1>2, <2>1 DEF Given
  <2> QED
    BY <1>1, <1>2, <1>3, <1>5, <2>1, <2>2 DEF Replayed, Stream
<1> QED
  BY <1>4, <1>5

LEMMA EngineIngests ==
  ASSUME Stage, Replayed, IngestNext
  PROVE  Replayed'
<1> DEFINE e == Input[fed + 1]
<1>1. /\ pc \in {"replay", "stream"} /\ fed < Len(Input) /\ status = "running"
      /\ fed' = fed + 1 /\ found' = found + Cardinality(alerts' \ alerts)
  BY DEF IngestNext
<1>2. fixture' = fixture /\ rules_dir' = rules_dir /\ (pc' = pc \/ pc' = "done")
  BY DEF IngestNext, Crash, options, suite
<1>3. \/ rules_dir = "whole" /\ Receive(e)
      \/ rules_dir = "hollow" /\ Hollow!Receive(e)
  BY DEF IngestNext
<1>4. fed \in 0 .. Len(Input) /\ Len(Input) \in Nat /\ e \in EventSpace
  BY <1>1, InputTyped DEF Replayed
<1>5. fed' \in 0 .. Len(Input) /\ fed \in Nat
  BY <1>1, <1>4
<1>6. pc' = pc => Input' = Input
  BY <1>2 DEF Input, Stream
<1> HIDE DEF e
<1>7. CASE rules_dir = "whole"
  <2>1. Receive(e) /\ Works /\ Given(Input)
    BY <1>1, <1>7, <1>3 DEF Replayed
  <2>2. Works' /\ history' = Append(history, e) /\ alerts \subseteq alerts'
    BY <1>1, <1>4, <2>1, ReceiveWorks
  <2>3. found' = Cardinality(alerts')
    <3>1. IsFiniteSet(alerts) /\ Cardinality(alerts) \in Nat
      BY <2>1, FinitelyManyAlerts DEF Works
    <3>2. IsFiniteSet(alerts')
      <4>1. (IInv => IsFiniteSet(alerts) /\ Cardinality(alerts) \in Nat)'
        BY FinitelyManyAlerts, PTL
      <4> QED
        BY <2>2, <4>1 DEF Works
    <3>3. /\ Cardinality(alerts' \ alerts) = Cardinality(alerts') - Cardinality(alerts' \cap alerts)
          /\ Cardinality(alerts') \in Nat
      BY <3>2, FS_Difference, FS_CardinalityType
    <3>4. Cardinality(alerts' \ alerts) = Cardinality(alerts') - Cardinality(alerts)
      <4>1. alerts' \cap alerts = alerts
        BY <2>2
      <4> QED
        BY <3>3, <4>1
    <3>5. found = Cardinality(alerts) /\ found' = found + Cardinality(alerts' \ alerts)
      BY <1>1 DEF Replayed
    <3> QED
      BY <3>1, <3>3, <3>4, <3>5
  <2>4. pc' = pc => Given(Input)'
    <3>1. Len(history) = fed /\ history \in Seq(EventSpace)
      BY <2>1 DEF Works, IInv, TypeOK, Given
    <3>2. Len(history') = fed + 1 /\ history'[fed + 1] = e
      BY <1>4, <2>2, <3>1
    <3>3. \A i \in 1 .. fed : history'[i] = Input[i]
      BY <2>1, <2>2, <3>1 DEF Given
    <3>4. \A i \in 1 .. fed + 1 : i \in 1 .. fed \/ i = fed + 1
      BY <1>5
    <3>5. \A i \in 1 .. fed + 1 : history'[i] = Input[i]
      BY <3>2, <3>3, <3>4 DEF e
    <3> QED
      BY <1>1, <1>6, <3>2, <3>5 DEF Given
  <2> QED
    BY <1>1, <1>5, <1>6, <1>7, <1>2, <2>2, <2>3, <2>4 DEF Replayed
<1>8. CASE rules_dir = "hollow"
  <2>1. alerts = {} /\ alerts' = {}
    BY <1>8, <1>3, HollowReturnsNothing DEF Replayed
  <2>2. found' = Cardinality(alerts')
    <3>1. alerts' \ alerts = {} /\ found = 0 /\ Cardinality({}) = 0
      BY <2>1, FS_EmptySet DEF Replayed
    <3> QED
      BY <1>1, <2>1, <3>1
  <2> QED
    BY <1>1, <1>5, <1>6, <1>8, <1>2, <2>1, <2>2 DEF Replayed
<1> QED
  BY <1>7, <1>8, <1>3

\* All of the stream has been given.
LEMMA StreamIsOver ==
  ASSUME Stage, Replayed, SetStop
  PROVE  Replayed'
<1>1. /\ pc = "stream" /\ fed = Len(Input) /\ status = "running" /\ pc' = "join"
      /\ UNCHANGED <<replay, rules_dir>>
  BY DEF SetStop, options
<1>2. UNCHANGED vars /\ found' = found /\ rules_dir' = rules_dir
  BY <1>1 DEF replay
<1>3. alerts' = alerts /\ history' = history /\ status' = status
  BY <1>2 DEF vars
<1>4. Input = Stream
  BY <1>1 DEF Input
<1>5. ASSUME rules_dir = "whole"
      PROVE  Works' /\ history = Stream
  <2>1. Works /\ Given(Stream) /\ fed = Len(Stream)
    BY <1>1, <1>4, <1>5 DEF Replayed
  <2>2. history \in Seq(EventSpace) /\ Stream \in Seq(EventSpace)
    BY <2>1, StreamFacts DEF Works, IInv, TypeOK
  <2>3. history = Stream
    <3>1. Len(history) = Len(Stream) /\ \A i \in 1 .. Len(Stream) : history[i] = Stream[i]
      BY <2>1 DEF Given
    <3> QED
      BY <2>2, <3>1, SeqEqual
  <2> QED
    BY <1>2, <2>1, <2>3, IdleWorks
<1> QED
  BY <1>1, <1>2, <1>3, <1>5 DEF Replayed, Stream

LEMMA ReplayedStep == Stage /\ Replayed /\ [ReportNext]_reportVars => Replayed'
<1> SUFFICES ASSUME Stage, Replayed, [ReportNext]_reportVars PROVE Replayed'
  OBVIOUS
<1>1. Stage'
  BY StageStep
<1>2. CASE LoadFixture \/ StartRun
  BY <1>1, <1>2, EngineIsNew DEF LoadFixture, StartRun
<1>3. CASE SkipFixture \/ FixtureDone \/ SuiteDone \/ RunsDone \/ Decide
  BY <1>3, EngineRests DEF SkipFixture, FixtureDone, SuiteDone, RunsDone, Crash, Decide, options
<1>4. CASE Join \/ ReadCpus \/ ReadMems \/ RulesRaise
  BY <1>4, EngineRests DEF Join, ReadCpus, ReadMems, RulesRaise, Crash, options
<1>5. CASE Sample \/ UNCHANGED reportVars
  BY <1>5, EngineRests DEF Sample, reportVars, options, suite
<1> QED
  BY <1>2, <1>3, <1>4, <1>5, EngineIngests, StreamIsOver DEF ReportNext, Main

----------------------------------------------------------------------------
(* The suite.  What it has kept of a fixture is what the fixture asks for   *)
(* and how many attacks begin in it.                                        *)

DetectionResults == [expected_alerts : Nat, actual_alerts : Nat]

Past == {f \in present : f < fixture}

ResultOf(f) ==
  [expected_alerts |-> Fixtures[f].expected,
   actual_alerts   |-> Cardinality(AttackStarts(Fixtures[f].events))]

SuiteInv ==
  /\ results \in Seq(DetectionResults)
  /\ Len(results) = Cardinality(Past)
  /\ rules_dir = "whole" =>
       /\ \A i \in 1 .. Len(results) : \E f \in Past : results[i] = ResultOf(f)
       /\ \A f \in Past : \E i \in 1 .. Len(results) : results[i] = ResultOf(f)
  /\ rules_dir = "hollow" => \A i \in 1 .. Len(results) : results[i].actual_alerts = 0
  /\ rules_dir = "unparsable" => Past = {}

LEMMA PastIsFinite ==
  ASSUME Stage
  PROVE  IsFiniteSet(present) /\ IsFiniteSet(Past)
<1>1. IsFiniteSet(DOMAIN Fixtures)
  BY FixturesTyped, FS_Interval
<1>2. IsFiniteSet(present)
  BY <1>1, FS_Subset DEF Stage
<1> QED
  BY <1>2, FS_Subset DEF Past

LEMMA PastGrows ==
  ASSUME Stage, fixture \in DOMAIN Fixtures, fixture' = fixture + 1, present' = present
  PROVE  /\ fixture \in present => Past' = Past \cup {fixture} /\ fixture \notin Past
         /\ fixture \notin present => Past' = Past
<1>1. \A f \in present : f \in Nat /\ fixture \in Nat
  BY FixturesTyped DEF Stage
<1>2. \A f \in present : f < fixture + 1 <=> f < fixture \/ f = fixture
  BY <1>1
<1>3. fixture \notin Past
  BY <1>1 DEF Past
<1>4. Past' = {f \in present : f < fixture + 1}
  BY DEF Past
<1> QED
  BY <1>2, <1>3, <1>4 DEF Past

LEMMA FoundIsNatural ==
  ASSUME Stage, Replayed
  PROVE  found \in Nat /\ (rules_dir # "whole" => found = 0)
<1>1. CASE rules_dir = "whole"
  BY <1>1, FinitelyManyAlerts DEF Replayed, Works
<1>2. CASE rules_dir # "whole"
  BY <1>2, FS_EmptySet DEF Replayed
<1> QED
  BY <1>1, <1>2

\* At the end of a fixture each attack in it has been alerted once.
LEMMA FixtureIsOver ==
  ASSUME Stage, Replayed, rules_dir = "whole",
         pc = "replay", fed = Len(Input), status = "running"
  PROVE  found = Cardinality(AttackStarts(Fixtures[fixture].events))
<1> DEFINE evs == Fixtures[fixture].events
<1>1. Works /\ Given(Input) /\ found = Cardinality(alerts)
  BY DEF Replayed
<1>2. fixture \in DOMAIN Fixtures /\ Input = evs
  BY DEF Stage, Input
<1>3. evs \in Seq(EventSpace) /\ StableParents(evs)
  BY <1>2, FixturesTyped
<1>4. history \in Seq(EventSpace)
  BY <1>1 DEF Works, IInv, TypeOK
<1>5. history = evs
  <2>1. Len(history) = Len(evs) /\ \A i \in 1 .. Len(evs) : history[i] = evs[i]
    BY <1>1, <1>2 DEF Given
  <2> QED
    BY <1>3, <1>4, <2>1, SeqEqual
<1>6. Cardinality(AttackStarts(history)) = Cardinality(alerts)
  BY <1>1, <1>3, <1>5, AlertsAreAttacks DEF Works
<1> QED
  BY <1>1, <1>5, <1>6

LEMMA SuiteInit == ReportInit => SuiteInv
<1> SUFFICES ASSUME ReportInit PROVE SuiteInv
  OBVIOUS
<1>1. results = <<>> /\ fixture = 1 /\ present \subseteq DOMAIN Fixtures
  BY DEF ReportInit
<1>2. Past = {}
  BY <1>1, FixturesTyped DEF Past
<1>3. results \in Seq(DetectionResults) /\ Len(results) = 0
  BY <1>1
<1> QED
  BY <1>2, <1>3, FS_EmptySet DEF SuiteInv

\* A result is kept.
LEMMA ResultIsKept ==
  ASSUME Stage, Replayed, SuiteInv, FixtureDone
  PROVE  SuiteInv'
<1> DEFINE r == [expected_alerts |-> Fixtures[fixture].expected, actual_alerts |-> found]
           n == Len(results)
<1>1. /\ pc = "replay" /\ fed = Len(Input) /\ status = "running"
      /\ results' = Append(results, r)
      /\ fixture' = fixture + 1 /\ present' = present /\ rules_dir' = rules_dir
  BY DEF FixtureDone, options
<1>2. fixture \in present /\ fixture \in DOMAIN Fixtures /\ rules_dir \in {"whole", "hollow"}
  BY <1>1 DEF Stage, Parses
<1>3. Past' = Past \cup {fixture} /\ fixture \notin Past
  BY <1>1, <1>2, PastGrows
<1>4. r \in DetectionResults
  <2>1. Fixtures[fixture].expected \in Nat
    BY <1>2, FixturesTyped
  <2> QED
    BY <2>1, FoundIsNatural DEF DetectionResults
<1>5. /\ results' \in Seq(DetectionResults) /\ Len(results') = n + 1 /\ n \in Nat
      /\ \A i \in 1 .. n : results'[i] = results[i]
      /\ results'[n + 1] = r
  <2>1. results \in Seq(DetectionResults)
    BY DEF SuiteInv
  <2> HIDE DEF r
  <2> QED
    BY <1>1, <1>4, <2>1, AppendProperties
<1>6. rules_dir = "whole" => r = ResultOf(fixture)
  BY <1>1, FixtureIsOver DEF ResultOf
<1>7. rules_dir = "hollow" => r.actual_alerts = 0
  BY FoundIsNatural
<1> HIDE DEF r
<1>8. Len(results') = Cardinality(Past')
  BY <1>3, <1>5, PastIsFinite, FS_AddElement DEF SuiteInv
<1>9. \A i \in 1 .. n + 1 : i \in 1 .. n \/ i = n + 1
  BY <1>5
<1>10. 1 .. n \subseteq 1 .. n + 1 /\ n + 1 \in 1 .. n + 1
  BY <1>5
<1> HIDE DEF n
<1>11. ASSUME rules_dir = "whole"
       PROVE  /\ \A i \in 1 .. n + 1 : \E f \in Past' : results'[i] = ResultOf(f)
              /\ \A f \in Past' : \E i \in 1 .. n + 1 : results'[i] = ResultOf(f)
  <2>1. /\ \A i \in 1 .. n : \E f \in Past : results[i] = ResultOf(f)
        /\ \A f \in Past : \E i \in 1 .. n : results[i] = ResultOf(f)
    BY <1>11 DEF SuiteInv, n
  <2>2. ASSUME NEW i \in 1 .. n + 1
        PROVE  \E f \in Past' : results'[i] = ResultOf(f)
    BY <1>3, <1>5, <1>6, <1>9, <1>11, <2>1
  <2>3. ASSUME NEW f \in Past'
        PROVE  \E i \in 1 .. n + 1 : results'[i] = ResultOf(f)
    <3>1. CASE f \in Past
      BY <1>5, <1>10, <2>1, <3>1
    <3>2. CASE f = fixture
      BY <1>5, <1>6, <1>10, <1>11, <3>2
    <3> QED
      BY <1>3, <3>1, <3>2
  <2> QED
    BY <2>2, <2>3
<1>12. ASSUME rules_dir = "hollow"
       PROVE  \A i \in 1 .. n + 1 : results'[i].actual_alerts = 0
  <2>1. \A i \in 1 .. n : results[i].actual_alerts = 0
    BY <1>12 DEF SuiteInv, n
  <2> QED
    BY <1>5, <1>7, <1>9, <1>12, <2>1
<1>13. \A f : ResultOf(f)' = ResultOf(f)
  BY DEF ResultOf, AttackStarts
<1> QED
  BY <1>1, <1>2, <1>5, <1>8, <1>11, <1>12 DEF SuiteInv

LEMMA SuiteStep == Stage /\ Replayed /\ SuiteInv /\ [ReportNext]_reportVars => SuiteInv'
<1> SUFFICES ASSUME Stage, Replayed, SuiteInv, [ReportNext]_reportVars PROVE SuiteInv'
  OBVIOUS
<1>1. ASSUME rules_dir' = rules_dir, results' = results, Past' = Past
      PROVE  SuiteInv'
  BY <1>1 DEF SuiteInv
<1>2. CASE SkipFixture
  <2>1. /\ fixture \in DOMAIN Fixtures /\ fixture \notin present /\ fixture' = fixture + 1
        /\ present' = present /\ rules_dir' = rules_dir /\ results' = results
    BY <1>2 DEF SkipFixture, options
  <2>2. Past' = Past
    BY <2>1, PastGrows
  <2> QED
    BY <1>1, <2>1, <2>2
<1>3. CASE UNCHANGED <<options, suite>>
  <2>1. rules_dir' = rules_dir /\ results' = results /\ present' = present /\ fixture' = fixture
    BY <1>3 DEF options, suite
  <2>2. Past' = Past
    BY <2>1 DEF Past
  <2> QED
    BY <1>1, <2>1, <2>2
<1>4. CASE \/ LoadFixture \/ SuiteDone \/ StartRun \/ SetStop \/ Join \/ ReadCpus
           \/ ReadMems \/ RunsDone \/ RulesRaise \/ IngestNext \/ Decide \/ Sample
  BY <1>3, <1>4 DEF LoadFixture, SuiteDone, StartRun, SetStop, Join, ReadCpus, ReadMems,
     RunsDone, RulesRaise, IngestNext, Decide, Sample
<1>5. CASE UNCHANGED reportVars
  BY <1>3, <1>5 DEF reportVars
<1> QED
  BY <1>2, <1>4, <1>5, ResultIsKept DEF ReportNext, Main

----------------------------------------------------------------------------
(* The verdict *)

\* No rate is taken of a set of results that could be infinite.
LEMMA Counted ==
  ASSUME SuiteInv, NEW S \in SUBSET (DOMAIN results)
  PROVE  Cardinality(S) \in Nat /\ (Cardinality(S) = 0 <=> S = {})
<1>1. IsFiniteSet(DOMAIN results)
  <2>1. Len(results) \in Nat /\ DOMAIN results = 1 .. Len(results)
    BY DEF SuiteInv
  <2> QED
    BY <2>1, FS_Interval
<1>2. IsFiniteSet(S)
  BY <1>1, FS_Subset
<1> QED
  BY <1>2, FS_EmptySet, FS_CardinalityType

\* What the two rates ask, said of each result.
AllDetected ==
  /\ \E i \in DOMAIN results : results[i].expected_alerts > 0
  /\ \A i \in DOMAIN results :
       IF results[i].expected_alerts = 0
       THEN results[i].actual_alerts = 0
       ELSE results[i].actual_alerts >= results[i].expected_alerts

LEMMA RatesAgree ==
  ASSUME SuiteInv
  PROVE  (TP > 0 /\ FN = 0 /\ FP = 0) <=> AllDetected
<1> DEFINE T == {i \in DOMAIN results : IsTruePositive(results[i])}
           N == {i \in DOMAIN results : IsFalseNegative(results[i])}
           P == {i \in DOMAIN results : IsFalsePositive(results[i])}
<1>1. /\ TP \in Nat /\ (TP = 0 <=> T = {})
      /\ FN = 0 <=> N = {}
      /\ FP = 0 <=> P = {}
  BY Counted DEF TP, FN, FP
<1>2. \A i \in DOMAIN results :
        results[i].expected_alerts \in Nat /\ results[i].actual_alerts \in Nat
  <2>1. results \in Seq(DetectionResults)
    BY DEF SuiteInv
  <2>2. \A i \in DOMAIN results : results[i] \in DetectionResults
    <3> HIDE DEF DetectionResults
    <3> QED
      BY <2>1
  <2> QED
    BY <2>2 DEF DetectionResults
<1>3. \A i \in DOMAIN results :
        /\ IsTruePositive(results[i]) <=>
             results[i].expected_alerts > 0 /\ results[i].actual_alerts >= results[i].expected_alerts
        /\ IsFalseNegative(results[i]) <=>
             results[i].expected_alerts > 0 /\ ~ (results[i].actual_alerts >= results[i].expected_alerts)
        /\ IsFalsePositive(results[i]) <=>
             results[i].expected_alerts = 0 /\ results[i].actual_alerts # 0
        /\ results[i].expected_alerts > 0 <=> results[i].expected_alerts # 0
  BY <1>2 DEF IsTruePositive, IsFalseNegative, IsFalsePositive
<1>4. TP > 0 <=> T # {}
  BY <1>1
<1>5. ASSUME TP > 0 /\ FN = 0 /\ FP = 0
      PROVE  AllDetected
  <2>1. T # {} /\ N = {} /\ P = {}
    BY <1>1, <1>4, <1>5
  <2> QED
    BY <1>3, <2>1 DEF AllDetected
<1>6. ASSUME AllDetected
      PROVE  T # {} /\ N = {} /\ P = {}
  BY <1>3, <1>6 DEF AllDetected
<1> QED
  BY <1>1, <1>4, <1>5, <1>6

\* Once every fixture has been replayed, that is what was said of the fixtures.
LEMMA SuiteIsOver ==
  ASSUME Stage, SuiteInv, pc = "verdict"
  PROVE  AllDetected <=> /\ rules_dir = "whole"
                         /\ \E f \in present : Fixtures[f].expected > 0
                         /\ \A f \in present : AsExpected(f)
<1>1. Past = present
  BY FixturesTyped DEF Stage, Past
<1>2. Len(results) \in Nat /\ DOMAIN results = 1 .. Len(results)
  BY DEF SuiteInv
<1>3. CASE rules_dir = "whole"
  <2>1. /\ \A i \in DOMAIN results : \E f \in present : results[i] = ResultOf(f)
        /\ \A f \in present : \E i \in DOMAIN results : results[i] = ResultOf(f)
    BY <1>1, <1>2, <1>3 DEF SuiteInv
  <2>2. \A f \in present :
          /\ ResultOf(f).expected_alerts = Fixtures[f].expected
          /\ ResultOf(f).actual_alerts = Cardinality(AttackStarts(Fixtures[f].events))
    BY DEF ResultOf
  <2>3. \A f \in present :
          AsExpected(f) <=> IF ResultOf(f).expected_alerts = 0
                            THEN ResultOf(f).actual_alerts = 0
                            ELSE ResultOf(f).actual_alerts >= ResultOf(f).expected_alerts
    BY <2>2 DEF AsExpected
  <2> QED
    BY <1>3, <2>1, <2>2, <2>3 DEF AllDetected
<1>4. CASE rules_dir = "hollow"
  <2>1. \A i \in DOMAIN results : results[i].actual_alerts = 0
    BY <1>2, <1>4 DEF SuiteInv
  <2>2. \A i \in DOMAIN results : results[i].expected_alerts > 0 =>
          /\ results[i].expected_alerts # 0
          /\ ~ (0 >= results[i].expected_alerts)
    <3>1. \A i \in DOMAIN results : results[i] \in DetectionResults
      <4>1. results \in Seq(DetectionResults)
        BY DEF SuiteInv
      <4> HIDE DEF DetectionResults
      <4> QED
        BY <4>1
    <3>2. \A i \in DOMAIN results : results[i].expected_alerts \in Nat
      BY <3>1 DEF DetectionResults
    <3> QED
      BY <3>2
  <2> QED
    BY <1>4, <2>1, <2>2 DEF AllDetected
<1>5. CASE rules_dir = "unparsable"
  <2>1. Len(results) = 0
    BY <1>5, FS_EmptySet DEF SuiteInv
  <2>2. DOMAIN results = {}
    BY <1>2, <2>1
  <2> QED
    BY <1>5, <2>2 DEF AllDetected
<1> QED
  BY <1>3, <1>4, <1>5 DEF Stage

LEMMA VerdictStep ==
  Stage /\ SuiteInv /\ VerdictIsRight /\ [ReportNext]_reportVars => VerdictIsRight'
<1> SUFFICES ASSUME Stage, SuiteInv, VerdictIsRight, [ReportNext]_reportVars
             PROVE  VerdictIsRight'
  OBVIOUS
<1> DEFINE Right == /\ rules_dir = "whole"
                    /\ \E f \in present : Fixtures[f].expected > 0
                    /\ \A f \in present : AsExpected(f)
<1>1. rules_dir' = rules_dir /\ present' = present
  BY DEF ReportNext, Main, reportVars, options, SkipFixture, LoadFixture, FixtureDone, SuiteDone,
     StartRun, SetStop, Join, ReadCpus, ReadMems, RunsDone, RulesRaise, IngestNext, Decide, Sample
<1>2. Right' <=> Right
  BY <1>1 DEF AsExpected, AttackStarts
<1>3. CASE verdict' = verdict
  BY <1>2, <1>3 DEF VerdictIsRight
<1>4. CASE verdict' \notin {"pass", "fail"}
  BY <1>4 DEF VerdictIsRight
<1>5. CASE Decide
  <2>1. pc = "verdict" /\ verdict' = IF TP > 0 /\ FN = 0 /\ FP = 0 THEN "pass" ELSE "fail"
    BY <1>5 DEF Decide
  <2>2. verdict' = "pass" <=> Right
    <3>1. AllDetected <=> Right
      BY <2>1, SuiteIsOver
    <3>2. (TP > 0 /\ FN = 0 /\ FP = 0) <=> AllDetected
      BY RatesAgree
    <3> HIDE DEF Right
    <3> QED
      BY <2>1, <3>1, <3>2
  <2> QED
    BY <1>2, <2>2 DEF VerdictIsRight
<1>6. ASSUME ~ Decide
      PROVE  verdict' = verdict \/ verdict' = "crash"
  BY <1>6 DEF ReportNext, Main, reportVars, SkipFixture, LoadFixture, FixtureDone, SuiteDone,
     StartRun, SetStop, Join, ReadCpus, ReadMems, RunsDone, RulesRaise, IngestNext, Sample, Crash
<1> QED
  BY <1>3, <1>4, <1>5, <1>6

ReportInv == Stage /\ Replayed /\ SuiteInv /\ VerdictIsRight

LEMMA ReportInvHolds == ReportSpec => []ReportInv
<1>1. ReportInit => ReportInv
  <2>1. ReportInit => VerdictIsRight
    BY DEF ReportInit, VerdictIsRight
  <2> QED
    BY <2>1, StageInit, ReplayedInit, SuiteInit DEF ReportInv
<1>2. ReportInv /\ [ReportNext]_reportVars => ReportInv'
  BY StageStep, ReplayedStep, SuiteStep, VerdictStep DEF ReportInv
<1> QED
  BY <1>1, <1>2, PTL DEF ReportSpec

----------------------------------------------------------------------------
(* Theorems *)

\* There is one result for each fixture that was there and has been replayed,
\* a thread only while its run may last, and no verdict before the end of main.
THEOREM ReportTypes == ReportSpec => []ReportTypeOK
<1>1. ReportInv => ReportTypeOK
  <2> SUFFICES ASSUME ReportInv PROVE ReportTypeOK
    OBVIOUS
  <2>1. Len(results) = Cardinality({f \in present : f < fixture})
    BY DEF ReportInv, SuiteInv, Past
  <2>2. \A i \in DOMAIN results : results[i].actual_alerts \in Nat
    <3>1. results \in Seq(DetectionResults)
      BY DEF ReportInv, SuiteInv
    <3>2. \A i \in DOMAIN results : results[i] \in DetectionResults
      <4> HIDE DEF DetectionResults
      <4> QED
        BY <3>1
    <3> QED
      BY <3>2 DEF DetectionResults
  <2>3. (verdict = "none") = (pc # "done")
    BY DEF ReportInv, Stage
  <2> QED
    BY <2>1, <2>2, <2>3 DEF ReportInv, Stage, Places, ReportTypeOK
<1> QED
  BY <1>1, ReportInvHolds, PTL

\* "ALL CHECKS PASSED" is printed just when every fixture that is there holds
\* the attacks it should and one at least holds any, whatever fixtures there
\* are and whatever rules have steps in all their chains; the other rules, and
\* those that cannot be parsed, never pass.
THEOREM VerdictRight == ReportSpec => []VerdictIsRight
BY ReportInvHolds, PTL DEF ReportInv

\* One chain without steps among the rules, whatever the others are, and no
\* alert gets out: nothing is found and nothing passes.
THEOREM OneHollowChainSilences == ReportSpec => []HollowSilences
<1>1. ReportInv => HollowSilences
  <2> SUFFICES ASSUME ReportInv, rules_dir = "hollow"
               PROVE  /\ verdict # "pass" /\ found = 0
                      /\ \A i \in DOMAIN results : results[i].actual_alerts = 0
    BY DEF HollowSilences
  <2>1. verdict # "pass"
    BY DEF ReportInv, VerdictIsRight
  <2>2. found = 0
    BY FoundIsNatural DEF ReportInv
  <2>3. DOMAIN results = 1 .. Len(results)
    BY DEF ReportInv, SuiteInv
  <2> QED
    BY <2>1, <2>2, <2>3 DEF ReportInv, SuiteInv
<1> QED
  BY <1>1, ReportInvHolds, PTL

\* "Every 4th event is a complete LOLbin chain": whatever the number of events,
\* the engine returns one alert for each four of them, no more and no less,
\* under rules that fit the last three of each four.
THEOREM EveryFourthAlerts == ReportSpec => []StreamAlerts
<1>1. ReportInv => StreamAlerts
  <2> SUFFICES ASSUME ReportInv, pc = "join", rules_dir = "whole", StreamRules
               PROVE  found = Count \div 4
    BY DEF StreamAlerts
  <2>1. Works /\ found = Cardinality(alerts) /\ status = "running" /\ history = Stream
    BY DEF ReportInv, Replayed
  <2>2. StableParents(history)
    BY <2>1, StreamIsStable
  <2>3. Cardinality(AttackStarts(history)) = Cardinality(alerts)
    BY <2>1, <2>2, AlertsAreAttacks DEF Works
  <2> QED
    BY <2>1, <2>3, AttacksOfStream
<1> QED
  BY <1>1, ReportInvHolds, PTL

\* Although _ResourceSampler.stop does not wait for its thread for ever, at
\* most one sample is taken after it, and the mean of the CPU and the peak of
\* the memory rest on the same samples or on all but that one.
THEOREM AtMostOneLateSample == ReportSpec => []OneLateSample
<1>1. SamplerInv => OneLateSample
  BY DEF SamplerInv, SamplerTypes, OneLeft, Figures, OneLateSample
<1> QED
  BY <1>1, SamplerInit, SamplerStep, PTL DEF ReportSpec
=============================================================================
