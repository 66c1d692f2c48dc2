----------------------- MODULE HostCorrelationProofs -----------------------
(* Proofs about HostCorrelation: what the engine infers of a host that     *)
(* never hands a PID out twice is what really happened there, as far as it *)
(* was told.                                                               *)
EXTENDS HostCorrelation, CorrelationEngineProofs

----------------------------------------------------------------------------
(* The host's part of the inductive invariant *)

\* The processes form a forest that grows at its leaves.
Family ==
  /\ procs \in Seq(HostProcess) /\ Len(procs) # 0
  /\ \A q \in 1 .. Len(procs) : Younger(procs, q)
  /\ \A q \in 1 .. Len(procs) : procs[q].reported => procs[q].parent # 0
  /\ alive \subseteq DOMAIN procs /\ 1 \in alive

\* Event r of the engine tells of what process q of ps did, e.  Its texts are
\* those of e, or contain less.
Tells(ps, q, e, r) ==
  /\ q \in 1 .. Len(ps) /\ e.pid = ps[q].pid
  /\ r.pid = e.pid /\ r.event_type = e.event_type /\ r.ppid = e.ppid
  /\ e.ppid # None =>
       ps[q].reported /\ e.event_type = "ProcessCreate" /\ e.ppid = ps[ps[q].parent].pid
  /\ \A field \in Conditioned : \A v : <<v, r[field]>> \in Within => <<v, e[field]>> \in Within

\* What processes do.
Deeds ==
  {CreateEvent(p, q, run) : p \in Pids, q \in Pids, run \in Images}
    \cup {LoadEvent(p, x) : p \in Pids, x \in Targets} \cup {SetEvent(p, x) : p \in Pids, x \in Targets}
    \cup {ScriptEvent(p, run[2]) : p \in Pids, run \in Images}

\* Event k is the one that process q was created by.
Births(k, q) == truth[k].actor = q /\ truth[k].event.ppid # None

\* Every event has a true origin, and before a process does anything it and all
\* its elders have been heard of that are heard of at all.
Recorded ==
  /\ truth \in Seq([actor : Nat, event : Deeds])
  /\ Len(truth) = Len(history)
  /\ \A i \in 1 .. Len(truth) : Tells(procs, truth[i].actor, truth[i].event, history[i])
  /\ \A i \in 1 .. Len(truth) : \A q \in 1 .. truth[i].actor :
       procs[q].reported => \E k \in 1 .. i : Births(k, q)
  /\ \A q \in 1 .. Len(procs) : procs[q].reported => \E k \in 1 .. Len(truth) : Births(k, q)

UniquePids ==
  \A q, r \in DOMAIN procs : procs[q].pid = procs[r].pid => q = r

HInv == IInv /\ Family /\ Recorded

LEMMA HInvInit == HostInit => HInv /\ UniquePids
<1> SUFFICES ASSUME HostInit PROVE HInv /\ UniquePids
  OBVIOUS
<1>1. IInv /\ alive = DOMAIN procs /\ truth = <<>> /\ history = <<>>
  BY IInvInit DEF HostInit, Init
<1>2. PICK n \in 1 .. MaxUnreported :
        procs \in [1 .. n -> [pid : Pids, parent : 0 .. n - 1, creator : 0 .. n - 1, reported : {FALSE}]]
  BY DEF HostInit, Forests
<1>3. \A q \in DOMAIN procs : Younger(procs, q) /\ New(SubSeq(procs, 1, q - 1), procs[q].pid)
  BY DEF HostInit, Forests
<1>4. n \in Nat \ {0} /\ DOMAIN procs = 1 .. n
  BY <1>2, HostAssumption
<1>5. \A q \in 1 .. n : procs[q] \in HostProcess /\ procs[q].reported = FALSE
  <2> SUFFICES ASSUME NEW q \in 1 .. n PROVE procs[q] \in HostProcess /\ procs[q].reported = FALSE
    OBVIOUS
  <2>1. procs[q] \in [pid : Pids, parent : 0 .. n - 1, creator : 0 .. n - 1, reported : {FALSE}]
    BY <1>2
  <2>2. 0 .. n - 1 \subseteq Nat
    BY <1>4
  <2> QED
    BY <2>1, <2>2 DEF HostProcess
<1>6. procs \in Seq(HostProcess) /\ Len(procs) = n
  <2>1. procs \in [1 .. n -> HostProcess]
    BY <1>2, <1>5
  <2> HIDE DEF HostProcess
  <2> QED
    BY <1>4, <2>1
<1>7. Family
  BY <1>1, <1>3, <1>4, <1>5, <1>6 DEF Family
<1>8. Recorded
  BY <1>1, <1>5, <1>6 DEF Recorded
<1>9. UniquePids
  <2>1. ASSUME NEW q \in 1 .. n, NEW r \in 1 .. n, q < r
        PROVE  procs[q].pid # procs[r].pid
    <3> DEFINE elders == SubSeq(procs, 1, r - 1)
    <3>1. q \in DOMAIN elders /\ elders[q] = procs[q]
      BY <1>4, <1>6, <2>1
    <3>2. procs[r].pid \notin Used(elders)
      BY <1>3, <1>4 DEF New
    <3> HIDE DEF elders
    <3> QED
      BY <3>1, <3>2 DEF Used
  <2> QED
    BY <1>4, <2>1 DEF UniquePids
<1> QED
  BY <1>1, <1>7, <1>8, <1>9 DEF HInv

\* A call of ingest adds the event, whatever becomes of the call.
LEMMA ReceiveAppends ==
  ASSUME NEW r, Receive(r)
  PROVE  history' = Append(history, r)
BY DEF Receive, Ingest, IngestLoops, IngestRaises, Process

\* One more deed, of a process there is or of the one it creates.
LEMMA OneMore ==
  ASSUME HInv, NEW q, NEW e \in Deeds, NEW r, Receive(r), Family',
         truth' = Append(truth, [actor |-> q, event |-> e]), Tells(procs', q, e, r),
         \/ procs' = procs
         \/ /\ Len(procs') = Len(procs) + 1 /\ \A o \in 1 .. Len(procs) : procs'[o] = procs[o]
            /\ q = Len(procs') /\ e.ppid # None
  PROVE  Recorded'
<1>1. /\ Len(truth) \in Nat /\ Len(history) = Len(truth) /\ history \in Seq(EventSpace)
      /\ truth \in Seq([actor : Nat, event : Deeds])
      /\ Len(procs) \in Nat /\ Len(procs') \in Nat /\ q \in 1 .. Len(procs')
  BY DEF HInv, Recorded, IInv, TypeOK, Family, Tells
<1>0. PICK n : n = Len(truth) + 1
  OBVIOUS
<1> DEFINE new == [actor |-> q, event |-> e]
<1>2. /\ truth' \in Seq([actor : Nat, event : Deeds]) /\ Len(truth') = n
      /\ truth'[n] = new /\ \A i \in 1 .. Len(truth) : truth'[i] = truth[i]
  <2>1. new \in [actor : Nat, event : Deeds]
    BY <1>1
  <2> HIDE DEF new
  <2>2. truth' = Append(truth, new)
    BY DEF new
  <2> QED
    BY <1>0, <1>1, <2>1, <2>2
<1>3. /\ Len(history') = n /\ history'[n] = r /\ \A i \in 1 .. Len(truth) : history'[i] = history[i]
  BY <1>0, <1>1, ReceiveAppends
<1>4. \A i \in 1 .. n : i # n => i \in 1 .. Len(truth)
  BY <1>0, <1>1
<1>5. Len(procs) <= Len(procs') /\ \A o \in 1 .. Len(procs) : procs'[o] = procs[o]
  BY <1>1
<1>6. ASSUME NEW i \in 1 .. n
      PROVE  Tells(procs', truth'[i].actor, truth'[i].event, history'[i])
  <2>1. CASE i = n
    BY <1>2, <1>3, <2>1
  <2>2. CASE i # n
    <3> DEFINE a == truth[i].actor
    <3>1. i \in 1 .. Len(truth) /\ Tells(procs, a, truth[i].event, history[i])
      BY <1>4, <2>2 DEF HInv, Recorded
    <3> HIDE DEF a
    <3>2. a \in 1 .. Len(procs) /\ (procs[a].reported => procs[a].parent \in 1 .. Len(procs))
      <4>1. a \in 1 .. Len(procs)
        BY <3>1 DEF Tells
      <4>2. procs[a].reported => procs[a].parent \in 0 .. a - 1 /\ procs[a].parent # 0
        BY <4>1 DEF HInv, Family, Younger
      <4> QED
        BY <1>1, <4>1, <4>2
    <3>3. procs'[a] = procs[a] /\ a \in 1 .. Len(procs')
          /\ (procs[a].reported => procs'[procs[a].parent] = procs[procs[a].parent])
      BY <1>1, <1>5, <3>2
    <3>4. Tells(procs', a, truth[i].event, history[i])
      BY <3>1, <3>3 DEF Tells
    <3> QED
      BY <1>2, <1>3, <3>1, <3>4 DEF a
  <2> QED
    BY <2>1, <2>2
\* Who was born before is so still.
<1>7. \A k \in 1 .. Len(truth) : \A o : Births(k, o) => Births(k, o)'
  BY <1>2 DEF Births
<1>8. q = Len(procs') /\ e.ppid # None => Births(n, q)'
  BY <1>2 DEF Births
<1>9. ASSUME NEW o \in 1 .. Len(procs'), procs'[o].reported
      PROVE  \E k \in 1 .. n : Births(k, o)'
  <2>1. CASE o \in 1 .. Len(procs)
    <3>1. PICK k \in 1 .. Len(truth) : Births(k, o)
      BY <1>5, <1>9, <2>1 DEF HInv, Recorded
    <3>2. k \in 1 .. n
      BY <1>0, <1>1
    <3> QED
      BY <1>7, <3>1, <3>2
  <2>2. CASE o \notin 1 .. Len(procs)
    <3>1. o = Len(procs') /\ q = o /\ e.ppid # None
      BY <1>1, <2>2
    <3>2. n \in 1 .. n
      BY <1>0, <1>1
    <3> QED
      BY <1>8, <3>1, <3>2
  <2> QED
    BY <2>1, <2>2
<1>10. ASSUME NEW i \in 1 .. n, NEW o \in 1 .. truth'[i].actor, procs'[o].reported
       PROVE  \E k \in 1 .. i : Births(k, o)'
  <2>1. CASE i = n
    <3>1. truth'[i].actor = q /\ o \in 1 .. Len(procs')
      BY <1>1, <1>2, <2>1
    <3> QED
      BY <1>9, <1>10, <2>1, <3>1
  <2>2. CASE i # n
    <3>1. i \in 1 .. Len(truth) /\ truth'[i] = truth[i]
      BY <1>2, <1>4, <2>2
    <3>4. o \in 1 .. Len(procs)
      BY <1>1, <3>1 DEF HInv, Recorded, Tells
    <3>2. PICK k \in 1 .. i : Births(k, o)
      BY <1>5, <1>10, <3>1, <3>4 DEF HInv, Recorded
    <3>3. k \in 1 .. Len(truth)
      BY <1>0, <1>1, <3>1
    <3> QED
      BY <1>7, <3>2, <3>3
  <2> QED
    BY <2>1, <2>2
<1> QED
  BY <1>2, <1>3, <1>6, <1>9, <1>10 DEF Recorded

Texts == Targets \cup {run[1] : run \in Images} \cup {run[2] : run \in Images}

\* What is left of a text contains no more than the text.
LEMMA LossesLose ==
  ASSUME NEW text \in Texts, NEW part \in Given(text), NEW v, <<v, part>> \in Within
  PROVE  <<v, text>> \in Within
<1> DEFINE pair == <<v, part>>
<1>1. pair \in Within /\ pair[1] = v /\ pair[2] \in Given(text)
  OBVIOUS
<1> HIDE DEF pair
<1> QED
  BY <1>1, TextAssumption DEF Texts

LEMMA CreationIsTold ==
  ASSUME NEW ps, NEW q \in 1 .. Len(ps), ps[q].reported, ps[q].pid \in Pids, ps[ps[q].parent].pid \in Pids,
         NEW run \in Images, NEW e, e = CreateEvent(ps[q].pid, ps[ps[q].parent].pid, run),
         NEW r \in CreateReports(e)
  PROVE  e \in Deeds /\ Tells(ps, q, e, r) /\ r \in EventSpace /\ e.ppid # None
<1>1. e \in Deeds /\ r \in EventSpace
  BY ReportAssumption DEF Deeds
<1>2. /\ e.event_type = "ProcessCreate" /\ e.pid = ps[q].pid /\ e.ppid = ps[ps[q].parent].pid
      /\ e.image_path = run[1] /\ e.command_line = run[2] /\ e.registry_key = None
  BY DEF CreateEvent, Telemetry
<1>3. /\ r.event_type = e.event_type /\ r.pid = e.pid /\ r.ppid = e.ppid
      /\ r.image_path \in Given(run[1]) /\ r.command_line \in Given(run[2]) /\ r.registry_key = None
  <2>1. PICK image \in Given(e.image_path), cmd \in ReadCommandLine(e.command_line) :
          r = Telemetry("ProcessCreate", e.pid, e.ppid, image, cmd, None)
    BY DEF CreateReports
  <2> QED
    BY <1>2, <2>1 DEF Telemetry, ReadCommandLine, Given
<1>4. run[1] \in Texts /\ run[2] \in Texts
  BY DEF Texts
<1>5. \A field \in Conditioned : \A v : <<v, r[field]>> \in Within => <<v, e[field]>> \in Within
  BY <1>2, <1>3, <1>4, LossesLose DEF Conditioned
<1>6. e.ppid # None
  BY <1>2, HostAssumption, NoneAssumption
<1> QED
  BY <1>1, <1>2, <1>3, <1>5, <1>6 DEF Tells

LEMMA ActIsTold ==
  ASSUME NEW ps, NEW q \in 1 .. Len(ps), ps[q].pid \in Pids, NEW e, NEW r,
         \/ \E x \in Targets : e = LoadEvent(ps[q].pid, x) /\ r \in LoadReports(e)
         \/ \E x \in Targets : e = SetEvent(ps[q].pid, x) /\ r \in SetReports(e)
         \/ \E run \in Images : run[2] # None /\ e = ScriptEvent(ps[q].pid, run[2]) /\ r = e
  PROVE  e \in Deeds /\ Tells(ps, q, e, r) /\ r \in EventSpace
<1>1. ASSUME NEW x \in Targets, e = LoadEvent(ps[q].pid, x), r \in LoadReports(e)
      PROVE  e \in Deeds /\ Tells(ps, q, e, r) /\ r \in EventSpace
  <2>1. e \in Deeds /\ r \in EventSpace
    BY <1>1, ReportAssumption DEF Deeds
  <2>2. /\ e.pid = ps[q].pid /\ e.ppid = None
        /\ e.image_path = x /\ e.command_line = None /\ e.registry_key = None
    BY <1>1 DEF LoadEvent, Telemetry
  <2>3. /\ r.event_type = e.event_type /\ r.pid = e.pid /\ r.ppid = e.ppid
        /\ r.image_path \in Given(x) /\ r.command_line = None /\ r.registry_key = None
    BY <1>1, <2>2 DEF LoadReports, LoadEvent, Telemetry
  <2>4. \A field \in Conditioned : \A v : <<v, r[field]>> \in Within => <<v, e[field]>> \in Within
    BY <2>2, <2>3, LossesLose DEF Conditioned, Texts
  <2> QED
    BY <2>1, <2>2, <2>3, <2>4 DEF Tells
<1>2. ASSUME NEW x \in Targets, e = SetEvent(ps[q].pid, x), r \in SetReports(e)
      PROVE  e \in Deeds /\ Tells(ps, q, e, r) /\ r \in EventSpace
  <2>1. e \in Deeds /\ r \in EventSpace
    BY <1>2, ReportAssumption DEF Deeds
  <2>2. /\ e.pid = ps[q].pid /\ e.ppid = None
        /\ e.image_path = None /\ e.command_line = None /\ e.registry_key = x
    BY <1>2 DEF SetEvent, Telemetry
  <2>3. /\ r.event_type = e.event_type /\ r.pid = e.pid /\ r.ppid = e.ppid
        /\ r.image_path = None /\ r.command_line = None /\ r.registry_key \in Given(x)
    BY <1>2, <2>2 DEF SetReports, SetEvent, Telemetry
  <2>4. \A field \in Conditioned : \A v : <<v, r[field]>> \in Within => <<v, e[field]>> \in Within
    BY <2>2, <2>3, LossesLose DEF Conditioned, Texts
  <2> QED
    BY <2>1, <2>2, <2>3, <2>4 DEF Tells
<1>3. ASSUME NEW run \in Images, run[2] # None, e = ScriptEvent(ps[q].pid, run[2]), r = e
      PROVE  e \in Deeds /\ Tells(ps, q, e, r) /\ r \in EventSpace
  <2>1. e \in Deeds /\ r \in EventSpace
    BY <1>3, ReportAssumption DEF Deeds
  <2>2. e.pid = ps[q].pid /\ e.ppid = None
    BY <1>3 DEF ScriptEvent, Telemetry
  <2> QED
    BY <1>3, <2>1, <2>2 DEF Tells
<1> QED
  BY <1>1, <1>2, <1>3

\* Or it is created and nothing is told of it.
LEMMA OneUnheardOf ==
  ASSUME HInv, truth' = truth, history' = history, Len(procs') = Len(procs) + 1,
         \A o \in 1 .. Len(procs) : procs'[o] = procs[o],
         ~ procs'[Len(procs) + 1].reported
  PROVE  Recorded'
<1>1. /\ Len(procs) \in Nat /\ Len(procs) <= Len(procs')
      /\ \A o \in 1 .. Len(procs') : procs'[o].reported => o \in 1 .. Len(procs)
  BY DEF HInv, Family
<1>2. \A k, o : Births(k, o)' <=> Births(k, o)
  BY DEF Births
<1>3. ASSUME NEW i \in 1 .. Len(truth)
      PROVE  Tells(procs', truth[i].actor, truth[i].event, history[i])
  <2> DEFINE a == truth[i].actor
  <2>1. Tells(procs, a, truth[i].event, history[i])
    BY DEF HInv, Recorded
  <2> HIDE DEF a
  <2>2. a \in 1 .. Len(procs) /\ (procs[a].reported => procs[a].parent \in 1 .. Len(procs))
    <3>1. a \in 1 .. Len(procs)
      BY <2>1 DEF Tells
    <3>2. procs[a].reported => procs[a].parent \in 0 .. a - 1 /\ procs[a].parent # 0
      BY <3>1 DEF HInv, Family, Younger
    <3> QED
      BY <1>1, <3>1, <3>2
  <2>3. procs'[a] = procs[a] /\ a \in 1 .. Len(procs')
        /\ (procs[a].reported => procs'[procs[a].parent] = procs[procs[a].parent])
    BY <1>1, <2>2
  <2>4. Tells(procs', a, truth[i].event, history[i])
    BY <2>1, <2>3 DEF Tells
  <2> QED
    BY <2>4 DEF a
<1>4. ASSUME NEW i \in 1 .. Len(truth), NEW o \in 1 .. truth[i].actor, procs'[o].reported
      PROVE  \E k \in 1 .. i : Births(k, o)'
  <2>1. truth[i].actor \in 1 .. Len(procs)
    BY DEF HInv, Recorded, Tells
  <2>2. o \in 1 .. Len(procs)
    BY <1>1, <2>1
  <2>3. procs[o].reported
    BY <1>4, <2>2
  <2> QED
    BY <1>2, <2>3 DEF HInv, Recorded
<1>5. ASSUME NEW o \in 1 .. Len(procs'), procs'[o].reported
      PROVE  \E k \in 1 .. Len(truth) : Births(k, o)'
  <2>1. o \in 1 .. Len(procs) /\ procs[o].reported
    BY <1>1, <1>5
  <2> QED
    BY <1>2, <2>1 DEF HInv, Recorded
<1> QED
  BY <1>3, <1>4, <1>5 DEF HInv, Recorded

\* A process is as the host hands them out.
LEMMA ProcessFacts ==
  ASSUME Family, NEW q \in 1 .. Len(procs)
  PROVE  /\ procs[q] \in HostProcess /\ procs[q].pid \in Pids /\ Len(procs) \in Nat
         /\ procs[q].parent \in 0 .. q - 1 /\ procs[q].creator \in 0 .. q - 1
<1>1. procs \in Seq(HostProcess)
  BY DEF Family
<1>2. procs[q] \in HostProcess /\ Len(procs) \in Nat
  <2> HIDE DEF HostProcess
  <2> QED
    BY <1>1
<1> QED
  BY <1>2 DEF HostProcess, Family, Younger

\* A process is added to the family.
LEMMA FamilyGrows ==
  ASSUME HInv, NEW p \in Pids, NEW q \in alive, NEW r \in alive, r # q => Spoofing,
         NEW told \in BOOLEAN, NEW n, n = Len(procs) + 1,
         procs' = Append(procs, Child(p, r, q, told)), alive' = alive \cup {n}
  PROVE  /\ Family' /\ Len(procs') = n /\ procs'[n] = Child(p, r, q, told)
         /\ \A o \in 1 .. Len(procs) : procs'[o] = procs[o]
         /\ procs'[n].pid = p /\ procs'[n].parent = r /\ procs'[n].reported = told
         /\ n \in 1 .. Len(procs') /\ q \in 1 .. Len(procs) /\ r \in 1 .. Len(procs)
<1> DEFINE new == Child(p, r, q, told)
<1>1. /\ Len(procs) \in Nat /\ DOMAIN procs = 1 .. Len(procs) /\ procs \in Seq(HostProcess)
      /\ q \in 1 .. Len(procs) /\ r \in 1 .. Len(procs) /\ n \in Nat \ {0}
  BY DEF HInv, Family
<1>2. /\ new \in HostProcess
      /\ new.pid = p /\ new.parent = r /\ new.creator = q /\ new.reported = told
  BY <1>1 DEF Child, HostProcess
<1> HIDE DEF new
<1>3. /\ procs' \in Seq(HostProcess) /\ Len(procs') = n /\ procs'[n] = new
      /\ \A o \in 1 .. Len(procs) : procs'[o] = procs[o]
      /\ DOMAIN procs' = 1 .. n
  <2>1. procs' = Append(procs, new)
    BY DEF new
  <2> HIDE DEF HostProcess
  <2> QED
    BY <1>1, <1>2, <2>1
<1>4. \A o \in 1 .. n : o # n => o \in 1 .. Len(procs) /\ procs'[o] = procs[o]
  BY <1>1, <1>3
<1>5. ASSUME NEW o \in 1 .. n
      PROVE  Younger(procs', o) /\ (procs'[o].reported => procs'[o].parent # 0)
  <2>1. CASE o = n
    BY <1>1, <1>2, <1>3, <2>1 DEF Younger
  <2>2. CASE o # n
    BY <1>4, <2>2 DEF HInv, Family, Younger
  <2> QED
    BY <2>1, <2>2
<1>6. alive' \subseteq 1 .. n /\ 1 \in alive'
  BY <1>1 DEF HInv, Family
<1>7. Family'
  BY <1>1, <1>3, <1>5, <1>6 DEF Family
<1>8. n \in 1 .. Len(procs')
  BY <1>1, <1>3
<1> QED
  BY <1>1, <1>2, <1>3, <1>7, <1>8 DEF new

\* Every step of the host is one of the engine or none of its business.
LEMMA HostSteps ==
  ASSUME HInv, NEW q \in alive, HostNext,
         \/ \E r \in alive, p \in Pids, run \in Images : Spawn(q, r, p, run)
         \/ Exit(q) \/ Act(q)
  PROVE  [Next]_vars /\ Family' /\ Recorded'
<1>1. /\ status = "running" /\ Len(history) < MaxEvents
      /\ q \in 1 .. Len(procs) /\ procs[q].pid \in Pids /\ Len(procs) \in Nat
  <2>1. q \in 1 .. Len(procs)
    BY DEF HInv, Family
  <2> QED
    BY <2>1, ProcessFacts DEF HostNext, HInv
<1>2. ASSUME NEW r \in alive, NEW p \in Pids, NEW run \in Images, Spawn(q, r, p, run)
      PROVE  [Next]_vars /\ Family' /\ Recorded'
  <2>1. PICK n : n = Len(procs) + 1
    OBVIOUS
  <2> DEFINE e == CreateEvent(p, procs[r].pid, run)
  <2>2. (r # q => Spoofing) /\ alive' = alive \cup {n}
    BY <1>2, <2>1 DEF Spawn
  <2>3. PICK told \in BOOLEAN : /\ procs' = Append(procs, Child(p, r, q, told))
                                /\ told => Report(n, e, CreateReports(e))
                                /\ ~ told => UNCHANGED <<vars, truth>>
    BY <1>2, <2>1 DEF Spawn
  <2> HIDE DEF e
  <2>4. /\ Family' /\ Len(procs') = n /\ \A o \in 1 .. Len(procs) : procs'[o] = procs[o]
        /\ procs'[n].pid = p /\ procs'[n].parent = r /\ procs'[n].reported = told
        /\ n \in 1 .. Len(procs') /\ r \in 1 .. Len(procs)
    BY <2>1, <2>2, <2>3, FamilyGrows
  <2>5. CASE told
    <3>1. PICK t \in CreateReports(e) : Receive(t) /\ truth' = Append(truth, [actor |-> n, event |-> e])
      BY <2>3, <2>5 DEF Report
    <3>2. procs'[n].reported /\ n \in 1 .. Len(procs')
      BY <2>4, <2>5
    <3>3. procs'[n].pid \in Pids /\ procs'[procs'[n].parent].pid = procs[r].pid /\ procs[r].pid \in Pids
      BY <2>4, ProcessFacts DEF HInv
    <3>4. e = CreateEvent(procs'[n].pid, procs'[procs'[n].parent].pid, run)
      BY <2>4, <3>3 DEF e
    <3>5. e \in Deeds /\ Tells(procs', n, e, t) /\ t \in EventSpace /\ e.ppid # None
      <4>1. PICK ps : ps = procs'
        OBVIOUS
      <4>2. e \in Deeds /\ Tells(ps, n, e, t) /\ t \in EventSpace /\ e.ppid # None
        <5>1. n \in 1 .. Len(ps) /\ ps[n].reported
          BY <3>2, <4>1
        <5>2. ps[n].pid \in Pids /\ ps[ps[n].parent].pid \in Pids
          BY <3>3, <4>1
        <5>3. e = CreateEvent(ps[n].pid, ps[ps[n].parent].pid, run)
          BY <3>4, <4>1
        <5> QED
          BY <3>1, <5>1, <5>2, <5>3, CreationIsTold
      <4> QED
        BY <4>1, <4>2
    <3>6. Recorded'
      BY <2>1, <2>4, <3>1, <3>5, OneMore
    <3> QED
      BY <1>1, <2>4, <3>1, <3>5, <3>6 DEF Next
  <2>6. CASE ~ told
    <3>1. truth' = truth /\ history' = history /\ ~ procs'[n].reported
      BY <2>3, <2>4, <2>6 DEF vars
    <3>2. Recorded'
      BY <2>1, <2>4, <3>1, OneUnheardOf
    <3> QED
      BY <2>3, <2>4, <2>6, <3>2
  <2> QED
    BY <2>5, <2>6
<1>3. CASE Exit(q)
  <2>1. Family'
    BY <1>3 DEF Exit, HInv, Family
  <2>2. UNCHANGED vars /\ Recorded'
    BY <1>3 DEF Exit, HInv, Recorded, Births, vars
  <2> QED
    BY <2>1, <2>2
<1>4. CASE Act(q)
  <2>1. PICK e, r : /\ Receive(r) /\ truth' = Append(truth, [actor |-> q, event |-> e])
                    /\ e \in Deeds /\ Tells(procs, q, e, r) /\ r \in EventSpace
    <3>1. CASE \E x \in Targets : Load(q, x)
      <4>1. PICK x \in Targets : Load(q, x)
        BY <3>1
      <4> DEFINE e == LoadEvent(procs[q].pid, x)
      <4>2. PICK r \in LoadReports(e) : Receive(r) /\ truth' = Append(truth, [actor |-> q, event |-> e])
        BY <4>1 DEF Load, Report
      <4> QED
        BY <1>1, <4>2, ActIsTold
    <3>2. CASE \E x \in Targets : Set(q, x)
      <4>1. PICK x \in Targets : Set(q, x)
        BY <3>2
      <4> DEFINE e == SetEvent(procs[q].pid, x)
      <4>2. PICK r \in SetReports(e) : Receive(r) /\ truth' = Append(truth, [actor |-> q, event |-> e])
        BY <4>1 DEF Set, Report
      <4> QED
        BY <1>1, <4>2, ActIsTold
    <3>3. CASE \E run \in Images : run[2] # None /\ RunScript(q, run[2])
      <4>1. PICK run \in Images : run[2] # None /\ RunScript(q, run[2])
        BY <3>3
      <4> DEFINE e == ScriptEvent(procs[q].pid, run[2])
      <4>2. Receive(e) /\ truth' = Append(truth, [actor |-> q, event |-> e])
        BY <4>1 DEF RunScript, Report
      <4>3. e \in Deeds /\ Tells(procs, q, e, e) /\ e \in EventSpace
        BY <1>1, <4>1, ActIsTold
      <4> QED
        BY <4>2, <4>3
    <3> QED
      BY <1>4, <3>1, <3>2, <3>3 DEF Act
  <2>2. procs' = procs /\ alive' = alive
    BY <1>4 DEF Act
  <2>3. Family'
    BY <2>2 DEF HInv, Family
  <2>4. Recorded'
    BY <2>1, <2>2, <2>3, OneMore
  <2> QED
    BY <1>1, <2>1, <2>3, <2>4 DEF Next
<1> QED
  BY <1>2, <1>3, <1>4

LEMMA HInvStep ==
  HInv /\ [HostNext]_hostVars => HInv' /\ [Next]_vars
<1> SUFFICES ASSUME HInv, [HostNext]_hostVars PROVE HInv' /\ [Next]_vars
  OBVIOUS
<1>1. CASE HostNext
  <2>1. [Next]_vars /\ Family' /\ Recorded'
    BY <1>1, HostSteps DEF HostNext
  <2> QED
    BY <2>1, IInvStep DEF HInv
<1>2. CASE UNCHANGED hostVars
  <2>1. UNCHANGED vars /\ IInv'
    BY <1>2, IInvStep DEF hostVars, HInv
  <2>2. Family' /\ Recorded'
    BY <1>2 DEF hostVars, host, vars, HInv, Family, Recorded, Births
  <2> QED
    BY <2>1, <2>2 DEF HInv
<1> QED
  BY <1>1, <1>2

\* The host drives the engine as the engine may be driven, so that everything
\* proved of the engine holds on the host.
THEOREM HostDrivesEngine == HostSpec => Spec /\ []HInv
<1>1. HostInit => Init /\ HInv
  BY HInvInit DEF HostInit
<1> QED
  BY <1>1, HInvStep, PTL DEF HostSpec, Spec

\* The types of the engine and of the host, whether PIDs are reused or not: a
\* process has an older one as its parent and as its creator, and each event
\* tells of the process whose PID it carries.
THEOREM HostTypeCorrect == HostSpec => []HostTypeOK
<1>1. HInv => HostTypeOK
  <2> SUFFICES ASSUME HInv PROVE HostTypeOK
    OBVIOUS
  <2>1. TypeOK /\ alive \subseteq DOMAIN procs /\ 1 \in alive /\ Len(truth) = Len(history)
    BY DEF HInv, IInv, Family, Recorded
  <2>2. /\ procs \in Seq(HostProcess)
        /\ \A q \in DOMAIN procs : Younger(procs, q) /\ (procs[q].reported => procs[q].parent # 0)
    <3>1. procs \in Seq(HostProcess) /\ DOMAIN procs = 1 .. Len(procs)
      BY DEF HInv, Family
    <3> QED
      BY <3>1 DEF HInv, Family
  <2>3. ASSUME NEW i \in DOMAIN truth
        PROVE  truth[i].actor \in DOMAIN procs /\ truth[i].event.pid = history[i].pid
    <3>1. i \in 1 .. Len(truth) /\ DOMAIN procs = 1 .. Len(procs)
      BY DEF HInv, Recorded, Family
    <3> QED
      BY <3>1 DEF HInv, Recorded, Tells
  <2> QED
    BY <2>1, <2>2, <2>3 DEF HostTypeOK
<1> QED
  BY <1>1, HostDrivesEngine, PTL

----------------------------------------------------------------------------
(* PIDs that are never reused *)

LEMMA UniqueStep ==
  ASSUME HInv, HInv', UniquePids, [HostNext]_hostVars, ReusePids = FALSE
  PROVE  UniquePids'
<1>1. ASSUME NEW q \in alive, NEW r \in alive, NEW p \in Pids, NEW run \in Images, Spawn(q, r, p, run)
      PROVE  UniquePids'
  <2>1. PICK n : n = Len(procs) + 1
    OBVIOUS
  <2>2. PICK told \in BOOLEAN : procs' = Append(procs, Child(p, r, q, told))
    BY <1>1 DEF Spawn
  <2>3. (r # q => Spoofing) /\ alive' = alive \cup {n}
    BY <1>1, <2>1 DEF Spawn
  <2>4. \A o \in DOMAIN procs : procs[o].pid # p
    BY <1>1 DEF Spawn, Free, New, Used
  <2>5. /\ Len(procs') = n /\ procs'[n].pid = p
        /\ \A o \in 1 .. Len(procs) : procs'[o] = procs[o]
    BY <2>1, <2>2, <2>3, FamilyGrows
  <2>6. /\ DOMAIN procs' = 1 .. Len(procs') /\ DOMAIN procs = 1 .. Len(procs) /\ Len(procs) \in Nat
    BY DEF HInv, Family
  <2>7. \A o \in DOMAIN procs' : o # n => o \in DOMAIN procs /\ procs'[o] = procs[o]
    BY <2>1, <2>5, <2>6
  <2> QED
    BY <2>4, <2>5, <2>7 DEF UniquePids
<1>2. CASE UNCHANGED procs
  BY <1>2 DEF UniquePids
<1> QED
  BY <1>1, <1>2 DEF HostNext, Exit, Act, hostVars, host

\* Two processes with one PID are one process.
LEMMA SamePid ==
  ASSUME UniquePids, NEW q \in DOMAIN procs, NEW r \in DOMAIN procs, procs[q].pid = procs[r].pid
  PROVE  q = r
BY DEF UniquePids

\* What the inductive invariant says of an event.
LEMMA EventFacts ==
  ASSUME HInv, NEW i \in DOMAIN history
  PROVE  LET a == truth[i].actor
             e == truth[i].event
         IN  /\ Tells(procs, a, e, history[i]) /\ a \in DOMAIN procs /\ DOMAIN procs = 1 .. Len(procs)
             /\ Len(procs) \in Nat /\ history[i].pid = procs[a].pid
             /\ history[i].ppid # None =>
                  /\ procs[a].reported /\ procs[a].parent \in 1 .. a - 1
                  /\ history[i].event_type = "ProcessCreate"
                  /\ history[i].ppid = procs[procs[a].parent].pid
<1> DEFINE a == truth[i].actor
           e == truth[i].event
<1>1. i \in 1 .. Len(truth) /\ DOMAIN procs = 1 .. Len(procs) /\ Len(procs) \in Nat
  BY DEF HInv, Recorded, Family, IInv, TypeOK
<1>2. Tells(procs, a, e, history[i])
  BY <1>1 DEF HInv, Recorded
<1> HIDE DEF a, e
<1>3. a \in 1 .. Len(procs) /\ history[i].pid = procs[a].pid
      /\ (history[i].ppid # None =>
            procs[a].reported /\ history[i].event_type = "ProcessCreate"
              /\ history[i].ppid = procs[procs[a].parent].pid)
  BY <1>2 DEF Tells
<1>4. procs[a].reported => procs[a].parent \in 1 .. a - 1
  <2>1. procs[a].parent \in 0 .. a - 1 /\ (procs[a].reported => procs[a].parent # 0)
    BY <1>3 DEF HInv, Family, Younger
  <2> QED
    BY <1>1, <1>3, <2>1
<1> QED
  BY <1>1, <1>2, <1>3, <1>4 DEF a, e

\* What the engine can know of parents is true.
LEMMA TreeIsTrue ==
  ASSUME HInv, NEW n \in 0 .. Len(history), NEW p \in DOMAIN TreeAfter(history, n)
  PROVE  \E q \in DOMAIN procs : /\ procs[q].pid = p /\ procs[q].reported
                                 /\ procs[q].parent \in 1 .. q - 1
                                 /\ TreeAfter(history, n)[p] = procs[procs[q].parent].pid
<1>1. n \in Nat /\ DOMAIN history = 1 .. Len(history) /\ Len(history) \in Nat
  BY DEF HInv, IInv, TypeOK
<1>2. PICK i \in 1 .. n : Names(history, i, p) /\ \A j \in i + 1 .. n : ~ Names(history, j, p)
  BY <1>1, LastNames
<1>3. TreeAfter(history, n)[p] = history[i].ppid
  BY <1>1, <1>2, LatestName
<1>4. i \in DOMAIN history /\ history[i].pid = p /\ history[i].ppid # None
  BY <1>1, <1>2 DEF Names
<1> QED
  BY <1>3, <1>4, EventFacts

LEMMA ParentIsTrue ==
  ASSUME HInv, UniquePids, NEW n \in 0 .. Len(history), NEW q \in DOMAIN procs,
         procs[q].pid \in DOMAIN TreeAfter(history, n)
  PROVE  /\ procs[q].reported /\ procs[q].parent \in 1 .. q - 1
         /\ TreeAfter(history, n)[procs[q].pid] = procs[procs[q].parent].pid
<1>1. PICK o \in DOMAIN procs :
        /\ procs[o].pid = procs[q].pid /\ procs[o].reported /\ procs[o].parent \in 1 .. o - 1
        /\ TreeAfter(history, n)[procs[q].pid] = procs[procs[o].parent].pid
  BY TreeIsTrue
<1> QED
  BY <1>1, SamePid

\* So no PID ever changes its parent.
LEMMA ParentsAreStable ==
  ASSUME HInv, UniquePids
  PROVE  StableParents(history)
<1>1. DOMAIN history = 1 .. Len(history) /\ Len(history) \in Nat
  BY DEF HInv, IInv, TypeOK
<1> SUFFICES ASSUME NEW i \in DOMAIN history, history[i].ppid # None, NEW n \in i .. Len(history)
             PROVE  /\ history[i].pid \in DOMAIN TreeAfter(history, n)
                    /\ TreeAfter(history, n)[history[i].pid] = history[i].ppid
  BY DEF StableParents
<1>2. n \in Nat /\ i \in 1 .. n /\ n \in 0 .. Len(history)
  BY <1>1
<1>3. Names(history, i, history[i].pid)
  BY EventFacts DEF Names
<1>4. history[i].pid \in DOMAIN TreeAfter(history, n)
  BY <1>2, <1>3, NamedPids
<1>5. /\ procs[truth[i].actor].pid = history[i].pid /\ truth[i].actor \in DOMAIN procs
      /\ history[i].ppid = procs[procs[truth[i].actor].parent].pid
  BY EventFacts
<1> QED
  BY <1>2, <1>4, <1>5, ParentIsTrue

----------------------------------------------------------------------------
(* The engine's way up and the host's *)

\* The parents the engine was told of, 0 where it was told of none.
Parents == [r \in DOMAIN procs |-> IF procs[r].reported THEN procs[r].parent ELSE 0]

\* Who is on the way up the engine knows of is an elder indeed.
LEMMA UpIsDescent ==
  ASSUME HInv, UniquePids, NEW n \in 0 .. Len(history), NEW a \in DOMAIN procs, NEW b \in DOMAIN procs,
         OnTheWayUp(TreeAfter(history, n), procs[a].pid, procs[b].pid)
  PROVE  OnTheWayUp(Parents, a, b)
<1> DEFINE tree == TreeAfter(history, n)
           S == {procs[r].pid : r \in {q \in DOMAIN procs : OnTheWayUp(Parents, a, q)}}
                  \cap (DOMAIN tree \cup Range(tree) \cup {procs[a].pid})
<1>1. procs[a].pid \in S
  BY DEF OnTheWayUp
<1>2. ASSUME NEW p \in S \cap DOMAIN tree
      PROVE  tree[p] \in S
  <2>1. PICK r \in DOMAIN procs : OnTheWayUp(Parents, a, r) /\ procs[r].pid = p
    OBVIOUS
  <2>2. /\ procs[r].reported /\ procs[r].parent \in 1 .. r - 1
        /\ tree[p] = procs[procs[r].parent].pid
    BY <2>1, ParentIsTrue
  <2>3. procs[r].parent \in DOMAIN procs
    <3>1. DOMAIN procs = 1 .. Len(procs) /\ Len(procs) \in Nat
      BY DEF HInv, Family
    <3> QED
      BY <2>2, <3>1
  <2>4. OnTheWayUp(Parents, a, procs[r].parent)
    <3>1. r \in DOMAIN Parents /\ Parents[r] = procs[r].parent
      BY <2>2 DEF Parents
    <3>2. OnTheWayUp(Parents, r, Parents[r])
      BY <3>1, UpStep DEF OnTheWayUp
    <3> QED
      BY <2>1, <3>1, <3>2, UpTransitive
  <2>5. tree[p] \in Range(tree)
    BY DEF Range
  <2> HIDE DEF tree
  <2> QED
    BY <2>2, <2>3, <2>4, <2>5
<1>3. procs[b].pid \in S
  <2>1. S \in SUBSET (DOMAIN tree \cup Range(tree) \cup {procs[a].pid})
    OBVIOUS
  <2> HIDE DEF S
  <2> QED
    BY <1>1, <1>2, <2>1 DEF OnTheWayUp
<1>4. PICK r \in DOMAIN procs : OnTheWayUp(Parents, a, r) /\ procs[r].pid = procs[b].pid
  BY <1>3
<1> QED
  BY <1>4, SamePid

\* When a process does something, the engine knows the parents of all its elders
\* it is ever told of.
LEMMA EldersAreKnown ==
  ASSUME HInv, UniquePids, NEW i \in DOMAIN history, NEW q \in 1 .. truth[i].actor, procs[q].reported
  PROVE  /\ procs[q].pid \in DOMAIN TreeAfter(history, i) /\ procs[q].parent \in 1 .. q - 1
         /\ TreeAfter(history, i)[procs[q].pid] = procs[procs[q].parent].pid
<1>1. /\ DOMAIN history = 1 .. Len(history) /\ Len(history) \in Nat /\ Len(truth) = Len(history)
      /\ i \in 1 .. Len(truth) /\ i \in Nat /\ i \in 0 .. Len(history)
  BY DEF HInv, IInv, TypeOK, Recorded
<1>2. PICK k \in 1 .. i : Births(k, q)
  BY <1>1 DEF HInv, Recorded
<1>3. k \in DOMAIN history /\ truth[k].actor = q /\ truth[k].event.ppid # None
  BY <1>1, <1>2 DEF Births
<1>4. Tells(procs, q, truth[k].event, history[k]) /\ q \in DOMAIN procs
  BY <1>3, EventFacts
<1>5. history[k].ppid # None /\ history[k].pid = procs[q].pid /\ history[k].event_type = "ProcessCreate"
  BY <1>3, <1>4 DEF Tells
<1>6. Names(history, k, procs[q].pid)
  BY <1>5 DEF Names
<1>7. procs[q].pid \in DOMAIN TreeAfter(history, i)
  BY <1>1, <1>6, NamedPids
<1> QED
  BY <1>1, <1>4, <1>7, ParentIsTrue

LEMMA DescentIsUp ==
  ASSUME HInv, UniquePids, NEW i \in DOMAIN history, NEW b \in DOMAIN procs,
         OnTheWayUp(Parents, truth[i].actor, b)
  PROVE  OnTheWayUp(TreeAfter(history, i), history[i].pid, procs[b].pid)
<1> DEFINE a == truth[i].actor
           tree == TreeAfter(history, i)
<1>1. a \in DOMAIN procs /\ DOMAIN procs = 1 .. Len(procs) /\ Len(procs) \in Nat /\ history[i].pid = procs[a].pid
  BY EventFacts
<1>2. \A q \in 1 .. a : procs[q].reported =>
        /\ procs[q].pid \in DOMAIN tree /\ procs[q].parent \in 1 .. q - 1
        /\ tree[procs[q].pid] = procs[procs[q].parent].pid
  BY EldersAreKnown
<1>3. Parents[1] = 0 /\ 1 \in DOMAIN procs
  <2>1. 1 \in 1 .. Len(procs) /\ Younger(procs, 1)
    BY <1>1 DEF HInv, Family
  <2>2. procs[1].parent \in 0 .. 1 - 1
    BY <2>1 DEF Younger
  <2> QED
    BY <1>1, <2>1, <2>2 DEF Parents
<1>4. OnTheWayUp(Parents, a, b)
  OBVIOUS
<1> HIDE DEF a, tree
<1> SUFFICES ASSUME NEW S \in SUBSET (DOMAIN tree \cup Range(tree) \cup {procs[a].pid}), procs[a].pid \in S,
                    \A p \in S \cap DOMAIN tree : tree[p] \in S
             PROVE  procs[b].pid \in S
  BY <1>1 DEF OnTheWayUp, tree
<1> DEFINE T == {r \in 1 .. a : procs[r].pid \in S} \cup {0}
<1>5. T \in SUBSET (DOMAIN Parents \cup Range(Parents) \cup {a})
  <2>1. 0 \in Range(Parents)
    BY <1>3 DEF Range, Parents
  <2>2. \A r \in 1 .. a : r \in DOMAIN Parents
    BY <1>1 DEF Parents
  <2> QED
    BY <2>1, <2>2
<1>6. a \in T
  BY <1>1
<1>7. ASSUME NEW r \in T \cap DOMAIN Parents
      PROVE  Parents[r] \in T
  <2>1. r \in 1 .. a /\ r \in DOMAIN procs /\ procs[r].pid \in S
    BY <1>1 DEF Parents
  <2>2. CASE ~ procs[r].reported
    BY <2>1, <2>2 DEF Parents
  <2>3. CASE procs[r].reported
    <3>1. Parents[r] = procs[r].parent
      BY <2>1, <2>3 DEF Parents
    <3>2. procs[procs[r].parent].pid \in S
      BY <1>2, <2>1, <2>3
    <3>3. procs[r].parent \in 1 .. a
      BY <1>1, <1>2, <2>1, <2>3
    <3> QED
      BY <3>1, <3>2, <3>3
  <2> QED
    BY <2>2, <2>3
<1>8. b \in T
  <2> HIDE DEF T
  <2> QED
    BY <1>4, <1>5, <1>6, <1>7 DEF OnTheWayUp
<1>9. b # 0
  BY <1>1
<1> QED
  BY <1>8, <1>9

\* So lineage in the events is descent on the host, as far as parents were
\* reported, and the other way round.
LEMMA LineageIsDescent ==
  ASSUME HInv, UniquePids, NEW n \in DOMAIN history, NEW m \in SUBSET DOMAIN history
  PROVE  InLineage(history, n, m) <=> \E i \in m : OnTheWayUp(Parents, truth[n].actor, truth[i].actor)
<1> DEFINE tree == TreeAfter(history, n)
           p == history[n].pid
<1>0. AreEvents(history) /\ StableParents(history) /\ n \in 0 .. Len(history)
  BY HistoryOfEvents, ParentsAreStable DEF HInv, IInv, TypeOK
<1>1. \A i \in DOMAIN history : truth[i].actor \in DOMAIN procs /\ history[i].pid = procs[truth[i].actor].pid
  BY EventFacts
<1>2. ASSUME InLineage(history, n, m)
      PROVE  \E i \in m : OnTheWayUp(Parents, truth[n].actor, truth[i].actor)
  <2>1. PICK i \in m : OnTheWayUp(tree, p, history[i].pid)
    BY <1>0, <1>2, LineageIsUp
  <2> QED
    BY <1>0, <1>1, <2>1, UpIsDescent
<1>3. ASSUME NEW i \in m, OnTheWayUp(Parents, truth[n].actor, truth[i].actor)
      PROVE  InLineage(history, n, m)
  <2>1. OnTheWayUp(tree, p, history[i].pid)
    BY <1>1, <1>3, DescentIsUp
  <2>2. CASE history[i].pid = p
    BY <2>2 DEF InLineage
  <2>3. CASE history[i].pid # p
    <3>1. p \in DOMAIN tree /\ OnTheWayUp(tree, tree[p], history[i].pid)
      BY <2>1, <2>3, UpEnds, UpRest
    <3>2. First(tree, history[n]) = tree[p]
      BY <1>0, <3>1, FirstIsParent DEF Parent
    <3>3. OnTheWayUp(tree, First(tree, history[n]), history[i].pid)
      BY <3>1, <3>2
    <3> QED
      BY <3>3 DEF InLineage, First, Parent
  <2> QED
    BY <2>2, <2>3
<1> QED
  BY <1>2, <1>3

----------------------------------------------------------------------------
(* The theorems *)

\* Events of one line are deeds of one family, and the other way round.
LEMMA InLineIsDescent ==
  ASSUME HInv, UniquePids, NEW pos \in Seq(DOMAIN history)
  PROVE  InLine(history, pos) <=> InFamily(Parents, pos)
<1>1. ASSUME NEW i \in 2 .. Len(pos)
      PROVE  InLineage(history, pos[i], {pos[j] : j \in 1 .. i - 1}) <=>
               \E j \in 1 .. i - 1 : OnTheWayUp(Parents, truth[pos[i]].actor, truth[pos[j]].actor)
  <2> DEFINE m == {pos[j] : j \in 1 .. i - 1}
             D == DOMAIN history
  <2>1. pos \in Seq(D) /\ i \in 1 .. Len(pos) /\ \A j \in 1 .. i - 1 : j \in 1 .. Len(pos)
    OBVIOUS
  <2>2. pos[i] \in D /\ \A j \in 1 .. i - 1 : pos[j] \in D
    <3> HIDE DEF D
    <3> QED
      BY <2>1
  <2>3. m \in SUBSET DOMAIN history
    BY <2>2
  <2>4. InLineage(history, pos[i], m) <=> \E k \in m : OnTheWayUp(Parents, truth[pos[i]].actor, truth[k].actor)
    <3> HIDE DEF m
    <3> QED
      BY <2>2, <2>3, LineageIsDescent
  <2> QED
    BY <2>4
<1> QED
  BY <1>1 DEF InLine, InFamily

\* Whoever is on the way up is so too where more parents are known.
LEMMA FewerLinks ==
  ASSUME NEW few, NEW many, DOMAIN few = DOMAIN many,
         \A r \in DOMAIN few : few[r] \in {0, many[r]}, 0 \notin DOMAIN few,
         NEW a, NEW b, b # 0, OnTheWayUp(few, a, b)
  PROVE  OnTheWayUp(many, a, b)
<1> SUFFICES ASSUME NEW S \in SUBSET (DOMAIN many \cup Range(many) \cup {a}), a \in S,
                    \A p \in S \cap DOMAIN many : many[p] \in S
             PROVE  b \in S
  BY DEF OnTheWayUp
<1> DEFINE T == (S \cup {0}) \cap (DOMAIN few \cup Range(few) \cup {a})
<1>1. a \in T /\ T \in SUBSET (DOMAIN few \cup Range(few) \cup {a})
  OBVIOUS
<1>2. ASSUME NEW p \in T \cap DOMAIN few
      PROVE  few[p] \in T
  <2>1. p \in S /\ many[p] \in S /\ few[p] \in {0, many[p]}
    OBVIOUS
  <2>2. few[p] \in Range(few)
    BY DEF Range
  <2> QED
    BY <2>1, <2>2
<1>3. b \in T
  <2> HIDE DEF T
  <2> QED
    BY <1>1, <1>2 DEF OnTheWayUp
<1> QED
  BY <1>3

LEMMA MoreLinks ==
  ASSUME HInv, NEW few, NEW many, DOMAIN few = DOMAIN procs, DOMAIN many = DOMAIN procs,
         \A r \in DOMAIN procs : few[r] \in {0, many[r]},
         NEW pos \in Seq(DOMAIN history), InFamily(few, pos)
  PROVE  InFamily(many, pos)
<1>1. 0 \notin DOMAIN procs
  BY DEF HInv, Family
<1> SUFFICES ASSUME NEW i \in 2 .. Len(pos)
             PROVE  \E j \in 1 .. i - 1 : OnTheWayUp(many, truth[pos[i]].actor, truth[pos[j]].actor)
  BY DEF InFamily
<1>2. PICK j \in 1 .. i - 1 : OnTheWayUp(few, truth[pos[i]].actor, truth[pos[j]].actor)
  BY DEF InFamily
<1>3. pos[j] \in DOMAIN history
  <2> DEFINE D == DOMAIN history
  <2>1. pos \in Seq(D) /\ j \in 1 .. Len(pos)
    OBVIOUS
  <2> HIDE DEF D
  <2>2. pos[j] \in D
    BY <2>1
  <2> QED
    BY <2>2 DEF D
<1>4. truth[pos[j]].actor # 0
  BY <1>1, <1>3, EventFacts
<1> QED
  BY <1>1, <1>2, <1>4, FewerLinks

\* Where no PID is ever handed out twice, every alert and every partial match
\* follows parenthood as Windows keeps it, a spoofed parent included: each
\* process of it descends from one before it.
THEOREM LineageIsGenuine == ReusePids = FALSE => (HostSpec => []LineageGenuine)
<1> SUFFICES ASSUME ReusePids = FALSE PROVE HostSpec => []LineageGenuine
  OBVIOUS
<1>1. HostInit => UniquePids
  BY HInvInit
<1>2. HInv /\ HInv' /\ UniquePids /\ [HostNext]_hostVars => UniquePids'
  BY UniqueStep
<1>3. HInv /\ UniquePids /\ TracksAreOccurrences => LineageGenuine
  <2> SUFFICES ASSUME HInv, UniquePids, TracksAreOccurrences, NEW t \in Tracks
               PROVE  InFamily(Claimed, t.matched_events)
    BY DEF LineageGenuine
  <2>1. t.matched_events \in Seq(DOMAIN history)
    BY DEF HInv, IInv, TypeOK, TrackType, Tracks
  <2>2. InLine(history, t.matched_events)
    BY DEF TracksAreOccurrences, Occurrence, InLine
  <2>3. InFamily(Parents, t.matched_events)
    BY <2>1, <2>2, InLineIsDescent
  <2>4. /\ DOMAIN Parents = DOMAIN procs /\ DOMAIN Claimed = DOMAIN procs
        /\ \A r \in DOMAIN procs : Parents[r] \in {0, Claimed[r]}
    BY DEF Parents, Claimed
  <2> QED
    BY <2>1, <2>3, <2>4, MoreLinks
<1>4. HostSpec => []HInv /\ []TracksAreOccurrences
  BY HostDrivesEngine, TracksAreGenuine, PTL
<1> QED
  BY <1>1, <1>2, <1>3, <1>4, PTL DEF HostSpec

\* A deed that fits a step is told by an event that fits it, if the image path
\* was reported and no text was cut.
LEMMA FitsIfTold ==
  ASSUME NEW ps, NEW q, NEW e, NEW r, Tells(ps, q, e, r), r.image_path = e.image_path,
         \A field \in Optional : r[field] \in {None, e[field]}, NEW step, Fits(step, e)
  PROVE  Fits(step, r)
<1>1. ASSUME NEW field \in DOMAIN step.conditions \cap Conditioned
      PROVE  ~ FieldRejects(field, step.conditions[field], r)
  <2>1. ~ FieldRejects(field, step.conditions[field], e)
    BY DEF Fits, ConditionsHold
  <2>2. CASE field = "image_path"
    BY <2>1, <2>2 DEF FieldRejects
  <2>3. CASE field # "image_path"
    <3>1. r[field] \in {None, e[field]}
      BY <2>3 DEF Conditioned, Optional
    <3> QED
      BY <2>1, <2>3, <3>1 DEF FieldRejects
  <2> QED
    BY <2>2, <2>3
<1> QED
  BY <1>1 DEF Fits, ConditionsHold, Tells

LEMMA HappenedFacts ==
  ASSUME HInv, NEW i \in DOMAIN history
  PROVE  Happened[i] = truth[i].event /\ Tells(procs, truth[i].actor, Happened[i], history[i])
<1>1. i \in DOMAIN truth
  BY DEF HInv, IInv, TypeOK, Recorded
<1> QED
  BY <1>1, EventFacts DEF Happened

\* An event that fits a step stands for a deed that fits it, but for what asks
\* for a command line or a key the event lacks.
LEMMA FitsInTruth ==
  ASSUME HInv, NEW i \in DOMAIN history, NEW step, Fits(step, history[i])
  PROVE  FitsButUnread(step, i)
<1>1. Tells(procs, truth[i].actor, Happened[i], history[i])
  BY HappenedFacts
<1>2. ASSUME NEW field \in DOMAIN step.conditions \cap Conditioned,
             FieldRejects(field, step.conditions[field], Happened[i])
      PROVE  field \in Optional /\ history[i][field] = None
  <2>1. \/ field # "image_path" /\ history[i][field] = None
        \/ <<step.conditions[field], history[i][field]>> \in Within
    BY DEF Fits, ConditionsHold, FieldRejects
  <2>2. field # "image_path" => field \in Optional
    BY DEF Conditioned, Optional
  <2> QED
    BY <1>1, <1>2, <2>1, <2>2 DEF FieldRejects, Tells
<1> QED
  BY <1>1, <1>2 DEF Fits, FitsButUnread, Tells

\* Where no PID is ever handed out twice, every alert and every partial match
\* rests on deeds in one family, each of which is all its step asks for, but for
\* a command line or a key that was not reported.  Of those the engine cannot
\* tell, and takes them to fit.
THEOREM EveryAlertIsBacked == ReusePids = FALSE => (HostSpec => []AlertsAreBacked)
<1> SUFFICES ASSUME ReusePids = FALSE PROVE HostSpec => []AlertsAreBacked
  OBVIOUS
<1>1. HInv /\ LineageGenuine /\ TracksAreOccurrences => AlertsAreBacked
  <2> SUFFICES ASSUME HInv, LineageGenuine, TracksAreOccurrences, NEW t \in Tracks,
                      NEW k \in DOMAIN t.matched_events
               PROVE  FitsButUnread(StepsOf(t)[k], t.matched_events[k])
    BY DEF AlertsAreBacked, LineageGenuine
  <2> DEFINE pos == t.matched_events
             D == DOMAIN history
  <2>1. pos \in Seq(D)
    BY DEF HInv, IInv, TypeOK, TrackType, Tracks
  <2>2. pos[k] \in D
    <3> HIDE DEF D
    <3> QED
      BY <2>1
  <2>3. Fits(StepsOf(t)[k], history[pos[k]])
    BY DEF TracksAreOccurrences, Occurrence, InOrder, StepsOf
  <2> QED
    BY <2>2, <2>3, FitsInTruth
<1>2. HostSpec => []HInv /\ []TracksAreOccurrences
  BY HostDrivesEngine, TracksAreGenuine, PTL
<1> QED
  BY <1>1, <1>2, LineageIsGenuine, PTL

\* Where no PID is ever handed out twice, the engine, as long as it is running,
\* has missed no attack whose events were told of with their image paths and
\* with nothing cut, if from each of its processes to the next all were reported
\* and none under a parent other than its creator: there is an alert that begins
\* with the attack's first event and was raised no later than its last.
THEOREM NoVisibleAttackIsMissed == ReusePids = FALSE => (HostSpec => []NoVisibleAttackMissed)
<1> SUFFICES ASSUME ReusePids = FALSE PROVE HostSpec => []NoVisibleAttackMissed
  OBVIOUS
<1>1. HostInit => UniquePids
  BY HInvInit
<1>2. HInv /\ HInv' /\ UniquePids /\ [HostNext]_hostVars => UniquePids'
  BY UniqueStep
<1>3. HInv /\ UniquePids /\ Greedy => NoVisibleAttackMissed
  <2> SUFFICES ASSUME HInv, UniquePids, Greedy, status = "running",
                      NEW c \in DOMAIN Chains \ Malformed(Chains), NEW pos \in Positions(history, c),
                      InOrder(Happened, c, pos), InFamily(Visible, pos), \A i \in Range(pos) : Told(i)
               PROVE  \E t \in alerts : /\ t.chain = c /\ Start(t) = pos[1]
                                        /\ t.matched_events[Len(pos)] <= pos[Len(pos)]
    BY DEF NoVisibleAttackMissed
  <2> DEFINE l == Len(Chains[c].steps)
             D == DOMAIN history
  <2>1. l \in Nat \ {0}
    BY ChainAssumption DEF Malformed
  <2>2. pos \in Seq(D) /\ Len(pos) = l /\ DOMAIN pos = 1 .. l /\ \A i \in 1 .. l : pos[i] \in D
    <3>1. pos \in [1 .. l -> D]
      BY DEF Positions
    <3> HIDE DEF l, D
    <3> QED
      BY <2>1, <3>1
  <2>3. ASSUME NEW i \in DOMAIN pos
        PROVE  Fits(Chains[c].steps[i], history[pos[i]])
    <3>1. pos[i] \in DOMAIN history /\ pos[i] \in Range(pos)
      BY <2>2 DEF Range
    <3>2. Tells(procs, truth[pos[i]].actor, Happened[pos[i]], history[pos[i]]) /\ Told(pos[i])
      BY <3>1, HappenedFacts
    <3>3. Fits(Chains[c].steps[i], Happened[pos[i]])
      BY DEF InOrder
    <3> QED
      BY <3>2, <3>3, FitsIfTold DEF Told
  <2>4. InLine(history, pos)
    <3>1. /\ DOMAIN Visible = DOMAIN procs /\ DOMAIN Parents = DOMAIN procs
          /\ \A r \in DOMAIN procs : Visible[r] \in {0, Parents[r]}
      BY DEF Visible, Parents
    <3>2. InFamily(Parents, pos)
      BY <2>2, <3>1, MoreLinks
    <3> QED
      BY <2>2, <3>2, InLineIsDescent
  <2>5. Occurrence(history, c, pos)
    BY <2>3, <2>4 DEF InOrder, Occurrence, InLine
  <2>6. StableParents(history)
    BY ParentsAreStable
  <2>7. PICK t \in Tracks : /\ t.chain = c /\ Start(t) = pos[1] /\ t.current_step_index >= l
                            /\ t.matched_events[l] <= pos[l]
    BY <2>1, <2>2, <2>5, <2>6 DEF Greedy, Followed
  <2>8. t.current_step_index = l
    BY <2>1, <2>7 DEF HInv, IInv, TypeOK, StepsOf
  <2>9. t \in alerts
    BY <2>7, <2>8 DEF HInv, IInv, AlertsAreComplete, Complete, StepsOf, Tracks
  <2> QED
    BY <2>2, <2>7, <2>9
<1>4. HostSpec => []HInv /\ []Greedy
  BY HostDrivesEngine, NothingIsMissed, PTL
<1> QED
  BY <1>1, <1>2, <1>3, <1>4, PTL DEF HostSpec

=============================================================================
