------------------------- MODULE CorrelationEngine -------------------------
(***************************************************************************)
(* The correlation engine (engine/state_machine.py): partial matches of    *)
(* the attack chains, advanced by one telemetry event at a time.           *)
(*                                                                         *)
(* CorrelationEngine.ingest is called by one thread and is one action.     *)
(* An event is recorded by its position in history, so active_tracks is a  *)
(* set here: a track is identified by its chain and the event that began   *)
(* it, and list order is the order of those pairs.                         *)
(***************************************************************************)
EXTENDS AttackChains

CONSTANT MaxEvents  \* bound of the model: events ingested

ASSUME BoundAssumption == MaxEvents \in Nat

VARIABLES
  active_tracks, \* partial matches: [chain, current_step_index, matched_events]
  process_tree,  \* pid -> ppid, for the pids a ProcessCreate has named
  alerts,        \* the completed tracks ingest has returned an alert for
  history,       \* history: the events ingested so far
  status         \* "running", or how the last call of ingest failed to return

vars == <<active_tracks, process_tree, alerts, history, status>>

----------------------------------------------------------------------------
(* Lineage in _match_step *)

\* Variant: process_tree.get(pid, pid).
ParentOrSelf(tree, pid) == IF pid \in DOMAIN tree THEN tree[pid] ELSE pid

\* process_tree.get(pid)
Parent(tree, pid) == IF pid \in DOMAIN tree THEN tree[pid] ELSE None

\* Successive values of curr_ppid; the loop stops at the first that is falsy.
CurrPpid(tree, e) ==
  LET walk[n \in Nat] ==
        IF n = 0 THEN IF IsPid(e.ppid) THEN e.ppid ELSE Parent(tree, e.pid)
                 ELSE Parent(tree, walk[n - 1])
  IN  walk

\* The pids the loop visits: after one step more than process_tree has
\* entries it can only meet pids it has met before.
Ancestors(tree, e) ==
  {CurrPpid(tree, e)[n] : n \in 0 .. Cardinality(DOMAIN tree)} \ {None, 0}

Endless(tree, e) == IsPid(CurrPpid(tree, e)[Cardinality(DOMAIN tree) + 1])

\* Variants: lineage ignored, and the direct parent alone looked up.
Unchecked(tree, e, matched_pids) == TRUE
DirectParent(tree, e, matched_pids) ==
  {e.pid, CurrPpid(tree, e)[0]} \cap matched_pids # {}

Related(tree, e, matched_pids) ==
  e.pid \in matched_pids \/ Ancestors(tree, e) \cap matched_pids # {}

----------------------------------------------------------------------------
(* Tracks *)

StepsOf(t) == Chains[t.chain].steps

NextStep(t) == StepsOf(t)[t.current_step_index + 1]

Complete(t) == t.current_step_index = Len(StepsOf(t))

Start(t) == t.matched_events[1]

\* A track's place in the list: tracks are appended, those of one event in
\* the order of the chains.
Before(t, u) ==
  Start(t) < Start(u) \/ (Start(t) = Start(u) /\ t.chain < u.chain)

MatchedPids(t) ==
  {history[t.matched_events[i]].pid : i \in DOMAIN t.matched_events}

\* _match_step(next_step, event, track)
Continues(tree, t, e) ==
  Fits(NextStep(t), e) /\ Related(tree, e, MatchedPids(t))

\* The lineage loop of _match_step for this track never ends.
Stuck(tree, t, e) ==
  /\ e.event_type = NextStep(t).event_type
  /\ ~ Related(tree, e, MatchedPids(t))
  /\ Endless(tree, e)

\* Variant: current_step_index is not counted up.
Lengthened(t, n) ==
  [chain |-> t.chain, current_step_index |-> t.current_step_index,
   matched_events |-> Append(t.matched_events, n)]

Extended(t, n) ==
  [chain |-> t.chain, current_step_index |-> t.current_step_index + 1,
   matched_events |-> Append(t.matched_events, n)]

NewTrack(c, n) ==
  [chain |-> c, current_step_index |-> 1, matched_events |-> <<n>>]

----------------------------------------------------------------------------
(* ingest *)

\* Variant: the first parent named is kept (setdefault).
LearnOnce(tree, e) ==
  IF e.event_type = "ProcessCreate" /\ e.ppid # None /\ e.pid \notin DOMAIN tree
  THEN [p \in DOMAIN tree \cup {e.pid} |-> IF p = e.pid THEN e.ppid ELSE tree[p]]
  ELSE tree

Learn(tree, e) ==
  IF e.event_type = "ProcessCreate" /\ e.ppid # None
  THEN [p \in DOMAIN tree \cup {e.pid} |-> IF p = e.pid THEN e.ppid ELSE tree[p]]
  ELSE tree

\* The tracks the event begins, over the chains the second loop gets to.
Begun(chains, e) ==
  {NewTrack(c, Len(history) + 1) :
     c \in {d \in chains : Fits(Chains[d].steps[1], e)}}

\* Variants: a track is copied when it advances, and all tracks of its chain
\* are dropped when it does.
KeptAll(moved) == active_tracks
KeptOfOthers(moved) ==
  {t \in active_tracks : \A u \in moved : t.chain # u.chain}

\* Tracks advance in place: the list keeps the ones that did not move.
Kept(moved) == active_tracks \ moved

\* Variant: alerts are yielded as they occur instead of returned at the end.
Yielded(done, outcome) == done

\* The alerts the caller receives: a call that fails returns none.
Returned(done, outcome) == IF outcome = "running" THEN done ELSE {}

\* What a call does that gets to these tracks and these chains: each track
\* sees the event, then each chain, and a track that reaches its last step is
\* removed and turned into an alert.
Process(e, tracks, chains, outcome) ==
  LET tree  == Learn(process_tree, e)
      moved == {t \in tracks : Continues(tree, t, e)}
      after == {Extended(t, Len(history) + 1) : t \in moved} \cup Begun(chains, e)
      done  == {t \in after : Complete(t)}
  IN  /\ active_tracks' = Kept(moved) \cup (after \ done)
      /\ alerts' = alerts \cup Returned(done, outcome)
      /\ process_tree' = tree
      /\ history' = Append(history, e)
      /\ status' = outcome

StuckTracks(e) == {t \in active_tracks : Stuck(Learn(process_tree, e), t, e)}

Ingest(e) ==
  /\ StuckTracks(e) = {} /\ Malformed(Chains) = {}
  /\ Process(e, active_tracks, DOMAIN Chains, "running")

\* The first track whose lineage loop is endless holds the call forever.
IngestLoops(e) ==
  \E t \in StuckTracks(e) :
    /\ \A u \in StuckTracks(e) \ {t} : Before(t, u)
    /\ Process(e, {u \in active_tracks : Before(u, t)}, {}, "looping")

\* The second loop raises IndexError at the first chain without steps.
IngestRaises(e) ==
  /\ StuckTracks(e) = {}
  /\ \E c \in Malformed(Chains) :
       /\ \A d \in Malformed(Chains) : c <= d
       /\ Process(e, active_tracks, 1 .. c - 1, "raised")

Receive(e) == Ingest(e) \/ IngestLoops(e) \/ IngestRaises(e)

Init ==
  /\ active_tracks = {} /\ process_tree = <<>>
  /\ alerts = {} /\ history = <<>> /\ status = "running"

\* Neither failure leaves a caller that calls ingest again.
Next ==
  /\ status = "running"
  /\ Len(history) < MaxEvents
  /\ \E e \in EventSpace : Receive(e)

Spec == Init /\ [][Next]_vars

----------------------------------------------------------------------------
(* Properties *)

Tracks == active_tracks \cup alerts

TrackType == [chain : DOMAIN Chains, current_step_index : Nat,
              matched_events : Seq(DOMAIN history)]

\* The state of CorrelationEngine: tracks of loaded chains that count their
\* matched events, and a tree of the pids and parents events have named.
TypeOK ==
  /\ history \in Seq(EventSpace)
  /\ active_tracks \subseteq TrackType /\ alerts \subseteq TrackType
  /\ \A t \in Tracks : /\ t.current_step_index = Len(t.matched_events)
                       /\ t.current_step_index \in 1 .. Len(StepsOf(t))
  /\ DOMAIN process_tree \subseteq {history[i].pid : i \in DOMAIN history}
  /\ \A p \in DOMAIN process_tree : process_tree[p] \in Nat
  /\ status \in {"running", "looping", "raised"}

\* A track with all its steps never stays behind unreported, and no alert is
\* raised for less than a whole chain.
AlertsAreComplete ==
  /\ \A t \in active_tracks : ~ Complete(t)
  /\ \A t \in alerts : Complete(t)

\* The part of the next property that does not depend on lineage.
StepsInOrder == \A t \in Tracks : InOrder(history, t.chain, t.matched_events)

\* Every alert is backed by an occurrence of its whole chain in the events
\* received, and every partial track by one of its first steps, whatever
\* tracks were advanced, finished and removed in between.
TracksAreOccurrences ==
  AlertsAreComplete /\ \A t \in Tracks : Occurrence(history, t.chain, t.matched_events)

\* One event begins at most one track of a chain, and that track ends in at
\* most one alert: no two tracks, finished or not, share chain and first event.
OneTrackPerStart ==
  \A t, u \in Tracks : t.chain = u.chain /\ Start(t) = Start(u) => t = u

\* process_tree forgets nothing and mixes nothing up: it has every pid a
\* ProcessCreate told the parent of, with the parent that was told last.
TreeIsLatest ==
  /\ \A i \in DOMAIN history :
       Names(history, i, history[i].pid) => history[i].pid \in DOMAIN process_tree
  /\ \A p \in DOMAIN process_tree : \E i \in DOMAIN history :
       /\ Names(history, i, p) /\ process_tree[p] = history[i].ppid
       /\ \A j \in DOMAIN history : j > i => ~ Names(history, j, p)

NothingLost ==
  status' = "running" =>
    /\ alerts \subseteq alerts'
    /\ \A t \in active_tracks :
         \/ t \in active_tracks'
         \/ Extended(t, Len(history')) \in active_tracks' \cup alerts'

\* While calls of ingest return, a partial match is never lost: it stays as
\* it is, or grows by the event just received, or that event completes it.
TracksOnlyGrow == [][NothingLost]_vars

\* What the engine shows of itself to the caller of ingest.
Detection ==
  INSTANCE AttackDetection
    WITH seen     <- history,
         reported <- {[chain |-> t.chain, events |-> t.matched_events] : t \in alerts},
         up       <- status = "running"

\* The engine keeps the detector's promise although it takes, greedily and for
\* good, the first event that fits a track's next step: each call returns
\* alerts for whole occurrences only, at most one per first event, and while
\* parents are stable leaves out none; and a call fails to return only over a
\* cycle of parents or a chain without steps, and then reports nothing.
DetectsAttacks == Detection!Spec
============================================================================
