---------------------------- MODULE AttackChains ----------------------------
(***************************************************************************)
(* What attack chains and telemetry are (engine/schema.py and              *)
(* engine/models.py), when an event fits a step (_match_step of            *)
(* engine/state_machine.py), and when events received one after the other  *)
(* make up an occurrence of a chain.                                       *)
(*                                                                         *)
(* Strings are opaque; Within says which text contains which condition     *)
(* value, case folded.  evs is a sequence of events, oldest first.         *)
(***************************************************************************)
EXTENDS Integers, Sequences, FiniteSets, Functions

CONSTANTS
  Chains,      \* sequence of the loaded chains: [id, steps]
  EventSpace,  \* the TelemetryEvents that may be received
  Within,      \* pairs <<value, text>> with value.lower() in text.lower()
  None         \* a field that is absent or, but for registry_key, empty

EventTypes == {"ProcessCreate", "ImageLoad", "RegistrySet"}

\* PIDs are positive: 0 is the idle process, which no producer reports.
ASSUME EventAssumption ==
  \A e \in EventSpace :
    /\ e.event_type \in EventTypes
    /\ e.pid \in Nat \ {0}
    /\ e.ppid \in Nat \cup {None}

\* A missing field is no number.
ASSUME NoneAssumption == None \notin Nat

ASSUME ChainAssumption ==
  /\ Chains \in Seq(Range(Chains))
  /\ \A c \in DOMAIN Chains : Chains[c].steps \in Seq(Range(Chains[c].steps))

\* Those of the chains no step of which was ever written down.
Malformed(chains) == {c \in DOMAIN chains : chains[c].steps = <<>>}

----------------------------------------------------------------------------
(* One event and one step *)

IsPid(p) == p \notin {None, 0}

\* Variant: an event without an image path passes too.
AnyMissingPasses(field, value, e) == e[field] # None /\ <<value, e[field]>> \notin Within

\* One condition that makes the step fail.  A field the event lacks rejects
\* nothing, except the image path, which every event has.
FieldRejects(field, value, e) ==
  /\ field = "image_path" \/ e[field] # None
  /\ <<value, e[field]>> \notin Within

\* A condition on anything else is ignored.
Conditioned == {"image_path", "command_line", "registry_key"}

ConditionsHold(step, e) ==
  \A field \in DOMAIN step.conditions \cap Conditioned :
    ~ FieldRejects(field, step.conditions[field], e)

Fits(step, e) == e.event_type = step.event_type /\ ConditionsHold(step, e)

----------------------------------------------------------------------------
(* Lineage in a sequence of events *)

\* Event i tells the parent of pid p.
Names(evs, i, p) ==
  /\ evs[i].event_type = "ProcessCreate"
  /\ evs[i].pid = p /\ evs[i].ppid # None

\* The parents known after the first n events.
TreeAfter(evs, n) ==
  [p \in {evs[i].pid : i \in {j \in 1 .. n : Names(evs, j, evs[j].pid)}} |->
     evs[CHOOSE i \in 1 .. n :
       Names(evs, i, p) /\ \A j \in i + 1 .. n : ~ Names(evs, j, p)].ppid]

\* pid lies on the way up from first: every set of pids that holds first and
\* the parents of its members holds pid.
OnTheWayUp(tree, first, pid) ==
  \A S \in SUBSET (DOMAIN tree \cup Range(tree) \cup {first}) :
    first \in S /\ (\A p \in S \cap DOMAIN tree : tree[p] \in S) => pid \in S

\* Given the parents known after event n, its process or an ancestor of it is
\* the process of an event in m; a ppid of the event's own comes first.
InLineage(evs, n, m) ==
  LET e     == evs[n]
      tree  == TreeAfter(evs, n)
      first == IF IsPid(e.ppid) THEN e.ppid ELSE IF e.pid \in DOMAIN tree THEN tree[e.pid] ELSE None
  IN  \E i \in m : evs[i].pid = e.pid \/ OnTheWayUp(tree, first, evs[i].pid)

\* Some pid is its own ancestor.
Cyclic(evs) ==
  LET tree == TreeAfter(evs, Len(evs))
  IN  \E p \in DOMAIN tree : OnTheWayUp(tree, tree[p], p)

\* No pid has changed its parent, and no event has brought a parent that was
\* not known at the time.
StableParents(evs) ==
  \A i \in DOMAIN evs : evs[i].ppid # None =>
    \A n \in i .. Len(evs) :
      /\ evs[i].pid \in DOMAIN TreeAfter(evs, n)
      /\ TreeAfter(evs, n)[evs[i].pid] = evs[i].ppid

----------------------------------------------------------------------------
(* Occurrences of a chain *)

\* Sequences of positions for the steps of chain c.
Positions(evs, c) == [1 .. Len(Chains[c].steps) -> DOMAIN evs]

\* The events at the positions pos fit the first steps of chain c one by one
\* and arrived in that order.
InOrder(evs, c, pos) ==
  /\ \A i \in DOMAIN pos : Fits(Chains[c].steps[i], evs[pos[i]])
  /\ \A i \in DOMAIN pos : i > 1 => pos[i - 1] < pos[i]

\* They are in lineage besides, each after the first with one before it.
Occurrence(evs, c, pos) ==
  /\ InOrder(evs, c, pos)
  /\ \A i \in 2 .. Len(pos) : InLineage(evs, pos[i], {pos[j] : j \in 1 .. i - 1})
============================================================================
