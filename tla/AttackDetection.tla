-------------------------- MODULE AttackDetection --------------------------
(***************************************************************************)
(* What a detector of attack chains promises, whatever it keeps between    *)
(* two events.  It says which alarms may and must be raised when an event  *)
(* arrives, and when the detector may break down.                          *)
(***************************************************************************)
EXTENDS AttackChains

VARIABLES
  seen,      \* the events received
  reported,  \* the alarms raised: [chain, events], events as positions in seen
  up         \* whether the detector still takes events

detector == <<seen, reported, up>>

\* A whole occurrence of the chain, the last event of which has just arrived.
JustEnded(evs, c, pos) ==
  /\ pos \in Positions(evs, c) /\ pos # <<>>
  /\ pos[Len(pos)] = Len(evs)
  /\ Occurrence(evs, c, pos)

\* No false alarm, and at most one for one first event.
Sound(alarms, before, evs) ==
  /\ \A r \in alarms \ before : JustEnded(evs, r.chain, r.events)
  /\ \A r, s \in alarms : r.chain = s.chain /\ r.events[1] = s.events[1] => r = s

\* No attack that has just ended goes without an alarm from its first event
\* on, raised now or before.
Complete(alarms, evs) ==
  \A c \in DOMAIN Chains \ Malformed(Chains) : \A pos \in Positions(evs, c) :
    JustEnded(evs, c, pos) =>
      \E r \in alarms : r.chain = c /\ r.events[1] = pos[1]

Init == seen = <<>> /\ reported = {} /\ up = TRUE

\* A detector that judges lineage when an event arrives owes completeness only
\* as long as the parents it was told do not change.
Receive(e) ==
  /\ seen' = Append(seen, e)
  /\ reported \subseteq reported'
  /\ Sound(reported', reported, seen')
  /\ StableParents(seen') => Complete(reported', seen')
  /\ up' = TRUE

\* It breaks down only over a cycle of parents or a chain without steps.
Break(e) ==
  /\ seen' = Append(seen, e)
  /\ Cyclic(seen') \/ Malformed(Chains) # {}
  /\ UNCHANGED reported
  /\ up' = FALSE

Next == up = TRUE /\ \E e \in EventSpace : Receive(e) \/ Break(e)

Spec == Init /\ [][Next]_detector
============================================================================
