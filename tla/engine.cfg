CONSTANTS
  Chains <- MCChains
  EventSpace <- MCEvents
  Within <- MCWithin
  None = None
  MaxEvents = 5
SPECIFICATION Spec
CHECK_DEADLOCK FALSE
INVARIANTS TypeOK TracksAreOccurrences OneTrackPerStart TreeIsLatest
PROPERTIES TracksOnlyGrow DetectsAttacks
