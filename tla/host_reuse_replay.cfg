CONSTANTS
  Chains <- PairChains
  EventSpace <- MCEvents
  Within <- MCWithin
  None = None
  MaxEvents = 4
  Pids = {1, 2, 3}
  Images <- ShortImages
  Targets <- MCTargets
  Cut <- MCCut
  MaxLosses = 0
  MaxUnreported = 1
  Spoofing = FALSE
  ReusePids = TRUE
SPECIFICATION FairHostSpec
CHECK_DEADLOCK FALSE
PROPERTY ReplayCompletes
