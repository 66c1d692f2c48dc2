CONSTANTS
  Chains <- MCChains
  EventSpace <- MCEvents
  Within <- MCWithin
  None = None
  MaxEvents = 3
  Pids = {1, 2, 3}
  Images <- MCImages
  Targets <- MCTargets
  Cut <- MCCut
  MaxLosses = 1
  MaxUnreported = 2
  Spoofing = TRUE
  ReusePids = FALSE
SPECIFICATION FairHostSpec
CHECK_DEADLOCK FALSE
INVARIANTS HostTypeOK LineageGenuine AlertsAreBacked NoVisibleAttackMissed
PROPERTY ReplayCompletes
