CONSTANTS
  Chains <- MCChains
  HollowChains <- MCHollowChains
  EventSpace <- MCEvents
  MaxEvents = 9
  Fixtures <- MCFixtures
  Within <- MCWithin
  None = None
  Count = 9
  Repeats = 2
  MaxSamples = 3
SPECIFICATION FairReportSpec
INVARIANTS ReportTypeOK VerdictIsRight HollowSilences StreamAlerts OneLateSample
PROPERTY ReportEnds
CHECK_DEADLOCK FALSE
