CONSTANTS
  Chains <- MCChains
  Specific <- MCSpecific
  Generic <- MCGeneric
  Within <- MCWithin
  Contains <- MCContains
  EndsWith <- MCEndsWith
  Exact <- MCExact
  Anchored = {"^whoami$"}
  PathLike = {"tmp/evil.exe", "//evil.exe"}
  Reshaped <- MCReshaped
  LogRecords <- MCLogRecords
  Installed = {"splunk", "elastic"}
  MaxRules = 2
SPECIFICATION Spec
CHECK_DEADLOCK FALSE
INVARIANTS TypeOK QueriesFollowRule CleanRunIsCurrent LowIsGeneric OneTypeRuleImpliesSteps
