CONSTANTS
  Chains <- MCChains
  Specific <- MCSpecific
  Generic <- MCGeneric
  Within <- MCWithin
  Contains <- MCContains
  EndsWith <- MCEndsWith
  Exact <- MCExact
  Anchored = {"^whoami$"}
  PathLike = {"tmp/evil.exe", "//evil.exe"}
  Reshaped <- MCReshaped
  LogRecords <- MCLogRecords
  Installed = {"splunk", "elastic"}
  MaxRules = 1
SPECIFICATION Spec
CHECK_DEADLOCK FALSE
INVARIANT UnmappedIsSkipped
