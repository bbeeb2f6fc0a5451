\* A manual test fire beside the ticks: does every due rule get handled, and
\* does no run overlap another, while the process runs?
CONSTANTS
  Rules = {r1}
  NoRule = NoRule
  NoKey = NoKey
  Policies <- AllPolicies
  Period = 2
  RetryDelay = 1
  RetryCap = 2
  MaxFireAll = 2
  CrashMidway = TRUE
  MaxTime = 4
  MaxRuns = 3
  MaxEdits = 1
  MaxManual = 1
  MaxFaults = 0
  MaxCrashes = 0
SPECIFICATION FairSpec
INVARIANTS
  NoOverlap
PROPERTIES
  DueRuleIsHandled
