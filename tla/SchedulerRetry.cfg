\* Does a restart between a failure and its retry keep the rule going?
CONSTANTS
  Rules = {r1}
  NoRule = NoRule
  NoKey = NoKey
  Policies <- OnlySkip
  Period = 2
  RetryDelay = 1
  RetryCap = 2
  MaxFireAll = 2
  CrashMidway = FALSE
  MaxTime = 3
  MaxRuns = 2
  MaxEdits = 1
  MaxManual = 0
  MaxFaults = 0
  MaxCrashes = 1
SPECIFICATION FairSpec
PROPERTIES
  DueRuleIsHandled
