\* One rule, created and edited once more, two occurrences, one crash.
CONSTANTS
  Rules = {r1}
  NoRule = NoRule
  NoKey = NoKey
  Policies <- AllPolicies
  Period = 2
  RetryDelay = 1
  RetryCap = 2
  MaxFireAll = 2
  CrashMidway = TRUE
  MaxTime = 4
  MaxRuns = 3
  MaxEdits = 2
  MaxManual = 0
  MaxFaults = 1
  MaxCrashes = 1
SPECIFICATION Spec
INVARIANTS
  TypeOK
  OneRunPerRevision
  ReceiptMatchesRun
  NoOverlap
  RetryFollowsFailure
  RetryWithinPolicy
  DisabledHasNoNextFire
PROPERTIES
  OwnerPrevails
  NextFireIsUnclaimed
  ImplementsLedger
