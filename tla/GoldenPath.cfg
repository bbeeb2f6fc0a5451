CHECK_DEADLOCK FALSE
SPECIFICATION FairSpec
CONSTANTS
  Handlers = {h1, h2}
  Desktop = desktop
  Sweep = sweep
  MaxSteps = 2
  MaxResumed = 5
  Stranded = 5
  MaxAsks = 3
  MaxThrows = 1
  MaxCrashes = 1
INVARIANTS
  TypeOK
  CompletedIffOutcome
  LiveRunIsDriven
  BlockedRunIsActionable
PROPERTIES
  CheckedWritesKeepStoppedRun
  LiveRunSettles
