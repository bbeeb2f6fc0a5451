\* Does every live run get a drive?
CHECK_DEADLOCK FALSE
SPECIFICATION FairSpec
CONSTANTS
  Handlers = {h1}
  Desktop = desktop
  Sweep = sweep
  MaxSteps = 1
  MaxResumed = 5
  Stranded = 0
  MaxAsks = 2
  MaxThrows = 0
  MaxCrashes = 0
PROPERTIES
  EveryLiveRunIsDriven
