\* Does a cancelled run stay cancelled under the start of its drive?
CHECK_DEADLOCK FALSE
SPECIFICATION FairSpec
CONSTANTS
  Handlers = {h1}
  Desktop = desktop
  Sweep = sweep
  MaxSteps = 1
  MaxResumed = 5
  Stranded = 0
  MaxAsks = 2
  MaxThrows = 0
  MaxCrashes = 0
PROPERTIES
  CancelledRunStays
