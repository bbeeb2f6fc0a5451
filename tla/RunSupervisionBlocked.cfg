\* Is the runtime idle whenever a blocked run is marked cancelled?
CONSTANTS
  RunIds = {r1}
  Stoppers = {s1}
  MaxCrashes = 0
SPECIFICATION Spec
PROPERTIES BlockedRunIsNotExecuting
