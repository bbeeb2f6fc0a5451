CHECK_DEADLOCK FALSE
SPECIFICATION FairSpec
CONSTANTS
  ack = ack
  progress = progress
  decision = decision
  item = item
  Keys = {progress, decision}
  Items = {item}
  Item <- MCItem
  Purpose <- MCPurpose
  Callers = {c1, c2}
  Startup = startup
  NoKey = NoKey
  MaxSends = 2
  MaxFaults = 1
  MaxCrashes = 1
INVARIANTS
  TypeOK
  InterruptedSendIsKnown
PROPERTIES
  DuplicatesAreMisread
  AmbiguityAwaitsOwner
  LateProgressIsDropped
  EnqueuedMessageSettles
