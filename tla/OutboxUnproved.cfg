\* Does a key reach the chat once, when a failure is not proved?
CHECK_DEADLOCK FALSE
SPECIFICATION FairSpec
CONSTANTS
  ack = ack
  progress = progress
  decision = decision
  item = item
  Keys = {decision}
  Items = {item}
  Item <- MCItem
  Purpose <- MCPurpose
  Callers = {c1}
  Startup = startup
  NoKey = NoKey
  MaxSends = 2
  MaxFaults = 0
  MaxCrashes = 0
PROPERTIES
  ImplementsPromise
