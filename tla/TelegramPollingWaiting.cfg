\* Is an update kept that waits for its slot when the process dies?
CHECK_DEADLOCK FALSE
SPECIFICATION Spec
CONSTANTS
  LastUpdate = 2
  GoldenPath = {}
  Loops = {l1}
  NoLoop = none
  Tokens = {t1}
  Webhook = webhook
  Inactive = inactive
  Initial = {t1}
  Routes = {r1}
  Ceiling = 1
  Kept = 2
  Mishaps = {"death"}
  MaxChanges = 0
  MaxMishaps = 1
INVARIANTS
  NoUpdateIsLost
