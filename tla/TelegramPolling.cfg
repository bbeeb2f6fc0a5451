CHECK_DEADLOCK FALSE
SPECIFICATION FairSpec
CONSTANTS
  LastUpdate = 2
  GoldenPath = {2}
  Loops = {l1, l2}
  NoLoop = none
  Tokens = {t1, t2}
  Webhook = webhook
  Inactive = inactive
  Initial = {t1, webhook, inactive}
  Routes = {r1, r2}
  Ceiling = 1
  Kept = 1
  Mishaps = {"failure", "unwritten", "otherBot", "death"}
  MaxChanges = 2
  MaxMishaps = 1
INVARIANTS
  TypeOK
  AcknowledgedIsHandled
  DispatchedOnce
  OneConsumer
  PolledAsConfigured
PROPERTIES
  GoldenPathUpdateArrives
