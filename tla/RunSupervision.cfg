\* One run, hosted or not, with two commands racing its launch, one crash.
CONSTANTS
  RunIds = {r1}
  Stoppers = {s1, s2}
  MaxCrashes = 1
SPECIFICATION FairSpec
INVARIANTS
  TypeOK
  MissionCancelledAfterRun
  CancelledRunKeepsItsBridge
  PromptedSessionIsReachable
  EndedRecordIsTrue
PROPERTIES
  ImplementsLifecycle
  LaunchSettles
