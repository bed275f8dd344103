SPECIFICATION Spec
CONSTANTS
  Infos <- SomeInfos
  Failures <- SomeFailures
  Ignorable = {"ignorable"}
  MaxSteps = 3
CHECK_DEADLOCK FALSE
INVARIANT NothingLost
INVARIANT FailsForCause
INVARIANT NothingStale
