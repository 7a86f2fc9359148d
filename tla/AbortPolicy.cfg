SPECIFICATION Spec
CONSTANTS
  Walk <- MCWalk
  ShardOf <- MCShardOf
  EmptyChi <- MCEmptyChi
  Specs <- TwoVersions
  OnCreateFailure = "abort"
  OnUpdateFailure = "abort"
  UnknownCleanup = "Delete"
  FailedCleanup = "Retain"
  Faults = {"timeout"}
  MaxApply = 1
  MaxCrash = 0
PROPERTY AbortLeavesStatefulSet
CHECK_DEADLOCK FALSE
