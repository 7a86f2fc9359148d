SPECIFICATION Spec
CONSTANTS
  Walk <- MCWalk
  ShardOf <- MCShardOf
  EmptyChi <- MCEmptyChi
  Specs <- TwoVersions
  OnCreateFailure = "ignore"
  OnUpdateFailure = "rollback"
  UnknownCleanup = "Delete"
  FailedCleanup = "Retain"
  Faults = {}
  MaxApply = 1
  MaxCrash = 0
PROPERTY RunningMeansAllHostsRun
CHECK_DEADLOCK FALSE
