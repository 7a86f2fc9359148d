SPECIFICATION Spec
CONSTANTS
  Walk <- MCWalk
  ShardOf <- MCShardOf
  EmptyChi <- MCEmptyChi
  Specs <- TwoVersions
  OnCreateFailure = "ignore"
  OnUpdateFailure = "rollback"
  UnknownCleanup = "Delete"
  FailedCleanup = "Retain"
  Faults = {"pvcGet"}
  MaxApply = 1
  MaxCrash = 0
PROPERTY PurgeSparesSpec
CHECK_DEADLOCK FALSE
