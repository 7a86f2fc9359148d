SPECIFICATION Spec
CONSTANTS
  Walk <- MCWalk
  ShardOf <- MCShardOf
  EmptyChi <- MCEmptyChi
  Specs <- TwoVersions
  OnCreateFailure = "ignore"
  OnUpdateFailure = "rollback"
  UnknownCleanup = "Delete"
  FailedCleanup = "Retain"
  Faults = {}
  MaxApply = 2
  MaxCrash = 0
INVARIANT SameIsEqual
CHECK_DEADLOCK FALSE
