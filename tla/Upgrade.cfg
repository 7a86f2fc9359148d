SPECIFICATION FairSpec
CONSTANTS
  Walk <- MCWalk
  ShardOf <- MCShardOf
  EmptyChi <- MCEmptyChi
  Specs <- UpgradeSpecs
  OnCreateFailure = "ignore"
  OnUpdateFailure = "rollback"
  UnknownCleanup = "Delete"
  FailedCleanup = "Retain"
  Faults = {}
  MaxApply = 2
  MaxCrash = 1
INVARIANT KeepsOthersServing
PROPERTY Converges
CHECK_DEADLOCK FALSE
