SPECIFICATION Spec
CONSTANTS
  Walk <- MCWalk
  ShardOf <- MCShardOf
  EmptyChi <- MCEmptyChi
  Specs <- ScaleSpecs
  OnCreateFailure = "ignore"
  OnUpdateFailure = "abort"
  UnknownCleanup = "Delete"
  FailedCleanup = "Retain"
  Faults = {"service", "update", "create", "delete", "timeout", "pvcUpdate", "tables"}
  MaxApply = 1
  MaxCrash = 0
INVARIANT TypeOK
INVARIANT KeepsOthersServing
PROPERTY DrainBeforeRestart
PROPERTY PurgeSparesSpec
CHECK_DEADLOCK FALSE
