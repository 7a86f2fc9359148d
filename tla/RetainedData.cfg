SPECIFICATION Spec
CONSTANTS
  Walk <- MCWalk
  ShardOf <- MCShardOf
  EmptyChi <- MCEmptyChi
  Specs <- RetainSpecs
  OnCreateFailure = "ignore"
  OnUpdateFailure = "rollback"
  UnknownCleanup = "Delete"
  FailedCleanup = "Retain"
  Faults = {}
  MaxApply = 2
  MaxCrash = 0
PROPERTY RetainKeepsData
CHECK_DEADLOCK FALSE
