SPECIFICATION Spec
CONSTANTS
  Walk <- MCWalk
  ShardOf <- MCShardOf
  EmptyChi <- MCEmptyChi
  Specs <- FaultySpecs
  OnCreateFailure = "delete"
  OnUpdateFailure = "rollback"
  UnknownCleanup = "Delete"
  FailedCleanup = "Retain"
  Faults <- AllFaults
  MaxApply = 1
  MaxCrash = 0
PROPERTY DelistedBeforePurge
PROPERTY AdmitsOnlyBuiltHosts
PROPERTY RunningIsHonest
CHECK_DEADLOCK FALSE
