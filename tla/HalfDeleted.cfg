SPECIFICATION Spec
CONSTANTS
  None = None
  Requests <- Sizes
  Policy = "delete"
  Verbosity = 1
  Faulty = {"delete sts"}
  MaxFaults = 1
  MaxEdits = 2
  MaxCrashes = 0
  EditDuringPass = FALSE
CHECK_DEADLOCK FALSE
INVARIANT BackedEnsemble
