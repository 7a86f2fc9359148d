SPECIFICATION FairSpec
CONSTANTS
  None = None
  Chis = {"a"}
  Hosts = {1, 2}
  Queues = {1}
  Index <- OneQueue
  Specs <- Shrinking
  Keeping = {TRUE, FALSE}
  Foreign = {"a"}
  CleanupSpecified = TRUE
  Meddling = TRUE
  Faults = {"api", "kube", "sql", "slow"}
  MaxEdits = 1
  MaxNotes = 0
  MaxCrashes = 0
INVARIANT TypeOK
PROPERTY DropSparesData
PROPERTY NothingLeft
CHECK_DEADLOCK FALSE
