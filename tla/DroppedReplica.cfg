SPECIFICATION Spec
CONSTANTS
  None = None
  Chis = {"a"}
  Hosts = {1, 2}
  Queues = {1}
  Index <- OneQueue
  Specs <- Shrinking
  Keeping = {TRUE}
  Foreign = {}
  CleanupSpecified = FALSE
  Meddling = FALSE
  Faults = {"list"}
  MaxEdits = 1
  MaxNotes = 0
  MaxCrashes = 0
PROPERTY DropSparesData
CHECK_DEADLOCK FALSE
