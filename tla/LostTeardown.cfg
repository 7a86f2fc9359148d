SPECIFICATION Spec
CONSTANTS
  None = None
  Chis = {"a"}
  Hosts = {1, 2}
  Queues = {1}
  Index <- OneQueue
  Specs <- NonEmpty
  Keeping = {FALSE}
  Foreign = {}
  CleanupSpecified = FALSE
  Meddling = TRUE
  Faults = {}
  MaxEdits = 0
  MaxNotes = 1
  MaxCrashes = 0
PROPERTY ReleasedWhenGone
CHECK_DEADLOCK FALSE
