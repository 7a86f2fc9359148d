SPECIFICATION FairSpec
CONSTANTS
  None = None
  Chis = {"a"}
  Hosts = {1, 2}
  Queues = {1}
  Index <- OneQueue
  Specs <- NonEmpty
  Keeping = {FALSE}
  Foreign = {}
  CleanupSpecified = FALSE
  Meddling = FALSE
  Faults = {"slow"}
  MaxEdits = 2
  MaxNotes = 0
  MaxCrashes = 0
PROPERTY Settles
CHECK_DEADLOCK FALSE
