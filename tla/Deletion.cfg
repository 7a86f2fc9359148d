SPECIFICATION StartSpec
CONSTANTS
  None = None
  Chis = {"a", "b"}
  Hosts = {1, 2}
  Queues = {1, 2}
  Index <- OneQueue
  Specs <- NonEmpty
  Keeping = {FALSE}
  Foreign = {}
  CleanupSpecified = FALSE
  Meddling = FALSE
  Faults = {}
  MaxEdits = 2
  MaxNotes = 1
  MaxCrashes = 1
PROPERTY OneMailbox
PROPERTY ReleasedWhenGone
PROPERTY DeletedNotRebuilt
PROPERTY DeletedIsLetGo
PROPERTY Settles
CHECK_DEADLOCK FALSE
