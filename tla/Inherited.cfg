SPECIFICATION Spec
CONSTANTS
  None = None
  CHI = "chi"
  Cluster = "cluster"
  Row <- RowOf
  Hosts = {"h1", "h2"}
  Keys <- Host
  Contents = {"x", "y"}
  Edited <- Everywhere
  OperatorFiles <- OwnFiles
  Both = FALSE
  MaxEdits = 2
  MaxCrashes = 0
CHECK_DEADLOCK FALSE
INVARIANT NarrowWins
