SPECIFICATION SpecAll
CONSTANTS
  None = None
  Templates = {"t", "u"}
  Files <- NoFiles
  Automatic = {"u"}
  Clustered = {"t"}
  CHIs = {"a"}
  Uses <- UsesT
  Configured = {}
  MaxVersion = 2
  MaxResyncs = 1
  MaxCrashes = 1
  Operators = {"p", "q"}
  Namespaces = {"dev", "test"}
  Home <- InKubeSystem
  FileWatch <- DevAndTest
  EnvWatch <- NoNamespaces
  Matching = {}
  Plain = {"dev", "test"}
  Slots <- ThreeSlots
  Given <- LoginOrWatch
  MaxChanges = 3
  Specs <- OneSourceOrNetwork
  MaxShards = 4
  PortEdits = 4
  CHI = "chi"
  Cluster = "cluster"
  Row <- Rows
  Hosts = {"h1", "h2"}
  Keys <- AllKeys
  Contents = {"x", "y"}
  Edited <- WideAndNarrow
  OperatorFiles <- OwnFiles
  Both = FALSE
  FileEdits = 3
  FileCrashes = 1
CHECK_DEADLOCK FALSE
INVARIANT DeletedIsDropped
INVARIANT ListedWhenServed
INVARIANT OnePair
INVARIANT PortsAgree
INVARIANT NoClash
INVARIANT LoadedIsMounted
INVARIANT NarrowWins
