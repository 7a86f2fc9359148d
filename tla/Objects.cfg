SPECIFICATION SpecAll
CONSTANTS
  None = None
  Unnamed = Unnamed
  Installations <- AandB
  Clusterings <- Moves
  Template <- Bare
  Numerals <- TenNumerals
  ChiLen = 9
  PartLen = 5
  LabelLen = 10
  NameEdits = 3
  MaxCount = 3
  MaxLine = 2
  Names <- Words
  Edits = {{"counts"}, {"shards", "width", "replicas", "hosts"}, {"counts", "anyShard", "shards", "hosts", "names"}}
  Templates <- FiveTemplates
  Claims = {"d1", "l1"}
  Data = {"d1"}
  Logs = {"d1", "l1"}
  Volumes = {"node"}
  PodEdits = 2
  Nodes = {n1, n2, n3}
  Evictions = 2
  Requests <- OneSize
  Policy = "delete"
  Verbosity = 1
  Faulty = {"server", "client", "pdb", "sts", "delete pdb", "delete client", "delete server"}
  MaxFaults = 1
  MaxEdits = 3
  MaxCrashes = 1
  EditDuringPass = TRUE
CHECK_DEADLOCK FALSE
INVARIANT BackedEnsemble
INVARIANT Reachable
INVARIANT NamesApart
INVARIANT HostsApart
INVARIANT ServicesExact
INVARIANT NoneStuck
PROPERTY QuorumKept
PROPERTY ReplicasFollowHosts
PROPERTY GrowthKeepsHosts
PROPERTY NamedStays
PROPERTY DataStays
