SPECIFICATION Spec
CONSTANTS
  None = None
  CHIs = {"a", "b"}
  Namespace <- OneNamespace
  Clusters = 1
  ShardsCount = 2
  ReplicasCount = 1
  Nodes = {"n1", "n2", "n3", "n4"}
  ZoneOf <- OneZone
  PodZones = {}
  UserZones = {}
  Distribution <- OwnNodes
  AppendScopeLabels = TRUE
  EvictDuringPass = FALSE
  MaxEvictions = 0
CHECK_DEADLOCK FALSE
PROPERTY AllPlaced
