SPECIFICATION Spec
CONSTANTS
  Specs <- TwoSources
  MaxShards = 2
  MaxEdits = 1
CHECK_DEADLOCK FALSE
INVARIANT PortsAgree
