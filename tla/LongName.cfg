SPECIFICATION Spec
CONSTANTS
  Auto = Auto
  None = None
  CHIs <- OneCHI
  Layouts <- Long
  Template <- Bare
  Numerals <- TenNumerals
  ChiLen = 9
  PartLen = 5
  LabelLen = 10
  MaxEdits = 1
CHECK_DEADLOCK FALSE
INVARIANT HostsApart
