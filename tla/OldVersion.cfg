SPECIFICATION Spec
CONSTANTS
  None = None
  Templates = {"t"}
  Files <- NoFiles
  Automatic = {}
  Clustered = {}
  CHIs = {"a"}
  Uses <- UsesT
  Configured = {"a"}
  MaxVersion = 2
  MaxResyncs = 0
  MaxCrashes = 0
CHECK_DEADLOCK FALSE
INVARIANT Current
