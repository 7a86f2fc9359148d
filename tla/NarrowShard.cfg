SPECIFICATION Spec
CONSTANTS
  None = None
  MaxCount = 2
  MaxLine = 2
  Names = {}
  Edits = {{"shards", "width"}}
INVARIANT RemovedHostsKnown
