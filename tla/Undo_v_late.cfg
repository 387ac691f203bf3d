SPECIFICATION Spec
CONSTANTS
  Paths <- MCPaths
  Data <- MCData
  Empty = ""
  Big = "big"
  Modes <- MCModes
  DefaultMode = 644
  NoHash = NoHash
  Worlds <- LateWorlds
  Edits = {}
  MaxEdits = 0
  MaxUndos = 1
  OnlyPossible = TRUE
  AckInTime = FALSE
INVARIANTS SnapshotFirst
CHECK_DEADLOCK FALSE
