SPECIFICATION Spec
CONSTANTS
  Paths <- MCPaths
  Data <- MCData
  Empty = ""
  Big = "big"
  Modes <- MCModes
  DefaultMode = 644
  NoHash = NoHash
  Worlds <- OverWorlds
  Edits = {}
  MaxEdits = 0
  MaxUndos = 1
  OnlyPossible = TRUE
  AckInTime = TRUE
INVARIANTS NoSilentPartialUndo
CHECK_DEADLOCK FALSE
