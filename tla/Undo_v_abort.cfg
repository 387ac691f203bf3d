SPECIFICATION Spec
CONSTANTS
  Paths <- MCPaths
  Data <- MCData
  Empty = ""
  Big = "big"
  Modes <- MCModes
  DefaultMode = 644
  NoHash = NoHash
  Worlds <- AbortWorlds
  Edits <- AbortEdits
  MaxEdits = 1
  MaxUndos = 1
  OnlyPossible = TRUE
  AckInTime = TRUE
INVARIANTS AbortHalts
CHECK_DEADLOCK FALSE
