SPECIFICATION Spec
CONSTANTS
  Paths <- MCPaths
  Data <- MCData
  Empty = ""
  Big = "big"
  Modes <- MCModes
  DefaultMode = 644
  NoHash = NoHash
  Worlds <- RmtreeWorlds
  Edits <- RmtreeEdits
  MaxEdits = 1
  MaxUndos = 1
  OnlyPossible = TRUE
  AckInTime = TRUE
PROPERTIES OthersFilesKept
CHECK_DEADLOCK FALSE
