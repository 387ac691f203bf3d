SPECIFICATION Spec
CONSTANTS
  Paths <- MCPaths
  Data <- MCData
  Empty = ""
  Big = "big"
  Modes <- MCModes
  DefaultMode = 644
  NoHash = NoHash
  Worlds <- WildWorlds
  Edits <- WildEdits
  MaxEdits = 1
  MaxUndos = 2
  OnlyPossible = FALSE
  AckInTime = FALSE
 
PROPERTIES UndoStaysLocal
CHECK_DEADLOCK FALSE
