SPECIFICATION FairSpec
CONSTANTS
  Commands <- MCCommands
  PrivOps = {"k1", "k2"}
  PumpCap = 1
  Worlds <- MCWorlds
  Values = {0, 1}
  RetryMax = 1
CHECK_DEADLOCK FALSE
INVARIANTS TypeOK EndedNotActive ReadyMeansAttached DiffsFaithful PrivOpHonest
PROPERTIES EventuallyQuiet
