SPECIFICATION FairSpec
CONSTANTS
  c1 = c1
  c2 = c2
  h1 = h1
  h2 = h2
  loop = loop
  ctl = ctl
  NoCmd = NoCmd
  Commands = {c1}
  Blobs = {h1, h2}
  Passes = {loop}
  LoopPass = loop
  Tiers = {"preimage"}
  LoopConfig <- CapConfig
  CtlConfigs <- MCCtlConfigs
  BatchSize = 1
  MaxLogical = 9
  MaxEvents = 1
  MaxClock = 2
  MaxTick = 1
  MaxFaults = 1
PROPERTIES GarbageSwept
