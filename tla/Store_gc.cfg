SPECIFICATION Spec
CONSTANTS
  c1 = c1
  c2 = c2
  h1 = h1
  h2 = h2
  loop = loop
  ctl = ctl
  NoCmd = NoCmd
  Commands = {c1}
  Blobs = {h1}
  Passes = {loop, ctl}
  LoopPass = loop
  Tiers = {"preimage","baseline","container"}
  LoopConfig <- AgeConfig
  CtlConfigs <- MCCtlConfigs
  BatchSize = 1
  MaxLogical = 9
  MaxEvents = 2
  MaxClock = 2
  MaxTick = 2
  MaxFaults = 1
SYMMETRY Symm
INVARIANTS TypeOK RefcountNeverOver CountedRowKept
PROPERTIES ProtectedKept
