SPECIFICATION FairSpec
CONSTANTS
  N = 4
  k1 = k1
  k2 = k2
  Keys <- TwoKeys
  Cap = 2
  AbortPolicy = TRUE
INVARIANTS TypeOK ConflictsInOrder CapKept ReportIsPrefix
PROPERTIES PlanEnds
CHECK_DEADLOCK FALSE
