SPECIFICATION FairSpec
CONSTANTS
  MaxRanges = 3
  MaxProcs = 4
  MaxFaults = 2
  Faults = {"died", "exited", "hung"}
  Closes = TRUE
  PromptGui = TRUE
INVARIANT TypeOK
INVARIANT NothingDropped
PROPERTY NoOverlap
PROPERTY ServiceSpec
PROPERTY BusyEnds
PROPERTY QueueDrains
CHECK_DEADLOCK FALSE
