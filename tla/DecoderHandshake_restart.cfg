SPECIFICATION Spec
CONSTANTS
  MaxRanges = 2
  MaxProcs = 3
  MaxFaults = 1
  Faults = {"hung"}
  Closes = FALSE
  PromptGui = TRUE
PROPERTY HealthyDecoderSurvives
CHECK_DEADLOCK FALSE
