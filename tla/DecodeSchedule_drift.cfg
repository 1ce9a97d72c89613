SPECIFICATION Spec
CONSTANTS
  Multi = FALSE
  Speed = "Normal"
  AutoDrift = TRUE
  Drifts = {10}
  MaxDrifts = 1
INVARIANT TypeOK
 
