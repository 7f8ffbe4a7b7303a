CONSTANTS
  MaxKeys = 0
  MaxResends = 0
SPECIFICATION Ps2Spec
CHECK_DEADLOCK FALSE
INVARIANT
  InitializedMeansReset
