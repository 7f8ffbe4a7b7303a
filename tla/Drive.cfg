CONSTANTS
  Heads = {0, 40, 79}
  MaxFaults = 9
  Addresses = {32768, 74565, 16711935}
  Counts = {512, 65535}
SPECIFICATION Spec
CHECK_DEADLOCK FALSE
INVARIANTS
  SeekArrives
  RecalibrateReachesTrack0
  UnmaskedIsProgrammed
PROPERTIES
  OneCommandAtATime
  InitReturns
  RegistersChangeMasked
