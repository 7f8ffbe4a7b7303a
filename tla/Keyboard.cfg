\* Line 0 stands for the other devices.
CONSTANTS
  Lines = {0, 1}
  MaxRequests = 2
  MaxKeys = 2
  MaxResends = 2
SPECIFICATION Spec
CHECK_DEADLOCK FALSE
INVARIANTS
  GoodResetGoodPort
  KeysPushedOnce
PROPERTIES
  TestsReadTheirAnswers
  Returns
  NoByteStuck
