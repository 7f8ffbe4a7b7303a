CONSTANTS
  HDR = 1
  Base = 3
  Limit = 18
  Sizes = {2, 3, 5}
SPECIFICATION Spec
INVARIANTS
  TypeOK
  NoOverlap
PROPERTY
  AllocatorSpec
