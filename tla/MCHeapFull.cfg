CONSTANTS
  HDR = 1
  Root = 1
  Base = 2
  Limit = 11
  Word = 64
  Sizes = {1, 3}
  Junk <- AnyJunk
  Leftovers <- Untouched
SPECIFICATION Spec
CHECK_DEADLOCK FALSE
INVARIANT
  FailsOnlyWhenFull
