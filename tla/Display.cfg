\* Every mode, a number there is no mode for, and one that wraps around.
CONSTANTS
  Word = 256
  Arguments = {0, 1, 2, 3, 4, 5, 6, 258}
SPECIFICATION DisplaySpec
INVARIANTS
  ModeIsProgrammed
  GeometryAgrees
  PlanesKeptApart
  NumbersReadBack
