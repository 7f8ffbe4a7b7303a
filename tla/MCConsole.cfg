CONSTANTS
  Printable = {32, 97, 98}
  NMax = 5
  MaxArgs = 1
  Modes <- TwoModes
  CommandOf <- OneLetterCommands
  ModeOf <- TwoModeNames
  Default = 1
  MaxEnters = 2
SPECIFICATION Spec
CHECK_DEADLOCK FALSE
INVARIANTS
  SeenIsStored
  OnScreen
  ArgsAreWords
PROPERTY
  EditorSpec
