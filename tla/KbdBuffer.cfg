CONSTANTS
  KBD_BUFF_MAX = 4
  MaxPushes = 6
SPECIFICATION BufferSpec
INVARIANTS
  TypeOK
  InBounds
  OneLossPerRace
PROPERTIES
  UndisturbedPopIsAtomic
  Drained
