\* A device per kind of handler: timer, keyboard, IRQ7, and two behind the slave.
CONSTANTS
  Lines = {0, 1, 7, 8, 15}
  MaxRequests = 3
  Word = 512
  Ticks = 8
  Arguments = {7, 220, 255, 256, 700}
  Phases = {1, 60, 119}
SPECIFICATION Spec
INVARIANTS
  NothingInService
  SpuriousCounted
  SleepsAsAsked
PROPERTIES
  EveryRequestServed
  TakenByItsHandler
  SleepReturns
