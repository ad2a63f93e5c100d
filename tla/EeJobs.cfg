SPECIFICATION Spec
CONSTANTS
  Bytes <- AllBytes
  Erased = 255
  StrBase = 22
  StrFloor = 20
  EepromSize = 25
  Jobs <- AllJobs
  MaxJobs = 2
  MaxCommands = 1
  Garbled <- Noise
INVARIANTS TypeOK StringsReadBack
PROPERTY SetupIsAllOrNothing
