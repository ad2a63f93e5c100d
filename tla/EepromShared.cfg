SPECIFICATION FairSpec
CONSTANTS
  EepromSize = 2
  Bytes <- SomeBytes
  Erased = "FF"
  Callers <- BothCallers
  CallsOf <- SharedCalls
  SelectLow = 0
  WriteTime = 2
  ChipTime = 2
INVARIANTS TypeOK DeselectedAtRest
PROPERTY ImplementsStore
