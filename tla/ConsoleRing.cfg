SPECIFICATION SSpec
CONSTANTS
  BUFFER_SIZE = 3
  Lengths <- WriteLengths
  MaxChars = 5
  HeapStart = 3
  HeapEnd = 11
  Align = 2
  Sizes <- BlockSizes
INVARIANTS TypeOK PacketInsideBuffer SendsNewest NothingLost BlocksInHeap BlocksDisjoint
CHECK_DEADLOCK FALSE
