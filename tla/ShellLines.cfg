SPECIFICATION Spec
CONSTANTS
  COMMAND_SIZE = 5
  Packets <- Keys
  MaxPackets = 7
  QueueLength = 2
  LineSize = 9
  Word = 64
INVARIANT TypeOK
PROPERTIES ParsesTheLine CutsIntoWords
CHECK_DEADLOCK FALSE
