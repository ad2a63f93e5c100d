SPECIFICATION PrintSpec
CONSTANTS
  WordSize = 256
  PRINT_BUF_LEN = 5
  Widths <- SomeWidths
  Values <- EveryWord
INVARIANT NumberReadsBack FillsField BufferSuffices
CHECK_DEADLOCK FALSE
