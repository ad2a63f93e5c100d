SPECIFICATION DSpec
CONSTANTS
  Kinds <- SomeKinds
  MaxRequests = 4
  QueueLength = 2
  Attempts = 3
  Slice = 3
PROPERTY ReplyAnswersRequest
CHECK_DEADLOCK FALSE
