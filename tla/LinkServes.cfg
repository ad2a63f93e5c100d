SPECIFICATION DFairSpec
CONSTANTS
  Kinds <- SomeKinds
  MaxRequests = 5
  QueueLength = 2
  Attempts = 2
  Slice = 3
INVARIANTS TypeOK NobodyAsserts NoLostWakeup BlinkerOwned
PROPERTIES LinkServes OnceInOrder DeviceComesToRest LightShowsBlinking StartsUp
CHECK_DEADLOCK FALSE
