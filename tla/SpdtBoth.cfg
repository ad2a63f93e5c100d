SPECIFICATION FairSpec
CONSTANTS
  Tasks <- BothTasks
  Targets <- OneShared
  ShellCmds <- AllCmds
  WarmUp = 1
  PulseTime = 1
  HVTimeout = 8
  MaxLag = 1
INVARIANTS TypeOK NoCoilLeftOn HvAlwaysTimed TimerSparesPulse
PROPERTIES SupplyGoesOff CallsReturn
