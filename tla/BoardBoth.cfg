SPECIFICATION BoardSpec
CONSTANTS
  Tasks <- BothTasks
  Targets <- BothSwitches
  ShellCmds <- AllCmds
  WarmUp = 1
  PulseTime = 2
  HVTimeout = 5
  MaxLag = 0
  PowerUp = 1
  Throw = 2
PROPERTIES RelayMovesOnRequest PoweredSelectThrowsRelay
