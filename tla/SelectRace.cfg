SPECIFICATION BoardSpec
CONSTANTS
  Tasks <- OnlyInstr
  Targets <- BothSwitches
  ShellCmds <- Selects
  WarmUp = 2
  PulseTime = 2
  HVTimeout = 9
  MaxLag = 1
  PowerUp = 1
  Throw = 2
PROPERTY SelectThrowsRelay
