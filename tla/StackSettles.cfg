SPECIFICATION FairSpec
CONSTANTS
  Requests <- Notes
  MaxChanges = 5
  MaxRestarts = 2
INVARIANT SettledShowsFile
PROPERTY RemovalExtinguishes
CHECK_DEADLOCK FALSE
