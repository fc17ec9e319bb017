SPECIFICATION Spec
CONSTANTS
  N = 2
  MaxEdits = 2
  MaxTime = 4
  MaxOps = 2
  MaxLosses = 0
  MaxFaults = 0
  MaxTrouble = 1
PROPERTIES
  TombstoneSticks
CHECK_DEADLOCK FALSE
