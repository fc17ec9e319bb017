SPECIFICATION Spec
CONSTANTS
  N = 2
  MaxEdits = 2
  MaxTime = 4
  MaxOps = 2
  MaxLosses = 1
  MaxFaults = 1
  MaxTrouble = 2
INVARIANTS
  ClockCovers
  StampsUnique
PROPERTIES
  Converges
CHECK_DEADLOCK FALSE
