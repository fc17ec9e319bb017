\* Two attempts, two media sessions: a rejoin before or after a restart.
SPECIFICATION Spec
CONSTANTS
  MaxAttempts = 2
  MaxSessions = 2
  MaxTokens = 2
  MaxControl = 2
  MaxFaults = 1
INVARIANTS
  BindingInv
  CuesPaired
  PendingDepartureIsDown
  
PROPERTIES
  DepartedDrains
CHECK_DEADLOCK FALSE
