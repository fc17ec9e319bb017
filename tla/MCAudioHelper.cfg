SPECIFICATION Spec
CONSTANTS
    MaxRestarts = 3
    MaxManagers = 2
    MaxSpawns = 4
    MaxFaults = 4
INVARIANT HelperInv
PROPERTY ShutdownSettles
PROPERTY StopReturns
CHECK_DEADLOCK FALSE
