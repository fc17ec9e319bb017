SPECIFICATION FairSpec
CONSTANTS
    MaxRequests = 4
    MaxQueue = 2
    MaxTracks = 3
    Destroyable = TRUE
CHECK_DEADLOCK FALSE
INVARIANTS
    HoldingsInv
    ActiveIsWhole
    QuietWhenIdle
PROPERTIES
    ImplementsStreamLife
    StopEndsStream
