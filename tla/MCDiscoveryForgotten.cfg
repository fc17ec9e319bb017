SPECIFICATION FairSpec
CONSTANTS
    h = h
    Devices = {h, d1, d2}
    Streams = {k1}
    NoStream = NoStream
    NoEntry = NoEntry
    Permissions = {p1}
    DefaultPermissions = p1
    Owner <- MCOwner
    ExpiryAge = 0
    TombstoneMaxAge = 0
    TombstoneMaxEntries = 1
    Lossy = TRUE
    Prompt = FALSE
    MaxRevision = 2
    MaxSequence = 1
    MaxInFlight = 1
    MaxRefresh = 2
PROPERTY StoppedForgotten
