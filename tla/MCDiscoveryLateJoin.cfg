SPECIFICATION FairSpec
CONSTANTS
    h = h
    Devices = {h, d1}
    Streams = {k1}
    NoStream = NoStream
    NoEntry = NoEntry
    Permissions = {p1, p2}
    DefaultPermissions = p1
    Owner <- MCOwner
    ExpiryAge = 0
    TombstoneMaxAge = 1
    TombstoneMaxEntries = 1
    Lossy = TRUE
    Prompt = FALSE
    MaxRevision = 2
    MaxSequence = 1
    MaxInFlight = 2
    MaxRefresh = 0
PROPERTIES
    LateJoinerDiscovers
    ImplementsStreamLife
