SPECIFICATION Spec
CONSTANTS
    h = h
    Devices = {h, d1, d2}
    Streams = {k1}
    NoStream = NoStream
    NoEntry = NoEntry
    Permissions = {p1}
    DefaultPermissions = p1
    Owner <- MCOwner
    ExpiryAge = 0
    TombstoneMaxAge = 1
    TombstoneMaxEntries = 1
    Lossy = TRUE
    Prompt = TRUE
    MaxRevision = 2
    MaxSequence = 1
    MaxInFlight = 2
    MaxRefresh = 1
SYMMETRY Viewers
VIEW Unheard
INVARIANTS
    TombstoneExcludesEntry
    NoResurrection
    SequenceFollowsEntry
    OnlyPublishedShown
PROPERTY RevisionNeverRegresses
CHECK_DEADLOCK FALSE
