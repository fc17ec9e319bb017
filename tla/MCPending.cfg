SPECIFICATION PendingSpec
CONSTANTS
    Streams = {k1, k2}
    Peers = {p1, p2}
    NoStream = NoStream
    Hole = Hole
    MaxPending = 2
    Reliable = TRUE
    MaxRevision = 2
    MaxTasks = 2
    MaxEvents = 1
CHECK_DEADLOCK FALSE
SYMMETRY Symmetry
INVARIANTS
    QueueTypeOK
    StopSupersedes
    QueueInOrder
    NothingStranded
