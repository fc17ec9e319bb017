SPECIFICATION Spec
CONSTANTS
  MaxRequests = 2
  MaxStreams = 2
  MaxSessions = 3
  MaxQueue = 2
  MaxChanges = 1
INVARIANTS
  ControllerInv
PROPERTIES
  StopStays
  ReconnectingSettles
  StallRecovers
CHECK_DEADLOCK FALSE
