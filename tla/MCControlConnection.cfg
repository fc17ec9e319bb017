\* Any three of: a crash or departure, a failed start or reconnection, two cut links or
\* signaling outages, two lost hellos, a message that outlives its channel.
SPECIFICATION Spec
CONSTANTS
  a = a
  b = b
  Lossy = {"hello"}
  MaxLosses = 2
  MaxStarts = 2
  MaxFaults = 2
  MaxCrashes = 1
  MaxFailures = 1
  MaxLate = 1
  MaxTrouble = 3
INVARIANTS
  RoutesInv
PROPERTIES
  NoFlap
  RouteNotStolen
  HandshakeCompletes
CHECK_DEADLOCK FALSE
