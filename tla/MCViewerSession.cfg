\* Retransmissions and tries as in the code; three requests: pause, resume, pause.
SPECIFICATION Spec
CONSTANTS
  MaxRetransmits = 2
  MaxPauseTries = 2
  MaxPauses = 3
INVARIANTS
  SessionInv
PROPERTIES
  EndedIsFinal
  LeaveIsLast
  StartSettles
CHECK_DEADLOCK FALSE
