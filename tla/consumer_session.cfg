SPECIFICATION Spec
CONSTANTS
  p1 = p1
  p2 = p2
  Partitions <- MCPartitions
  Protocols <- MCProtocols
  MaxSessions = 2
  MaxRebalances = 2
  MaxWaits = 1
INVARIANTS SessionInv HandlerOnLiveClient AssignmentAgrees RefusedOnlyAfterError AnswerIsComing
PROPERTIES CloseEnds JoinEnds
CHECK_DEADLOCK FALSE
