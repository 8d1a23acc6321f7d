SPECIFICATION Spec
CONSTANTS
  m1 = m1
  m2 = m2
  Messages <- MCMessages
  MaxSessions = 2
  MaxSettings = 2
INVARIANTS PollsOnInterval
CHECK_DEADLOCK FALSE
