SPECIFICATION Spec
CONSTANTS
  m1 = m1
  m2 = m2
  Messages <- MCMessages
  MaxSessions = 2
  MaxSettings = 2
INVARIANTS PollsWhileOwed AnsweredOnce IntervalAsAsked
PROPERTIES CallbackComes
CHECK_DEADLOCK FALSE
