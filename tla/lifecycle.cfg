SPECIFICATION Spec
CONSTANTS
  Subclasses <- MCSubclasses
  Styles <- MCStyles
  MaxCalls = 4
INVARIANTS AnsweredOnce SerialJobs NoClientLeak ConnectedMeansClient
PROPERTIES AnswersAreTrue CallsEnd
CHECK_DEADLOCK FALSE
