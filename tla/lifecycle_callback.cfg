SPECIFICATION Spec
CONSTANTS
  Subclasses <- MCSubclasses
  Styles <- MCStyles
  MaxCalls = 4
INVARIANT ConnectAnswered
CHECK_DEADLOCK FALSE
