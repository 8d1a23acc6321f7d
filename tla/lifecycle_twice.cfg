SPECIFICATION Spec
CONSTANTS
  Subclasses <- MCSubclasses
  Styles <- Patient
  MaxCalls = 4
INVARIANT DispatchedOnce
CHECK_DEADLOCK FALSE
