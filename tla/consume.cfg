SPECIFICATION Spec
CONSTANTS
  MaxItems = 5
  MaxSize = 3
  MaxLoops = 2
  Styles <- MCStyles
INVARIANTS HandedInOrder EmittedAsFetched
PROPERTIES SentIsHanded
CHECK_DEADLOCK FALSE
