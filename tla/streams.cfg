SPECIFICATION Spec
CONSTANTS
  Kinds <- MCKinds
  MaxItems = 3
  FetchSize = 2
  MaxCloses = 2
INVARIANTS ProducedInOrder PushedInOrder
PROPERTIES WriteAnswered CloseEnds
CHECK_DEADLOCK FALSE
