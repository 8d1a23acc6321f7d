SPECIFICATION Spec
CONSTANTS
  Main = main
  p1 = p1
  p2 = p2
  Pool <- MCPool
  Handles = {h1, h2}
  Null = null
  Roles <- BothRoles
  Ops <- AllOps
  Serial = TRUE
INVARIANTS HandleInv GuardedUseLive NoLeak OnlyDisconnectEndangers
PROPERTY DisconnectEnds
