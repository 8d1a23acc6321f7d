SPECIFICATION Spec
CONSTANTS
  Main = main
  p1 = p1
  p2 = p2
  Pool <- MCPool
  Handles = {h1, h2}
  Null = null
  Roles <- ProducerOnly
  Ops <- PollOps
  Serial = TRUE
INVARIANT PollUseLive
