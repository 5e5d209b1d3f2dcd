SPECIFICATION Spec
CONSTANTS
  o1 = o1
  o2 = o2
  h1 = h1
  h2 = h2
  h3 = h3
  x1 = x1
  x2 = x2
  x3 = x3
  None = None
  Owner = {o1, o2}
  Call = {h1, h2}
  Ctx = {x1, x2, x3}
  MaxContexts = 1
  MaxParked = 1
  TTL = 1
  KindsUsed = {"session"}
  MaxCalls = 4
  MaxFaults = 0
SYMMETRY Sym
INVARIANTS
  ExpiresOnlyEnded
\* MaxCalls bounds the calls: the pool may become quiet.
CHECK_DEADLOCK FALSE
