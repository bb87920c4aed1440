SPECIFICATION Spec
CONSTANTS
  p1 = p1
  p2 = p2
  None = None
  Past = Past
  Proc = {p1, p2}
  MaxAttempts = 3
  Faults = {}
CHECK_DEADLOCK FALSE
INVARIANT AtMostOneOwner
