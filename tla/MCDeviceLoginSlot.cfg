SPECIFICATION Spec
CONSTANTS
  c1 = c1
  c2 = c2
  c3 = c3
  None = None
  Call = {c1, c2, c3}
  Prints = {"uri", "code"}
INVARIANT RunningIsInSlot
CHECK_DEADLOCK FALSE
