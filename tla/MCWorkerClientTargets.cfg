SPECIFICATION ClientSpec
CONSTANTS
  p1 = p1
  p2 = p2
  q1 = q1
  t1 = t1
  t2 = t2
  None = None
  Client = {p1, p2}
  Operation = {q1}
  Target = {t1, t2}
  TargetOf <- OwnTargets
  MaxPending = 1
INVARIANT CollectorIsAlone
CHECK_DEADLOCK FALSE
