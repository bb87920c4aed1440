SPECIFICATION Spec
CONSTANTS
  p1 = p1
  p2 = p2
  i1 = i1
  i2 = i2
  q1 = q1
  t1 = t1
  None = None
  Client = {p1, p2}
  Operation = {i1}
  Item = {i1}
  Invalid = {}
  Target = {t1}
  TargetOf <- OneTarget
  MaxPending = 1
  Batch = 2
PROPERTY CompetitorConsumesNothing
CHECK_DEADLOCK FALSE
