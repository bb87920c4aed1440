SPECIFICATION FairSpec
CONSTANTS
  p1 = p1
  p2 = p2
  i1 = i1
  i2 = i2
  q1 = q1
  t1 = t1
  None = None
  Client = {p1}
  Operation = {i1, i2, q1}
  Item = {i1, i2}
  Invalid = {i2}
  Target = {t1}
  TargetOf <- OneTarget
  MaxPending = 1
  Batch = 2
INVARIANT TypeOK
INVARIANT EveryItemCounted
INVARIANT NoSilentLoss
INVARIANT ClosedIsQuiet
PROPERTY LatchHolds
PROPERTY ServiceCloses
CHECK_DEADLOCK FALSE
