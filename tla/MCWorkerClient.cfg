SPECIFICATION FairClientSpec
CONSTANTS
  p1 = p1
  p2 = p2
  q1 = q1
  t1 = t1
  t2 = t2
  None = None
  Client = {p1, p2}
  Operation = {q1}
  Target = {t1}
  TargetOf <- OneTarget
  MaxPending = 1
INVARIANT ClientTypeOK
INVARIANT EngineHoldsLease
INVARIANT AnsweredIsStored
INVARIANT CloseFreesLease
PROPERTY EveryCallEnds
CHECK_DEADLOCK FALSE
