SPECIFICATION FairSpec
CONSTANTS
  p1 = p1
  p2 = p2
  None = None
  Past = Past
  Proc = {p1, p2}
  MaxAttempts = 3
  Faults <- AllFaults
INVARIANT TypeOK
PROPERTY LeftBehindByFailure
PROPERTY UndisputedOwnerKept
PROPERTY AcquireTerminates
PROPERTY CrashedOwnerRecovered
CHECK_DEADLOCK FALSE
