SPECIFICATION FairSpec
CONSTANTS
  c1 = c1
  c2 = c2
  c3 = c3
  None = None
  Call = {c1, c2}
  Prints <- SomeLines
INVARIANT TypeOK
INVARIANT RunningIsReachable
INVARIANT ArmedUntilEnded
PROPERTY FirstVerdictKept
PROPERTY EveryLoginEnds
CHECK_DEADLOCK FALSE
