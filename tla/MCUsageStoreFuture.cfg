CONSTANTS
  Null = Null
  Rules <- MCRules
  Dimensions = {"who"}
  Million = 3
  Records <- MCRecords
  AuthFiles <- MCAuthFiles
  Windows <- MCWindows
  Observations <- FutureObservations
  Readings = {}
  Letters = {}
  DayLen = 2
  RawDays = 0
  RollupDays = 1
  MaxDelete = 1
  MaxTime = 4
  MaxDead = 1
  LastRestart = 0
SPECIFICATION Spec
INVARIANT CommittedOnce
CHECK_DEADLOCK FALSE
