CONSTANTS
  Null = Null
  Rules <- MCRules
  Dimensions = {"who"}
  Million = 3
  Records <- MCRecords
  AuthFiles <- MCAuthFiles
  Windows <- MCWindows
  Observations <- LateObservations
  Readings <- HealthReadings
  Letters <- MCLetters
  DayLen = 2
  RawDays = 1
  RollupDays = 2
  MaxDelete = 1
  MaxTime = 6
  MaxDead = 1
  LastRestart = 0
SPECIFICATION Spec
PROPERTY HealthIsCurrent
CHECK_DEADLOCK FALSE
