CONSTANTS
  Null = Null
  Rules <- MCRules
  Dimensions = {"who"}
  Million = 3
  Records <- MCRecords
  AuthFiles <- MCAuthFiles
  Windows <- MCWindows
  Observations <- MCObservations
  Readings <- MCReadings
  Letters <- MCLetters
  DayLen = 2
  RawDays = 0
  RollupDays = 1
  MaxDelete = 1
  MaxTime = 5
  MaxDead = 1
  LastRestart = 0
SPECIFICATION Spec
INVARIANT TypeOK
INVARIANT RollupMatchesRaw
INVARIANT EveryRecordLands
PROPERTY ImplementsLedger
CHECK_DEADLOCK FALSE
