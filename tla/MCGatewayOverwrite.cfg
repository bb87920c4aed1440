SPECIFICATION Spec
CONSTANTS
  None = None
  Invalid = Invalid
  Conflict = Conflict
  m1 = m1
  m2 = m2
  f1 = f1
  f2 = f2
  Views = {"models"}
  MaxModels = 3
  Exchange = {1, 2}
  Count = 2
  Faults = {}
  LoopbackOrOptIn = TRUE
  Endpoint <- Root
  KeyRef = "PROXY"
  Catalogs <- PageCatalogs
  WriterRoutes <- PageWriterRoutes
  MaxRev = 4
  MaxLogins = 1
  MaxLoginsSeen = 0
  Pages = 3
  Files = {f1, f2}
  Queries = {"q1", "q2"}
  Beside <- MCBeside
  Detailed = {}
CHECK_DEADLOCK FALSE
PROPERTY NoBlindOverwrite
