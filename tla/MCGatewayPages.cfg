SPECIFICATION PageSpec
CONSTANTS
  None = None
  Invalid = Invalid
  Conflict = Conflict
  m1 = m1
  m2 = m2
  f1 = f1
  f2 = f2
  Views = {"setup", "settings", "models", "playground", "requests", "dashboard", "accounts", "writers"}
  MaxModels = 3
  Exchange = {1, 2}
  Count = 2
  Faults = {}
  LoopbackOrOptIn = TRUE
  Endpoint <- Root
  KeyRef = "PROXY"
  Catalogs <- PageCatalogs
  WriterRoutes <- MCWriterRoutes
  MaxRev = 2
  MaxLogins = 1
  MaxLoginsSeen = 0
  Pages = 3
  Files = {f1, f2}
  Queries = {"q1", "q2"}
  Beside <- MCBeside
  Detailed = {}
CHECK_DEADLOCK FALSE
INVARIANT BusyIsExact
INVARIANT AnswersAreOwn
PROPERTY VerdictShownStays
PROPERTY LoginShown
PROPERTY ApplySticks
PROPERTY ForeignRouteKept
