SPECIFICATION HostSpec
CONSTANTS
  None = None
  Invalid = Invalid
  Conflict = Conflict
  m1 = m1
  m2 = m2
  f1 = f1
  f2 = f2
  Views = {"runtimes", "remotes", "analytics"}
  MaxModels = 3
  Exchange = {1, 2}
  Count = 2
  Faults = {"length", "json"}
  LoopbackOrOptIn = TRUE
  Endpoint <- Root
  KeyRef = "PROXY"
  Catalogs <- MCCatalogs
  WriterRoutes <- MCWriterRoutes
  MaxRev = 2
  MaxLogins = 2
  MaxLoginsSeen = 2
  Pages = 3
  Files = {f1, f2}
  Queries = {"q1", "q2"}
  Beside <- MCBeside
  Detailed = {"analytics"}
CHECK_DEADLOCK FALSE
PROPERTY PromiseKept
PROPERTY EveryCallAnswered
