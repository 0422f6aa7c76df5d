CONSTANTS
  c1 = c1
  c2 = c2
  None = None
  Clients <- ClientsDef
  MaxRequests = 3
  t1 = t1
  t2 = t2
  Threads <- ThreadsDef
  Cli = Cli
  Names = {"army", "clean"}
  Contents = {"mine", "other"}
  Bundled <- BundledDef
  MaxOps = 3
  MaxInstalls = 2
  MaxCrashes = 1
SPECIFICATION ServersSpec
INVARIANTS
  DescriptorsInOrder
  ReturnsWhenTold
  CrashKeepsOldOrNew
  EditsSurvive
  AppliedWhole
PROPERTIES
  ConnectionKept
  StopReturns
  QuitStops
CHECK_DEADLOCK FALSE
