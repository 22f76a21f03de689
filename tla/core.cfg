SPECIFICATION Spec
CONSTANTS
  None = None
  Absent = Absent
  web = web
  cfg = cfg
  ns = ns
  robot = robot
  Objects <- MCObjects
  Protected <- MCProtected
  Components <- MCComponents
  Contents <- MCContents
  Modules <- MCModules
  Values <- MCValues
  Catalogs = {1, 2}
  Render <- MCRender
  UUIDs <- MCUUIDs
  UUIDOf <- MCUUIDOf
  ServiceAccounts = {robot}
  DefaultSA = None
  Specs <- TwoVersionsMixed
  CacheLag = FALSE
  Disturbances = {"render", "panic", "driftCheck", "apply", "prune", "finalizer", "crash", "impersonate", "serviceAccount"}
  MaxDisturbances = 2
  MaxGeneration = 2
  MaxFailures = 7
  MaxHistoryEntries = 2
INVARIANTS
  TypeOK
  RetryMatchesCounter
  RetriesSlowDown
  RetryIsScheduled
  ReadyIsRecorded
PROPERTIES
  ProtectedSurvive
  DesiredSurvive
  FinalizerGuardsInventory
  FinalizerBrackets
CHECK_DEADLOCK FALSE
