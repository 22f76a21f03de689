SPECIFICATION Spec
CONSTANTS
  None = None
  Absent = Absent
  web = web
  cfg = cfg
  ns = ns
  robot = robot
  Objects <- MCObjects
  Protected <- MCProtected
  Components <- MCComponents
  Contents <- MCContents
  Modules <- MCModules
  Values <- MCValues
  Catalogs = {1}
  Render <- MCRender
  UUIDs <- MCUUIDs
  UUIDOf <- MCUUIDOf
  ServiceAccounts = {robot}
  DefaultSA = None
  Specs <- TwoVersionsAccount
  CacheLag = TRUE
  Disturbances = {"render", "panic", "driftCheck", "apply", "prune", "finalizer", "crash", "impersonate", "patch", "serviceAccount", "foreignWrite", "foreignFinalizer"}
  MaxDisturbances = 1
  MaxGeneration = 2
  MaxFailures = 2
  MaxHistoryEntries = 2
INVARIANTS
  HistoryNewestFirst
  InventoryProven
  DeletionNotAbandoned
CHECK_DEADLOCK FALSE
