SPECIFICATION FairSpec
CONSTANTS
  None = None
  Absent = Absent
  web = web
  cfg = cfg
  ns = ns
  robot = robot
  Objects <- MCObjects
  Protected <- MCProtected
  Components <- MCComponents
  Contents <- MCContents
  Modules <- MCModules
  Values <- MCValues
  Catalogs = {1}
  Render <- MCRender
  UUIDs <- MCUUIDs
  UUIDOf <- MCUUIDOf
  ServiceAccounts = {robot}
  DefaultSA = None
  Specs <- TwoVersionsAccount
  CacheLag = FALSE
  Disturbances = {"impersonate", "serviceAccount", "render", "panic", "driftCheck", "finalizer"}
  MaxDisturbances = 2
  MaxGeneration = 3
  MaxFailures = 2
  MaxHistoryEntries = 2
INVARIANTS
  ReadyIsApplied
  ReadyIsPruned
PROPERTIES
  FailuresRecorded
  FinalizerGuardsInventory
  DeletionUnblocks
  GoneIsClean
CHECK_DEADLOCK FALSE
