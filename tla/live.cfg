SPECIFICATION FairSpec
CONSTANTS
  None = None
  Absent = Absent
  web = web
  cfg = cfg
  ns = ns
  robot = robot
  Objects <- MCObjects
  Protected <- MCProtected
  Components <- MCComponents
  Contents <- MCContents
  Modules <- MCModules
  Values <- MCValues
  Catalogs = {1}
  Render <- MCRender
  UUIDs <- MCUUIDs
  UUIDOf <- MCUUIDOf
  ServiceAccounts = {}
  DefaultSA = None
  Specs <- VersionsAndFlags
  CacheLag = TRUE
  Disturbances = {"render", "panic", "driftCheck", "apply", "prune", "finalizer", "crash", "foreignFinalizer"}
  MaxDisturbances = 1
  MaxGeneration = 2
  MaxFailures = 4
  MaxHistoryEntries = 2
INVARIANTS
  NoEditForgotten
PROPERTIES
  FailuresRecorded
  ObservedGenerationAdvances
  DeletionCompletes
  Converges
CHECK_DEADLOCK FALSE
