SPECIFICATION Spec
CONSTANTS
  None = None
  Absent = Absent
  web = web
  cfg = cfg
  ns = ns
  robot = robot
  Objects <- MCObjects
  Protected <- MCProtected
  Components <- MCComponents
  Contents <- MCContents
  Modules <- MCModules
  Values <- MCValues
  Catalogs = {1}
  Render <- MCRender
  UUIDs <- MCUUIDs
  UUIDOf <- MCUUIDOf
  ServiceAccounts = {}
  DefaultSA = None
  Specs <- TwoVersions
  CacheLag = FALSE
  Disturbances = {"crash"}
  MaxDisturbances = 1
  MaxGeneration = 3
  MaxFailures = 4
  MaxHistoryEntries = 2
PROPERTIES
  GoneIsClean
CHECK_DEADLOCK FALSE
