SPECIFICATION Spec
CONSTANTS
  None = None
  Absent = Absent
  app = app
  db = db
  web = web
  pg = pg
  cm = cm
  near = near
  far = far
  robot = robot
  Protected = {}
  Releases <- MCReleases
  Sources <- OneSource
  Local <- MCLocal
  Artifacts <- MCArtifacts
  Publications <- HandOver
  Paths <- MCPaths
  Objects <- MCObjects
  Components <- MCComponents
  Contents <- MCContents
  Render <- MCRender
  ServiceAccounts = {}
  DefaultSA = None
  Specs <- AppOnDb
  Disturbances = {}
  MaxDisturbances = 0
  MaxGeneration = 1
  MaxFailures = 0
  MaxHistoryEntries = 1
INVARIANTS
  ReadyIsApplied
CHECK_DEADLOCK FALSE
