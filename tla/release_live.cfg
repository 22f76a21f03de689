SPECIFICATION FairSpec
CONSTANTS
  None = None
  Absent = Absent
  app = app
  db = db
  web = web
  pg = pg
  cm = cm
  near = near
  far = far
  robot = robot
  Protected = {}
  Releases <- MCReleases
  Sources <- TwoSources
  Local <- MCLocal
  Artifacts <- MCArtifacts
  Publications <- Repaired
  Paths <- MCPaths
  Objects <- MCObjects
  Components <- MCComponents
  Contents <- MCContents
  Render <- MCRender
  ServiceAccounts = {}
  DefaultSA = None
  Specs <- AppFar
  Disturbances = {"panic", "finalizer"}
  MaxDisturbances = 1
  MaxGeneration = 2
  MaxFailures = 0
  MaxHistoryEntries = 1
INVARIANTS
  Attended
PROPERTIES
  DeletionCompletes
  FinalizerBrackets
  Converges
CHECK_DEADLOCK FALSE
