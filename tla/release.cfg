SPECIFICATION Spec
CONSTANTS
  None = None
  Absent = Absent
  app = app
  db = db
  web = web
  pg = pg
  cm = cm
  near = near
  far = far
  robot = robot
  Protected = {}
  Releases <- MCReleases
  Sources <- OneSource
  Local <- MCLocal
  Artifacts <- MCArtifacts
  Publications <- MCPublications
  Paths <- MCPaths
  Objects <- MCObjects
  Components <- MCComponents
  Contents <- MCContents
  Render <- MCRender
  ServiceAccounts = {robot}
  DefaultSA = None
  Specs <- AppAccount
  Disturbances = {"source", "fetch", "render", "impersonate", "apply", "prune", "patch", "crash", "serviceAccount", "create"}
  MaxDisturbances = 1
  MaxGeneration = 1
  MaxFailures = 0
  MaxHistoryEntries = 1
INVARIANTS
  TypeOK
  AppliedAfterDependencies
  InventoryMatchesArtifact
  Attended
  ReadyIsApplied
PROPERTIES
  FinalizerGuardsInventory
CHECK_DEADLOCK FALSE
