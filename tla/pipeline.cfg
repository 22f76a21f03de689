SPECIFICATION Spec
CONSTANTS
  Artifacts <- MCArtifacts
  Archive <- MCArchive
  Cut = Cut
  Packages <- MCPackages
  Content <- MCContent
  MaxArtifactSize = 2
  MaxTarFiles = 2
  NoBody = NoBody
  NoTransformers = NoTransformers
  NoSchema = NoSchema
  Nothing = Nothing
  Wrong = Wrong
  Paths <- MCPaths
  Modules <- MCModules
  GivenValues <- MCGivenValues
  NoValues = NoValues
  Malformed = Malformed
  Providers <- MCProviders
  NoPath = NoPath
  NoFile = NoFile
  NoComponents = NoComponents
  NoPackage = NoPackage
INVARIANTS
  TypeOK
  FetchVerdict
  NoTempLeft
  LoadedIsResolved
  RenderVerdict
  RendersAgree
  IgnoredReported
