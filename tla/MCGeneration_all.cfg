SPECIFICATION MCSpec
CONSTANTS
  None = None
  None = none
  File <- MCFile
  Root <- MCRoot
  Dir <- MCDir
  Object <- MCObjects
  Path <- MCPaths
  Package <- MCPackages
  TopicFile <- MCTopicFile
  Page <- MCPages
  Author <- MCAuthors
  Fields <- MCFields
  Alias <- MCAlias
  Byte = 4
CHECK_DEADLOCK FALSE
INVARIANTS
  GenerationTypeOK
  QuietMeansExact
  RoutesAreImported
  KeepsWhatIsReached
  AccessorsStay
  NamesOnce
  RoundTrip
  CapturesFit
PROPERTY OnlyFirstRewrites
