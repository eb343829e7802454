SPECIFICATION ComparisonSpec
CONSTANTS
  Targets = {1, 2}
  NameOrder <- MCNameOrder
  TitleOrder <- MCTitleOrder
  NumberDigits = 2
  NumberExponent = 2
  JSONNestingDepth = 200
  Inputs <- MCInputs
  TargetFailures <- MCTargetFailures
  RunDiagnostics <- MCRunDiagnostics
  Secrets <- MCSecrets
  SelectedToken <- MCSelectedToken
  CatalogValues <- MCCatalogValues
  StoredAs <- MCStoredAs
  Stored <- MCStored
  Tokens <- MCTokens
  Places <- MCPlaces
  Maskings <- MCMaskings
  ContainsSensitive <- MCContainsSensitive
  ContainsRichData <- MCContainsRichData
  Unwrapped <- MCUnwrapped
  Depth <- MCDepth
  NumbersIn <- MCNumbersIn
  Unmeasured <- MCUnmeasured
  ProjectStringifiedRich <- MCProjectStringifiedRich
  RedactSensitivePair <- MCRedactSensitivePair
  RestrictProjection <- MCRestrictProjection
INVARIANTS
  VerdictIsSemantic
  ExclusionsAddUp
  SecretsStayInside
  GroupsDiscloseLeast
  ProducedIsAccepted
CHECK_DEADLOCK FALSE
