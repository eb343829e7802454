SPECIFICATION Spec
CONSTANTS
  Environments <- MCEnvironments
  Files <- MCFiles
  Sources <- MCSources
  Responses <- MCResponses
  FirstResponse <- MCFirstResponse
  MaxDeploys = 2
INVARIANTS
  BaselineIsNotFetched
  VerdictIsAboutBytes
  SilenceMeansVerified
  FirstSourceThatExists
CHECK_DEADLOCK FALSE
