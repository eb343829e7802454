SPECIFICATION FairSpec
CONSTANTS
  UnsafeCertnames = {"", "..", "a/b"}
  Variables <- Environment
  Commands <- MCCommands
  Overrides = {"", "change"}
  TargetFiles <- MCTargetFiles
  ServicesFiles <- MCServicesFiles
  TargetDir <- Dir
  ServicesDir <- Dir
  CertnameOrder <- Certnames
  TypeOrder <- Types
  TitleOrder <- Titles
  Quote = "'"
  Backslash <- MCBackslash
  Control = "^"
  Letters <- MCLetters
  Changes <- MCChanges
  InitialCatalogs <- MCCatalogs
  MaxEdits = 1
  MaxAgentRuns = 1
INVARIANTS
  EstimateIsWhoIsAffected
  FirstEnablingTargetDecides
  RequiredIsUsed
  OverrideReachesEveryTarget
PROPERTIES
  EstimationEnds
CHECK_DEADLOCK FALSE
