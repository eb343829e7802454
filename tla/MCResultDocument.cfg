SPECIFICATION Spec
CONSTANTS
  Certnames = {1, 2}
  Diagnoses <- MCDiagnoses
  MaxPerTarget = 2
  MaxRunLevel = 2
INVARIANTS
  ExitZeroMeansAllCompared
  ReasonsExplainOutcome
CHECK_DEADLOCK FALSE
