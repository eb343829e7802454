SPECIFICATION Spec
CONSTANTS
  Limit = 40
  Allowance = 6
  Envelope = 4
  RetryAllowance = 3
  RetryMessage = 3
  MinimumPayload = 6
  Base <- MCBase
  Marker <- MCMarker
  Comparisons <- PassingComparisons
  Replies <- PassingReplies
INVARIANTS
  ArtifactTellsWhatWasSent
  JudgementsAreTheLastReplys
  RequestsStayInBudget
  EvidenceShedInOrder
CHECK_DEADLOCK FALSE
