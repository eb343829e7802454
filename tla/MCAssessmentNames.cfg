SPECIFICATION Spec
CONSTANTS
  Limit = 40
  Allowance = 6
  Envelope = 4
  RetryAllowance = 3
  RetryMessage = 3
  MinimumPayload = 6
  Base <- MCBase
  Marker <- MCMarker
  Comparisons <- NamedComparisons
  Replies <- NamingReplies
INVARIANT ProseNamesNodes
CHECK_DEADLOCK FALSE
