SPECIFICATION Spec
CONSTANTS
  Targets = {t1}
  Runs = {r1, r2}
  Environments = {"production"}
  Absent = Absent
  AgentTargets = {t1}
  Policies <- SharedPolicies
  Invocations <- SharedInvocations
  InitialStores <- SharedStores
SYMMETRY Symmetry
INVARIANTS
  BaselineIsAgents
  V3NeverHidden
  SnapshotTellsTruth
  FactsNotRecycled
CHECK_DEADLOCK FALSE
