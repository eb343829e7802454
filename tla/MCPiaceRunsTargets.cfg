SPECIFICATION FairSpec
CONSTANTS
  Targets = {t1, t2}
  Runs = {r1}
  Environments = {"production", "feature"}
  Absent = Absent
  AgentTargets = {}
  Policies <- TargetPolicies
  Invocations <- TargetInvocations
  InitialStores <- TargetStores
INVARIANTS
  NoCompileWithoutBaseline
  ZeroExitIsSound
PROPERTIES
  RunsEnd
CHECK_DEADLOCK FALSE
