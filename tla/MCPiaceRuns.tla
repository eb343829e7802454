----------------------------- MODULE MCPiaceRuns -----------------------------
EXTENDS PiaceRuns

Symmetry == Permutations(Runs)

Provided(env) == [env |-> env, servedBy |-> "v4",
  record |-> ProvenanceV4([factSource |-> "puppetdb", lookup |-> FALSE], [trusted |-> TRUE])]

Empty == [facts |-> Absent, catalog |-> Absent, factsFile |-> Absent, catalogFile |-> Absent]

Full(env) == [facts |-> [origin |-> "agent", trusted |-> TRUE],
              catalog |-> [env |-> env, origin |-> "agent"],
              factsFile |-> [origin |-> "agent", trusted |-> TRUE],
              catalogFile |-> Provided(env)]

\* One target, every source, API and fallback policy; one environment, so
\* that a candidate could pass for a baseline.
SharedPolicies ==
  {p \in AnyPolicy :
     /\ p.allowFallback => p.api = "v4"
     /\ ~p.lookup /\ ~p.failOnDiff /\ ~p.impact}

SharedInvocations ==
  {[command |-> "compare", environment |-> Absent, replace |-> FALSE],
   [command |-> "capture_catalog", environment |-> "production", replace |-> TRUE],
   [command |-> "capture_facts", environment |-> Absent, replace |-> TRUE]}

SharedStores == {Empty, Full("production")}

\* Two targets, with what the outcome of a comparison depends on: the policy on
\* differences, the API, facts without trusted facts, other environments.
TargetPolicies ==
  {p \in AnyPolicy :
     /\ p.api = "v3" => ~p.allowFallback /\ p.baselineSource = "file"
     /\ p.api = "v4" => (p.allowFallback <=> p.baselineSource = "file")
     /\ p.factSource = "puppetdb"
     /\ p.baselineEnv = "production" /\ p.candidateEnv = "feature"
     /\ p.api = "v3" => p.failOnDiff
     /\ p.allowFallback => ~p.failOnDiff
     /\ p.lookup = p.failOnDiff /\ p.impact = p.failOnDiff}

TargetInvocations ==
  {[command |-> "compare", environment |-> Absent, replace |-> FALSE],
   [command |-> "capture_catalog", environment |-> "production", replace |-> FALSE]}

TargetStores ==
  {[Full("production") EXCEPT !.facts.trusted = FALSE], Full("feature")}

=============================================================================
