------------------------------- MODULE Outcome -------------------------------
(***************************************************************************)
(* internal/exitcode and internal/model/outcome.go: how diagnostics and    *)
(* differences become one outcome class per target, one per run, and the   *)
(* process exit code.                                                      *)
(*                                                                         *)
(* A diagnostic is a record with a severity and an operation. A target is  *)
(* a record with its diagnostics (a sequence), its node diff ("nil" when   *)
(* the target was never compared) and its fail_on_diff policy.             *)
(***************************************************************************)
EXTENDS SequencesExt, Sorting

Operations == {"configure", "load_facts", "load_baseline", "normalize",
               "verify_content", "estimate_impact", "snapshot",
               "request_candidate_transport", "request_candidate"}

Outcomes == {"operational_error", "compilation_failure",
             "policy_disallowed_difference", "differences_allowed", "clean"}

NodeDiffs == {"nil", "same", "different"}

\* Lower is more severe. A class that is not in the table outranks them all.
Rank(o) ==
  CASE o = "operational_error" -> 1
    [] o = "compilation_failure" -> 2
    [] o = "policy_disallowed_difference" -> 3
    [] o = "differences_allowed" -> 4
    [] o = "clean" -> 5
    [] OTHER -> 0

\* Mutant: the numerically larger rank wins.
ReduceLenient(a, b) == IF Rank(a) >= Rank(b) THEN a ELSE b

Reduce(a, b) == IF Rank(a) <= Rank(b) THEN a ELSE b

ReduceAll(outcomes) ==
  LET result[i \in 0 .. Len(outcomes)] ==
        CASE i = 0 -> "clean"
          [] i = 1 -> outcomes[1]
          [] OTHER -> Reduce(result[i - 1], outcomes[i])
  IN  result[Len(outcomes)]

ForOutcome(o) ==
  CASE o \in {"clean", "differences_allowed"} -> 0
    [] o = "policy_disallowed_difference" -> 10
    [] o = "compilation_failure" -> 20
    [] OTHER -> 30

\* A warning never changes the outcome.
Contributes(d) == d.severity = "error"

OutcomeForDiagnostic(d) ==
  IF d.operation = "request_candidate" THEN "compilation_failure"
  ELSE "operational_error"

\* The outcomes a list of diagnostics contributes, in the list's order.
Contributed(diagnostics) ==
  Kept([i \in 1 .. Len(diagnostics) |-> OutcomeForDiagnostic(diagnostics[i])],
       {i \in 1 .. Len(diagnostics) : Contributes(diagnostics[i])})

\* Mutant: a target without a node diff is taken for one without differences.
ClassifyUncompared(t) ==
  LET errors == Contributed(t.diagnostics)
  IN  CASE errors # <<>> -> ReduceAll(errors)
        [] errors = <<>> /\ t.nodeDiff # "different" -> "clean"
        [] errors = <<>> /\ t.nodeDiff = "different" ->
             IF t.failOnDiff THEN "policy_disallowed_difference"
             ELSE "differences_allowed"

\* Errors outrank any verdict on differences; a target that was never compared
\* is never clean.
ClassifyOutcome(t) ==
  LET errors == Contributed(t.diagnostics)
  IN  CASE errors # <<>> -> ReduceAll(errors)
        [] errors = <<>> /\ t.nodeDiff = "nil" -> "operational_error"
        [] errors = <<>> /\ t.nodeDiff = "same" -> "clean"
        [] errors = <<>> /\ t.nodeDiff = "different" ->
             IF t.failOnDiff THEN "policy_disallowed_difference"
             ELSE "differences_allowed"

\* Mutant: run-level diagnostics are listed and not folded in.
FinalizeTargetsOnly(targets, diagnostics) ==
  ReduceAll([i \in DOMAIN targets |-> ClassifyOutcome(targets[i])])

\* Result.Finalize: every target's class and every run-level error.
Finalize(targets, diagnostics) ==
  ReduceAll([i \in DOMAIN targets |-> ClassifyOutcome(targets[i])]
              \o Contributed(diagnostics))
=============================================================================
