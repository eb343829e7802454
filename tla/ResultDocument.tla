--------------------------- MODULE ResultDocument ---------------------------
(***************************************************************************)
(* internal/model: the result document while a run fills it in, and        *)
(* Result.Reduce, which classifies every target, computes the exit code    *)
(* and builds the ordered list of reasons. Texts are abstracted to the     *)
(* message they quote; certnames are numbers, whose order stands for the   *)
(* order of names.                                                         *)
(***************************************************************************)
EXTENDS Outcome, Functions, FiniteSets

CONSTANTS
  Certnames,     \* a set of numbers
  Diagnoses,     \* the diagnostics a target or a run may report
  MaxPerTarget,  \* bound: diagnostics of one target
  MaxRunLevel    \* bound: diagnostics of the run

ASSUME CertnamesAreNumbers == Certnames \subseteq Nat

ASSUME DiagnosesHaveShape ==
  Diagnoses \subseteq [severity : {"warning", "error"}, operation : Operations,
                       message : Nat]

VARIABLES
  targets,      \* Result.Targets, in target-file order
  diagnostics,  \* Result.Diagnostics
  outcome, exitCode, reasons,
  reduced

vars == <<targets, diagnostics, outcome, exitCode, reasons, reduced>>

Lists(n) == UNION {[1 .. k -> Diagnoses] : k \in 0 .. n}

Init ==
  /\ targets = <<>>
  /\ diagnostics = <<>>
  /\ outcome = "" /\ exitCode = 0 /\ reasons = <<>>
  /\ reduced = FALSE

\* compareTarget returned: a result for one more target.
AppendTarget(c) ==
  /\ ~reduced
  /\ diagnostics = <<>>
  /\ c \notin {targets[i].certname : i \in DOMAIN targets}
  /\ \E ds \in Lists(MaxPerTarget), diff \in NodeDiffs, fail \in BOOLEAN :
       targets' = Append(targets, [certname |-> c, diagnostics |-> ds,
                                   nodeDiff |-> diff, failOnDiff |-> fail])
  /\ UNCHANGED <<diagnostics, outcome, exitCode, reasons, reduced>>

\* An invalid configuration, or an impact estimate that failed.
AppendDiagnostic ==
  /\ ~reduced
  /\ Len(diagnostics) < MaxRunLevel
  /\ \E d \in Diagnoses : diagnostics' = Append(diagnostics, d)
  /\ UNCHANGED <<targets, outcome, exitCode, reasons, reduced>>

-----------------------------------------------------------------------------
(* buildReasons.                                                           *)

\* The message quoted for a failed target: the first one of the class the
\* target is reported with, 0 standing for the fixed texts.
OutcomeMessage(t) ==
  LET errors == SelectSeq(t.diagnostics, Contributes)
      own == SelectSeq(errors, LAMBDA d : OutcomeForDiagnostic(d) = ClassifyOutcome(t))
  IN  CASE own # <<>> -> own[1].message
        [] own = <<>> /\ errors # <<>> -> errors[1].message
        [] OTHER -> 0

RunReasons(ds) ==
  Kept([i \in 1 .. Len(ds) |->
          [rank |-> Rank(OutcomeForDiagnostic(ds[i])), certname |-> 0, text |-> ds[i].message]],
       {i \in 1 .. Len(ds) : Contributes(ds[i])})

TargetReasons(ts) ==
  Kept([i \in 1 .. Len(ts) |->
          [rank |-> Rank(ClassifyOutcome(ts[i])), certname |-> ts[i].certname,
           text |-> OutcomeMessage(ts[i])]],
       {i \in 1 .. Len(ts) : ClassifyOutcome(ts[i]) # "clean"})

\* Severity first, then certname (run-level entries have none), then text.
Before(a, b) ==
  \/ a.rank < b.rank
  \/ a.rank = b.rank /\ a.certname < b.certname
  \/ a.rank = b.rank /\ a.certname = b.certname /\ a.text < b.text

\* A stable sort: each entry goes behind those it does not come before.
Inserted(entry, sorted) ==
  LET n == Cardinality({i \in DOMAIN sorted : ~Before(entry, sorted[i])})
  IN  [i \in 1 .. Len(sorted) + 1 |->
         CASE i <= n -> sorted[i]
           [] i = n + 1 -> entry
           [] OTHER -> sorted[i - 1]]

Sorted(list) ==
  LET sorted[i \in 0 .. Len(list)] ==
        IF i = 0 THEN <<>> ELSE Inserted(list[i], sorted[i - 1])
  IN  sorted[Len(list)]

BuildReasons(ts, ds) == Sorted(RunReasons(ds) \o TargetReasons(ts))

ReduceDocument ==
  /\ ~reduced
  /\ outcome' = Finalize(targets, diagnostics)
  /\ exitCode' = ForOutcome(outcome')
  /\ reasons' = BuildReasons(targets, diagnostics)
  /\ reduced' = TRUE
  /\ UNCHANGED <<targets, diagnostics>>

Next ==
  \/ \E c \in Certnames : AppendTarget(c)
  \/ AppendDiagnostic
  \/ ReduceDocument

Spec == Init /\ [][Next]_vars

-----------------------------------------------------------------------------
(* Properties.                                                             *)

Errors(ds) == {d \in Range(ds) : d.severity = "error"}

\* Exit 0 is exactly a run in which every target was compared, nothing failed
\* anywhere, and every difference was allowed by its own target's policy.
ExitZeroMeansAllCompared ==
  reduced =>
    (exitCode = 0 <=>
       /\ Errors(diagnostics) = {}
       /\ \A t \in Range(targets) :
            /\ Errors(t.diagnostics) = {}
            /\ t.nodeDiff # "nil"
            /\ t.nodeDiff = "different" => ~t.failOnDiff)

\* The first reason is of the class the run is reported with, so the text that
\* explains an exit code never explains another one.
ReasonsExplainOutcome ==
  reduced =>
    IF reasons = <<>> THEN outcome = "clean" ELSE reasons[1].rank = Rank(outcome)

=============================================================================
