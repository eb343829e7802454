--------------------------- MODULE PiaceRunsProofs ---------------------------
(***************************************************************************)
(* Proofs about PiaceRuns for any number of targets, processes and agents, *)
(* and any target file. The properties are not inductive; RunsInv is, and  *)
(* consists of                                                             *)
(*                                                                         *)
(*   TypeInv   types, and what catalog a run holds where it holds one;     *)
(*   Place     which targets are done, at hand and to come;                *)
(*   Way       what has been sent for the target at hand, by where the     *)
(*             run is: sent accumulates what pc alone knows;               *)
(*   Worth     what the result in hand, and those reported, tell (Told)    *)
(*             and rest on (Based);                                        *)
(*   Traces    where facts and catalogs of v3 compiles may be found.       *)
(*                                                                         *)
(* RunStepKeeps has one step per action; Place, Way and Worth of the other *)
(* runs follow from what the action leaves alone (Others, UntouchedKeeps). *)
(***************************************************************************)
EXTENDS PiaceRuns, OperatorProofs, FiniteSetTheorems, TLAPS

\* Where a run has accepted a catalog and not yet disposed of it.
Ready(r) == \/ pc[r] \in {"diff", "content"}
            \/ pc[r] = "write" /\ invocation[r].command = "capture_catalog"

\* A run that holds a compiled catalog knows where it came from.
HoldsCandidate ==
  \A r \in Runs :
    Ready(r) => /\ work[r].candidate \in Provenances
                /\ work[r].compiled = [name |-> cur[r], env |-> EnvironmentFor(r, cur[r])]

TypeInv == TypeOK /\ HoldsCandidate

Stages == {"facts", "baseline", "compile", "v4", "v3", "v3sent", "diff", "content", "write"}

\* A target result says which of the requests sent for it was served.
Told(w, s) ==
  /\ "v3" \in s =>
       /\ w.candidate # Absent
       /\ w.candidate.effective = "v3"
       /\ w.candidate.fellBack <=> "v4" \in s
       /\ w.candidate.fellBack =>
            \E i \in DOMAIN w.diagnostics :
              w.diagnostics[i] = Diagnosis("warning", "request_candidate")
  /\ (w.candidate # Absent /\ w.candidate.effective = "v4") => s = {"v4"}

\* A baseline from PuppetDB is an agent's, and a comparison that asked for a
\* candidate has a baseline of the configured environment.
Based(r, t, w) ==
  /\ (policy[t].baselineSource = "puppetdb" /\ w.baseline # Absent) =>
       w.baseline.origin = "agent"
  /\ (Compares(r) /\ sent[r][t] # {}) =>
       w.baseline # Absent /\ w.baseline.env = policy[t].baselineEnv

Refusing(r) ==
  /\ Compares(r)
  /\ \E t \in Targets : policy[t].baselineSource = "puppetdb" /\ PermitsV3(policy[t])

\* A target is at one place: not begun, being worked on, or reported.
Place(r) ==
  /\ cur[r] \notin todo[r]
  /\ \A t \in todo[r] : results[r][t] = Absent /\ sent[r][t] = {}
  /\ cur[r] = Absent => facts[r] = Absent
  /\ cur[r] # Absent => results[r][cur[r]] = Absent /\ work[r] \in TargetResults
  /\ pc[r] = "start" => todo[r] = Targets
  /\ pc[r] \in Stages \cup {"next"} =>
       \A t \in Targets : t \in todo[r] \/ t = cur[r] \/ results[r][t] # Absent
  /\ (pc[r] = "done" /\ ~Refusing(r)) => \A t \in Targets : results[r][t] # Absent
  /\ \A t \in Targets : sent[r][t] # {} => t = cur[r] \/ results[r][t] # Absent

\* What has been sent for the target at hand, by where the run is.
Way(r) ==
  LET p == policy[cur[r]]
      s == sent[r][cur[r]]
  IN  /\ pc[r] \in {"facts", "baseline", "compile"} => s = {}
      /\ pc[r] = "v4" =>
           s = {"v4"} /\ p.api = "v4" /\ TrustedFactsSource(p, facts[r]) # "none"
      /\ pc[r] = "v3" =>
           IF p.api = "v3" THEN s = {} ELSE p.allowFallback /\ s = {"v4", "generic404"}
      /\ pc[r] = "v3sent" =>
           IF p.api = "v3" THEN s = {"v3"}
           ELSE p.allowFallback /\ s = {"v4", "generic404", "v3"}
      /\ pc[r] \in {"facts", "baseline", "compile", "v4", "v3", "v3sent"} =>
           work[r].candidate = Absent
      /\ pc[r] = "baseline" => Compares(r)
      /\ (Compares(r) /\ pc[r] \in Stages \cup {"next"}) => ~Refusing(r)

\* What the target at hand, and those reported, are worth.
Worth(r) ==
  /\ cur[r] # Absent => Based(r, cur[r], work[r])
  /\ pc[r] \in Stages \ {"v3sent"} => Told(work[r], sent[r][cur[r]])
  /\ Ready(r) => /\ ValidProvenance(work[r].candidate)
                 /\ work[r].candidate.effective = ServedBy(r)
  /\ (Compares(r) /\ pc[r] \in {"compile", "v4", "v3", "v3sent"}) =>
       work[r].baseline # Absent /\ work[r].baseline.env = policy[cur[r]].baselineEnv
  /\ (facts[r] # Absent /\ facts[r].origin = "submitted") => PermitsV3(policy[cur[r]])
  /\ \A t \in Targets :
       results[r][t] # Absent =>
         Told(results[r][t], sent[r][t]) /\ Based(r, t, results[r][t])
  /\ \A t \in Targets :
       "v3" \in sent[r][t] =>
         \/ policy[t].api = "v3"
         \/ policy[t].allowFallback /\ {"v4", "generic404"} \subseteq sent[r][t]

\* What a compile left, wherever it has got to, was permitted to be left.
Traces(t) ==
  /\ queuedCatalogs[t] # {} => PermitsV3(policy[t])
  /\ (pdbCatalog[t] # Absent /\ pdbCatalog[t].origin = "compile") => PermitsV3(policy[t])
  /\ queuedFacts[t] # {} => PermitsV3(policy[t])
  /\ (pdbFacts[t] # Absent /\ pdbFacts[t].origin = "submitted") => PermitsV3(policy[t])
  /\ (factsFile[t] # Absent /\ factsFile[t].origin = "submitted") => PermitsV3(policy[t])

\* The inductive invariant.
RunsInv ==
  /\ TypeInv
  /\ \A r \in Runs : Place(r) /\ Way(r) /\ Worth(r)
  /\ \A t \in Targets : Traces(t)
  /\ SnapshotTellsTruth

-----------------------------------------------------------------------------
(* Types.                                                                  *)

LocalOK ==
  /\ pc \in [Runs -> Labels]
  /\ todo \in [Runs -> SUBSET Targets]
  /\ cur \in [Runs -> {Absent} \cup Targets]
  /\ facts \in [Runs -> {Absent} \cup Factsets]
  /\ work \in [Runs -> {Absent} \cup TargetResults]
  /\ results \in [Runs -> [Targets -> {Absent} \cup TargetResults]]
  /\ \A r \in Runs : AtTarget(r)

WorldOK ==
  /\ pdbFacts \in [Targets -> {Absent} \cup Factsets]
  /\ pdbCatalog \in [Targets -> {Absent} \cup Catalogs]
  /\ queuedFacts \in [Targets -> SUBSET Factsets]
  /\ queuedCatalogs \in [Targets -> SUBSET Catalogs]
  /\ factsFile \in [Targets -> {Absent} \cup Factsets]
  /\ catalogFile \in [Targets -> {Absent} \cup CatalogSnapshots]

ConfigOK ==
  /\ policy \in [Targets -> Policies]
  /\ invocation \in [Runs -> Invocations]

EndedOK ==
  /\ exit \in [Runs -> {0, 10, 20, 30}]
  /\ sent \in [Runs -> [Targets -> SUBSET {"v3", "v4", "generic404"}]]

\* The type invariant, by what a step touches together.
LEMMA TypeParts == TypeOK <=> ConfigOK /\ WorldOK /\ LocalOK /\ EndedOK
BY DEF TypeOK, ConfigOK, WorldOK, LocalOK, EndedOK

\* A result under construction gains an error.
LEMMA WithErrorType ==
  ASSUME NEW w \in TargetResults, NEW op \in Operations
  PROVE  WithError(w, op) \in TargetResults
<1> DEFINE D == [severity : {"warning", "error"}, operation : Operations]
<1>1. w.diagnostics \in Seq(D) /\ Diagnosis("error", op) \in D
  BY DEF TargetResults, Diagnosis
<1>2. Append(w.diagnostics, Diagnosis("error", op)) \in Seq(D)
  BY <1>1
<1>3. WithError(w, op) = [w EXCEPT !.diagnostics = Append(w.diagnostics, Diagnosis("error", op))]
  BY DEF WithError
<1> HIDE DEF D
<1>4. TargetResults =
        [baseline : {Absent} \cup Catalogs \cup CatalogSnapshots,
         candidate : {Absent} \cup Provenances, compiled : {Absent} \cup Compiled,
         diagnostics : Seq(D), nodeDiff : NodeDiffs, failOnDiff : BOOLEAN, skipped : BOOLEAN]
  BY DEF TargetResults, D
<1>5. QED
  BY <1>2, <1>3, <1>4

\* A target begins with a result of the right type.
LEMMA EmptyResultType ==
  ASSUME ConfigOK, NEW t \in Targets
  PROVE  EmptyResult(t) \in TargetResults
BY PoliciesResolved DEF ConfigOK, EmptyResult, TargetResults, AnyPolicy, NodeDiffs

\* A target that ends, however it ends, leaves its run between two targets.
LEMMA EndTargetType ==
  ASSUME LocalOK, NEW r \in Runs, NEW w \in TargetResults, cur[r] \in Targets, EndTarget(r, w)
  PROVE  LocalOK' /\ cur' = [cur EXCEPT ![r] = Absent] /\ pc' = [pc EXCEPT ![r] = "next"]
<1> USE DEF LocalOK, EndTarget, Goto, Set
<1>1. /\ pc' \in [Runs -> Labels] /\ todo' \in [Runs -> SUBSET Targets]
      /\ cur' \in [Runs -> {Absent} \cup Targets]
      /\ facts' \in [Runs -> {Absent} \cup Factsets]
      /\ work' \in [Runs -> {Absent} \cup TargetResults]
  BY DEF Labels
<1>2. results' \in [Runs -> [Targets -> {Absent} \cup TargetResults]]
  OBVIOUS
<1>3. \A q \in Runs : AtTarget(q)'
  BY DEF AtTarget, Labels
<1>4. QED
  BY <1>1, <1>2, <1>3

\* So does a target that fails.
LEMMA FailType ==
  ASSUME LocalOK, NEW r \in Runs, cur[r] \in Targets, work[r] \in TargetResults,
         NEW op \in Operations, Fail(r, op)
  PROVE  LocalOK' /\ cur' = [cur EXCEPT ![r] = Absent] /\ pc' = [pc EXCEPT ![r] = "next"]
BY EndTargetType, WithErrorType DEF Fail

\* A run at a target has that target's result in hand.
LEMMA AtWork ==
  ASSUME LocalOK, NEW r \in Runs, pc[r] \notin {"start", "next", "done", "killed"}
  PROVE  /\ cur[r] \in Targets /\ work[r] \in TargetResults
         /\ pc[r] # "facts" => facts[r] \in Factsets
BY DEF LocalOK, AtTarget

\* Only what a step does to its own run can disturb what the others hold.
LEMMA OthersHold ==
  ASSUME HoldsCandidate, LocalOK, NEW r \in Runs, UNCHANGED config,
         \A q \in Runs \ {r} : pc'[q] = pc[q] /\ cur'[q] = cur[q] /\ work'[q] = work[q],
         Ready(r)' => /\ work'[r].candidate \in Provenances
                      /\ work'[r].compiled = [name |-> cur'[r], env |-> EnvironmentFor(r, cur'[r])]
  PROVE  HoldsCandidate'
BY DEF HoldsCandidate, Ready, EnvironmentFor, config, LocalOK

\* A run whose target ended holds no catalog.
LEMMA EndTargetHolds ==
  ASSUME HoldsCandidate, LocalOK, NEW r \in Runs, UNCHANGED config,
         NEW w, EndTarget(r, w)
  PROVE  HoldsCandidate'
<1>1. /\ \A q \in Runs \ {r} : pc'[q] = pc[q] /\ cur'[q] = cur[q] /\ work'[q] = work[q]
      /\ pc'[r] = "next"
  BY DEF EndTarget, Goto, Set, LocalOK
<1>2. ~Ready(r)'
  BY <1>1 DEF Ready
<1>3. QED
  BY <1>1, <1>2, OthersHold

\* Nor does one whose target failed.
LEMMA FailHolds ==
  ASSUME HoldsCandidate, LocalOK, NEW r \in Runs, UNCHANGED config,
         NEW op, Fail(r, op)
  PROVE  HoldsCandidate'
BY EndTargetHolds DEF Fail

\* What a step leaves alone keeps its type.
LEMMA KeepsConfig == ConfigOK /\ UNCHANGED config => ConfigOK'
BY DEF ConfigOK, config

\* The same, of PuppetDB and the snapshot files.
LEMMA KeepsWorld == WorldOK /\ UNCHANGED <<puppetdb, files>> => WorldOK'
BY DEF WorldOK, puppetdb, files

\* The same, of exit codes and the history.
LEMMA KeepsEnded == EndedOK /\ UNCHANGED <<ended, sent>> => EndedOK'
BY DEF EndedOK, ended

\* The same, of what the runs hold.
LEMMA KeepsLocal == LocalOK /\ UNCHANGED local => LocalOK'
BY DEF LocalOK, local, AtTarget

\* processResponse accepts or names the operation that failed.
LEMMA VerdictIsOperation ==
  ASSUME NEW a, NEW c, NEW e
  PROVE  ProcessResponse(a, c, e) \in Operations \cup {"accepted"}
BY DEF ProcessResponse, Operations

\* An accepted answer is a catalog for the target and environment it was asked for.
LEMMA AcceptedIsAsked ==
  ASSUME NEW a, NEW c, NEW e, ProcessResponse(a, c, e) = "accepted"
  PROVE  a.name = c /\ a.env = e
BY DEF ProcessResponse

\* The candidate environment, overridden or not, is an environment.
LEMMA EnvironmentIsOne ==
  ASSUME ConfigOK, NEW r \in Runs, NEW t \in Targets
  PROVE  EnvironmentFor(r, t) \in Environments
<1>1. policy[t].candidateEnv \in Environments
  BY PoliciesResolved DEF ConfigOK, AnyPolicy
<1>2. invocation[r] \in Invocations
  BY DEF ConfigOK
<1>3. invocation[r].environment \in Environments \cup {Absent}
  BY <1>2, InvocationsParse
<1>4. QED
  BY <1>1, <1>3 DEF EnvironmentFor

\* The target file has a resolved policy for every target.
LEMMA PolicyIsOne == ConfigOK => \A t \in Targets : policy[t] \in AnyPolicy
BY PoliciesResolved DEF ConfigOK

\* What the adapter records is a provenance record.
LEMMA ProvenanceType ==
  ASSUME NEW p \in AnyPolicy, NEW f \in Factsets, NEW b \in BOOLEAN
  PROVE  /\ ProvenanceV3(p, b) \in Provenances
         /\ ProvenanceV4(p, f) \in Provenances
BY DEF ProvenanceV3, ProvenanceV4, Provenances, AnyPolicy, TrustedFactsSource

\* Announcing a fallback keeps the result's type.
LEMMA AnnouncedType ==
  ASSUME NEW w \in TargetResults, NEW p \in AnyPolicy
  PROVE  Announced(w, p) \in TargetResults
<1> DEFINE D == [severity : {"warning", "error"}, operation : Operations]
           W == Diagnosis("warning", "request_candidate")
           ds == IF p.api = "v4" THEN Append(w.diagnostics, W) ELSE w.diagnostics
<1>1. w.diagnostics \in Seq(D)
  BY DEF TargetResults
<1>2. W \in D
  BY DEF Diagnosis, Operations
<1>3. ds \in Seq(D)
  <2> HIDE DEF D, W
  <2>1. Append(w.diagnostics, W) \in Seq(D)
    BY <1>1, <1>2
  <2>2. QED
    BY <1>1, <2>1
<1>4. Announced(w, p) = [w EXCEPT !.diagnostics = ds]
  BY DEF Announced
<1> HIDE DEF D, W, ds
<1>5. TargetResults =
        [baseline : {Absent} \cup Catalogs \cup CatalogSnapshots,
         candidate : {Absent} \cup Provenances, compiled : {Absent} \cup Compiled,
         diagnostics : Seq(D), nodeDiff : NodeDiffs, failOnDiff : BOOLEAN, skipped : BOOLEAN]
  BY DEF TargetResults, D
<1>6. QED
  BY <1>3, <1>4, <1>5

\* What a v3 attempt adds to a result, field by field.
LEMMA AttemptedType ==
  ASSUME NEW w \in TargetResults, NEW p \in AnyPolicy
  PROVE  /\ Attempted(w, p) \in TargetResults
         /\ Attempted(w, p).candidate = ProvenanceV3(p, p.api = "v4")
         /\ Attempted(w, p).baseline = w.baseline
         /\ Attempted(w, p).diagnostics = Announced(w, p).diagnostics
<1>1. Announced(w, p) \in TargetResults /\ Announced(w, p).baseline = w.baseline
  BY AnnouncedType DEF Announced, TargetResults
<1>2. ProvenanceV3(p, p.api = "v4") \in Provenances
  BY DEF ProvenanceV3, Provenances, AnyPolicy
<1>3. QED
  BY <1>1, <1>2 DEF Attempted, TargetResults

\* A run that accepts an answer holds its catalog.
LEMMA AcceptType ==
  ASSUME LocalOK, ConfigOK, HoldsCandidate, UNCHANGED config,
         NEW r \in Runs, pc[r] \in {"v4", "v3sent"}, NEW w \in TargetResults,
         w.candidate \in Provenances,
         NEW a, ProcessResponse(a, cur[r], EnvironmentFor(r, cur[r])) = "accepted",
         Accept(r, w, a)
  PROVE  LocalOK' /\ HoldsCandidate'
<1> DEFINE x == [name |-> a.name, env |-> a.env]
           v == [w EXCEPT !.compiled = x]
<1>1. x = [name |-> cur[r], env |-> EnvironmentFor(r, cur[r])]
  BY AcceptedIsAsked
<1>2. cur[r] \in Targets /\ facts[r] \in Factsets
  BY AtWork
<1>3. x \in Compiled
  BY <1>1, <1>2, EnvironmentIsOne DEF Compiled
<1>4. v \in TargetResults /\ v.candidate = w.candidate /\ v.compiled = x
  BY <1>3 DEF TargetResults
<1>5. /\ work' = [work EXCEPT ![r] = v]
      /\ pc' = [pc EXCEPT ![r] = IF Compares(r) THEN "diff" ELSE "content"]
      /\ UNCHANGED <<todo, cur, facts, results>>
  BY DEF Accept, Set, Goto
<1> HIDE DEF x, v
<1>6. LocalOK'
  BY <1>2, <1>4, <1>5 DEF LocalOK, AtTarget, Labels
<1>7. HoldsCandidate'
  <2>1. /\ \A q \in Runs \ {r} : pc'[q] = pc[q] /\ cur'[q] = cur[q] /\ work'[q] = work[q]
        /\ work'[r] = v /\ cur'[r] = cur[r]
    BY <1>5 DEF LocalOK
  <2>2. QED
    BY <2>1, <1>1, <1>4, OthersHold
<1>8. QED
  BY <1>6, <1>7

\* What the content check reports is a list of diagnostics.
LEMMA ContentType ==
  ASSUME NEW ds \in ContentDiagnostics
  PROVE  ds \in Seq([severity : {"warning", "error"}, operation : Operations])
<1> DEFINE D == [severity : {"warning", "error"}, operation : Operations]
<1>1. \A s \in {"warning", "error"} : Diagnosis(s, "verify_content") \in D
  BY DEF Diagnosis, Operations
<1>2. CASE ds = <<>>
  BY <1>2
<1>3. ASSUME NEW s \in {"warning", "error"}, ds = <<Diagnosis(s, "verify_content")>>
      PROVE  ds \in Seq(D)
  <2> HIDE DEF D
  <2>1. QED
    BY <1>1, <1>3
<1>4. QED
  BY <1>2, <1>3 DEF ContentDiagnostics

\* A comparison's last word on a target keeps its result's type.
LEMMA DiffType ==
  ASSUME NEW w \in TargetResults, NEW d \in {"same", "different"},
         NEW ds \in ContentDiagnostics
  PROVE  [w EXCEPT !.nodeDiff = d, !.diagnostics = w.diagnostics \o ds] \in TargetResults
<1> DEFINE D == [severity : {"warning", "error"}, operation : Operations]
           all == w.diagnostics \o ds
<1>1. w.diagnostics \in Seq(D)
  BY DEF TargetResults
<1>2. ds \in Seq(D)
  BY ContentType
<1>3. all \in Seq(D)
  <2> HIDE DEF D
  <2>1. QED
    BY <1>1, <1>2
<1> HIDE DEF D, all
<1>4. TargetResults =
        [baseline : {Absent} \cup Catalogs \cup CatalogSnapshots,
         candidate : {Absent} \cup Provenances, compiled : {Absent} \cup Compiled,
         diagnostics : Seq(D), nodeDiff : NodeDiffs, failOnDiff : BOOLEAN, skipped : BOOLEAN]
  BY DEF TargetResults, D
<1>5. [w EXCEPT !.nodeDiff = d, !.diagnostics = all] \in TargetResults
  BY <1>3, <1>4 DEF NodeDiffs
<1>6. QED
  BY <1>5 DEF all

\* No step takes a variable out of its type, or leaves a run that holds a
\* catalog without the record of where it came from.
LEMMA TypeStep == TypeInv /\ [Next]_vars => TypeInv'
<1> SUFFICES ASSUME TypeInv, [Next]_vars PROVE TypeInv'
  OBVIOUS
<1> DEFINE Good == ConfigOK' /\ WorldOK' /\ LocalOK' /\ EndedOK' /\ HoldsCandidate'
<1>0. ConfigOK /\ WorldOK /\ LocalOK /\ EndedOK /\ HoldsCandidate
  BY TypeParts DEF TypeInv
<1>1. ASSUME NEW r \in Runs, Start(r) PROVE Good
  <2>1. /\ UNCHANGED <<config, puppetdb, files, todo, cur, facts, work, results, sent>>
        /\ pc[r] = "start" /\ cur[r] = Absent /\ work[r] = Absent
        /\ \/ pc' = [pc EXCEPT ![r] = "done"]
           \/ pc' = [pc EXCEPT ![r] = "next"]
        /\ exit' = [exit EXCEPT ![r] = 30] \/ exit' = exit
    BY <1>0, <1>1 DEF Start, Goto, ended, LocalOK, AtTarget
  <2>2. ConfigOK' /\ WorldOK' /\ EndedOK'
    BY <1>0, <2>1, KeepsConfig, KeepsWorld DEF EndedOK
  <2>3. LocalOK'
    BY <1>0, <2>1 DEF LocalOK, AtTarget, Labels
  <2>4. HoldsCandidate'
    BY <1>0, <2>1, OthersHold DEF LocalOK, Ready
  <2>5. QED
    BY <2>2, <2>3, <2>4
<1>2. ASSUME NEW r \in Runs, NEW t \in Targets, BeginTarget(r, t) PROVE Good
  <2>1. ConfigOK' /\ WorldOK' /\ EndedOK' /\ UNCHANGED config
    BY <1>0, <1>2, KeepsConfig, KeepsWorld, KeepsEnded DEF BeginTarget
  <2>2. /\ pc[r] = "next" /\ cur[r] = Absent /\ work[r] = Absent
        /\ EmptyResult(t) \in TargetResults
        /\ todo' = [todo EXCEPT ![r] = todo[r] \ {t}]
    BY <1>0, <1>2, EmptyResultType DEF BeginTarget, LocalOK, AtTarget
  <2>3. CASE Skips(r, t)
    <3>1. [EmptyResult(t) EXCEPT !.skipped = TRUE] \in TargetResults
      BY <2>2 DEF TargetResults
    <3>2. /\ results' = [results EXCEPT ![r][t] = [EmptyResult(t) EXCEPT !.skipped = TRUE]]
          /\ UNCHANGED <<pc, cur, facts, work>>
      BY <1>2, <2>3 DEF BeginTarget
    <3>3. LocalOK'
      BY <1>0, <2>2, <3>1, <3>2 DEF LocalOK, AtTarget
    <3>4. HoldsCandidate'
      BY <1>0, <2>1, <2>2, <3>2, OthersHold DEF Ready
    <3>5. QED
      BY <2>1, <3>3, <3>4
  <2>4. CASE ~Skips(r, t)
    <3>1. /\ pc' = [pc EXCEPT ![r] = "facts"] /\ cur' = [cur EXCEPT ![r] = t]
          /\ work' = [work EXCEPT ![r] = EmptyResult(t)] /\ UNCHANGED <<facts, results>>
      BY <1>2, <2>4 DEF BeginTarget, Goto, Set
    <3>2. LocalOK'
      BY <1>0, <2>2, <3>1 DEF LocalOK, AtTarget, Labels
    <3>3. HoldsCandidate'
      BY <1>0, <2>1, <2>2, <3>1, OthersHold DEF Ready, LocalOK
    <3>4. QED
      BY <2>1, <3>2, <3>3
  <2>5. QED
    BY <2>3, <2>4
<1>3. ASSUME NEW r \in Runs, LoadFacts(r) PROVE Good
  <2>1. ConfigOK' /\ WorldOK' /\ EndedOK' /\ UNCHANGED config
    BY <1>0, <1>3, KeepsConfig, KeepsWorld, KeepsEnded DEF LoadFacts
  <2>2. pc[r] = "facts" /\ cur[r] \in Targets /\ work[r] \in TargetResults
    BY <1>0, <1>3, AtWork DEF LoadFacts
  <2>3. CASE Fail(r, "load_facts")
    BY <1>0, <2>1, <2>2, <2>3, FailType, FailHolds DEF Operations
  <2>4. CASE /\ FactsFor(r, cur[r]) # Absent
             /\ facts' = [facts EXCEPT ![r] = FactsFor(r, cur[r])]
             /\ Goto(r, CASE invocation[r].command = "compare" -> "baseline"
                          [] invocation[r].command = "capture_catalog" -> "compile"
                          [] OTHER -> "write")
             /\ UNCHANGED <<todo, cur, work, results>>
    <3>1. FactsFor(r, cur[r]) \in Factsets
      BY <1>0, <2>2, <2>4 DEF FactsFor, WorldOK
    <3>2. /\ pc' \in [Runs -> Labels] /\ pc' = [pc EXCEPT ![r] = pc'[r]]
          /\ pc'[r] \in {"baseline", "compile", "write"}
          /\ pc'[r] = "write" => invocation[r].command # "capture_catalog"
      BY <1>0, <2>4 DEF Goto, LocalOK, Labels
    <3>3. LocalOK'
      BY <1>0, <2>2, <2>4, <3>1, <3>2 DEF LocalOK, AtTarget, Labels
    <3>4. HoldsCandidate'
      <4>1. \A q \in Runs \ {r} : pc'[q] = pc[q] /\ cur'[q] = cur[q] /\ work'[q] = work[q]
        BY <1>0, <2>4, <3>2 DEF LocalOK
      <4>2. ~Ready(r)'
        BY <2>1, <3>2 DEF Ready, config
      <4>3. QED
        BY <1>0, <2>1, <4>1, <4>2, OthersHold
    <3>5. QED
      BY <2>1, <3>3, <3>4
  <2>5. QED
    BY <1>3, <2>3, <2>4 DEF LoadFacts
<1>4. ASSUME NEW r \in Runs, LoadBaseline(r) PROVE Good
  <2>1. ConfigOK' /\ WorldOK' /\ EndedOK' /\ UNCHANGED config
    BY <1>0, <1>4, KeepsConfig, KeepsWorld, KeepsEnded DEF LoadBaseline
  <2>2. /\ pc[r] = "baseline" /\ cur[r] \in Targets /\ work[r] \in TargetResults
        /\ facts[r] \in Factsets
    BY <1>0, <1>4, AtWork DEF LoadBaseline
  <2> DEFINE w == [work[r] EXCEPT !.baseline = BaselineFor(cur[r])]
  <2>3. w \in TargetResults
    <3>1. BaselineFor(cur[r]) \in {Absent} \cup Catalogs \cup CatalogSnapshots
      BY <1>0, <2>2 DEF BaselineFor, WorldOK
    <3>2. QED
      BY <2>2, <3>1 DEF TargetResults
  <2>4. CASE Fail(r, "load_baseline")
    BY <1>0, <2>1, <2>2, <2>4, FailType, FailHolds DEF Operations
  <2>5. CASE EndTarget(r, WithError(w, "normalize"))
    <3>1. WithError(w, "normalize") \in TargetResults
      BY <2>3, WithErrorType DEF Operations
    <3>2. QED
      BY <1>0, <2>1, <2>2, <2>5, <3>1, EndTargetType, EndTargetHolds
  <2>6. CASE Set(r, w) /\ Goto(r, "compile") /\ UNCHANGED <<todo, cur, facts, results>>
    <3>1. /\ work' = [work EXCEPT ![r] = w] /\ pc' = [pc EXCEPT ![r] = "compile"]
      BY <2>6 DEF Set, Goto
    <3>2. LocalOK'
      BY <1>0, <2>2, <2>3, <2>6, <3>1 DEF LocalOK, AtTarget, Labels
    <3>3. HoldsCandidate'
      BY <1>0, <2>1, <2>6, <3>1, OthersHold DEF Ready, LocalOK
    <3>4. QED
      BY <2>1, <3>2, <3>3
  <2>7. QED
    BY <1>4, <2>4, <2>5, <2>6 DEF LoadBaseline
<1>5. ASSUME NEW r \in Runs, RequestCandidate(r) PROVE Good
  <2>1. ConfigOK' /\ WorldOK' /\ UNCHANGED config
    BY <1>0, <1>5, KeepsConfig, KeepsWorld DEF RequestCandidate
  <2>2. /\ pc[r] = "compile" /\ cur[r] \in Targets /\ work[r] \in TargetResults
        /\ facts[r] \in Factsets
    BY <1>0, <1>5, AtWork DEF RequestCandidate
  <2>3. EndedOK'
    BY <1>0, <1>5, <2>2 DEF RequestCandidate, Sends, EndedOK, ended
  <2>4. CASE Fail(r, "request_candidate") \/ Fail(r, "request_candidate_transport")
    BY <1>0, <2>1, <2>2, <2>3, <2>4, FailType, FailHolds DEF Operations
  <2>5. CASE /\ Goto(r, "v3") \/ Goto(r, "v4")
             /\ UNCHANGED <<todo, cur, facts, work, results>>
    <3>1. LocalOK'
      BY <1>0, <2>2, <2>5 DEF LocalOK, AtTarget, Labels, Goto
    <3>2. HoldsCandidate'
      BY <1>0, <2>1, <2>5, OthersHold DEF Ready, LocalOK, Goto
    <3>3. QED
      BY <2>1, <2>3, <3>1, <3>2
  <2>6. QED
    BY <1>5, <2>4, <2>5 DEF RequestCandidate
<1>6. ASSUME NEW r \in Runs, AnswerV4(r) PROVE Good
  <2>1. ConfigOK' /\ WorldOK' /\ UNCHANGED config
    BY <1>0, <1>6, KeepsConfig, KeepsWorld DEF AnswerV4
  <2>2. /\ pc[r] = "v4" /\ cur[r] \in Targets /\ work[r] \in TargetResults
        /\ facts[r] \in Factsets /\ policy[cur[r]] \in AnyPolicy
    BY <1>0, <1>6, AtWork, PolicyIsOne DEF AnswerV4
  <2> DEFINE p == policy[cur[r]]
             w == [work[r] EXCEPT !.candidate = ProvenanceV4(p, facts[r])]
  <2>3. PICK a \in Answers :
          LET verdict == ProcessResponse(a, cur[r], EnvironmentFor(r, cur[r])) IN
          \/ /\ FallsBack(p, a) /\ Sends(r, a.kind) /\ Goto(r, "v3")
             /\ UNCHANGED <<todo, cur, facts, work, results>>
          \/ verdict = "accepted" /\ Accept(r, w, a) /\ UNCHANGED sent
          \/ verdict # "accepted" /\ Fail(r, verdict) /\ UNCHANGED sent
    BY <1>6 DEF AnswerV4
  <2> DEFINE verdict == ProcessResponse(a, cur[r], EnvironmentFor(r, cur[r]))
  <2>4. EndedOK'
    <3>1. exit' = exit
      BY <1>6 DEF AnswerV4, ended
    <3>2. sent' = sent \/ sent' = [sent EXCEPT ![r][cur[r]] = sent[r][cur[r]] \cup {"generic404"}]
      <4>1. CASE FallsBack(p, a) /\ Sends(r, a.kind)
        BY <4>1 DEF FallsBack, Sends
      <4>2. CASE UNCHANGED sent
        BY <4>2
      <4>3. QED
        BY <2>3, <4>1, <4>2
    <3>3. sent' \in [Runs -> [Targets -> SUBSET {"v3", "v4", "generic404"}]]
      <4>1. sent \in [Runs -> [Targets -> SUBSET {"v3", "v4", "generic404"}]]
        BY <1>0 DEF EndedOK
      <4>2. sent[r][cur[r]] \cup {"generic404"} \in SUBSET {"v3", "v4", "generic404"}
        BY <2>2, <4>1
      <4>3. QED
        BY <2>2, <3>2, <4>1, <4>2
    <3>4. QED
      BY <1>0, <3>1, <3>3 DEF EndedOK
  <2>5. CASE Goto(r, "v3") /\ UNCHANGED <<todo, cur, facts, work, results>>
    <3>1. LocalOK'
      BY <1>0, <2>2, <2>5 DEF LocalOK, AtTarget, Labels, Goto
    <3>2. HoldsCandidate'
      BY <1>0, <2>1, <2>5, OthersHold DEF Ready, LocalOK, Goto
    <3>3. QED
      BY <2>1, <2>4, <3>1, <3>2
  <2>6. CASE verdict = "accepted" /\ Accept(r, w, a)
    <3>1. w \in TargetResults /\ w.candidate \in Provenances
      BY <2>2, ProvenanceType DEF TargetResults
    <3>2. QED
      BY <1>0, <2>1, <2>2, <2>4, <2>6, <3>1, AcceptType
  <2>7. CASE verdict # "accepted" /\ Fail(r, verdict)
    <3>1. verdict \in Operations
      BY <2>7, VerdictIsOperation
    <3>2. QED
      BY <1>0, <2>1, <2>2, <2>4, <2>7, <3>1, FailType, FailHolds
  <2>8. QED
    BY <2>3, <2>5, <2>6, <2>7
<1>7. ASSUME NEW r \in Runs, SendV3(r) PROVE Good
  <2>1. ConfigOK' /\ UNCHANGED config
    BY <1>0, <1>7, KeepsConfig DEF SendV3
  <2>2. /\ pc[r] = "v3" /\ cur[r] \in Targets /\ work[r] \in TargetResults
        /\ facts[r] \in Factsets /\ policy[cur[r]] \in AnyPolicy
        /\ EnvironmentFor(r, cur[r]) \in Environments
    BY <1>0, <1>7, AtWork, PolicyIsOne, EnvironmentIsOne DEF SendV3
  <2>3. EndedOK'
    BY <1>0, <1>7, <2>2 DEF SendV3, Sends, EndedOK, ended
  <2>4. queuedFacts' \in [Targets -> SUBSET Factsets]
    <3>1. [facts[r] EXCEPT !.origin = "submitted"] \in Factsets
      BY <2>2 DEF Factsets
    <3>2. QED
      BY <1>0, <1>7, <2>2, <3>1 DEF SendV3, WorldOK
  <2>5. queuedCatalogs' \in [Targets -> SUBSET Catalogs]
    <3>1. [env |-> EnvironmentFor(r, cur[r]), origin |-> "compile"] \in Catalogs
      BY <2>2 DEF Catalogs
    <3>2. QED
      BY <1>0, <1>7, <2>2, <3>1 DEF SendV3, WorldOK
  <2>6. WorldOK'
    BY <1>0, <1>7, <2>4, <2>5 DEF SendV3, WorldOK, files
  <2>7. CASE Goto(r, "v3sent") /\ UNCHANGED <<todo, cur, facts, work, results>>
    <3>1. LocalOK'
      BY <1>0, <2>2, <2>7 DEF LocalOK, AtTarget, Labels, Goto
    <3>2. HoldsCandidate'
      BY <1>0, <2>1, <2>7, OthersHold DEF Ready, LocalOK, Goto
    <3>3. QED
      BY <2>1, <2>3, <2>6, <3>1, <3>2
  <2>8. CASE EndTarget(r, WithError(Announced(work[r], policy[cur[r]]), "request_candidate_transport"))
    <3>1. WithError(Announced(work[r], policy[cur[r]]), "request_candidate_transport") \in TargetResults
      BY <2>2, AnnouncedType, WithErrorType DEF Operations
    <3>2. QED
      BY <1>0, <2>1, <2>2, <2>3, <2>6, <2>8, <3>1, EndTargetType, EndTargetHolds
  <2>9. QED
    BY <1>7, <2>7, <2>8 DEF SendV3
<1>8. ASSUME NEW r \in Runs, AnswerV3(r) PROVE Good
  <2>1. ConfigOK' /\ WorldOK' /\ EndedOK' /\ UNCHANGED config
    BY <1>0, <1>8, KeepsConfig, KeepsWorld, KeepsEnded DEF AnswerV3
  <2>2. /\ pc[r] = "v3sent" /\ cur[r] \in Targets /\ work[r] \in TargetResults
        /\ policy[cur[r]] \in AnyPolicy /\ facts[r] \in Factsets
    BY <1>0, <1>8, AtWork, PolicyIsOne DEF AnswerV3
  <2> DEFINE w == Attempted(work[r], policy[cur[r]])
  <2>3. PICK a \in Answers :
          LET verdict == ProcessResponse(a, cur[r], EnvironmentFor(r, cur[r])) IN
          IF verdict = "accepted" THEN Accept(r, w, a) ELSE EndTarget(r, WithError(w, verdict))
    BY <1>8 DEF AnswerV3
  <2> DEFINE verdict == ProcessResponse(a, cur[r], EnvironmentFor(r, cur[r]))
  <2>4. w \in TargetResults /\ w.candidate \in Provenances
    <3>1. (policy[cur[r]].api = "v4") \in BOOLEAN
      OBVIOUS
    <3>2. QED
      BY <2>2, <3>1, AttemptedType, ProvenanceType
  <2> HIDE DEF w
  <2>5. CASE verdict = "accepted"
    BY <1>0, <2>1, <2>2, <2>3, <2>4, <2>5, AcceptType
  <2>6. CASE verdict # "accepted"
    <3>1. WithError(w, verdict) \in TargetResults
      BY <2>4, <2>6, VerdictIsOperation, WithErrorType
    <3>2. QED
      BY <1>0, <2>1, <2>2, <2>3, <2>6, <3>1, EndTargetType, EndTargetHolds
  <2>7. QED
    BY <2>5, <2>6
<1>9. ASSUME NEW r \in Runs, Diff(r) PROVE Good
  <2>1. ConfigOK' /\ WorldOK' /\ EndedOK' /\ UNCHANGED config
    BY <1>0, <1>9, KeepsConfig, KeepsWorld, KeepsEnded DEF Diff
  <2>2. pc[r] = "diff" /\ cur[r] \in Targets /\ work[r] \in TargetResults
    BY <1>0, <1>9, AtWork DEF Diff
  <2>3. CASE Fail(r, "normalize")
    BY <1>0, <2>1, <2>2, <2>3, FailType, FailHolds DEF Operations
  <2>4. ASSUME NEW d \in {"same", "different"}, NEW ds \in ContentDiagnostics,
               EndTarget(r, [work[r] EXCEPT !.nodeDiff = d, !.diagnostics = work[r].diagnostics \o ds])
        PROVE  Good
    <3> DEFINE w == [work[r] EXCEPT !.nodeDiff = d, !.diagnostics = work[r].diagnostics \o ds]
    <3>1. w \in TargetResults
      BY <2>2, DiffType
    <3>2. QED
      BY <1>0, <2>1, <2>2, <2>4, <3>1, EndTargetType, EndTargetHolds
  <2>5. QED
    BY <1>9, <2>3, <2>4 DEF Diff
<1>10. ASSUME NEW r \in Runs, CaptureContent(r) PROVE Good
  <2>1. ConfigOK' /\ WorldOK' /\ EndedOK' /\ UNCHANGED config
    BY <1>0, <1>10, KeepsConfig, KeepsWorld, KeepsEnded DEF CaptureContent
  <2>2. /\ pc[r] = "content" /\ cur[r] \in Targets /\ work[r] \in TargetResults
        /\ facts[r] \in Factsets
    BY <1>0, <1>10, AtWork DEF CaptureContent
  <2>3. CASE Fail(r, "verify_content")
    BY <1>0, <2>1, <2>2, <2>3, FailType, FailHolds DEF Operations
  <2>4. CASE Goto(r, "write") /\ UNCHANGED <<todo, cur, facts, work, results>>
    <3>1. LocalOK'
      BY <1>0, <2>2, <2>4 DEF LocalOK, AtTarget, Labels, Goto
    <3>2. HoldsCandidate'
      <4>1. Ready(r) /\ \A q \in Runs \ {r} : pc'[q] = pc[q]
        BY <1>0, <2>2, <2>4 DEF Ready, LocalOK, Goto
      <4>2. QED
        BY <1>0, <2>1, <2>4, <4>1 DEF HoldsCandidate, Ready, EnvironmentFor, config
    <3>3. QED
      BY <2>1, <3>1, <3>2
  <2>5. QED
    BY <1>10, <2>3, <2>4 DEF CaptureContent
<1>11. ASSUME NEW r \in Runs, WriteCatalog(r) PROVE Good
  <2>1. ConfigOK' /\ EndedOK' /\ UNCHANGED config
    BY <1>0, <1>11, KeepsConfig, KeepsEnded DEF WriteCatalog
  <2>2. /\ pc[r] = "write" /\ cur[r] \in Targets /\ work[r] \in TargetResults
        /\ invocation[r].command = "capture_catalog"
    BY <1>0, <1>11, AtWork DEF WriteCatalog
  <2>3. CASE Fail(r, "snapshot") /\ UNCHANGED catalogFile
    <3>1. WorldOK'
      BY <1>0, <1>11, <2>3 DEF WriteCatalog, WorldOK, puppetdb
    <3>2. QED
      BY <1>0, <2>1, <2>2, <2>3, <3>1, FailType, FailHolds DEF Operations
  <2>4. CASE /\ catalogFile' = [catalogFile EXCEPT ![cur[r]] = CatalogSnapshot(r)]
             /\ EndTarget(r, work[r])
    <3>1. CatalogSnapshot(r) \in CatalogSnapshots
      <4>1. /\ work[r].candidate \in Provenances
            /\ work[r].compiled = [name |-> cur[r], env |-> EnvironmentFor(r, cur[r])]
        BY <1>0, <2>2 DEF HoldsCandidate, Ready
      <4>2. EnvironmentFor(r, cur[r]) \in Environments
        BY <1>0, <2>2, EnvironmentIsOne
      <4>3. QED
        BY <4>1, <4>2 DEF CatalogSnapshot, CatalogSnapshots, ServedBy
    <3>2. WorldOK'
      BY <1>0, <1>11, <2>2, <2>4, <3>1 DEF WriteCatalog, WorldOK, puppetdb
    <3>3. QED
      BY <1>0, <2>1, <2>2, <2>4, <3>2, EndTargetType, EndTargetHolds
  <2>5. QED
    BY <1>11, <2>3, <2>4 DEF WriteCatalog
<1>12. ASSUME NEW r \in Runs, WriteFacts(r) PROVE Good
  <2>1. ConfigOK' /\ EndedOK' /\ UNCHANGED config
    BY <1>0, <1>12, KeepsConfig, KeepsEnded DEF WriteFacts
  <2>2. /\ pc[r] = "write" /\ cur[r] \in Targets /\ work[r] \in TargetResults
        /\ facts[r] \in Factsets
    BY <1>0, <1>12, AtWork DEF WriteFacts
  <2>3. WorldOK'
    BY <1>0, <1>12, <2>2 DEF WriteFacts, WorldOK, puppetdb
  <2>4. CASE Fail(r, "snapshot")
    BY <1>0, <2>1, <2>2, <2>3, <2>4, FailType, FailHolds DEF Operations
  <2>5. CASE EndTarget(r, work[r])
    BY <1>0, <2>1, <2>2, <2>3, <2>5, EndTargetType, EndTargetHolds
  <2>6. QED
    BY <1>12, <2>4, <2>5 DEF WriteFacts
<1>13. ASSUME NEW r \in Runs, Report(r) PROVE Good
  <2>1. ConfigOK' /\ WorldOK' /\ UNCHANGED <<config, todo, cur, facts, work, results, sent>>
    BY <1>0, <1>13, KeepsConfig, KeepsWorld DEF Report
  <2>2. pc[r] = "next" /\ pc' = [pc EXCEPT ![r] = "done"]
    BY <1>13 DEF Report, Goto
  <2>3. EndedOK'
    <3>1. \E v \in {0, 10, 20, 30} : exit' = [exit EXCEPT ![r] = v]
      BY <1>13 DEF Report, ForOutcome
    <3>2. QED
      BY <1>0, <2>1, <3>1 DEF EndedOK
  <2>4. LocalOK'
    BY <1>0, <2>1, <2>2 DEF LocalOK, AtTarget, Labels
  <2>5. HoldsCandidate'
    BY <1>0, <2>1, <2>2, OthersHold DEF LocalOK, Ready
  <2>6. QED
    BY <2>1, <2>3, <2>4, <2>5
<1>14. ASSUME NEW r \in Runs, Kill(r) PROVE Good
  <2>1. ConfigOK' /\ WorldOK' /\ EndedOK' /\ UNCHANGED <<config, todo, cur, facts, work, results>>
    BY <1>0, <1>14, KeepsConfig, KeepsWorld, KeepsEnded DEF Kill
  <2>2. pc' = [pc EXCEPT ![r] = "killed"]
    BY <1>14 DEF Kill, Goto
  <2>3. LocalOK'
    BY <1>0, <2>1, <2>2 DEF LocalOK, AtTarget, Labels
  <2>4. HoldsCandidate'
    BY <1>0, <2>1, <2>2, OthersHold DEF LocalOK, Ready
  <2>5. QED
    BY <2>1, <2>3, <2>4
<1>15. ASSUME World PROVE Good
  <2>1. UNCHANGED <<config, files, local, ended, sent>>
    BY <1>15 DEF World, AgentFacts, AgentCatalog, StoreFacts, StoreCatalog
  <2>2. pdbFacts' \in [Targets -> {Absent} \cup Factsets]
        /\ queuedFacts' \in [Targets -> SUBSET Factsets]
    BY <1>0, <1>15, StoresAreEarlierWork
       DEF World, AgentFacts, AgentCatalog, StoreFacts, StoreCatalog, WorldOK, Factsets
  <2>3. pdbCatalog' \in [Targets -> {Absent} \cup Catalogs]
        /\ queuedCatalogs' \in [Targets -> SUBSET Catalogs]
    BY <1>0, <1>15, StoresAreEarlierWork
       DEF World, AgentFacts, AgentCatalog, StoreFacts, StoreCatalog, WorldOK, Catalogs
  <2>4. ConfigOK' /\ WorldOK' /\ LocalOK' /\ EndedOK'
    BY <1>0, <2>1, <2>2, <2>3, KeepsConfig, KeepsLocal, KeepsEnded DEF WorldOK, files
  <2>5. HoldsCandidate'
    BY <1>0, <2>1 DEF HoldsCandidate, Ready, EnvironmentFor, config, local
  <2>6. QED
    BY <2>4, <2>5
<1>16. ASSUME UNCHANGED vars PROVE Good
  <2>1. UNCHANGED <<config, puppetdb, files, local, ended, sent>>
    BY <1>16 DEF vars
  <2>2. HoldsCandidate'
    BY <1>0, <2>1 DEF HoldsCandidate, Ready, EnvironmentFor, config, local
  <2>3. QED
    BY <1>0, <2>1, <2>2, KeepsConfig, KeepsWorld, KeepsLocal, KeepsEnded
<1>17. Good
  BY <1>1, <1>2, <1>3, <1>4, <1>5, <1>6, <1>7, <1>8, <1>9, <1>10, <1>11, <1>12,
     <1>13, <1>14, <1>15, <1>16 DEF Next, RunStep
<1>18. TypeOK'
  BY <1>17 DEF TypeOK, ConfigOK, WorldOK, LocalOK, EndedOK
<1>19. QED
  BY <1>17, <1>18 DEF TypeInv

-----------------------------------------------------------------------------
(* Runs, one at a time.                                                    *)

RunInv(r) == Place(r) /\ Way(r) /\ Worth(r)

\* Everything the other runs have, and know, stays.
Others(r) ==
  \A q \in Runs \ {r} :
    /\ pc'[q] = pc[q] /\ todo'[q] = todo[q] /\ cur'[q] = cur[q] /\ facts'[q] = facts[q]
    /\ work'[q] = work[q] /\ results'[q] = results[q] /\ sent'[q] = sent[q]

\* A run that a step does not touch stays in order.
LEMMA UntouchedKeeps ==
  ASSUME NEW q \in Runs, UNCHANGED config, RunInv(q),
         pc'[q] = pc[q], todo'[q] = todo[q], cur'[q] = cur[q], facts'[q] = facts[q],
         work'[q] = work[q], results'[q] = results[q], sent'[q] = sent[q]
  PROVE  RunInv(q)'
<1>1. policy' = policy /\ invocation' = invocation
  BY DEF config
<1>2. Place(q)'
  BY <1>1 DEF RunInv, Place, Refusing, Compares
<1>3. Way(q)'
  BY <1>1 DEF RunInv, Way, Refusing, Compares
<1>4. Worth(q)'
  BY <1>1 DEF RunInv, Worth, Based, Compares, Ready, ServedBy
<1>5. QED
  BY <1>2, <1>3, <1>4 DEF RunInv

\* What a target's end does to its run, field by field.
Ends(r, w) ==
  /\ pc'[r] = "next" /\ cur'[r] = Absent /\ facts'[r] = Absent /\ todo'[r] = todo[r]
  /\ results'[r][cur[r]] = w /\ sent'[r] = sent[r]
  /\ \A t \in Targets \ {cur[r]} : results'[r][t] = results[r][t]

\* EndTarget does exactly that, and touches no other run.
LEMMA EndTargetIsEnds ==
  ASSUME LocalOK, EndedOK, NEW r \in Runs, cur[r] \in Targets, NEW w,
         EndTarget(r, w), UNCHANGED sent
  PROVE  Ends(r, w) /\ Others(r)
<1>1. /\ pc' = [pc EXCEPT ![r] = "next"] /\ cur' = [cur EXCEPT ![r] = Absent]
      /\ facts' = [facts EXCEPT ![r] = Absent] /\ work' = [work EXCEPT ![r] = Absent]
      /\ results' = [results EXCEPT ![r][cur[r]] = w] /\ todo' = todo /\ sent' = sent
  BY DEF EndTarget, Goto, Set
<1>2. QED
  BY <1>1 DEF Ends, Others, LocalOK

\* A target that ends with a result worth reporting leaves its run in order.
LEMMA EndKeeps ==
  ASSUME ConfigOK, LocalOK, EndedOK, NEW r \in Runs, RunInv(r), UNCHANGED config,
         pc[r] \in Stages, cur[r] \in Targets, NEW w \in TargetResults,
         Told(w, sent[r][cur[r]]), Based(r, cur[r], w), Ends(r, w)
  PROVE  RunInv(r)'
<1>1. policy' = policy /\ invocation' = invocation /\ Absent \notin Targets /\ w # Absent
  BY AbsentIsNothing, AbsentIsNoResult DEF config
<1>2. todo[r] \subseteq Targets
  BY DEF LocalOK
<1>3. Place(r)'
  BY <1>1, <1>2 DEF RunInv, Place, Ends, Stages, Refusing, Compares
<1>4. Way(r)'
  BY <1>1 DEF RunInv, Way, Ends, Stages, Refusing, Compares
<1>5. Worth(r)'
  BY <1>1 DEF RunInv, Worth, Ends, Stages, Based, Compares, Ready
<1>6. QED
  BY <1>3, <1>4, <1>5 DEF RunInv

\* An error changes nothing of what a result tells.
LEMMA ErrorKeeps ==
  ASSUME NEW w \in TargetResults, NEW op \in Operations, NEW s
  PROVE  /\ WithError(w, op).baseline = w.baseline
         /\ Told(w, s) => Told(WithError(w, op), s)
<1> DEFINE v == WithError(w, op)
<1>1. /\ v.baseline = w.baseline /\ v.candidate = w.candidate
      /\ v.diagnostics = Append(w.diagnostics, Diagnosis("error", op))
  BY DEF WithError, TargetResults
<1>2. w.diagnostics \in Seq([severity : {"warning", "error"}, operation : Operations])
  BY DEF TargetResults
<1>3. \A i \in DOMAIN w.diagnostics : i \in DOMAIN v.diagnostics /\ v.diagnostics[i] = w.diagnostics[i]
  BY <1>1, <1>2
<1> HIDE DEF v
<1>4. Told(w, s) => Told(v, s)
  BY <1>1, <1>3 DEF Told
<1>5. QED
  BY <1>1, <1>4 DEF v

\* A target that fails while what it has is worth reporting.
LEMMA FailKeeps ==
  ASSUME ConfigOK, LocalOK, EndedOK, NEW r \in Runs, RunInv(r), UNCHANGED <<config, sent>>,
         pc[r] \in Stages \ {"v3sent"}, cur[r] \in Targets, work[r] \in TargetResults,
         NEW op \in Operations, Fail(r, op)
  PROVE  RunInv(r)' /\ Others(r)
<1> DEFINE w == WithError(work[r], op)
<1>1. w \in TargetResults
  BY WithErrorType
<1>2. Absent \notin Targets
  BY AbsentIsNothing
<1>3. Told(work[r], sent[r][cur[r]]) /\ Based(r, cur[r], work[r])
  BY <1>2 DEF RunInv, Worth
<1>4. Told(w, sent[r][cur[r]]) /\ w.baseline = work[r].baseline
  BY <1>3, ErrorKeeps
<1>5. Based(r, cur[r], w)
  BY <1>3, <1>4 DEF Based
<1>6. EndTarget(r, w)
  BY DEF Fail
<1> HIDE DEF w
<1>7. Ends(r, w) /\ Others(r)
  BY <1>6, EndTargetIsEnds
<1>8. QED
  BY <1>1, <1>4, <1>5, <1>7, EndKeeps

\* What the adapter records, snapshot.Validate takes.
LEMMA RecordsAreValid ==
  ASSUME NEW p \in AnyPolicy, NEW f \in Factsets
  PROVE  /\ ValidProvenance(ProvenanceV3(p, p.api = "v4"))
         /\ ProvenanceV3(p, p.api = "v4").effective = "v3"
         /\ ProvenanceV3(p, p.api = "v4").fellBack = (p.api = "v4")
         /\ (p.api = "v4" /\ TrustedFactsSource(p, f) # "none") =>
              ValidProvenance(ProvenanceV4(p, f))
<1>1. p.api \in {"v3", "v4"}
  BY DEF AnyPolicy
<1>2. CASE p.api = "v3"
  BY <1>2 DEF ValidProvenance, ProvenanceV3
<1>3. CASE p.api = "v4"
  <2>1. ValidProvenance(ProvenanceV3(p, TRUE))
    BY <1>3 DEF ValidProvenance, ProvenanceV3
  <2>2. (p.api = "v4") = TRUE
    BY <1>3
  <2>3. ValidProvenance(ProvenanceV3(p, p.api = "v4"))
    BY <2>1, <2>2
  <2>4. TrustedFactsSource(p, f) # "none" => ValidProvenance(ProvenanceV4(p, f))
    BY DEF ValidProvenance, ProvenanceV4
  <2>5. QED
    BY <2>3, <2>4 DEF ProvenanceV3
<1>4. QED
  BY <1>1, <1>2, <1>3

\* Whoever accepts a catalog says which endpoint answered.
LEMMA AcceptKeeps ==
  ASSUME ConfigOK, LocalOK, NEW r \in Runs, RunInv(r), UNCHANGED <<config, sent>>,
         Absent \notin Targets,
         pc[r] \in {"v4", "v3sent"}, cur[r] \in Targets, NEW w \in TargetResults,
         w.baseline = work[r].baseline, ValidProvenance(w.candidate),
         w.candidate.effective \in {"v3", "v4"},
         "v3" \in sent[r][cur[r]] <=> w.candidate.effective = "v3",
         Told(w, sent[r][cur[r]]), NEW a,
         ProcessResponse(a, cur[r], EnvironmentFor(r, cur[r])) = "accepted", Accept(r, w, a)
  PROVE  RunInv(r)' /\ Others(r) /\ UNCHANGED config
<1> DEFINE v == [w EXCEPT !.compiled = [name |-> a.name, env |-> a.env]]
<1>1. /\ v.baseline = work[r].baseline /\ v.candidate = w.candidate
      /\ v.diagnostics = w.diagnostics
  BY DEF TargetResults
<1>2. work' = [work EXCEPT ![r] = v] /\ UNCHANGED <<todo, cur, facts, results>>
  BY DEF Accept, Set
<1>3. /\ pc'[r] = IF Compares(r) THEN "diff" ELSE "content"
      /\ \A q \in Runs \ {r} : pc'[q] = pc[q]
  BY DEF Accept, Goto, LocalOK
<1> HIDE DEF v
<1>4. work'[r] = v /\ \A q \in Runs \ {r} : work'[q] = work[q]
  BY <1>2 DEF LocalOK
<1>5. Told(v, sent[r][cur[r]]) /\ Based(r, cur[r], v)
  <2>1. Based(r, cur[r], work[r])
    BY DEF RunInv, Worth
  <2>2. QED
    BY <1>1, <2>1 DEF Told, Based
<1>6. Others(r)
  BY <1>2, <1>3, <1>4 DEF Others
<1>7. v \in TargetResults
  <2>1. [name |-> a.name, env |-> a.env] \in Compiled
    BY AcceptedIsAsked, EnvironmentIsOne DEF Compiled
  <2>2. QED
    BY <2>1 DEF v, TargetResults
<1>8. Place(r)'
  BY <1>2, <1>3, <1>4, <1>7 DEF RunInv, Place, Refusing, Compares, config, Stages
<1>9. Way(r)'
  BY <1>2, <1>3 DEF RunInv, Way, Refusing, Compares, config, Stages
<1>10. ValidProvenance(v.candidate) /\ v.candidate.effective = ServedBy(r)
  BY <1>1 DEF ServedBy
<1>11. Worth(r)'
  BY <1>2, <1>3, <1>4, <1>5, <1>10
     DEF RunInv, Worth, Based, Compares, config, Stages, Ready, ServedBy
<1>12. QED
  BY <1>6, <1>8, <1>9, <1>11 DEF RunInv

\* What a request sends is recorded for the target at hand, and no other.
LEMMA SendsAt ==
  ASSUME EndedOK, NEW r \in Runs, cur[r] \in Targets, NEW what, Sends(r, what)
  PROVE  /\ sent'[r][cur[r]] = sent[r][cur[r]] \cup {what}
         /\ \A t \in Targets \ {cur[r]} : sent'[r][t] = sent[r][t]
         /\ \A q \in Runs \ {r} : sent'[q] = sent[q]
BY DEF Sends, EndedOK

\* Each step of a run leaves it, and what the others hold of theirs, in order.
LEMMA RunStepKeeps ==
  ASSUME TypeInv, \A t \in Targets : Traces(t), NEW r \in Runs, RunInv(r),
         RunStep(r) \/ Kill(r)
  PROVE  RunInv(r)' /\ Others(r) /\ UNCHANGED config
<1> DEFINE Good == RunInv(r)' /\ Others(r) /\ UNCHANGED config
<1>0. /\ ConfigOK /\ WorldOK /\ LocalOK /\ EndedOK /\ HoldsCandidate
      /\ Absent \notin Targets /\ Absent \notin Provenances /\ Absent \notin Factsets
      /\ Absent \notin TargetResults
      /\ todo[r] \subseteq Targets
  BY TypeParts, AbsentIsNothing, AbsentIsNoResult DEF TypeInv, LocalOK
<1>1. ASSUME Start(r) PROVE Good
  <2>1. /\ UNCHANGED <<config, todo, cur, facts, work, results, sent>>
        /\ cur[r] = Absent
        /\ \/ pc' = [pc EXCEPT ![r] = "done"] /\ Refusing(r)
           \/ pc' = [pc EXCEPT ![r] = "next"] /\ ~Refusing(r)
        /\ pc[r] = "start"
    BY <1>0, <1>1 DEF Start, Goto, LocalOK, AtTarget, Refusing
  <2>2. Others(r)
    BY <1>0, <2>1 DEF Others, LocalOK
  <2>3. /\ pc'[r] \in {"done", "next"} /\ (pc'[r] = "done" => Refusing(r))
        /\ (pc'[r] = "next" => ~Refusing(r))
    BY <1>0, <2>1 DEF LocalOK
  <2>4. Place(r)'
    BY <1>0, <2>1, <2>3 DEF RunInv, Place, Refusing, Compares, config, Stages
  <2>5. Way(r)'
    BY <1>0, <2>1, <2>3 DEF RunInv, Way, Refusing, Compares, config, Stages
  <2>6. Worth(r)'
    BY <1>0, <2>1, <2>3 DEF RunInv, Worth, Based, Compares, config, Stages, Ready
  <2>7. QED
    BY <2>1, <2>2, <2>4, <2>5, <2>6 DEF RunInv
<1>2. ASSUME NEW t \in Targets, BeginTarget(r, t) PROVE Good
  <2> DEFINE e == EmptyResult(t)
  <2>1. /\ UNCHANGED <<config, sent>> /\ pc[r] = "next" /\ cur[r] = Absent /\ t \in todo[r]
        /\ todo' = [todo EXCEPT ![r] = todo[r] \ {t}]
        /\ results[r][t] = Absent /\ sent[r][t] = {} /\ facts[r] = Absent
    BY <1>0, <1>2 DEF BeginTarget, LocalOK, AtTarget, RunInv, Place
  <2>2. /\ e \in TargetResults /\ e.baseline = Absent /\ e.candidate = Absent
        /\ e.diagnostics = <<>>
    BY <1>0, EmptyResultType DEF EmptyResult
  <2> HIDE DEF e
  <2>3. CASE Skips(r, t)
    <3> DEFINE v == [e EXCEPT !.skipped = TRUE]
    <3>1. v \in TargetResults /\ v.baseline = Absent /\ v.candidate = Absent
      BY <2>2 DEF TargetResults
    <3>2. results' = [results EXCEPT ![r][t] = v] /\ UNCHANGED <<pc, cur, facts, work>>
      BY <1>2, <2>3 DEF BeginTarget, e
    <3> HIDE DEF v
    <3>3. Others(r)
      BY <1>0, <2>1, <3>2 DEF Others, LocalOK
    <3>4. /\ results'[r][t] = v /\ todo'[r] = todo[r] \ {t}
          /\ \A u \in Targets \ {t} : results'[r][u] = results[r][u]
      BY <1>0, <2>1, <3>2 DEF LocalOK
    <3>5. Place(r)'
      BY <1>0, <2>1, <3>1, <3>2, <3>4 DEF RunInv, Place, Refusing, Compares, config, Stages
    <3>6. Way(r)'
      BY <1>0, <2>1, <3>2 DEF RunInv, Way, Refusing, Compares, config, Stages
    <3>7. Told(v, sent[r][t]) /\ Based(r, t, v)
      BY <2>1, <3>1 DEF Told, Based
    <3>8. ASSUME NEW u \in Targets, results'[r][u] # Absent
          PROVE  Told(results'[r][u], sent'[r][u]) /\ Based(r, u, results[r][u])'
      <4>1. /\ sent'[r] = sent[r] /\ policy' = policy /\ invocation' = invocation
        BY <2>1 DEF config
      <4>2. CASE u = t
        BY <3>4, <3>7, <4>1, <4>2 DEF Based, Compares
      <4>3. CASE u # t
        <5>1. results'[r][u] = results[r][u]
          BY <3>4, <4>3
        <5>2. Told(results[r][u], sent[r][u]) /\ Based(r, u, results[r][u])
          BY <3>8, <5>1 DEF RunInv, Worth
        <5>3. QED
          BY <4>1, <5>1, <5>2 DEF Based, Compares
      <4>4. QED
        BY <4>2, <4>3
    <3>9. Worth(r)'
      BY <1>0, <2>1, <3>2, <3>8 DEF RunInv, Worth, Compares, config, Stages, Ready
    <3>10. QED
      BY <2>1, <3>3, <3>5, <3>6, <3>9 DEF RunInv
  <2>4. CASE ~Skips(r, t)
    <3>1. /\ pc' = [pc EXCEPT ![r] = "facts"] /\ cur' = [cur EXCEPT ![r] = t]
          /\ work' = [work EXCEPT ![r] = e] /\ UNCHANGED <<facts, results>>
      BY <1>2, <2>4 DEF BeginTarget, Goto, Set, e
    <3>2. Others(r)
      BY <1>0, <2>1, <3>1 DEF Others, LocalOK
    <3>3. /\ pc'[r] = "facts" /\ cur'[r] = t /\ work'[r] = e /\ facts'[r] = Absent
          /\ results'[r] = results[r] /\ sent'[r] = sent[r] /\ todo'[r] = todo[r] \ {t}
      BY <1>0, <2>1, <3>1 DEF LocalOK
    <3>4. Place(r)'
      BY <1>0, <2>1, <2>2, <3>3 DEF RunInv, Place, Refusing, Compares, config, Stages
    <3>5. Way(r)'
      BY <1>0, <2>1, <2>2, <3>3 DEF RunInv, Way, Refusing, Compares, config, Stages
    <3>6. Told(e, {}) /\ Based(r, t, e)
      BY <2>1, <2>2 DEF Told, Based
    <3>7. Worth(r)'
      <4>1. /\ UNCHANGED <<policy, invocation>> /\ ~Ready(r)' /\ sent'[r][t] = {}
            /\ pc'[r] \in Stages \ {"v3sent", "compile", "v4", "v3"}
        BY <2>1, <3>3 DEF config, Stages, Ready
      <4>2. Based(r, cur[r], work[r])' /\ Told(work'[r], sent'[r][t])
        <5>1. policy' = policy /\ (Compares(r)' <=> Compares(r))  BY <4>1 DEF Compares
        <5> QED BY <3>3, <3>6, <4>1, <5>1 DEF Based
      <4>3. ASSUME NEW u \in Targets
            PROVE  /\ results'[r][u] # Absent =>
                        Told(results'[r][u], sent'[r][u]) /\ Based(r, u, results[r][u])'
                   /\ "v3" \in sent'[r][u] =>
                        \/ policy'[u].api = "v3"
                        \/ policy'[u].allowFallback /\ {"v4", "generic404"} \subseteq sent'[r][u]
        BY <3>3, <4>1 DEF RunInv, Worth, Based, Compares
      <4>4. Compares(r)' /\ pc'[r] \in {"compile", "v4", "v3", "v3sent"} =>
              work'[r].baseline # Absent /\ work'[r].baseline.env = policy'[cur'[r]].baselineEnv
        BY <4>1
      <4>5. /\ cur'[r] # Absent => Based(r, cur[r], work[r])'
            /\ pc'[r] \in Stages \ {"v3sent"} => Told(work'[r], sent'[r][cur'[r]])
        BY <3>3, <4>2
      <4>6. ~(facts'[r] # Absent)  BY <3>3
      <4> QED BY <4>1, <4>3, <4>4, <4>5, <4>6 DEF Worth
    <3>8. QED
      BY <2>1, <3>2, <3>4, <3>5, <3>7 DEF RunInv
  <2>5. QED
    BY <2>3, <2>4
<1>3. ASSUME LoadFacts(r) PROVE Good
  <2>1. /\ UNCHANGED <<config, sent>> /\ pc[r] = "facts" /\ cur[r] \in Targets
        /\ work[r] \in TargetResults
    BY <1>0, <1>3, AtWork DEF LoadFacts
  <2>2. CASE Fail(r, "load_facts")
    BY <1>0, <2>1, <2>2, FailKeeps DEF Operations, Stages
  <2>3. CASE /\ FactsFor(r, cur[r]) # Absent
             /\ facts' = [facts EXCEPT ![r] = FactsFor(r, cur[r])]
             /\ Goto(r, CASE invocation[r].command = "compare" -> "baseline"
                          [] invocation[r].command = "capture_catalog" -> "compile"
                          [] OTHER -> "write")
             /\ UNCHANGED <<todo, cur, work, results>>
    <3>1. /\ pc'[r] \in {"baseline", "compile", "write"}
          /\ pc'[r] = "baseline" => Compares(r)
          /\ pc'[r] = "compile" => ~Compares(r)
          /\ pc'[r] = "write" => invocation[r].command # "capture_catalog"
          /\ \A q \in Runs \ {r} : pc'[q] = pc[q]
      BY <1>0, <2>3 DEF Goto, LocalOK, Compares
    <3>2. facts'[r] = FactsFor(r, cur[r]) /\ \A q \in Runs \ {r} : facts'[q] = facts[q]
      BY <1>0, <2>3 DEF LocalOK
    <3>3. Others(r)
      BY <2>1, <2>3, <3>1, <3>2 DEF Others
    <3>4. facts'[r].origin = "submitted" => PermitsV3(policy[cur[r]])
      BY <2>1, <2>3, <3>2 DEF FactsFor, Traces
    <3>5. Place(r)'
      BY <1>0, <2>1, <2>3, <3>1 DEF RunInv, Place, Refusing, Compares, config, Stages
    <3>6. Way(r)'
      BY <1>0, <2>1, <2>3, <3>1 DEF RunInv, Way, Refusing, Compares, config, Stages
    <3>7. Worth(r)'
      BY <1>0, <2>1, <2>3, <3>1, <3>4 DEF RunInv, Worth, Based, Compares, config, Stages, Ready
    <3>8. QED
      BY <2>1, <3>3, <3>5, <3>6, <3>7 DEF RunInv
  <2>4. QED
    BY <1>3, <2>2, <2>3 DEF LoadFacts
<1>4. ASSUME LoadBaseline(r) PROVE Good
  <2>1. /\ UNCHANGED <<config, sent>> /\ pc[r] = "baseline" /\ cur[r] \in Targets
        /\ work[r] \in TargetResults /\ work[r].candidate = Absent /\ sent[r][cur[r]] = {}
        /\ Compares(r) /\ ~Refusing(r)
    BY <1>0, <1>4, AtWork DEF LoadBaseline, RunInv, Way, Stages
  <2> DEFINE w == [work[r] EXCEPT !.baseline = BaselineFor(cur[r])]
  <2>2. CASE Fail(r, "load_baseline")
    BY <1>0, <2>1, <2>2, FailKeeps DEF Operations, Stages
  <2>3. CASE Usable(cur[r])
             /\ \/ EndTarget(r, WithError(w, "normalize"))
                \/ Set(r, w) /\ Goto(r, "compile") /\ UNCHANGED <<todo, cur, facts, results>>
    <3>1. BaselineFor(cur[r]) \in Catalogs \cup CatalogSnapshots
      BY <1>0, <2>1, <2>3 DEF BaselineFor, WorldOK, Usable
    <3>2. /\ w \in TargetResults /\ w.candidate = Absent
          /\ w.baseline = BaselineFor(cur[r]) /\ w.baseline # Absent
          /\ w.baseline.env = policy[cur[r]].baselineEnv
      BY <2>1, <2>3, <3>1 DEF TargetResults, Usable
    <3>3. policy[cur[r]].baselineSource = "puppetdb" => w.baseline.origin = "agent"
      <4>1. SUFFICES ASSUME policy[cur[r]].baselineSource = "puppetdb"
                     PROVE  w.baseline.origin = "agent"
        OBVIOUS
      <4>2. w.baseline = pdbCatalog[cur[r]] /\ w.baseline \in Catalogs
        BY <1>0, <2>1, <3>2, <4>1 DEF BaselineFor, WorldOK
      <4>3. w.baseline.origin # "compile"
        BY <2>1, <3>2, <4>1, <4>2 DEF Traces, Refusing
      <4>4. QED
        BY <4>2, <4>3 DEF Catalogs
    <3>4. Based(r, cur[r], w) /\ Told(w, sent[r][cur[r]])
      BY <2>1, <3>2, <3>3 DEF Based, Told
    <3> HIDE DEF w
    <3>5. CASE EndTarget(r, WithError(w, "normalize"))
      <4>1. WithError(w, "normalize") \in TargetResults
        BY <3>2, WithErrorType DEF Operations
      <4>2. /\ Told(WithError(w, "normalize"), sent[r][cur[r]])
            /\ WithError(w, "normalize").baseline = w.baseline
        BY <3>2, <3>4, ErrorKeeps DEF Operations
      <4>3. Based(r, cur[r], WithError(w, "normalize"))
        BY <3>4, <4>2 DEF Based
      <4>4. QED
        BY <1>0, <2>1, <3>5, <4>1, <4>2, <4>3, EndTargetIsEnds, EndKeeps DEF Stages
    <3>6. CASE Set(r, w) /\ Goto(r, "compile") /\ UNCHANGED <<todo, cur, facts, results>>
      <4>1. /\ work'[r] = w /\ pc'[r] = "compile"
            /\ \A q \in Runs \ {r} : work'[q] = work[q] /\ pc'[q] = pc[q]
        BY <1>0, <3>6 DEF Set, Goto, LocalOK
      <4>2. Others(r)
        BY <2>1, <3>6, <4>1 DEF Others
      <4>3. Place(r)'
        BY <1>0, <2>1, <3>2, <3>6, <4>1 DEF RunInv, Place, Refusing, Compares, config, Stages
      <4>4. Way(r)'
        BY <1>0, <2>1, <3>2, <3>6, <4>1 DEF RunInv, Way, Refusing, Compares, config, Stages
      <4>5. Worth(r)'
        BY <1>0, <2>1, <3>2, <3>4, <3>6, <4>1
           DEF RunInv, Worth, Based, Compares, config, Stages, Ready
      <4>6. QED
        BY <2>1, <4>2, <4>3, <4>4, <4>5 DEF RunInv
    <3>7. QED
      BY <2>3, <3>5, <3>6
  <2>4. QED
    BY <1>4, <2>2, <2>3 DEF LoadBaseline
<1>5. ASSUME RequestCandidate(r) PROVE Good
  <2>1. /\ UNCHANGED config /\ pc[r] = "compile" /\ cur[r] \in Targets
        /\ work[r] \in TargetResults /\ work[r].candidate = Absent /\ sent[r][cur[r]] = {}
        /\ policy[cur[r]].api \in {"v3", "v4"}
    BY <1>0, <1>5, AtWork, PolicyIsOne DEF RequestCandidate, RunInv, Way, AnyPolicy
  <2>2. CASE /\ Fail(r, "request_candidate") \/ Fail(r, "request_candidate_transport")
             /\ UNCHANGED sent
    BY <1>0, <2>1, <2>2, FailKeeps DEF Operations, Stages
  <2>3. CASE /\ policy[cur[r]].api = "v3" /\ Goto(r, "v3")
             /\ UNCHANGED <<todo, cur, facts, work, results, sent>>
    <3>1. pc'[r] = "v3" /\ \A q \in Runs \ {r} : pc'[q] = pc[q]
      BY <1>0, <2>3 DEF Goto, LocalOK
    <3>2. Others(r)
      BY <2>3, <3>1 DEF Others
    <3>3. Place(r)'
      BY <1>0, <2>1, <2>3, <3>1 DEF RunInv, Place, Refusing, Compares, config, Stages
    <3>4. Way(r)'
      BY <1>0, <2>1, <2>3, <3>1 DEF RunInv, Way, Refusing, Compares, config, Stages
    <3>5. Worth(r)'
      BY <1>0, <2>1, <2>3, <3>1 DEF RunInv, Worth, Based, Compares, config, Stages, Ready
    <3>6. QED
      BY <2>1, <3>2, <3>3, <3>4, <3>5 DEF RunInv
  <2>4. CASE /\ policy[cur[r]].api = "v4"
             /\ TrustedFactsSource(policy[cur[r]], facts[r]) # "none"
             /\ Sends(r, "v4") /\ Goto(r, "v4")
             /\ UNCHANGED <<todo, cur, facts, work, results>>
    <3>1. pc'[r] = "v4" /\ \A q \in Runs \ {r} : pc'[q] = pc[q]
      BY <1>0, <2>4 DEF Goto, LocalOK
    <3>2. /\ sent'[r][cur[r]] = {"v4"}
          /\ \A t \in Targets \ {cur[r]} : sent'[r][t] = sent[r][t]
          /\ \A q \in Runs \ {r} : sent'[q] = sent[q]
      BY <1>0, <2>1, <2>4, SendsAt
    <3>3. Others(r)
      BY <2>4, <3>1, <3>2 DEF Others
    <3>4. Place(r)'
      BY <1>0, <2>1, <2>4, <3>1, <3>2 DEF RunInv, Place, Refusing, Compares, config, Stages
    <3>5. Way(r)'
      BY <1>0, <2>1, <2>4, <3>1, <3>2 DEF RunInv, Way, Refusing, Compares, config, Stages
    <3>6. Told(work[r], {"v4"})
      BY <2>1 DEF Told
    <3>7. Worth(r)'
      BY <1>0, <2>1, <2>4, <3>1, <3>2, <3>6
         DEF RunInv, Worth, Place, Based, Compares, config, Stages, Ready
    <3>8. QED
      BY <2>1, <3>3, <3>4, <3>5, <3>7 DEF RunInv
  <2>5. QED
    BY <1>5, <2>1, <2>2, <2>3, <2>4 DEF RequestCandidate
<1>6. ASSUME AnswerV4(r) PROVE Good
  <2> DEFINE p == policy[cur[r]]
  <2>1. /\ UNCHANGED config /\ pc[r] = "v4" /\ cur[r] \in Targets
        /\ work[r] \in TargetResults /\ work[r].candidate = Absent /\ facts[r] \in Factsets
        /\ sent[r][cur[r]] = {"v4"} /\ p.api = "v4"
        /\ p \in AnyPolicy /\ TrustedFactsSource(p, facts[r]) # "none"
    BY <1>0, <1>6, AtWork, PolicyIsOne DEF AnswerV4, RunInv, Way
  <2>2. ASSUME NEW a \in Answers, FallsBack(p, a), Sends(r, a.kind), Goto(r, "v3"),
               UNCHANGED <<todo, cur, facts, work, results>>
        PROVE  Good
    <3>1. pc'[r] = "v3" /\ \A q \in Runs \ {r} : pc'[q] = pc[q]
      BY <1>0, <2>2 DEF Goto, LocalOK
    <3>2. /\ sent'[r][cur[r]] = {"v4", "generic404"} /\ p.allowFallback
          /\ \A t \in Targets \ {cur[r]} : sent'[r][t] = sent[r][t]
          /\ \A q \in Runs \ {r} : sent'[q] = sent[q]
      <4>1. a.kind = "generic404" /\ p.allowFallback
        BY <2>2 DEF FallsBack
      <4>2. /\ sent'[r][cur[r]] = sent[r][cur[r]] \cup {a.kind}
            /\ \A t \in Targets \ {cur[r]} : sent'[r][t] = sent[r][t]
            /\ \A q \in Runs \ {r} : sent'[q] = sent[q]
        BY <1>0, <2>1, <2>2, SendsAt
      <4>3. QED
        BY <2>1, <4>1, <4>2
    <3>3. Others(r)
      BY <2>2, <3>1, <3>2 DEF Others
    <3>4. Place(r)'
      BY <1>0, <2>1, <2>2, <3>1, <3>2 DEF RunInv, Place, Refusing, Compares, config, Stages
    <3>5. Way(r)'
      BY <1>0, <2>1, <2>2, <3>1, <3>2 DEF RunInv, Way, Refusing, Compares, config, Stages
    <3>6. Told(work[r], {"v4", "generic404"})
      BY <2>1 DEF Told
    <3>7. Worth(r)'
      BY SMTT(30), <1>0, <2>1, <2>2, <3>1, <3>2, <3>6
         DEF RunInv, Worth, Place, Based, Compares, config, Stages, Ready
    <3>8. QED
      BY <2>1, <3>3, <3>4, <3>5, <3>7 DEF RunInv
  <2>3. ASSUME NEW a \in Answers, UNCHANGED sent,
               ProcessResponse(a, cur[r], EnvironmentFor(r, cur[r])) = "accepted",
               Accept(r, [work[r] EXCEPT !.candidate = ProvenanceV4(p, facts[r])], a)
        PROVE  Good
    <3> DEFINE w == [work[r] EXCEPT !.candidate = ProvenanceV4(p, facts[r])]
    <3>1. ProvenanceV4(p, facts[r]) \in Provenances
      BY <2>1, ProvenanceType
    <3>2. /\ w \in TargetResults /\ w.candidate = ProvenanceV4(p, facts[r])
          /\ w.baseline = work[r].baseline
      BY <2>1, <3>1 DEF TargetResults
    <3>3. w.candidate.effective = "v4" /\ w.candidate # Absent
      <4>1. w.candidate # Absent
        BY <1>0, <3>1, <3>2
      <4>2. ProvenanceV4(p, facts[r]).effective = "v4"
        BY DEF ProvenanceV4
      <4>3. QED
        BY <3>2, <4>1, <4>2
    <3>4. ValidProvenance(ProvenanceV4(p, facts[r]))
      BY <2>1, RecordsAreValid
    <3>5. ValidProvenance(w.candidate)
      BY <3>2, <3>4
    <3>6. Told(w, {"v4"}) /\ ("v3" \in sent[r][cur[r]] <=> w.candidate.effective = "v3")
      BY <2>1, <3>3 DEF Told
    <3> HIDE DEF w
    <3>7. Accept(r, w, a)
      BY <2>3 DEF w
    <3>8. QED
      BY <1>0, <2>1, <2>3, <3>2, <3>3, <3>5, <3>6, <3>7, AcceptKeeps
  <2>4. ASSUME NEW a \in Answers, UNCHANGED sent,
               Fail(r, ProcessResponse(a, cur[r], EnvironmentFor(r, cur[r]))),
               ProcessResponse(a, cur[r], EnvironmentFor(r, cur[r])) # "accepted"
        PROVE  Good
    <3>1. ProcessResponse(a, cur[r], EnvironmentFor(r, cur[r])) \in Operations
      BY <2>4, VerdictIsOperation
    <3>2. QED
      BY <1>0, <2>1, <2>4, <3>1, FailKeeps DEF Stages
  <2>5. QED
    BY <1>6, <2>2, <2>3, <2>4 DEF AnswerV4
<1>7. ASSUME SendV3(r) PROVE Good
  <2> DEFINE p == policy[cur[r]]
  <2>1. /\ UNCHANGED config /\ pc[r] = "v3" /\ cur[r] \in Targets
        /\ work[r] \in TargetResults /\ work[r].candidate = Absent
        /\ IF p.api = "v3" THEN sent[r][cur[r]] = {}
           ELSE p.allowFallback /\ sent[r][cur[r]] = {"v4", "generic404"}
        /\ p \in AnyPolicy
    BY <1>0, <1>7, AtWork, PolicyIsOne DEF SendV3, RunInv, Way
  <2>2. CASE /\ Sends(r, "v3") /\ Goto(r, "v3sent")
             /\ UNCHANGED <<todo, cur, facts, work, results>>
    <3>1. pc'[r] = "v3sent" /\ \A q \in Runs \ {r} : pc'[q] = pc[q]
      BY <1>0, <2>2 DEF Goto, LocalOK
    <3>2. /\ sent'[r][cur[r]] = sent[r][cur[r]] \cup {"v3"}
          /\ \A t \in Targets \ {cur[r]} : sent'[r][t] = sent[r][t]
          /\ \A q \in Runs \ {r} : sent'[q] = sent[q]
      BY <1>0, <2>1, <2>2, SendsAt
    <3>3. Others(r)
      BY <2>2, <3>1, <3>2 DEF Others
    <3>4. Place(r)'
      BY <1>0, <2>1, <2>2, <3>1, <3>2 DEF RunInv, Place, Refusing, Compares, config, Stages
    <3>5. Way(r)'
      BY <1>0, <2>1, <2>2, <3>1, <3>2 DEF RunInv, Way, Refusing, Compares, config, Stages
    <3>6. Worth(r)'
      BY <1>0, <2>1, <2>2, <3>1, <3>2
         DEF RunInv, Worth, Place, Based, Compares, config, Stages, Ready
    <3>7. QED
      BY <2>1, <3>3, <3>4, <3>5, <3>6 DEF RunInv
  <2>3. CASE /\ EndTarget(r, WithError(Announced(work[r], p), "request_candidate_transport"))
             /\ UNCHANGED sent
    <3> DEFINE w == Announced(work[r], p)
               v == WithError(w, "request_candidate_transport")
    <3>1. /\ w \in TargetResults /\ w.candidate = Absent
          /\ w.baseline = work[r].baseline
      <4>1. w \in TargetResults  BY <2>1, AnnouncedType
      <4>2. w.candidate = work[r].candidate /\ w.baseline = work[r].baseline
        BY <2>1 DEF Announced, TargetResults
      <4> QED BY <2>1, <4>1, <4>2
    <3>2. "v3" \notin sent[r][cur[r]]
      BY <2>1
    <3>3. Told(w, sent[r][cur[r]])
      BY <3>1, <3>2 DEF Told
    <3> HIDE DEF w
    <3>4. /\ v \in TargetResults /\ v.baseline = work[r].baseline
          /\ Told(v, sent[r][cur[r]])
      BY <3>1, <3>3, WithErrorType, ErrorKeeps DEF Operations
    <3>5. Based(r, cur[r], work[r])
      BY <1>0, <2>1 DEF RunInv, Worth
    <3> HIDE DEF v
    <3>6. Based(r, cur[r], v) /\ EndTarget(r, v)
      BY <2>3, <3>4, <3>5 DEF Based, v, w
    <3>7. QED
      BY <1>0, <2>1, <2>3, <3>4, <3>6, EndTargetIsEnds, EndKeeps DEF Stages
  <2>4. QED
    BY <1>7, <2>2, <2>3 DEF SendV3
<1>8. ASSUME AnswerV3(r) PROVE Good
  <2> DEFINE p == policy[cur[r]]
             w == Attempted(work[r], p)
  <2>1. /\ UNCHANGED <<config, sent>> /\ pc[r] = "v3sent" /\ cur[r] \in Targets
        /\ work[r] \in TargetResults
        /\ IF p.api = "v3" THEN sent[r][cur[r]] = {"v3"}
           ELSE p.allowFallback /\ sent[r][cur[r]] = {"v4", "generic404", "v3"}
        /\ p \in AnyPolicy /\ p.api \in {"v3", "v4"}
    BY <1>0, <1>8, AtWork, PolicyIsOne DEF AnswerV3, RunInv, Way, AnyPolicy
  <2>2. /\ w \in TargetResults /\ w.baseline = work[r].baseline
        /\ w.candidate = ProvenanceV3(p, p.api = "v4")
        /\ w.diagnostics = Announced(work[r], p).diagnostics
        /\ ProvenanceV3(p, p.api = "v4") \in Provenances
    BY <2>1, AttemptedType DEF ProvenanceV3, Provenances, AnyPolicy
  <2>3. /\ w.candidate.effective = "v3" /\ (w.candidate.fellBack <=> p.api = "v4")
        /\ w.candidate # Absent /\ w.candidate \in Provenances
        /\ ValidProvenance(w.candidate)
    <3>1. facts[r] \in Factsets  BY <1>0, <2>1, AtWork
    <3>2. /\ ValidProvenance(w.candidate) /\ w.candidate.effective = "v3"
          /\ w.candidate.fellBack = (p.api = "v4")
      BY <2>1, <2>2, <3>1, RecordsAreValid
    <3> QED BY <1>0, <2>2, <3>2
  <2>4. p.api = "v4" =>
          \E i \in DOMAIN w.diagnostics :
            w.diagnostics[i] = Diagnosis("warning", "request_candidate")
    <3> DEFINE W == Diagnosis("warning", "request_candidate")
               D == [severity : {"warning", "error"}, operation : Operations]
    <3>1. work[r].diagnostics \in Seq(D) /\ W \in D
      BY <2>1 DEF TargetResults, Diagnosis, Operations
    <3>2. p.api = "v4" => w.diagnostics = Append(work[r].diagnostics, W)
      BY <2>1, <2>2 DEF Announced, TargetResults
    <3> HIDE DEF W, D
    <3>3. LET s == Append(work[r].diagnostics, W)
          IN  Len(s) \in DOMAIN s /\ s[Len(s)] = W
      BY <3>1
    <3>4. p.api = "v4" => \E i \in DOMAIN w.diagnostics : w.diagnostics[i] = W
      BY <3>2, <3>3
    <3>5. QED
      BY <3>4 DEF W
  <2> HIDE DEF w
  <2>5. Told(w, sent[r][cur[r]])
    BY <2>1, <2>3, <2>4 DEF Told
  <2>6. ASSUME NEW a \in Answers,
               ProcessResponse(a, cur[r], EnvironmentFor(r, cur[r])) = "accepted",
               Accept(r, w, a)
        PROVE  Good
    <3>1. "v3" \in sent[r][cur[r]] <=> w.candidate.effective = "v3"
      BY <2>1, <2>3
    <3>2. QED
      BY <1>0, <2>1, <2>2, <2>3, <2>5, <2>6, <3>1, AcceptKeeps
  <2>7. ASSUME NEW op \in Operations, EndTarget(r, WithError(w, op))
        PROVE  Good
    <3> DEFINE v == WithError(w, op)
    <3>1. v \in TargetResults /\ v.baseline = work[r].baseline /\ Told(v, sent[r][cur[r]])
      BY <2>2, <2>5, WithErrorType, ErrorKeeps
    <3>2. Based(r, cur[r], work[r])
      BY <1>0, <2>1 DEF RunInv, Worth
    <3> HIDE DEF v
    <3>3. Based(r, cur[r], v) /\ EndTarget(r, v)
      BY <2>7, <3>1, <3>2 DEF Based, v
    <3>4. QED
      BY <1>0, <2>1, <3>1, <3>3, EndTargetIsEnds, EndKeeps DEF Stages
  <2>8. QED
    BY <1>8, <2>6, <2>7, VerdictIsOperation DEF AnswerV3, w
<1>9. ASSUME Diff(r) PROVE Good
  <2>1. /\ UNCHANGED <<config, sent>> /\ pc[r] = "diff" /\ cur[r] \in Targets
        /\ work[r] \in TargetResults
    BY <1>0, <1>9, AtWork DEF Diff
  <2>2. CASE Fail(r, "normalize")
    BY <1>0, <2>1, <2>2, FailKeeps DEF Operations, Stages
  <2>3. ASSUME NEW d \in {"same", "different"}, NEW ds \in ContentDiagnostics,
               EndTarget(r, [work[r] EXCEPT !.nodeDiff = d,
                                            !.diagnostics = work[r].diagnostics \o ds])
        PROVE  Good
    <3> DEFINE w == [work[r] EXCEPT !.nodeDiff = d, !.diagnostics = work[r].diagnostics \o ds]
    <3>1. w \in TargetResults
      BY <2>1, DiffType
    <3>2. /\ w.baseline = work[r].baseline /\ w.candidate = work[r].candidate
          /\ w.diagnostics = work[r].diagnostics \o ds
      BY <2>1 DEF TargetResults
    <3> HIDE DEF w
    <3>3. /\ Told(work[r], sent[r][cur[r]]) /\ Based(r, cur[r], work[r])
      BY <1>0, <2>1 DEF RunInv, Worth, Stages
    <3>4. \A i \in DOMAIN work[r].diagnostics :
            i \in DOMAIN w.diagnostics /\ w.diagnostics[i] = work[r].diagnostics[i]
      <4> DEFINE D == [severity : {"warning", "error"}, operation : Operations]
      <4>1. work[r].diagnostics \in Seq(D)
        BY <2>1 DEF TargetResults
      <4>2. ds \in Seq(D)
        BY ContentType
      <4> HIDE DEF D
      <4>3. QED
        BY <3>2, <4>1, <4>2
    <3>5. Told(w, sent[r][cur[r]]) /\ Based(r, cur[r], w)
      BY <3>2, <3>3, <3>4 DEF Told, Based
    <3>6. EndTarget(r, w)
      BY <2>3 DEF w
    <3>7. QED
      BY <1>0, <2>1, <3>1, <3>5, <3>6, EndTargetIsEnds, EndKeeps DEF Stages
  <2>4. QED
    BY <1>9, <2>2, <2>3 DEF Diff
<1>10. ASSUME CaptureContent(r) PROVE Good
  <2>1. /\ UNCHANGED <<config, sent>> /\ pc[r] = "content" /\ cur[r] \in Targets
        /\ work[r] \in TargetResults
    BY <1>0, <1>10, AtWork DEF CaptureContent
  <2>2. CASE Fail(r, "verify_content")
    BY <1>0, <2>1, <2>2, FailKeeps DEF Operations, Stages
  <2>3. CASE Goto(r, "write") /\ UNCHANGED <<todo, cur, facts, work, results>>
    <3>1. pc'[r] = "write" /\ \A q \in Runs \ {r} : pc'[q] = pc[q]
      BY <1>0, <2>3 DEF Goto, LocalOK
    <3>2. Others(r)
      BY <2>1, <2>3, <3>1 DEF Others
    <3>3. Place(r)'
      BY <1>0, <2>1, <2>3, <3>1 DEF RunInv, Place, Refusing, Compares, config, Stages
    <3>4. Way(r)'
      BY <1>0, <2>1, <2>3, <3>1 DEF RunInv, Way, Refusing, Compares, config, Stages
    <3>5. Worth(r)'
      BY <1>0, <2>1, <2>3, <3>1
         DEF RunInv, Worth, Based, Compares, config, Stages, Ready, ServedBy
    <3>6. QED
      BY <2>1, <3>2, <3>3, <3>4, <3>5 DEF RunInv
  <2>4. QED
    BY <1>10, <2>2, <2>3 DEF CaptureContent
<1>11. ASSUME WriteCatalog(r) \/ WriteFacts(r) PROVE Good
  <2>1. /\ UNCHANGED <<config, sent>> /\ pc[r] = "write" /\ cur[r] \in Targets
        /\ work[r] \in TargetResults
    BY <1>0, <1>11, AtWork DEF WriteCatalog, WriteFacts
  <2>2. CASE Fail(r, "snapshot")
    BY <1>0, <2>1, <2>2, FailKeeps DEF Operations, Stages
  <2>3. CASE EndTarget(r, work[r])
    <3>1. Told(work[r], sent[r][cur[r]]) /\ Based(r, cur[r], work[r])
      BY <1>0, <2>1 DEF RunInv, Worth, Stages
    <3>2. QED
      BY <1>0, <2>1, <2>3, <3>1, EndTargetIsEnds, EndKeeps DEF Stages
  <2>4. QED
    BY <1>11, <2>2, <2>3 DEF WriteCatalog, WriteFacts
<1>12. ASSUME Report(r) \/ Kill(r) PROVE Good
  <2>1. /\ UNCHANGED <<config, todo, cur, facts, work, results, sent>>
        /\ \/ pc[r] = "next" /\ todo[r] = {} /\ pc' = [pc EXCEPT ![r] = "done"]
           \/ pc[r] \notin {"done", "killed"} /\ pc' = [pc EXCEPT ![r] = "killed"]
    BY <1>12 DEF Report, Kill, Goto
  <2>2. /\ \/ pc[r] = "next" /\ todo[r] = {} /\ pc'[r] = "done"
           \/ pc'[r] = "killed"
        /\ \A q \in Runs \ {r} : pc'[q] = pc[q]
    BY <1>0, <2>1 DEF LocalOK
  <2>3. Others(r)
    BY <2>1, <2>2 DEF Others
  <2>4. pc[r] = "next" => cur[r] = Absent
    BY <1>0 DEF LocalOK, AtTarget
  <2>5. Place(r)'
    BY <1>0, <2>1, <2>2, <2>4 DEF RunInv, Place, Refusing, Compares, config, Stages
  <2>6. Way(r)'
    BY <1>0, <2>1, <2>2 DEF RunInv, Way, Refusing, Compares, config, Stages
  <2>7. Worth(r)'
    BY <1>0, <2>1, <2>2 DEF RunInv, Worth, Based, Compares, config, Stages, Ready
  <2>8. QED
    BY <2>1, <2>3, <2>5, <2>6, <2>7 DEF RunInv
<1>13. QED
  BY <1>1, <1>2, <1>3, <1>4, <1>5, <1>6, <1>7, <1>8, <1>9, <1>10, <1>11, <1>12 DEF RunStep

-----------------------------------------------------------------------------
(* What compilations leave behind.                                         *)

\* Whatever moves, what a compile left was permitted to be left.
LEMMA TracesKeep ==
  ASSUME TypeInv, \A r \in Runs : RunInv(r), \A t \in Targets : Traces(t), [Next]_vars
  PROVE  \A t \in Targets : Traces(t)'
<1> DEFINE Good == \A t \in Targets : Traces(t)'
<1>1. ConfigOK /\ WorldOK /\ LocalOK /\ EndedOK
  BY TypeParts DEF TypeInv
<1>2. ASSUME UNCHANGED <<policy, puppetdb, factsFile>> PROVE Good
  BY <1>2 DEF Traces, puppetdb
<1>3. ASSUME NEW r \in Runs, SendV3(r) PROVE Good
  <2>1. /\ pc[r] = "v3" /\ cur[r] \in Targets
        /\ UNCHANGED <<policy, pdbFacts, pdbCatalog, factsFile>>
        /\ \A t \in Targets \ {cur[r]} :
             queuedFacts'[t] = queuedFacts[t] /\ queuedCatalogs'[t] = queuedCatalogs[t]
    BY <1>1, <1>3, AtWork DEF SendV3, WorldOK, config, files
  <2>2. PermitsV3(policy[cur[r]])
    BY <2>1 DEF RunInv, Way, PermitsV3
  <2>3. QED
    BY <2>1, <2>2 DEF Traces, PermitsV3
<1>4. ASSUME NEW r \in Runs, WriteFacts(r) PROVE Good
  <2>1. /\ pc[r] = "write" /\ cur[r] \in Targets /\ facts[r] \in Factsets
        /\ UNCHANGED <<policy, pdbFacts, pdbCatalog, queuedFacts, queuedCatalogs>>
    BY <1>1, <1>4, AtWork DEF WriteFacts, config, puppetdb
  <2>2. /\ \A t \in Targets \ {cur[r]} : factsFile'[t] = factsFile[t]
        /\ factsFile'[cur[r]] \in {factsFile[cur[r]], facts[r]}
    BY <1>1, <1>4, <2>1 DEF WriteFacts, WorldOK
  <2>3. facts[r].origin = "submitted" => PermitsV3(policy[cur[r]])
    BY <2>1, AbsentIsNothing DEF RunInv, Worth
  <2>4. ASSUME NEW t \in Targets PROVE Traces(t)'
    <3>1. CASE t = cur[r]
      BY <2>1, <2>2, <2>3, <3>1 DEF Traces, PermitsV3
    <3>2. CASE t # cur[r]
      BY <2>1, <2>2, <3>2 DEF Traces, PermitsV3
    <3>3. QED
      BY <3>1, <3>2
  <2>5. QED
    BY <2>4
<1>5. ASSUME World PROVE Good
  <2>1. ASSUME NEW t \in AgentTargets, AgentFacts(t) PROVE Good
    <3>1. /\ UNCHANGED <<policy, pdbCatalog, queuedFacts, queuedCatalogs, factsFile>>
          /\ \A u \in Targets : pdbFacts'[u] = pdbFacts[u] \/ pdbFacts'[u].origin = "agent"
      BY <1>1, <2>1 DEF AgentFacts, WorldOK, config, files
    <3>2. QED
      BY <3>1 DEF Traces, PermitsV3
  <2>2. ASSUME NEW t \in AgentTargets, AgentCatalog(t) PROVE Good
    <3>1. /\ UNCHANGED <<policy, pdbFacts, queuedFacts, queuedCatalogs, factsFile>>
          /\ \A u \in Targets : pdbCatalog'[u] = pdbCatalog[u] \/ pdbCatalog'[u].origin = "agent"
      BY <1>1, <2>2 DEF AgentCatalog, WorldOK, config, files
    <3>2. QED
      BY <3>1 DEF Traces, PermitsV3
  <2>3. ASSUME NEW t \in Targets, StoreFacts(t) PROVE Good
    <3>1. /\ UNCHANGED <<policy, pdbCatalog, queuedCatalogs, factsFile>>
          /\ queuedFacts[t] # {}
          /\ \A u \in Targets \ {t} :
               pdbFacts'[u] = pdbFacts[u] /\ queuedFacts'[u] = queuedFacts[u]
      BY <1>1, <2>3 DEF StoreFacts, WorldOK, config, files
    <3>2. QED
      BY <3>1 DEF Traces, PermitsV3
  <2>4. ASSUME NEW t \in Targets, StoreCatalog(t) PROVE Good
    <3>1. /\ UNCHANGED <<policy, pdbFacts, queuedFacts, factsFile>>
          /\ queuedCatalogs[t] # {}
          /\ \A u \in Targets \ {t} :
               pdbCatalog'[u] = pdbCatalog[u] /\ queuedCatalogs'[u] = queuedCatalogs[u]
      BY <1>1, <2>4 DEF StoreCatalog, WorldOK, config, files
    <3>2. QED
      BY <3>1 DEF Traces, PermitsV3
  <2>5. QED
    BY <1>5, <2>1, <2>2, <2>3, <2>4 DEF World
<1>6. ASSUME NEW r \in Runs, RunStep(r) \/ Kill(r), ~SendV3(r), ~WriteFacts(r) PROVE Good
  <2>1. UNCHANGED <<policy, puppetdb, factsFile>>
    BY <1>6 DEF RunStep, Kill, Start, BeginTarget, LoadFacts, LoadBaseline, RequestCandidate,
       AnswerV4, AnswerV3, Diff, CaptureContent, WriteCatalog, Report, config, files
  <2>2. QED
    BY <1>2, <2>1
<1>7. ASSUME UNCHANGED vars PROVE Good
  BY <1>2, <1>7 DEF vars, config, files
<1>8. QED
  BY <1>3, <1>4, <1>5, <1>6, <1>7 DEF Next

\* The only catalog a capture writes is one it knows the origin of.
LEMMA SnapshotKeeps ==
  ASSUME TypeInv, \A r \in Runs : RunInv(r), SnapshotTellsTruth, [Next]_vars
  PROVE  SnapshotTellsTruth'
<1>1. ConfigOK /\ WorldOK /\ LocalOK /\ EndedOK
  BY TypeParts DEF TypeInv
<1>2. CASE UNCHANGED catalogFile
  BY <1>2 DEF SnapshotTellsTruth
<1>3. ASSUME NEW r \in Runs, WriteCatalog(r), ~UNCHANGED catalogFile
      PROVE  SnapshotTellsTruth'
  <2>1. /\ pc[r] = "write" /\ invocation[r].command = "capture_catalog"
        /\ cur[r] \in Targets
        /\ catalogFile' = [catalogFile EXCEPT ![cur[r]] = CatalogSnapshot(r)]
    BY <1>1, <1>3, AtWork DEF WriteCatalog
  <2>2. ValidProvenance(work[r].candidate) /\ work[r].candidate.effective = ServedBy(r)
    BY <2>1 DEF RunInv, Worth, Ready
  <2>3. /\ CatalogSnapshot(r).record.effective = CatalogSnapshot(r).servedBy
        /\ ValidProvenance(CatalogSnapshot(r).record)
    BY <2>2 DEF CatalogSnapshot
  <2>4. ASSUME NEW t \in Targets, catalogFile'[t] # Absent
        PROVE  /\ catalogFile'[t].record.effective = catalogFile'[t].servedBy
               /\ ValidProvenance(catalogFile'[t].record)
    <3>1. CASE t = cur[r]
      BY <1>1, <2>1, <2>3, <3>1 DEF WorldOK
    <3>2. CASE t # cur[r]
      BY <1>1, <2>1, <2>4, <3>2 DEF WorldOK, SnapshotTellsTruth
    <3>3. QED
      BY <3>1, <3>2
  <2>5. QED
    BY <2>4 DEF SnapshotTellsTruth, ValidProvenance
<1>4. ASSUME NEW r \in Runs, RunStep(r) \/ Kill(r), ~WriteCatalog(r)
      PROVE  UNCHANGED catalogFile
  BY <1>4 DEF RunStep, Kill, Start, BeginTarget, LoadFacts, LoadBaseline, RequestCandidate,
     AnswerV4, SendV3, AnswerV3, Diff, CaptureContent, WriteFacts, Report, files
<1>5. World => UNCHANGED catalogFile
  BY DEF World, AgentFacts, AgentCatalog, StoreFacts, StoreCatalog, files
<1>6. UNCHANGED vars => UNCHANGED catalogFile
  BY DEF vars, files
<1>7. QED
  BY <1>2, <1>3, <1>4, <1>5, <1>6 DEF Next

-----------------------------------------------------------------------------
(* The invariant.                                                          *)

\* What earlier work left is of the right type.
LEMMA InitTypes == Init => TypeInv
<1> SUFFICES ASSUME Init PROVE TypeInv
  OBVIOUS
<1>1. PICK store \in [Targets -> InitialStores] :
        /\ pdbFacts = [t \in Targets |-> store[t].facts]
        /\ pdbCatalog = [t \in Targets |-> store[t].catalog]
        /\ factsFile = [t \in Targets |-> store[t].factsFile]
        /\ catalogFile = [t \in Targets |-> store[t].catalogFile]
  BY DEF Init
<1>2. ASSUME NEW t \in Targets
      PROVE  /\ store[t].facts \in {Absent} \cup Factsets
             /\ store[t].catalog \in {Absent} \cup Catalogs
             /\ store[t].factsFile \in {Absent} \cup Factsets
             /\ store[t].catalogFile \in {Absent} \cup CatalogSnapshots
  <2>1. store[t] \in Stores
    BY <1>1, <1>2, StoresAreEarlierWork
  <2>2. QED
    BY <2>1 DEF Stores, Factsets, Catalogs
<1>3. WorldOK
  BY <1>1, <1>2 DEF Init, WorldOK
<1>4. ConfigOK /\ EndedOK
  BY DEF Init, ConfigOK, EndedOK
<1>5. LocalOK
  BY DEF Init, LocalOK, Labels, AtTarget
<1>6. HoldsCandidate
  BY DEF Init, HoldsCandidate, Ready
<1>7. QED
  BY <1>3, <1>4, <1>5, <1>6, TypeParts DEF TypeInv

\* Before any command has begun, the invariant holds.
LEMMA InitKeeps == Init => RunsInv
<1> SUFFICES ASSUME Init PROVE RunsInv
  OBVIOUS
<1>1. TypeInv /\ Absent \notin Targets
  BY InitTypes, AbsentIsNothing
<1>2. ASSUME NEW r \in Runs PROVE Place(r) /\ Way(r) /\ Worth(r)
  <2>1. /\ pc[r] = "start" /\ todo[r] = Targets /\ cur[r] = Absent /\ facts[r] = Absent
        /\ \A t \in Targets : results[r][t] = Absent /\ sent[r][t] = {}
    BY <1>2 DEF Init
  <2>2. Place(r)
    BY <1>1, <2>1 DEF Place, Stages
  <2>3. Way(r)
    BY <2>1 DEF Way, Stages
  <2>4. Worth(r)
    BY <2>1 DEF Worth, Stages, Ready
  <2>5. QED
    BY <2>2, <2>3, <2>4
<1>3. PICK store \in [Targets -> InitialStores] :
        /\ pdbFacts = [t \in Targets |-> store[t].facts]
        /\ pdbCatalog = [t \in Targets |-> store[t].catalog]
        /\ factsFile = [t \in Targets |-> store[t].factsFile]
        /\ catalogFile = [t \in Targets |-> store[t].catalogFile]
  BY DEF Init
<1>4. ASSUME NEW t \in Targets
      PROVE  /\ store[t].facts # Absent => store[t].facts.origin = "agent"
             /\ store[t].catalog # Absent => store[t].catalog.origin = "agent"
             /\ store[t].factsFile # Absent => store[t].factsFile.origin = "agent"
             /\ store[t].catalogFile # Absent =>
                  /\ store[t].catalogFile.record.effective = store[t].catalogFile.servedBy
                  /\ ValidProvenance(store[t].catalogFile.record)
  <2>1. store[t] \in Stores
    BY <1>3, <1>4, StoresAreEarlierWork
  <2>2. QED
    BY <2>1 DEF Stores
<1>5. \A t \in Targets : Traces(t)
  BY <1>3, <1>4 DEF Init, Traces
<1>6. SnapshotTellsTruth
  BY <1>3, <1>4 DEF SnapshotTellsTruth
<1>7. QED
  BY <1>1, <1>2, <1>5, <1>6 DEF RunsInv

\* Every step keeps it: the acting run by its own case, the others untouched.
LEMMA StepKeeps == RunsInv /\ [Next]_vars => RunsInv'
<1> SUFFICES ASSUME RunsInv, [Next]_vars PROVE RunsInv'
  OBVIOUS
<1>1. TypeInv /\ SnapshotTellsTruth /\ \A t \in Targets : Traces(t)
  BY DEF RunsInv
<1>2. \A r \in Runs : RunInv(r)
  BY DEF RunsInv, RunInv
<1>3. TypeInv'
  BY <1>1, TypeStep
<1>4. \A t \in Targets : Traces(t)'
  BY <1>1, <1>2, TracesKeep
<1>5. SnapshotTellsTruth'
  BY <1>1, <1>2, SnapshotKeeps
<1>6. ASSUME NEW q \in Runs PROVE RunInv(q)'
  <2>1. ASSUME NEW r \in Runs, RunStep(r) \/ Kill(r) PROVE RunInv(q)'
    <3>1. RunInv(r)' /\ Others(r) /\ UNCHANGED config
      BY <1>1, <1>2, <2>1, RunStepKeeps
    <3>2. QED
      BY <1>2, <1>6, <3>1, UntouchedKeeps DEF Others
  <2>2. CASE World \/ UNCHANGED vars
    <3>1. UNCHANGED <<config, local, sent>>
      BY <2>2 DEF World, AgentFacts, AgentCatalog, StoreFacts, StoreCatalog, vars
    <3>2. QED
      BY <1>2, <1>6, <3>1, UntouchedKeeps DEF local
  <2>3. QED
    BY <2>1, <2>2 DEF Next
<1>7. QED
  BY <1>3, <1>4, <1>5, <1>6 DEF RunsInv, RunInv

\* The inductive invariant of any number of commands on one target file.
THEOREM RunsInvariant == Spec => []RunsInv
<1>1. Init => RunsInv
  BY InitKeeps
<1>2. RunsInv /\ [Next]_vars => RunsInv'
  BY StepKeeps
<1>3. QED
  BY <1>1, <1>2, PTL DEF Spec

-----------------------------------------------------------------------------
(* What it is for.                                                         *)

\* Every variable keeps its type, whatever PIACE commands, agents and PuppetDB
\* do in whatever order: the inductive part that RunsInv starts from.
THEOREM TypesAreKept == Spec => []TypeOK
<1>1. RunsInv => TypeOK
  BY DEF RunsInv, TypeInv
<1>2. QED
  BY <1>1, RunsInvariant, PTL

\* A catalog PIACE had compiled never becomes a PuppetDB baseline, for any
\* number of targets, commands and agents (ValidateComparisonTargets): Based,
\* with Traces for where such a catalog can be, and Way for the refusal.
THEOREM BaselinesAreAgents == Spec => []BaselineIsAgents
<1>1. RunsInv => BaselineIsAgents
  BY DEF RunsInv, Worth, Based, BaselineIsAgents
<1>2. QED
  BY <1>1, RunsInvariant, PTL

\* A v3 request shows in the result of its target, also when it failed, and
\* with the warning when v4 was asked for first (Service.requestV3).
THEOREM V3IsTold == Spec => []V3NeverHidden
<1>1. RunsInv => V3NeverHidden
  BY DEF RunsInv, Worth, Told, V3NeverHidden
<1>2. QED
  BY <1>1, RunsInvariant, PTL

\* A v3 request follows the policy, and for a fallback the generic 404 of this
\* target's own v4 request (RequestCandidate, isFallbackEligibleV4).
THEOREM V3IsPermitted == Spec => []V3OnlyWhenPermitted
<1>1. RunsInv => V3OnlyWhenPermitted
  BY DEF RunsInv, Worth, V3OnlyWhenPermitted
<1>2. QED
  BY <1>1, RunsInvariant, PTL

\* No comparison asks for a compilation before it has a baseline of the
\* configured environment (executeTarget).
THEOREM CompilesHaveBaselines == Spec => []NoCompileWithoutBaseline
<1>1. RunsInv => NoCompileWithoutBaseline
  <2> SUFFICES ASSUME RunsInv, NEW r \in Runs, NEW t \in Targets,
                      Compares(r), sent[r][t] # {}
               PROVE  LET w == IF cur[r] = t THEN work[r] ELSE results[r][t] IN
                      w # Absent /\ w.baseline # Absent
                        /\ w.baseline.env = policy[t].baselineEnv
    BY DEF NoCompileWithoutBaseline
  <2>1. Place(r) /\ Worth(r) /\ Absent \notin Targets /\ Absent \notin TargetResults
    BY AbsentIsNothing, AbsentIsNoResult DEF RunsInv
  <2>2. CASE cur[r] = t
    BY <2>1, <2>2 DEF Place, Worth, Based
  <2>3. CASE cur[r] # t
    BY <2>1, <2>3 DEF Place, Worth, Based
  <2>4. QED
    BY <2>2, <2>3
<1>2. QED
  BY <1>1, RunsInvariant, PTL

\* A catalog snapshot never misreports which endpoint compiled it: RunsInv
\* carries it, as what is on disk outlives the run that wrote it.
THEOREM SnapshotsTellTruth == Spec => []SnapshotTellsTruth
<1>1. RunsInv => SnapshotTellsTruth
  BY DEF RunsInv
<1>2. QED
  BY <1>1, RunsInvariant, PTL

\* snapshot.Validate never refuses what a capture compiled: HoldsCandidate for
\* the target and the environment, Worth for the provenance.
THEOREM CapturesFit == Spec => []CaptureFitsValidation
<1>1. RunsInv => CaptureFitsValidation
  BY DEF RunsInv, TypeInv, HoldsCandidate, Worth, Ready, CaptureFitsValidation, ValidSnapshot
<1>2. QED
  BY <1>1, RunsInvariant, PTL

\* Facts a v3 compile submitted reach a fact snapshot only where the target
\* file lets requests end at v3 (Traces).
THEOREM FactsAreAgents == Spec => []FactsNotRecycled
<1>1. RunsInv => FactsNotRecycled
  <2> SUFFICES ASSUME RunsInv, NEW t \in Targets, factsFile[t] # Absent, ~PermitsV3(policy[t])
               PROVE  factsFile[t].origin = "agent"
    BY DEF FactsNotRecycled
  <2>1. Traces(t) /\ factsFile[t] \in Factsets
    BY DEF RunsInv, TypeInv, TypeOK
  <2>2. QED
    BY <2>1 DEF Traces, Factsets
<1>2. QED
  BY <1>1, RunsInvariant, PTL

\* A run that was not refused and ends by itself has reported every target,
\* however many there are and whatever failed (the loops of compare and
\* capture): Place.
THEOREM TargetsAreReported == Spec => []EveryTargetReported
<1>1. RunsInv => EveryTargetReported
  BY DEF RunsInv, Place, Refusing, EveryTargetReported
<1>2. QED
  BY <1>1, RunsInvariant, PTL

-----------------------------------------------------------------------------
(* What exit code 0 of a comparison is worth.                              *)

\* A target that a comparison compared had a baseline of the configured
\* environment and the catalog it asked for; its result carries its policy.
Compared(r, t, w) ==
  /\ w.failOnDiff = policy[t].failOnDiff
  /\ w.nodeDiff # "nil" =>
       /\ w.baseline # Absent /\ w.baseline.env = policy[t].baselineEnv
       /\ w.compiled = [name |-> t, env |-> EnvironmentFor(r, t)]

\* A comparison has compared nothing of the target at hand before its last
\* step there, and exits 0 only when the class of each target allows it.
Verdict(r) ==
  Compares(r) =>
    /\ cur[r] # Absent => /\ work[r].nodeDiff = "nil"
                          /\ work[r].failOnDiff = policy[cur[r]].failOnDiff
    /\ \A t \in Targets : results[r][t] # Absent => Compared(r, t, results[r][t])
    /\ (pc[r] = "done" /\ exit[r] = 0) =>
         \A t \in Targets : results[r][t] # Absent
                              /\ ClassifyOutcome(results[r][t]) \in Allowed

OutcomeOK == outcome \in [Runs -> Outcomes \cup {"none"}]

\* RunsInv, and that.
VerdictInv == RunsInv /\ OutcomeOK /\ \A r \in Runs : Verdict(r)

\* The report lists every target once, in some order.
LEMMA Listed ==
  LET order == SetToSeq(Targets) IN
  /\ Len(order) \in Nat /\ DOMAIN order = 1 .. Len(order)
  /\ \A i \in DOMAIN order : order[i] \in Targets
  /\ \A t \in Targets : \E i \in DOMAIN order : order[i] = t
<1> DEFINE n == Cardinality(Targets)
           order == SetToSeq(Targets)
<1>1. n \in Nat /\ ExistsBijection(1 .. n, Targets)
  BY TargetsAreFinite, FS_CardinalityType
<1>2. \E f \in [1 .. n -> Targets] : IsInjective(f)
  BY <1>1 DEF ExistsBijection, Bijection, Injection
<1>3. order \in [1 .. n -> Targets] /\ IsInjective(order)
  BY <1>2 DEF SetToSeq
<1> HIDE DEF order
<1>4. order \in Injection(1 .. n, Targets)
  BY <1>3 DEF Injection
<1>5. IsFiniteSet(1 .. n) /\ Cardinality(1 .. n) = n
  BY <1>1, FS_Interval
<1>6. order \in Surjection(1 .. n, Targets)
  BY <1>4, <1>5, TargetsAreFinite, FS_Injection
<1>7. Len(order) = n
  BY <1>1, <1>3
<1> HIDE DEF n
<1> QED
  BY <1>1, <1>3, <1>6, <1>7 DEF Surjection, order

\* A target's end, with a result that says what it compared, leaves the run
\* with nothing in hand.
LEMMA EndVerdict ==
  ASSUME ConfigOK, LocalOK, EndedOK, NEW r \in Runs, Verdict(r), UNCHANGED <<config, sent>>,
         cur[r] \in Targets, NEW w, Compares(r) => Compared(r, cur[r], w), EndTarget(r, w)
  PROVE  Verdict(r)'
<1>1. Ends(r, w)
  BY EndTargetIsEnds
<1>2. policy' = policy /\ invocation' = invocation
  BY DEF config
<1>3. \A t \in Targets : Compares(r) /\ results'[r][t] # Absent => Compared(r, t, results'[r][t])
  BY <1>1 DEF Ends, Verdict
<1> QED
  BY <1>1, <1>2, <1>3 DEF Ends, Verdict, Compared, Compares, EnvironmentFor

\* A result in hand that has compared nothing says nothing false, and an error
\* does not change that.
LEMMA FailVerdict ==
  ASSUME ConfigOK, LocalOK, EndedOK, NEW r \in Runs, Verdict(r), UNCHANGED <<config, sent>>,
         cur[r] \in Targets, NEW w, NEW op, EndTarget(r, WithError(w, op)),
         w \in TargetResults, w.nodeDiff = work[r].nodeDiff, w.failOnDiff = work[r].failOnDiff
  PROVE  Verdict(r)'
<1>1. WithError(w, op).nodeDiff = w.nodeDiff /\ WithError(w, op).failOnDiff = w.failOnDiff
  BY DEF WithError, TargetResults
<1>2. cur[r] # Absent
  BY AbsentIsNothing
<1>3. Compares(r) => Compared(r, cur[r], WithError(w, op))
  BY <1>1, <1>2 DEF Verdict, Compared
<1> QED
  BY <1>3, EndVerdict

\* Going on with the target at hand changes none of this.
LEMMA OnwardVerdict ==
  ASSUME NEW r \in Runs, Verdict(r), UNCHANGED <<config, cur, results, exit>>, pc'[r] # "done",
         cur[r] # Absent => /\ work'[r].nodeDiff = work[r].nodeDiff
                            /\ work'[r].failOnDiff = work[r].failOnDiff
  PROVE  Verdict(r)'
BY DEF Verdict, Compared, Compares, EnvironmentFor, config

\* Nor does a step of another run, or of the world.
LEMMA UntouchedVerdict ==
  ASSUME NEW q \in Runs, UNCHANGED config, Verdict(q), pc'[q] = pc[q], cur'[q] = cur[q],
         work'[q] = work[q], results'[q] = results[q], exit'[q] = exit[q]
  PROVE  Verdict(q)'
BY DEF Verdict, Compared, Compares, EnvironmentFor, config

\* What the report comes to: exit code 0 of a comparison whose targets all
\* have a result is the class of each of them, and no error of its own.
LEMMA ReportVerdict ==
  ASSUME LocalOK, EndedOK, OutcomeOK, NEW r \in Runs, Verdict(r), Report(r), Compares(r),
         \A t \in Targets : results[r][t] \in TargetResults
  PROVE  Verdict(r)' /\ OutcomeOK'
<1> DEFINE order == SetToSeq(Targets)
           list == ResultList(r)
<1>1. /\ Len(order) \in Nat /\ DOMAIN order = 1 .. Len(order)
      /\ \A i \in DOMAIN order : order[i] \in Targets
      /\ \A t \in Targets : \E i \in DOMAIN order : order[i] = t
  BY Listed
<1>2. /\ DOMAIN list = DOMAIN order
      /\ \A i \in DOMAIN order : list[i] = results[r][order[i]]
  BY DEF ResultList
<1>3. Len(list) = Len(order)
  <2>1. list = [i \in 1 .. Len(order) |-> results[r][order[i]]]
    BY <1>1 DEF ResultList
  <2> HIDE DEF order, list
  <2> QED
    BY <1>1, <2>1
<1>4. PICK ds \in {<<>>, <<Diagnosis("error", "estimate_impact")>>} :
        /\ outcome' = [outcome EXCEPT ![r] = Finalize(list, ds)]
        /\ exit' = [exit EXCEPT ![r] = ForOutcome(outcome'[r])]
  BY DEF Report
<1> HIDE DEF order, list
<1>5. Len(ds) \in Nat
  OBVIOUS
<1>6. \A w \in TargetResults : Len(w.diagnostics) \in Nat /\ w.nodeDiff \in NodeDiffs
  BY DEF TargetResults
<1>7. \A w \in TargetResults : ClassifyOutcome(w) \in Outcomes
  BY <1>6, AllowedTargets
<1>8. /\ Len(list) \in Nat /\ DOMAIN list = 1 .. Len(list)
      /\ \A i \in DOMAIN list : ClassifyOutcome(list[i]) \in Outcomes
  BY <1>1, <1>2, <1>3, <1>7
<1>9. ForOutcome(Finalize(list, ds)) = 0 =>
        \A i \in DOMAIN list : ClassifyOutcome(list[i]) \in Allowed
  BY <1>5, <1>8, ZeroMeansAllowed
<1>10. Finalize(list, ds) \in Outcomes
  BY <1>5, <1>8, FinalizedIsOutcome
<1>11. outcome' \in [Runs -> Outcomes \cup {"none"}] /\ outcome'[r] = Finalize(list, ds)
  BY <1>4, <1>10 DEF OutcomeOK
<1>12. exit'[r] = 0 => \A t \in Targets : ClassifyOutcome(results[r][t]) \in Allowed
  BY <1>1, <1>2, <1>4, <1>9, <1>11 DEF EndedOK
<1>13. UNCHANGED <<config, cur, work, results>>
  BY DEF Report
<1> QED
  BY <1>11, <1>12, <1>13, AbsentIsNoResult
     DEF Verdict, Compared, Compares, EnvironmentFor, config, OutcomeOK

\* Each step of a run keeps what its own results say.
LEMMA RunStepVerdict ==
  ASSUME RunsInv, OutcomeOK, NEW r \in Runs, Verdict(r), RunStep(r) \/ Kill(r)
  PROVE  Verdict(r)'
<1>0. /\ ConfigOK /\ WorldOK /\ LocalOK /\ EndedOK /\ HoldsCandidate
      /\ Place(r) /\ Way(r) /\ Worth(r)
      /\ Absent \notin Targets /\ Absent \notin Provenances /\ Absent \notin TargetResults
  BY TypeParts, AbsentIsNothing, AbsentIsNoResult DEF RunsInv, TypeInv
<1> USE <1>0
<1>1. ASSUME Start(r) PROVE Verdict(r)'
  <2>1. /\ UNCHANGED <<config, cur, work, results>> /\ cur[r] = Absent
        /\ \/ pc'[r] = "done" /\ exit'[r] = 30
           \/ pc'[r] = "next"
    BY <1>1 DEF Start, Goto, LocalOK, AtTarget, EndedOK
  <2> QED
    BY <2>1 DEF Verdict, Compared, Compares, EnvironmentFor, config
<1>2. ASSUME NEW t \in Targets, BeginTarget(r, t) PROVE Verdict(r)'
  <2>1. UNCHANGED config /\ pc[r] = "next" /\ exit' = exit
    BY <1>2 DEF BeginTarget, ended
  <2>2. CASE Compares(r)
    <3>1. ~Skips(r, t)
      BY <2>2 DEF Skips, Compares
    <3>2. /\ pc'[r] = "facts" /\ cur'[r] = t /\ work'[r] = EmptyResult(t) /\ results' = results
      BY <1>2, <3>1 DEF BeginTarget, Goto, Set, LocalOK
    <3>3. EmptyResult(t).nodeDiff = "nil" /\ EmptyResult(t).failOnDiff = policy[t].failOnDiff
      BY DEF EmptyResult
    <3> QED
      BY <2>1, <3>2, <3>3 DEF Verdict, Compared, Compares, EnvironmentFor, config
  <2>3. CASE ~Compares(r)
    BY <2>1, <2>3 DEF Verdict, Compares, config
  <2> QED
    BY <2>2, <2>3
<1>3. ASSUME NEW op, Fail(r, op), UNCHANGED <<config, sent>>, pc[r] \in Stages PROVE Verdict(r)'
  <2>1. cur[r] \in Targets /\ work[r] \in TargetResults
    BY <1>3, AtWork DEF Stages
  <2> QED
    BY <1>3, <2>1, FailVerdict DEF Fail
<1>4. ASSUME NEW l, l # "done", Goto(r, l), UNCHANGED <<config, cur, work, results, exit>>
      PROVE  Verdict(r)'
  <2>1. pc'[r] # "done"
    BY <1>4 DEF Goto, LocalOK
  <2> QED
    BY <1>4, <2>1, OnwardVerdict
<1>5. CASE LoadFacts(r)
  <2>1. UNCHANGED <<config, sent>> /\ exit' = exit /\ pc[r] \in Stages
    BY <1>5 DEF LoadFacts, ended, Stages
  <2>2. \/ Fail(r, "load_facts")
        \/ \E l \in {"baseline", "compile", "write"} : Goto(r, l) /\ UNCHANGED <<cur, work, results>>
    BY <1>5 DEF LoadFacts
  <2> QED
    BY <1>3, <1>4, <2>1, <2>2
<1>6. ASSUME LoadBaseline(r) PROVE Verdict(r)'
  <2> DEFINE w == [work[r] EXCEPT !.baseline = BaselineFor(cur[r])]
  <2>1. /\ UNCHANGED <<config, sent>> /\ exit' = exit /\ pc[r] = "baseline"
        /\ cur[r] \in Targets /\ work[r] \in TargetResults
    BY <1>6, AtWork DEF LoadBaseline, ended
  <2>2. CASE Fail(r, "load_baseline")
    BY <1>3, <2>1, <2>2 DEF Stages
  <2>3. CASE Usable(cur[r]) /\ EndTarget(r, WithError(w, "normalize"))
    <3>1. /\ w \in TargetResults
          /\ w.nodeDiff = work[r].nodeDiff /\ w.failOnDiff = work[r].failOnDiff
      BY <2>1, <2>3 DEF TargetResults, Usable, BaselineFor, WorldOK
    <3> HIDE DEF w
    <3> QED
      BY <2>1, <2>3, <3>1, FailVerdict
  <2>4. CASE /\ Set(r, w) /\ Goto(r, "compile")
             /\ UNCHANGED <<todo, cur, facts, results>>
    <3>1. work'[r].nodeDiff = work[r].nodeDiff /\ work'[r].failOnDiff = work[r].failOnDiff
      BY <2>1, <2>4 DEF Set, LocalOK, TargetResults
    <3>2. pc'[r] # "done"
      BY <2>4 DEF Goto, LocalOK
    <3> QED
      BY <2>1, <2>4, <3>1, <3>2, OnwardVerdict
  <2> QED
    BY <1>6, <2>2, <2>3, <2>4 DEF LoadBaseline
<1>7. ASSUME RequestCandidate(r) PROVE Verdict(r)'
  <2>1. UNCHANGED config /\ exit' = exit /\ pc[r] \in Stages
    BY <1>7 DEF RequestCandidate, ended, Stages
  <2>2. \/ \E op \in Operations : Fail(r, op) /\ UNCHANGED sent
        \/ \E l \in {"v3", "v4"} : Goto(r, l) /\ UNCHANGED <<cur, work, results>>
    BY <1>7 DEF RequestCandidate, Operations
  <2> QED
    BY <1>3, <1>4, <2>1, <2>2
<1>8. ASSUME NEW w \in TargetResults, NEW a, Accept(r, w, a), UNCHANGED <<config, exit>>,
             w.nodeDiff = work[r].nodeDiff, w.failOnDiff = work[r].failOnDiff
      PROVE  Verdict(r)'
  <2> DEFINE v == [w EXCEPT !.compiled = [name |-> a.name, env |-> a.env]]
  <2>1. v.nodeDiff = w.nodeDiff /\ v.failOnDiff = w.failOnDiff
    BY DEF TargetResults
  <2>2. work'[r] = v
    BY <1>8 DEF Accept, Set, LocalOK
  <2>3. pc'[r] # "done" /\ UNCHANGED <<cur, results>>
    BY <1>8 DEF Accept, Goto, LocalOK
  <2> HIDE DEF v
  <2> QED
    BY <1>8, <2>1, <2>2, <2>3, OnwardVerdict
<1>9. ASSUME AnswerV4(r) PROVE Verdict(r)'
  <2> DEFINE p == policy[cur[r]]
             w == [work[r] EXCEPT !.candidate = ProvenanceV4(p, facts[r])]
  <2>1. /\ UNCHANGED config /\ exit' = exit /\ pc[r] = "v4" /\ cur[r] \in Targets
        /\ work[r] \in TargetResults /\ p \in AnyPolicy
    BY <1>9, AtWork, PolicyIsOne DEF AnswerV4, ended
  <2>2. w \in TargetResults /\ w.nodeDiff = work[r].nodeDiff /\ w.failOnDiff = work[r].failOnDiff
    <3>1. ProvenanceV4(p, facts[r]) \in Provenances
      BY <2>1, AtWork, ProvenanceType DEF Way
    <3> QED
      BY <2>1, <3>1 DEF TargetResults
  <2>3. \/ Goto(r, "v3") /\ UNCHANGED <<cur, work, results>>
        \/ \E a \in Answers : Accept(r, w, a)
        \/ \E op : Fail(r, op) /\ UNCHANGED sent
    BY <1>9 DEF AnswerV4
  <2> HIDE DEF w
  <2> QED
    BY <1>3, <1>4, <1>8, <2>1, <2>2, <2>3 DEF Stages
<1>10. ASSUME SendV3(r) PROVE Verdict(r)'
  <2> DEFINE w == Announced(work[r], policy[cur[r]])
  <2>1. /\ UNCHANGED config /\ exit' = exit /\ pc[r] = "v3" /\ cur[r] \in Targets
        /\ work[r] \in TargetResults /\ policy[cur[r]] \in AnyPolicy
    BY <1>10, AtWork, PolicyIsOne DEF SendV3, ended
  <2>2. w \in TargetResults /\ w.nodeDiff = work[r].nodeDiff /\ w.failOnDiff = work[r].failOnDiff
    BY <2>1, AnnouncedType DEF Announced, TargetResults
  <2>3. \/ Goto(r, "v3sent") /\ UNCHANGED <<cur, work, results>>
        \/ EndTarget(r, WithError(w, "request_candidate_transport")) /\ UNCHANGED sent
    BY <1>10 DEF SendV3
  <2> HIDE DEF w
  <2> QED
    BY <1>4, <2>1, <2>2, <2>3, FailVerdict
<1>11. ASSUME AnswerV3(r) PROVE Verdict(r)'
  <2> DEFINE w == Attempted(work[r], policy[cur[r]])
  <2>1. /\ UNCHANGED <<config, sent>> /\ exit' = exit /\ pc[r] = "v3sent" /\ cur[r] \in Targets
        /\ work[r] \in TargetResults /\ policy[cur[r]] \in AnyPolicy
    BY <1>11, AtWork, PolicyIsOne DEF AnswerV3, ended
  <2>2. w \in TargetResults /\ w.nodeDiff = work[r].nodeDiff /\ w.failOnDiff = work[r].failOnDiff
    BY <2>1, AttemptedType DEF Attempted, Announced, TargetResults
  <2>3. \/ \E a \in Answers : Accept(r, w, a)
        \/ \E op : EndTarget(r, WithError(w, op))
    BY <1>11 DEF AnswerV3
  <2> HIDE DEF w
  <2> QED
    BY <1>8, <2>1, <2>2, <2>3, FailVerdict
<1>12. ASSUME Diff(r) PROVE Verdict(r)'
  <2>1. /\ UNCHANGED <<config, sent>> /\ exit' = exit /\ pc[r] = "diff" /\ cur[r] \in Targets
        /\ work[r] \in TargetResults
    BY <1>12, AtWork DEF Diff, ended
  <2>2. CASE Fail(r, "normalize")
    BY <1>3, <2>1, <2>2 DEF Stages
  <2>3. ASSUME NEW d \in {"same", "different"}, NEW ds \in ContentDiagnostics,
               EndTarget(r, [work[r] EXCEPT !.nodeDiff = d, !.diagnostics = @ \o ds])
        PROVE  Verdict(r)'
    <3> DEFINE w == [work[r] EXCEPT !.nodeDiff = d, !.diagnostics = @ \o ds]
    <3>1. /\ w.failOnDiff = work[r].failOnDiff /\ w.baseline = work[r].baseline
          /\ w.compiled = work[r].compiled
      BY <2>1 DEF TargetResults
    <3>2. work[r].compiled = [name |-> cur[r], env |-> EnvironmentFor(r, cur[r])]
      BY <2>1 DEF HoldsCandidate, Ready
    <3>3. sent[r][cur[r]] # {}
      <4>1. /\ work[r].candidate \in Provenances /\ work[r].candidate.effective = ServedBy(r)
            /\ Told(work[r], sent[r][cur[r]])
        BY <2>1 DEF HoldsCandidate, Ready, Worth, Stages
      <4> QED
        BY <4>1 DEF Told, ServedBy
    <3>4. Compares(r) => /\ work[r].failOnDiff = policy[cur[r]].failOnDiff
                         /\ work[r].baseline # Absent
                         /\ work[r].baseline.env = policy[cur[r]].baselineEnv
      BY <2>1, <3>3 DEF Verdict, Worth, Based
    <3> HIDE DEF w
    <3>5. Compares(r) => Compared(r, cur[r], w)
      BY <3>1, <3>2, <3>4 DEF Compared
    <3>6. EndTarget(r, w)
      BY <2>3 DEF w
    <3> QED
      BY <2>1, <3>5, <3>6, EndVerdict
  <2> QED
    BY <1>12, <2>2, <2>3 DEF Diff
<1>13. ASSUME CaptureContent(r) \/ WriteCatalog(r) \/ WriteFacts(r) PROVE Verdict(r)'
  <2>1. UNCHANGED <<config, sent>> /\ exit' = exit /\ pc[r] \in Stages
    BY <1>13 DEF CaptureContent, WriteCatalog, WriteFacts, ended, Stages
  <2>2. \/ \E op \in {"verify_content", "snapshot"} : Fail(r, op)
        \/ Goto(r, "write") /\ UNCHANGED <<cur, work, results>>
        \/ ~Compares(r)
    BY <1>13 DEF CaptureContent, WriteCatalog, WriteFacts, Compares
  <2>3. ~Compares(r) => Verdict(r)'
    BY <2>1 DEF Verdict, Compares, config
  <2> QED
    BY <1>3, <1>4, <2>1, <2>2, <2>3
<1>14. ASSUME Report(r) PROVE Verdict(r)'
  <2>1. pc[r] = "next" /\ todo[r] = {} /\ cur[r] = Absent /\ UNCHANGED config
    BY <1>14 DEF Report, LocalOK, AtTarget
  <2>2. \A t \in Targets : results[r][t] \in TargetResults
    <3>1. \A t \in Targets : results[r][t] # Absent
      BY <2>1 DEF Place
    <3> QED
      BY <3>1 DEF LocalOK
  <2>3. CASE Compares(r)
    BY <1>14, <2>2, <2>3, ReportVerdict
  <2>4. CASE ~Compares(r)
    BY <2>1, <2>4 DEF Verdict, Compares, config
  <2> QED
    BY <2>3, <2>4
<1>15. ASSUME Kill(r) PROVE Verdict(r)'
  BY <1>4, <1>15 DEF Kill, ended
<1> QED
  BY <1>1, <1>2, <1>5, <1>6, <1>7, <1>9, <1>10, <1>11, <1>12, <1>13, <1>14, <1>15 DEF RunStep

\* A run's steps leave the exit code of every other run alone.
LEMMA OthersExit ==
  ASSUME EndedOK, NEW r \in Runs, RunStep(r) \/ Kill(r)
  PROVE  \A q \in Runs \ {r} : exit'[q] = exit[q]
BY DEF EndedOK, ended, RunStep, Kill, Start, BeginTarget, LoadFacts, LoadBaseline,
       RequestCandidate, AnswerV4, SendV3, AnswerV3, Diff, CaptureContent, WriteCatalog,
       WriteFacts, Report

\* The outcome of a run is a class, once there is one.
LEMMA OutcomeType ==
  ASSUME RunsInv, OutcomeOK, NEW r \in Runs, Verdict(r), RunStep(r) \/ Kill(r)
  PROVE  OutcomeOK'
<1>1. CASE Report(r) /\ Compares(r)
  <2>1. LocalOK /\ EndedOK /\ Place(r)
    BY TypeParts DEF RunsInv, TypeInv
  <2>2. pc[r] = "next" /\ todo[r] = {} /\ cur[r] = Absent
    BY <1>1, <2>1 DEF Report, LocalOK, AtTarget
  <2>3. \A t \in Targets : results[r][t] \in TargetResults
    <3>1. \A t \in Targets : results[r][t] # Absent
      BY <2>1, <2>2, AbsentIsNothing DEF Place
    <3> QED
      BY <2>1, <3>1 DEF LocalOK
  <2> QED
    BY <1>1, <2>1, <2>3, ReportVerdict
<1>2. CASE Start(r)
  BY <1>2 DEF OutcomeOK, Start, Outcomes, ended
<1>3. CASE Report(r) /\ ~Compares(r)
  BY <1>3 DEF OutcomeOK, Report
<1>4. CASE ~Start(r) /\ ~Report(r)
  BY <1>4 DEF OutcomeOK, ended, RunStep, Kill, BeginTarget, LoadFacts, LoadBaseline,
       RequestCandidate, AnswerV4, SendV3, AnswerV3, Diff, CaptureContent, WriteCatalog,
       WriteFacts
<1> QED
  BY <1>1, <1>2, <1>3, <1>4

\* VerdictInv is inductive.
LEMMA VerdictStep == VerdictInv /\ [Next]_vars => VerdictInv'
<1> SUFFICES ASSUME VerdictInv, [Next]_vars PROVE VerdictInv'
  OBVIOUS
<1>1. RunsInv /\ OutcomeOK /\ \A q \in Runs : Verdict(q)
  BY DEF VerdictInv
<1>2. RunsInv'
  BY <1>1, StepKeeps
<1>3. ASSUME NEW q \in Runs PROVE Verdict(q)'
  <2>1. ASSUME NEW r \in Runs, RunStep(r) \/ Kill(r) PROVE Verdict(q)'
    <3>1. TypeInv /\ EndedOK /\ (\A t \in Targets : Traces(t)) /\ RunInv(r)
      BY <1>1, TypeParts DEF RunsInv, TypeInv, RunInv
    <3>2. Others(r) /\ UNCHANGED config
      BY <2>1, <3>1, RunStepKeeps
    <3>3. \A x \in Runs \ {r} : exit'[x] = exit[x]
      BY <2>1, <3>1, OthersExit
    <3>4. CASE q = r
      BY <1>1, <2>1, <3>4, RunStepVerdict
    <3>5. CASE q # r
      BY <1>1, <1>3, <3>2, <3>3, <3>5, UntouchedVerdict DEF Others
    <3> QED
      BY <3>4, <3>5
  <2>2. CASE World \/ UNCHANGED vars
    <3>1. UNCHANGED <<config, local, exit>>
      BY <2>2 DEF World, AgentFacts, AgentCatalog, StoreFacts, StoreCatalog, vars, ended
    <3> QED
      BY <1>1, <1>3, <3>1, UntouchedVerdict DEF local
  <2> QED
    BY <2>1, <2>2 DEF Next
<1>4. OutcomeOK'
  <2>1. CASE World \/ UNCHANGED vars
    BY <1>1, <2>1 DEF OutcomeOK, World, AgentFacts, AgentCatalog, StoreFacts, StoreCatalog,
                      vars, ended
  <2> QED
    BY <1>1, <2>1, OutcomeType DEF Next
<1> QED
  BY <1>2, <1>3, <1>4 DEF VerdictInv

\* A comparison's exit code 0 is worth what its reader takes it for, for any
\* target file and however many runs there are besides: each target compared,
\* with the baseline and the catalog that were asked for (Compared), no error
\* and no disallowed difference (Verdict, ZeroMeansAllowed).
THEOREM ZeroExitsAreSound == Spec => []ZeroExitIsSound
<1>1. Init => VerdictInv
  <2> SUFFICES ASSUME Init PROVE VerdictInv
    OBVIOUS
  <2>1. RunsInv
    BY InitKeeps
  <2>2. OutcomeOK /\ \A r \in Runs : Verdict(r)
    BY DEF Init, Verdict, OutcomeOK
  <2> QED
    BY <2>1, <2>2 DEF VerdictInv
<1>2. VerdictInv => ZeroExitIsSound
  <2> SUFFICES ASSUME VerdictInv, NEW r \in Runs, Compares(r), pc[r] = "done", exit[r] = 0,
                      NEW t \in Targets
               PROVE  LET w == results[r][t] IN
                      /\ w # Absent /\ ~Failed(w)
                      /\ w.baseline # Absent /\ w.baseline.env = policy[t].baselineEnv
                      /\ w.compiled = [name |-> t, env |-> EnvironmentFor(r, t)]
                      /\ w.nodeDiff = "same" \/ (w.nodeDiff = "different" /\ ~policy[t].failOnDiff)
    BY DEF ZeroExitIsSound
  <2> DEFINE w == results[r][t]
  <2>1. w # Absent /\ ClassifyOutcome(w) \in Allowed /\ Compared(r, t, w)
    BY DEF VerdictInv, Verdict
  <2>2. w \in TargetResults
    BY <2>1 DEF VerdictInv, RunsInv, TypeInv, TypeOK
  <2> HIDE DEF w
  <2>3. /\ Len(w.diagnostics) \in Nat /\ w.nodeDiff \in NodeDiffs
        /\ DOMAIN w.diagnostics = 1 .. Len(w.diagnostics)
    BY <2>2 DEF TargetResults
  <2>4. ~AnyError(w.diagnostics) /\ w.nodeDiff # "nil"
          /\ (w.nodeDiff = "different" => ~w.failOnDiff)
    BY <2>1, <2>3, AllowedTargets
  <2>5. ~Failed(w)
    BY <2>3, <2>4 DEF Failed, AnyError, Contributes
  <2> QED
    BY <2>1, <2>3, <2>4, <2>5 DEF Compared, NodeDiffs, w
<1>3. QED
  BY <1>1, <1>2, VerdictStep, PTL DEF Spec
=============================================================================
