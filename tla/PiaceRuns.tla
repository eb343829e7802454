------------------------------ MODULE PiaceRuns ------------------------------
(***************************************************************************)
(* internal/compare, internal/capture and internal/compiler: any number of *)
(* PIACE commands, each a process of its own, that work from one target    *)
(* file against one PuppetDB, one compiler and one directory of snapshots, *)
(* while Puppet agents keep running.                                       *)
(*                                                                         *)
(* A command handles its targets one after the other. Every request to a   *)
(* service and every use of a file is one step, so that other commands,    *)
(* agents and PuppetDB's own queue act between any two of them. Snapshot   *)
(* files change in one step, which is what AtomicFile promises and         *)
(* ArtifactPublish shows of the code.                                      *)
(***************************************************************************)
EXTENDS CandidateRequest, Outcome

CONSTANTS
  Targets,       \* certnames of the target file
  Runs,          \* processes
  Invocations,   \* what a process may be asked to do
  Policies,      \* what the target file may say of a target
  Environments,
  InitialStores, \* what PuppetDB and the snapshot files may hold of a target
  AgentTargets,  \* targets whose Puppet agent runs meanwhile
  Absent         \* nothing stored, nothing read, nothing recorded

\* A target file lists its targets.
ASSUME TargetsAreFinite == IsFiniteSet(Targets)

AnyPolicy ==
  [factSource : {"puppetdb", "file"}, baselineSource : {"puppetdb", "file"},
   baselineEnv : Environments, candidateEnv : Environments, api : {"v3", "v4"},
   allowFallback : BOOLEAN, lookup : BOOLEAN, failOnDiff : BOOLEAN,
   impact : BOOLEAN]

\* resolveOneTarget rejects allow_v3_fallback with catalog_api v3.
ASSUME PoliciesResolved ==
  /\ Policies \subseteq AnyPolicy
  /\ \A p \in Policies : p.allowFallback => p.api = "v4"

\* capture catalog names the environment to capture; compare may override the
\* candidate environment of every target; capture facts knows neither.
ASSUME InvocationsParse ==
  Invocations \subseteq
         [command : {"compare"}, environment : Environments \cup {Absent}, replace : {FALSE}]
    \cup [command : {"capture_catalog"}, environment : Environments, replace : BOOLEAN]
    \cup [command : {"capture_facts"}, environment : {Absent}, replace : BOOLEAN]

Factsets == [origin : {"agent", "submitted"}, trusted : BOOLEAN]
Catalogs == [env : Environments, origin : {"agent", "compile"}]
Compiled == [name : Targets, env : Environments]
CatalogSnapshots == [env : Environments, servedBy : {"v3", "v4"}, record : Provenances]

\* What earlier agent runs and captures left; nothing in it was recycled.
Stores ==
  [facts : {Absent} \cup [origin : {"agent"}, trusted : BOOLEAN],
   catalog : {Absent} \cup [env : Environments, origin : {"agent"}],
   factsFile : {Absent} \cup [origin : {"agent"}, trusted : BOOLEAN],
   catalogFile : {Absent} \cup {c \in CatalogSnapshots :
                    c.record.effective = c.servedBy /\ ValidProvenance(c.record)}]

ASSUME StoresAreEarlierWork == InitialStores \subseteq Stores /\ AgentTargets \subseteq Targets

ASSUME AbsentIsNothing ==
  Absent \notin Targets \cup Runs \cup Environments \cup Factsets \cup Catalogs
                  \cup CatalogSnapshots \cup Provenances \cup Compiled

VARIABLES
  policy,       \* the resolved target file
  invocation,   \* the command line of each process
  pdbFacts, pdbCatalog,     \* PuppetDB: the latest factset and catalog of each target
  queuedFacts, queuedCatalogs,  \* PuppetDB: what v3 compiles submitted, not applied yet
  factsFile, catalogFile,   \* the snapshot files of each target
  pc,           \* what each process does next
  todo, cur,    \* targets it has not begun, and the one it is at
  facts,        \* the factset it has loaded
  work,         \* the target result it is building
  results,      \* the target results it has completed
  outcome, exit,
  sent          \* history: the catalog requests it has sent, and their answers

config   == <<policy, invocation>>
puppetdb == <<pdbFacts, pdbCatalog, queuedFacts, queuedCatalogs>>
files    == <<factsFile, catalogFile>>
ended    == <<outcome, exit>>
local    == <<pc, todo, cur, facts, work, results>>
vars     == <<config, puppetdb, files, local, ended, sent>>

EmptyResult(t) ==
  [baseline |-> Absent, candidate |-> Absent, compiled |-> Absent, diagnostics |-> <<>>,
   nodeDiff |-> "nil", failOnDiff |-> policy[t].failOnDiff, skipped |-> FALSE]

Diagnosis(s, op) == [severity |-> s, operation |-> op]

Init ==
  /\ policy \in [Targets -> Policies]
  /\ invocation \in [Runs -> Invocations]
  /\ \E store \in [Targets -> InitialStores] :
       /\ pdbFacts = [t \in Targets |-> store[t].facts]
       /\ pdbCatalog = [t \in Targets |-> store[t].catalog]
       /\ factsFile = [t \in Targets |-> store[t].factsFile]
       /\ catalogFile = [t \in Targets |-> store[t].catalogFile]
  /\ queuedFacts = [t \in Targets |-> {}]
  /\ queuedCatalogs = [t \in Targets |-> {}]
  /\ pc = [r \in Runs |-> "start"]
  /\ todo = [r \in Runs |-> Targets]
  /\ cur = [r \in Runs |-> Absent]
  /\ facts = [r \in Runs |-> Absent]
  /\ work = [r \in Runs |-> Absent]
  /\ results = [r \in Runs |-> [t \in Targets |-> Absent]]
  /\ outcome = [r \in Runs |-> "none"]
  /\ exit = [r \in Runs |-> 0]
  /\ sent = [r \in Runs |-> [t \in Targets |-> {}]]

Compares(r) == invocation[r].command = "compare"
Goto(r, l)  == pc' = [pc EXCEPT ![r] = l]
Set(r, w)   == work' = [work EXCEPT ![r] = w]

\* Mutant: only the configured API is looked at.
PermitsV3Directly(p) == p.api = "v3"

\* Whether any request for the target may end up at the v3 endpoint.
PermitsV3(p) == p.api = "v3" \/ p.allowFallback

\* candidateEnvironmentView, and --candidate-environment.
EnvironmentFor(r, t) ==
  IF invocation[r].environment = Absent THEN policy[t].candidateEnv
  ELSE invocation[r].environment

\* The target's result is complete; the run goes on to the next target,
\* whatever became of this one.
EndTarget(r, w) ==
  /\ results' = [results EXCEPT ![r][cur[r]] = w]
  /\ Goto(r, "next")
  /\ cur' = [cur EXCEPT ![r] = Absent]
  /\ facts' = [facts EXCEPT ![r] = Absent]
  /\ Set(r, Absent)
  /\ UNCHANGED todo

WithError(w, op) == [w EXCEPT !.diagnostics = Append(@, Diagnosis("error", op))]

Fail(r, op) == EndTarget(r, WithError(work[r], op))

-----------------------------------------------------------------------------
(* The run: validation, the loop over targets, the report.                 *)

\* ValidateComparisonTargets: compare refuses the whole target file before it
\* contacts any service.
Start(r) ==
  /\ pc[r] = "start"
  /\ IF Compares(r) /\ \E t \in Targets : policy[t].baselineSource = "puppetdb"
                                          /\ PermitsV3(policy[t])
     THEN /\ outcome' = [outcome EXCEPT ![r] = "operational_error"]
          /\ exit' = [exit EXCEPT ![r] = 30]
          /\ Goto(r, "done")
     ELSE Goto(r, "next") /\ UNCHANGED ended
  /\ UNCHANGED <<config, puppetdb, files, todo, cur, facts, work, results, sent>>

\* A capture skips the targets that have no file to write to.
Skips(r, t) ==
  CASE invocation[r].command = "capture_catalog" -> policy[t].baselineSource # "file"
    [] invocation[r].command = "capture_facts" -> policy[t].factSource # "file"
    [] OTHER -> FALSE

\* The order of the targets is the target file's: any order.
BeginTarget(r, t) ==
  /\ pc[r] = "next"
  /\ t \in todo[r]
  /\ todo' = [todo EXCEPT ![r] = @ \ {t}]
  /\ IF Skips(r, t)
     THEN /\ results' = [results EXCEPT ![r][t] = [EmptyResult(t) EXCEPT !.skipped = TRUE]]
          /\ UNCHANGED <<pc, cur, facts, work>>
     ELSE /\ Goto(r, "facts")
          /\ cur' = [cur EXCEPT ![r] = t]
          /\ Set(r, EmptyResult(t))
          /\ UNCHANGED <<facts, results>>
  /\ UNCHANGED <<config, puppetdb, files, ended, sent>>

\* Result.Reduce for a comparison, with the impact estimates that failed;
\* reportCaptureOutcomes for a capture.
ResultList(r) ==
  LET order == SetToSeq(Targets) IN [i \in DOMAIN order |-> results[r][order[i]]]

Failed(w) == \E i \in DOMAIN w.diagnostics : w.diagnostics[i].severity = "error"

Report(r) ==
  /\ pc[r] = "next"
  /\ todo[r] = {}
  /\ \E ds \in {<<>>, <<Diagnosis("error", "estimate_impact")>>} :
       /\ ds # <<>> => Compares(r) /\ \E t \in Targets :
                          policy[t].impact /\ results[r][t].nodeDiff = "different"
       /\ IF Compares(r)
          THEN /\ outcome' = [outcome EXCEPT ![r] = Finalize(ResultList(r), ds)]
               /\ exit' = [exit EXCEPT ![r] = ForOutcome(outcome'[r])]
          ELSE /\ exit' = [exit EXCEPT ![r] =
                             IF \E t \in Targets : Failed(results[r][t]) THEN 30 ELSE 0]
               /\ UNCHANGED outcome
  /\ Goto(r, "done")
  /\ UNCHANGED <<config, puppetdb, files, todo, cur, facts, work, results, sent>>

-----------------------------------------------------------------------------
(* One target, up to the candidate.                                        *)

\* SelectFactSource; capture facts reads PuppetDB whatever the target selects.
FactsFor(r, t) ==
  IF policy[t].factSource = "file" /\ invocation[r].command # "capture_facts"
  THEN factsFile[t] ELSE pdbFacts[t]

LoadFacts(r) ==
  /\ pc[r] = "facts"
  /\ \/ Fail(r, "load_facts")
     \/ /\ FactsFor(r, cur[r]) # Absent
        /\ facts' = [facts EXCEPT ![r] = FactsFor(r, cur[r])]
        /\ Goto(r, CASE invocation[r].command = "compare" -> "baseline"
                     [] invocation[r].command = "capture_catalog" -> "compile"
                     [] OTHER -> "write")
        /\ UNCHANGED <<todo, cur, work, results>>
  /\ UNCHANGED <<config, puppetdb, files, ended, sent>>

BaselineFor(t) ==
  IF policy[t].baselineSource = "file" THEN catalogFile[t] ELSE pdbCatalog[t]

\* A baseline of another environment than the configured one is refused, and a
\* snapshot whose provenance cannot have happened.
Usable(t) ==
  /\ BaselineFor(t) # Absent
  /\ BaselineFor(t).env = policy[t].baselineEnv
  /\ policy[t].baselineSource = "file" => ValidProvenance(BaselineFor(t).record)

\* Mutant: the target's pipeline goes on after a baseline that cannot be used.
LoadBaselineContinues(r) ==
  /\ pc[r] = "baseline"
  /\ \/ Set(r, WithError(work[r], "load_baseline"))
     \/ Usable(cur[r]) /\ Set(r, [work[r] EXCEPT !.baseline = BaselineFor(cur[r])])
  /\ Goto(r, "compile")
  /\ UNCHANGED <<todo, cur, facts, results, config, puppetdb, files, ended, sent>>

\* LoadBaseline and its normalization, both before the candidate is requested.
LoadBaseline(r) ==
  /\ pc[r] = "baseline"
  /\ \/ Fail(r, "load_baseline")
     \/ /\ Usable(cur[r])
        /\ LET w == [work[r] EXCEPT !.baseline = BaselineFor(cur[r])]
           IN  \/ EndTarget(r, WithError(w, "normalize"))
               \/ /\ Set(r, w)
                  /\ Goto(r, "compile")
                  /\ UNCHANGED <<todo, cur, facts, results>>
  /\ UNCHANGED <<config, puppetdb, files, ended, sent>>

-----------------------------------------------------------------------------
(* RequestCandidate.                                                       *)

Sends(r, what) == sent' = [sent EXCEPT ![r][cur[r]] = @ \cup {what}]

RequestCandidate(r) ==
  LET p == policy[cur[r]] IN
  /\ pc[r] = "compile"
  /\ CASE p.api = "v3" ->
            Goto(r, "v3") /\ UNCHANGED <<todo, cur, facts, work, results, sent>>
       [] p.api = "v4" /\ TrustedFactsSource(p, facts[r]) = "none" ->
            Fail(r, "request_candidate") /\ UNCHANGED sent
       [] OTHER ->
            \/ /\ Sends(r, "v4")
               /\ Goto(r, "v4")
               /\ UNCHANGED <<todo, cur, facts, work, results>>
            \/ Fail(r, "request_candidate_transport") /\ UNCHANGED sent
  /\ UNCHANGED <<config, puppetdb, files, ended>>

\* The catalog is usable: a comparison diffs it, a capture keeps it.
Accept(r, w, a) ==
  /\ Set(r, [w EXCEPT !.compiled = [name |-> a.name, env |-> a.env]])
  /\ Goto(r, IF Compares(r) THEN "diff" ELSE "content")
  /\ UNCHANGED <<todo, cur, facts, results>>

Answers == CatalogAnswers(Targets, Environments) \cup OtherAnswers

\* Mutant: a request that gets no answer is sent again.
AnswerV4Retries(r) ==
  LET p == policy[cur[r]] IN
  /\ pc[r] = "v4"
  /\ \E a \in Answers :
       IF ProcessResponse(a, cur[r], EnvironmentFor(r, cur[r])) = "accepted"
       THEN Accept(r, [work[r] EXCEPT !.candidate = ProvenanceV4(p, facts[r])], a)
       ELSE Goto(r, "compile") /\ UNCHANGED <<todo, cur, facts, work, results>>
  /\ UNCHANGED <<config, puppetdb, files, ended, sent>>

\* A v4 request stores nothing; a permitted fallback is decided on its answer.
AnswerV4(r) ==
  LET p == policy[cur[r]] IN
  /\ pc[r] = "v4"
  /\ \E a \in Answers :
       LET verdict == ProcessResponse(a, cur[r], EnvironmentFor(r, cur[r])) IN
       CASE FallsBack(p, a) ->
              /\ Sends(r, a.kind)
              /\ Goto(r, "v3")
              /\ UNCHANGED <<todo, cur, facts, work, results>>
         [] ~FallsBack(p, a) /\ verdict = "accepted" ->
              /\ Accept(r, [work[r] EXCEPT !.candidate = ProvenanceV4(p, facts[r])], a)
              /\ UNCHANGED sent
         [] OTHER -> Fail(r, verdict) /\ UNCHANGED sent
  /\ UNCHANGED <<config, puppetdb, files, ended>>

\* A fallback is announced whatever becomes of it.
Announced(w, p) ==
  [w EXCEPT !.diagnostics =
     IF p.api = "v4" THEN Append(@, Diagnosis("warning", "request_candidate")) ELSE @]

\* A v3 request: the compiler may store the facts it was sent, and the catalog
\* it compiled from them, whatever it answers. One that could not be built is
\* not sent.
SendV3(r) ==
  LET t == cur[r] IN
  /\ pc[r] = "v3"
  /\ \/ /\ Sends(r, "v3")
        /\ Goto(r, "v3sent")
        /\ \/ UNCHANGED queuedFacts
           \/ queuedFacts' = [queuedFacts EXCEPT ![t] =
                                @ \cup {[facts[r] EXCEPT !.origin = "submitted"]}]
        /\ \/ UNCHANGED queuedCatalogs
           \/ queuedCatalogs' = [queuedCatalogs EXCEPT ![t] =
                                   @ \cup {[env |-> EnvironmentFor(r, t), origin |-> "compile"]}]
        /\ UNCHANGED <<todo, cur, facts, work, results>>
     \/ /\ EndTarget(r, WithError(Announced(work[r], policy[t]), "request_candidate_transport"))
        /\ UNCHANGED <<sent, queuedFacts, queuedCatalogs>>
  /\ UNCHANGED <<config, pdbFacts, pdbCatalog, files, ended>>

\* What a v3 attempt leaves in the result, also when it fails.
Attempted(w, p) ==
  [Announced(w, p) EXCEPT !.candidate = ProvenanceV3(p, p.api = "v4")]

\* Mutant: an attempt that fails is not recorded.
AnswerV3Forgets(r) ==
  LET p == policy[cur[r]] IN
  /\ pc[r] = "v3sent"
  /\ \E a \in Answers :
       LET verdict == ProcessResponse(a, cur[r], EnvironmentFor(r, cur[r])) IN
       IF verdict = "accepted" THEN Accept(r, Attempted(work[r], p), a) ELSE Fail(r, verdict)
  /\ UNCHANGED <<config, puppetdb, files, ended, sent>>

AnswerV3(r) ==
  LET p == policy[cur[r]] IN
  /\ pc[r] = "v3sent"
  /\ \E a \in Answers :
       LET verdict == ProcessResponse(a, cur[r], EnvironmentFor(r, cur[r]))
           w == Attempted(work[r], p)
       IN  IF verdict = "accepted" THEN Accept(r, w, a) ELSE EndTarget(r, WithError(w, verdict))
  /\ UNCHANGED <<config, puppetdb, files, ended, sent>>

-----------------------------------------------------------------------------
(* The rest of a comparison's target.                                      *)

ContentDiagnostics ==
  {<<>>, <<Diagnosis("warning", "verify_content")>>, <<Diagnosis("error", "verify_content")>>}

Diff(r) ==
  /\ pc[r] = "diff"
  /\ \/ Fail(r, "normalize")
     \/ \E d \in {"same", "different"}, ds \in ContentDiagnostics :
          EndTarget(r, [work[r] EXCEPT !.nodeDiff = d, !.diagnostics = @ \o ds])
  /\ UNCHANGED <<config, puppetdb, files, ended, sent>>

(* The rest of a capture's target.                                         *)

CaptureContent(r) ==
  /\ pc[r] = "content"
  /\ \/ Fail(r, "verify_content")
     \/ Goto(r, "write") /\ UNCHANGED <<todo, cur, facts, work, results>>
  /\ UNCHANGED <<config, puppetdb, files, ended, sent>>

\* Which endpoint compiled the catalog the run holds.
ServedBy(r) == IF "v3" \in sent[r][cur[r]] THEN "v3" ELSE "v4"

\* Mutant: the API recorded is the configured one, whichever answered.
CatalogSnapshotAsConfigured(r) ==
  [env |-> work[r].compiled.env, servedBy |-> ServedBy(r),
   record |-> [work[r].candidate EXCEPT !.effective = policy[cur[r]].api]]

CatalogSnapshot(r) ==
  [env |-> work[r].compiled.env, servedBy |-> ServedBy(r), record |-> work[r].candidate]

\* snapshot.Validate on the envelope the capture built: requested_environment
\* and target come from the command line, the payload from the compiler.
ValidSnapshot(r) ==
  /\ work[r].compiled = [name |-> cur[r], env |-> EnvironmentFor(r, cur[r])]
  /\ ValidProvenance(work[r].candidate)

Writable(r, file) == invocation[r].replace \/ file[cur[r]] = Absent

\* snapshot.Validate, then snapshot.Write; either may fail, changing nothing.
WriteCatalog(r) ==
  /\ pc[r] = "write"
  /\ invocation[r].command = "capture_catalog"
  /\ \/ Fail(r, "snapshot") /\ UNCHANGED catalogFile
     \/ /\ ValidSnapshot(r)
        /\ Writable(r, catalogFile)
        /\ catalogFile' = [catalogFile EXCEPT ![cur[r]] = CatalogSnapshot(r)]
        /\ EndTarget(r, work[r])
  /\ UNCHANGED <<config, puppetdb, factsFile, ended, sent>>

WriteFacts(r) ==
  /\ pc[r] = "write"
  /\ invocation[r].command = "capture_facts"
  /\ \/ Fail(r, "snapshot") /\ UNCHANGED factsFile
     \/ /\ Writable(r, factsFile)
        /\ factsFile' = [factsFile EXCEPT ![cur[r]] = facts[r]]
        /\ EndTarget(r, work[r])
  /\ UNCHANGED <<config, puppetdb, catalogFile, ended, sent>>

-----------------------------------------------------------------------------
(* Everything else that moves.                                             *)

Kill(r) ==
  /\ pc[r] \notin {"done", "killed"}
  /\ Goto(r, "killed")
  /\ UNCHANGED <<config, puppetdb, files, todo, cur, facts, work, results, ended, sent>>

AgentFacts(t) ==
  /\ \E b \in BOOLEAN :
       pdbFacts' = [pdbFacts EXCEPT ![t] = [origin |-> "agent", trusted |-> b]]
  /\ UNCHANGED <<config, pdbCatalog, queuedFacts, queuedCatalogs, files, local, ended, sent>>

AgentCatalog(t) ==
  /\ \E e \in Environments :
       pdbCatalog' = [pdbCatalog EXCEPT ![t] = [env |-> e, origin |-> "agent"]]
  /\ UNCHANGED <<config, pdbFacts, queuedFacts, queuedCatalogs, files, local, ended, sent>>

\* PuppetDB works through its queue when it gets to it.
StoreFacts(t) ==
  /\ \E f \in queuedFacts[t] :
       /\ pdbFacts' = [pdbFacts EXCEPT ![t] = f]
       /\ queuedFacts' = [queuedFacts EXCEPT ![t] = @ \ {f}]
  /\ UNCHANGED <<config, pdbCatalog, queuedCatalogs, files, local, ended, sent>>

StoreCatalog(t) ==
  /\ \E c \in queuedCatalogs[t] :
       /\ pdbCatalog' = [pdbCatalog EXCEPT ![t] = c]
       /\ queuedCatalogs' = [queuedCatalogs EXCEPT ![t] = @ \ {c}]
  /\ UNCHANGED <<config, pdbFacts, queuedFacts, files, local, ended, sent>>

RunStep(r) ==
  \/ Start(r)
  \/ \E t \in Targets : BeginTarget(r, t)
  \/ LoadFacts(r)
  \/ LoadBaseline(r)
  \/ RequestCandidate(r)
  \/ AnswerV4(r)
  \/ SendV3(r)
  \/ AnswerV3(r)
  \/ Diff(r)
  \/ CaptureContent(r)
  \/ WriteCatalog(r)
  \/ WriteFacts(r)
  \/ Report(r)

World ==
  \/ \E t \in AgentTargets : AgentFacts(t) \/ AgentCatalog(t)
  \/ \E t \in Targets : StoreFacts(t) \/ StoreCatalog(t)

Next ==
  \/ \E r \in Runs : RunStep(r) \/ Kill(r)
  \/ World

Spec == Init /\ [][Next]_vars

\* A process that is not killed runs on: every request it makes has a deadline
\* (internal/transport), so each ends in an answer or an error.
FairSpec == Spec /\ \A r \in Runs : WF_vars(RunStep(r))
-----------------------------------------------------------------------------
(* Properties.                                                             *)

Labels == {"start", "next", "facts", "baseline", "compile", "v4", "v3", "v3sent",
           "diff", "content", "write", "done", "killed"}

TargetResults ==
  [baseline : {Absent} \cup Catalogs \cup CatalogSnapshots,
   candidate : {Absent} \cup Provenances,
   compiled : {Absent} \cup Compiled,
   diagnostics : Seq([severity : {"warning", "error"}, operation : Operations]),
   nodeDiff : NodeDiffs, failOnDiff : BOOLEAN, skipped : BOOLEAN]

ASSUME AbsentIsNoResult == Absent \notin TargetResults

\* Where a run is at a target, it has that target's result in hand, and the
\* factset once it is past loading it.
AtTarget(r) ==
  IF pc[r] \in {"start", "next", "done"} THEN cur[r] = Absent /\ work[r] = Absent
  ELSE pc[r] # "killed" => /\ cur[r] \in Targets
                           /\ work[r] \in TargetResults
                           /\ pc[r] # "facts" => facts[r] \in Factsets

TypeOK ==
  /\ policy \in [Targets -> Policies]
  /\ invocation \in [Runs -> Invocations]
  /\ pdbFacts \in [Targets -> {Absent} \cup Factsets]
  /\ pdbCatalog \in [Targets -> {Absent} \cup Catalogs]
  /\ queuedFacts \in [Targets -> SUBSET Factsets]
  /\ queuedCatalogs \in [Targets -> SUBSET Catalogs]
  /\ factsFile \in [Targets -> {Absent} \cup Factsets]
  /\ catalogFile \in [Targets -> {Absent} \cup CatalogSnapshots]
  /\ pc \in [Runs -> Labels]
  /\ todo \in [Runs -> SUBSET Targets]
  /\ cur \in [Runs -> {Absent} \cup Targets]
  /\ facts \in [Runs -> {Absent} \cup Factsets]
  /\ work \in [Runs -> {Absent} \cup TargetResults]
  /\ results \in [Runs -> [Targets -> {Absent} \cup TargetResults]]
  /\ exit \in [Runs -> {0, 10, 20, 30}]
  /\ sent \in [Runs -> [Targets -> SUBSET {"v3", "v4", "generic404"}]]
  /\ \A r \in Runs : AtTarget(r)

\* A catalog PIACE had compiled never becomes the baseline of a comparison
\* that reads PuppetDB: compare refuses such target files as a whole, capture
\* skips such targets, and so no sequence or interleaving of commands on one
\* target file feeds a candidate back (comparison.go, README "Choosing the
\* catalog API").
BaselineIsAgents ==
  \A r \in Runs, t \in Targets :
    (/\ policy[t].baselineSource = "puppetdb"
     /\ results[r][t] # Absent
     /\ results[r][t].baseline # Absent) => results[r][t].baseline.origin = "agent"

\* Whoever sent a v3 request says so in the target's result, even when the
\* request failed, and a v4 request served by v3 is never read as a v4 one.
V3NeverHidden ==
  \A r \in Runs, t \in Targets :
    LET w == results[r][t] IN
    w # Absent =>
      /\ "v3" \in sent[r][t] =>
           /\ w.candidate # Absent
           /\ w.candidate.effective = "v3"
           /\ w.candidate.fellBack <=> "v4" \in sent[r][t]
           /\ w.candidate.fellBack =>
                \E i \in DOMAIN w.diagnostics :
                  w.diagnostics[i] = Diagnosis("warning", "request_candidate")
      /\ (w.candidate # Absent /\ w.candidate.effective = "v4") => sent[r][t] = {"v4"}

\* A v3 request is sent only when the target file asks for v3, or permits the
\* fallback and the v4 request of this very target was answered generically.
V3OnlyWhenPermitted ==
  \A r \in Runs, t \in Targets :
    "v3" \in sent[r][t] =>
      \/ policy[t].api = "v3"
      \/ policy[t].allowFallback /\ {"v4", "generic404"} \subseteq sent[r][t]

\* No compilation is asked for on behalf of a comparison that cannot happen:
\* the baseline was accepted before (compare/doc.go).
NoCompileWithoutBaseline ==
  \A r \in Runs, t \in Targets :
    (Compares(r) /\ sent[r][t] # {}) =>
      LET w == IF cur[r] = t THEN work[r] ELSE results[r][t] IN
      /\ w # Absent
      /\ w.baseline # Absent
      /\ w.baseline.env = policy[t].baselineEnv

\* A comparison exits 0 only if each target was compared, its baseline in the
\* configured environment with the catalog compiled for it in the requested
\* one, with no error on the way and no difference its policy disallows.
ZeroExitIsSound ==
  \A r \in Runs :
    (Compares(r) /\ pc[r] = "done" /\ exit[r] = 0) =>
      \A t \in Targets :
        LET w == results[r][t] IN
        /\ w # Absent
        /\ ~Failed(w)
        /\ w.baseline # Absent /\ w.baseline.env = policy[t].baselineEnv
        /\ w.compiled = [name |-> t, env |-> EnvironmentFor(r, t)]
        /\ w.nodeDiff = "same" \/ (w.nodeDiff = "different" /\ ~policy[t].failOnDiff)

\* A run that was not refused as a whole has a result for every target when it
\* ends: no target's failure takes another one with it.
EveryTargetReported ==
  \A r \in Runs :
    (pc[r] = "done" /\ ~(Compares(r) /\ \E t \in Targets :
        policy[t].baselineSource = "puppetdb" /\ PermitsV3(policy[t]))) =>
      \A t \in Targets : results[r][t] # Absent

\* A catalog snapshot records the endpoint that compiled it, which its file
\* could not show otherwise (capture/doc.go, "Recorded provenance").
SnapshotTellsTruth ==
  \A t \in Targets :
    catalogFile[t] # Absent =>
      /\ catalogFile[t].record.effective = catalogFile[t].servedBy
      /\ ValidProvenance(catalogFile[t].record)

\* What the compiler adapter accepts, snapshot.Validate accepts: a capture
\* never spends a compilation on an envelope that it then refuses to write.
CaptureFitsValidation ==
  \A r \in Runs :
    (pc[r] = "write" /\ invocation[r].command = "capture_catalog") => ValidSnapshot(r)

\* Facts that a compilation submitted do not come back as captured facts, for
\* a target whose policy keeps every request on v4.
FactsNotRecycled ==
  \A t \in Targets :
    (factsFile[t] # Absent /\ ~PermitsV3(policy[t])) => factsFile[t].origin = "agent"

\* Every process that is not killed ends.
RunsEnd == \A r \in Runs : <>(pc[r] \in {"done", "killed"})

=============================================================================
