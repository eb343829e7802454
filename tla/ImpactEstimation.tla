--------------------------- MODULE ImpactEstimation --------------------------
(***************************************************************************)
(* cmd/piace, internal/config/resolve.Load and internal/impact: a command  *)
(* from the reading of its files to the last impact estimate.              *)
(*                                                                         *)
(* The target file is read twice, and an operator may save another one in  *)
(* between; clients are built for what the first reading asks for, targets *)
(* come from the second.  A comparison then estimates, one query after the *)
(* other, which nodes hold each changed resource, while Puppet agents go   *)
(* on storing catalogs and PuppetDB may answer late, badly or not at all.  *)
(***************************************************************************)
EXTENDS Configuration, Sorting

CONSTANTS
  Commands,        \* what the process may be asked to do
  Overrides,       \* values of --candidate-environment, "" for none
  TargetFiles,     \* what the target file may hold
  ServicesFiles,   \* what the services file may hold
  TargetDir, ServicesDir,
  CertnameOrder,   \* alphabets: the names that there are, in byte order,
  TypeOrder,       \* types and titles, each a sequence of characters
  TitleOrder,
  Quote, Backslash, Control, \* the characters PQL treats apart
  Letters,         \* characters with an escape form -> what follows the backslash
  Changes,         \* what a target may change: sets of identities
  InitialCatalogs, \* what PuppetDB may hold
  MaxEdits,        \* saves of the target file
  MaxAgentRuns     \* catalogs stored while the command runs

VARIABLES
  file, services,     \* on disk
  command, environment,
  stage,
  required,           \* services with a client
  targets,            \* resolved, or left to work on
  nodeDiffs,          \* certname and changed identities, in target order
  queue,              \* identities to estimate, with their limits
  asked,              \* the query under way
  estimates, diagnostics,
  holders,            \* who held each estimated resource when asked (history)
  catalogs,           \* PuppetDB: the resources of each node's last catalog
  edits, agentRuns

ASSUME ChangesAreIdentities == Changes \subseteq SUBSET [type : ToSet(TypeOrder), title : ToSet(TitleOrder)]

ASSUME CommandsAreThree == Commands \subseteq {"compare", "capture facts", "capture catalog"}

\* Decoding gives the structs of internal/config/target.go, whatever the file holds.
IsCandidate(c) ==
  c = [environment |-> c.environment, api |-> c.api, fallback |-> c.fallback, lookup |-> c.lookup]

IsImpact(p) ==
  /\ p = [enabled |-> p.enabled, timeout |-> p.timeout, resultLimit |-> p.resultLimit]
  /\ p.enabled \in BOOLEAN
  /\ IsSequence(p.resultLimit) /\ \A i \in DOMAIN p.resultLimit : p.resultLimit[i] \in Int

IsTargetFile(f) ==
  /\ f = [version |-> f.version, defaults |-> f.defaults, targets |-> f.targets]
  /\ f.defaults = [candidate |-> f.defaults.candidate, facts |-> f.defaults.facts,
                   baseline |-> f.defaults.baseline, impact |-> f.defaults.impact,
                   failOnDiff |-> f.defaults.failOnDiff, exclude |-> f.defaults.exclude,
                   redact |-> f.defaults.redact]
  /\ IsCandidate(f.defaults.candidate) /\ IsImpact(f.defaults.impact)
  /\ IsSequence(f.targets)
  /\ \A i \in DOMAIN f.targets :
       LET t == f.targets[i]
       IN  /\ t = [certname |-> t.certname, candidate |-> t.candidate, facts |-> t.facts,
                   baseline |-> t.baseline, impact |-> t.impact, failOnDiff |-> t.failOnDiff,
                   exclude |-> t.exclude, redact |-> t.redact]
           /\ IsSequence(t.candidate)
           /\ \A j \in DOMAIN t.candidate : IsCandidate(t.candidate[j])
           /\ IsSequence(t.impact)
           /\ \A j \in DOMAIN t.impact : IsImpact(t.impact[j])

AreDecoded(files) ==
  \A f \in files : f # Undecodable => f = Decoded(f[1]) /\ IsTargetFile(f[1])

ASSUME TargetFilesAreDecoded == AreDecoded(TargetFiles)

ASSUME AlphabetsAreSequences ==
  /\ IsSequence(CertnameOrder) /\ IsSequence(TypeOrder) /\ IsSequence(TitleOrder)
  /\ \A s \in ToSet(TypeOrder) \cup ToSet(TitleOrder) : IsSequence(s)

ASSUME LettersTellCharacters ==
  /\ {Quote, Backslash} \subseteq DOMAIN Letters
  /\ \A c, d \in DOMAIN Letters : Letters[c] = Letters[d] => c = d

config == <<command, environment, required, targets>>
disk == <<file, services, edits>>
puppetdb == <<catalogs, agentRuns>>
result == <<estimates, diagnostics, holders>>
vars == <<disk, config, stage, nodeDiffs, queue, asked, result, puppetdb>>

Nodes == ToSet(CertnameOrder)
Identities == [type : ToSet(TypeOrder), title : ToSet(TitleOrder)]

Place(order, x) == CHOOSE i \in DOMAIN order : order[i] = x
Precedes(c, d) == Place(CertnameOrder, c) < Place(CertnameOrder, d)

NodesInOrder(nodes) == Arranged(nodes, {p \in nodes \X nodes : Precedes(p[1], p[2])})

IdentityPrecedes(a, b) ==
  \/ Place(TypeOrder, a.type) < Place(TypeOrder, b.type)
  \/ a.type = b.type /\ Place(TitleOrder, a.title) < Place(TitleOrder, b.title)

IdentityOrder == {p \in Identities \X Identities : IdentityPrecedes(p[1], p[2])}

Init ==
  /\ file \in TargetFiles /\ services \in ServicesFiles /\ edits = 0
  /\ command \in Commands
  /\ environment \in IF command = "compare" THEN Overrides ELSE {""}
  /\ stage = "started"
  /\ required = [compiler |-> FALSE, puppetdb |-> FALSE]
  /\ targets = <<>> /\ nodeDiffs = <<>> /\ queue = <<>> /\ asked = <<>>
  /\ estimates = <<>> /\ diagnostics = {} /\ holders = <<>>
  /\ catalogs \in InitialCatalogs /\ agentRuns = 0

----------------------------------------------------------------------------
(* Configuration.                                                          *)

SaveTargetFile ==
  /\ stage \in {"started", "decided"} /\ edits < MaxEdits
  /\ file' \in TargetFiles \ {file} /\ edits' = edits + 1
  /\ UNCHANGED <<services, config, stage, nodeDiffs, queue, asked, result, puppetdb>>

\* Load: the first reading of the target file.
DecideServices ==
  /\ stage = "started"
  /\ stage' = "decided"
  /\ required' = ServiceSetFor(command, file, environment)
  /\ UNCHANGED <<disk, command, environment, targets, nodeDiffs, queue, asked, result, puppetdb>>

\* Load: the second reading, and the services file; then the clients, and what
\* a comparison asks of its targets on top.
ResolveConfig ==
  /\ stage = "decided"
  /\ LET read == LoadTargetFile(file, TargetDir, command, environment)
         served == LoadServicesFile(services, ServicesDir, required)
     IN  IF \/ read.problems \o served.problems # <<>>
            \/ command = "compare" /\ ComparisonProblems(read.value) # <<>>
         THEN stage' = "refused" /\ UNCHANGED targets
         ELSE stage' = "working" /\ targets' = read.value
  /\ UNCHANGED <<disk, command, environment, required, nodeDiffs, queue, asked, result, puppetdb>>

----------------------------------------------------------------------------
(* The targets, one after the other.  Nodes are told apart by what they    *)
(* change, and whether they could be compared at all.                      *)

\* SelectFactSource, SelectCatalogSource and captureFactsForTarget: the
\* services a target is worked on with.
UsesPuppetDB(t) ==
  CASE command = "compare" -> "puppetdb" \in {t.facts.source, t.baseline.source}
    [] command = "capture facts" -> t.facts.source = "file"
    [] command = "capture catalog" -> t.baseline.source = "file" /\ t.facts.source = "puppetdb"

Worked == Len(nodeDiffs)

\* A source that was never built is a nil interface: calling it panics.
WorkOnTarget ==
  /\ stage = "working" /\ Worked < Len(targets)
  /\ LET t == targets[Worked + 1]
     IN  IF UsesPuppetDB(t) /\ ~required.puppetdb
         THEN stage' = "panicked" /\ UNCHANGED nodeDiffs
         ELSE /\ \E changed \in IF command = "compare" THEN Changes ELSE {{}} :
                   nodeDiffs' = Append(nodeDiffs, [certname |-> t.certname, changed |-> changed])
              /\ UNCHANGED stage
  /\ UNCHANGED <<disk, config, queue, asked, result, puppetdb>>

----------------------------------------------------------------------------
(* estimate_all.go: which resources are estimated, by whose limits.        *)

Changed(i) == nodeDiffs[i].changed
Enabling == {i \in DOMAIN targets : targets[i].impact.enabled}

\* Mutant: the last enabling target decides.
WinnerLast(id) ==
  LET exhibiting == {i \in Enabling : id \in Changed(i)}
  IN  CHOOSE i \in exhibiting : \A j \in exhibiting : j <= i

Winner(id) ==
  LET exhibiting == {i \in Enabling : id \in Changed(i)}
  IN  CHOOSE i \in exhibiting : \A j \in exhibiting : i <= j

Selected == UNION {Changed(i) : i \in Enabling}

Queued ==
  LET order == Arranged(Selected, IdentityOrder)
  IN  [i \in DOMAIN order |-> [id |-> order[i], limits |-> targets[Winner(order[i])].impact]]

NoQuerier == [source |-> <<>>, what |-> "no PuppetDB impact querier is configured"]

StartEstimates ==
  /\ stage = "working" /\ Worked = Len(targets)
  /\ CASE command # "compare" \/ Enabling = {} ->
            stage' = "done" /\ UNCHANGED <<queue, diagnostics>>
       [] command = "compare" /\ Enabling # {} /\ ~required.puppetdb ->
            stage' = "done" /\ diagnostics' = {NoQuerier} /\ UNCHANGED queue
       [] OTHER ->
            /\ stage' = "estimating"
            /\ queue' = Queued
            /\ UNCHANGED diagnostics
  /\ UNCHANGED <<disk, config, nodeDiffs, asked, estimates, holders, puppetdb>>

----------------------------------------------------------------------------
(* pql.go: a type and a title as PQL string literals.                      *)

Escaped(c) == IF c \in DOMAIN Letters THEN <<Backslash, Letters[c]>> ELSE <<c>>

QuotePQLString(s) == FlattenSeq([i \in DOMAIN s |-> Escaped(s[i])])

CanQuote(s) == Control \notin ToSet(s)

CanBuildPQL(id) == CanQuote(id.type) /\ CanQuote(id.title)

BuildPQL(id) == [type |-> QuotePQLString(id.type), title |-> QuotePQLString(id.title)]

\* PuppetDB's reading of the literal, character after character: <<>> when it
\* ends early.
ReadCharacter(s, c) ==
  CASE s.bad -> s
    [] ~s.bad /\ s.escaping ->
         IF \E d \in DOMAIN Letters : Letters[d] = c
         THEN [s EXCEPT !.escaping = FALSE,
                        !.read = Append(@, CHOOSE d \in DOMAIN Letters : Letters[d] = c)]
         ELSE [s EXCEPT !.bad = TRUE]
    [] ~s.bad /\ ~s.escaping /\ c = Backslash -> [s EXCEPT !.escaping = TRUE]
    [] ~s.bad /\ ~s.escaping /\ c # Backslash ->
         IF c = Quote THEN [s EXCEPT !.bad = TRUE] ELSE [s EXCEPT !.read = Append(@, c)]

ReadLiteral(text) ==
  LET state[i \in 0 .. Len(text)] ==
        IF i = 0 THEN [bad |-> FALSE, escaping |-> FALSE, read |-> <<>>]
        ELSE ReadCharacter(state[i - 1], text[i])
      end == state[Len(text)]
  IN  IF end.bad \/ end.escaping THEN <<>> ELSE <<end.read>>

Readable(pql) == ReadLiteral(pql.type) # <<>> /\ ReadLiteral(pql.title) # <<>>

Meant(pql) == [type |-> ReadLiteral(pql.type)[1], title |-> ReadLiteral(pql.title)[1]]

----------------------------------------------------------------------------
(* querier.go: one query and what may come back.                           *)

\* The limit that is sent. Mutant: the limit itself, as if it were the total.
ExactLimit(limits) == limits.resultLimit

RequestLimit(limits) == limits.resultLimit + 1

Ask ==
  /\ stage = "estimating" /\ asked = <<>> /\ queue # <<>>
  /\ CanBuildPQL(Head(queue).id)
  /\ asked' = <<[pql |-> BuildPQL(Head(queue).id), limit |-> RequestLimit(Head(queue).limits)]>>
  /\ UNCHANGED <<disk, config, stage, nodeDiffs, queue, result, puppetdb>>

Holders(id) == {c \in Nodes : id \in catalogs[c]}

Estimate(status, names) ==
  LET limit == Head(queue).limits.resultLimit
      kept == SubSeq(names, 1, IF Len(names) < limit THEN Len(names) ELSE limit)
  IN  [id |-> Head(queue).id, resultLimit |-> limit, timeout |-> Head(queue).limits.timeout,
       status |-> status, resultCount |-> Len(names), truncated |-> Len(names) > limit,
       certnames |-> kept]

\* Every estimate is added, and a failing one has its error.
Concluded(status, names) ==
  /\ estimates' = Append(estimates, Estimate(status, names))
  /\ holders' = Append(holders, Holders(Head(queue).id))
  /\ queue' = Tail(queue) /\ asked' = <<>>
  /\ diagnostics' = diagnostics \cup
       (IF status = "completed" THEN {} ELSE {[source |-> <<Head(queue).id>>, what |-> status]})

\* A name with a control character has no literal, and no request.
CannotAsk ==
  /\ stage = "estimating" /\ asked = <<>> /\ queue # <<>>
  /\ ~CanBuildPQL(Head(queue).id)
  /\ Concluded("failed", <<>>)
  /\ UNCHANGED <<disk, config, stage, nodeDiffs, puppetdb>>

\* PuppetDB's rows: in order of certname, no more than asked for.
Rows(query) ==
  LET names == NodesInOrder(Holders(Meant(query.pql)))
  IN  SubSeq(names, 1, IF Len(names) < query.limit THEN Len(names) ELSE query.limit)

\* parseCertnames and sort.Strings: each name once, in order, whatever came.
ParseCertnames(rows) == NodesInOrder(ToSet(rows))

AnswerRows ==
  /\ asked # <<>> /\ Readable(asked[1].pql)
  /\ Concluded("completed", ParseCertnames(Rows(asked[1])))
  /\ UNCHANGED <<disk, config, stage, nodeDiffs, puppetdb>>

\* A refused query or connection, null, something other than an array, or a row
\* without a certname.
AnswerUnusable ==
  /\ asked # <<>>
  /\ Concluded("failed", <<>>)
  /\ UNCHANGED <<disk, config, stage, nodeDiffs, puppetdb>>

\* Mutant: an estimate that timed out is asked again.
DeadlineRetries ==
  /\ asked # <<>> /\ asked' = <<>>
  /\ UNCHANGED <<disk, config, stage, nodeDiffs, queue, result, puppetdb>>

Deadline ==
  /\ asked # <<>>
  /\ Concluded("timeout", <<>>)
  /\ UNCHANGED <<disk, config, stage, nodeDiffs, puppetdb>>

FinishEstimates ==
  /\ stage = "estimating" /\ queue = <<>>
  /\ stage' = "done"
  /\ UNCHANGED <<disk, config, nodeDiffs, queue, asked, result, puppetdb>>

\* A Puppet agent run replaces a node's last catalog.
AgentRun ==
  /\ stage = "estimating" /\ agentRuns < MaxAgentRuns
  /\ \E c \in Nodes, id \in Identities :
       catalogs' = [catalogs EXCEPT ![c] = IF id \in @ THEN @ \ {id} ELSE @ \cup {id}]
  /\ agentRuns' = agentRuns + 1
  /\ UNCHANGED <<disk, config, stage, nodeDiffs, queue, asked, result>>

Estimating == Ask \/ CannotAsk \/ Deadline \/ FinishEstimates

Next ==
  \/ DecideServices \/ ResolveConfig \/ WorkOnTarget \/ StartEstimates
  \/ Estimating \/ AnswerRows \/ AnswerUnusable
  \/ SaveTargetFile \/ AgentRun

Spec == Init /\ [][Next]_vars

\* The process takes its steps, and a query ends by its deadline at the latest.
FairSpec == Spec /\ WF_vars(Estimating)

----------------------------------------------------------------------------
(* Properties.                                                             *)

\* A completed estimate names, in order, the first result_limit of the nodes
\* that held this very resource when PuppetDB answered, and is called truncated
\* exactly when there were more: an answer that fills the limit is told from
\* one that exceeds it, and an estimate of nobody means that nobody had it
\* (querier.go:68-137, pql.go:56-81).
EstimateIsWhoIsAffected ==
  \A i \in DOMAIN estimates : estimates[i].status = "completed" =>
    LET e == estimates[i]
        named == ToSet(e.certnames)
    IN  /\ named \subseteq holders[i]
        /\ Len(e.certnames) = Min({e.resultLimit, Cardinality(holders[i])})
        /\ \A j, k \in DOMAIN e.certnames : j < k => Precedes(e.certnames[j], e.certnames[k])
        /\ \A c \in named, d \in holders[i] \ named : Precedes(c, d)
        /\ e.truncated <=> Cardinality(holders[i]) > e.resultLimit

\* When the estimates are over, each resource changed on an enabling target has
\* one, under the limits the first such target of the file set for it, sorted
\* by identity, and each that has no answer has its error: a failure neither
\* hides another resource nor passes for an answer (estimate_all.go:51-125).
FirstEnablingTargetDecides ==
  stage = "done" /\ command = "compare" /\ NoQuerier \notin diagnostics =>
    /\ {estimates[i].id : i \in DOMAIN estimates} =
         UNION {nodeDiffs[i].changed : i \in {j \in DOMAIN targets : targets[j].impact.enabled}}
    /\ \A i, j \in DOMAIN estimates : i < j => IdentityPrecedes(estimates[i].id, estimates[j].id)
    /\ \A i \in DOMAIN estimates :
         /\ \E t \in DOMAIN targets :
              /\ targets[t].impact.enabled /\ estimates[i].id \in nodeDiffs[t].changed
              /\ targets[t].impact.resultLimit = estimates[i].resultLimit
              /\ targets[t].impact.timeout = estimates[i].timeout
              /\ \A s \in 1..t - 1 :
                   targets[s].impact.enabled => estimates[i].id \notin nodeDiffs[s].changed
         /\ estimates[i].status # "completed" <=>
              \E d \in diagnostics : d.source = <<estimates[i].id>>

\* A command whose two readings of its target file found the same never lacks
\* the service that a target's sources, or its estimate, need: what the first
\* reading foresaw is what the resolved targets ask for (load.go:76-101,
\* requirements.go:82-103, main.go:374).
RequiredIsUsed ==
  \/ stage = "panicked" \/ NoQuerier \in diagnostics => edits > 0

\* With --candidate-environment, every target is compiled for that environment,
\* whatever block it has of its own (override.go:38-62).
OverrideReachesEveryTarget ==
  environment # "" =>
    \A i \in DOMAIN targets : targets[i].candidate.environment = environment

\* The estimates end, however many there are, whatever PuppetDB answers and
\* however long it takes over each (estimate_all.go:100-118, client.go:255-263).
EstimationEnds == stage = "estimating" ~> stage = "done"
=============================================================================
