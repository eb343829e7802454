# PIACE in TLA+

PIACE compares, for each node of a target file, the catalog a Puppet compiler
produces for a proposed environment (the *candidate*) with one the node already
has (the *baseline*), and turns the differences into reports and an exit code.
It is a command line tool: a process handles its targets one after the other
and has no goroutine of its own worth the name. What is hard about it lies
elsewhere:

* several PIACE processes share a directory of snapshots and reports, publish
  files in it and read each other's, and may be killed between two system calls;
* PuppetDB and the compiler are shared too, and a compilation through the v3
  endpoint *writes* to PuppetDB, so that what one command leaves behind may be
  what another one takes for evidence;
* every stage may fail for one target, or for the run, and the exit code, the
  reasons and the artifacts have to agree on what happened;
* a change assessment sends an outside service what fits a budget and has to say
  what it sent, whatever comes back;
* the verdict on a node is computed from two catalogs that reach PIACE in different
  forms, and what is published of it must show neither less nor more than its
  policies allow.

This directory holds TLA+ modules for these parts, TLC configurations that
check them on small instances, and proofs that TLAPS checks for every value of
the constants. Paths below are relative to `src/`.

## Inventory

Each row says what the component keeps, what it does and what would make it
wrong. The last column says where it is modelled.

| component (source) | state | operations | what is hard, what must hold | module |
|---|---|---|---|---|
| artifact publication (`internal/artifact/publish.go`) | the directory entry, a temporary file per call | `Write`, `WriteNew` | concurrent writers and readers, failing calls, kills, power loss: a path always names a whole file, `WriteNew` never replaces, a result is truthful | `AtomicFile`, `ArtifactPublish`, `ArtifactPublishProofs` |
| destination checks (`internal/artifact/destinations.go`) | none | `ValidateDestinations` | a command must not destroy what it reads, nor one of its outputs with another | `ReportPublication` |
| snapshot store (`internal/snapshot`) | snapshot files | `Write`, `Load`, `Validate` | a snapshot says truthfully what it is; two captures race for one path | `PiaceRuns`, `CandidateRequest`, `ArtifactPublish` |
| canonical JSON and checksums (`internal/snapshot/canonical.go`) | none | `CanonicalJSON`, `CanonicalNumberString`, `Checksum` | one spelling for each number, within a bounded shape; the rest is a function of text | `Numbers`; the bounds in `Differences` |
| capture (`internal/capture`) | the target outcomes of a run | `CaptureFacts`, `CaptureCatalog` | targets are independent; the API that answered is recorded, not the configured one | `PiaceRuns`, `PiaceRunsProofs` |
| compare (`internal/compare`) | the result document of a run | `Workflow.Run`, `compareTarget` | baseline before candidate; targets are independent; nothing skipped counts as clean | `PiaceRuns`, `PiaceRunsProofs` |
| compiler adapter (`internal/compiler`) | none; stores facts and catalogs in PuppetDB through v3 | `RequestCandidate`, v4 with optional fallback, v3 | a fallback only by policy; an attempt that failed is still told of; an answer for another node or environment is refused | `CandidateRequest`, `PiaceRuns`, `PiaceRunsProofs` |
| fact and baseline sources (`internal/puppetdb`) | PuppetDB's latest factset and catalog, snapshot files | `Load`, `LoadBaseline` | what they return changes under the run | `PiaceRuns` |
| outcome and exit code (`internal/model/outcome.go`, `internal/exitcode`) | outcome, exit code, reasons | `ClassifyOutcome`, `Finalize`, `Reduce` | every combination of failures and differences gives the class it should, and the reasons explain that class | `Outcome`, `ResultDocument`, `OperatorProofs`, `ResultDocumentProofs` |
| command line and reports (`cmd/piace/main.go`) | the files named on the command line, standard output | `compare`, `explain`, `capture` | partial publication; the exit code and the message match what exists | `ReportPublication`, `ReportPublicationProofs`, `PiaceRuns` |
| configuration resolution (`internal/config/resolve`) | the resolved targets and endpoints | `Load`, `ValidateComparisonTargets` | the file is read twice; every problem of every target is found; an override reaches every block; the services required are those that are used | `Configuration`, `ImpactEstimation`, `ImpactEstimationProofs`; its results in `PiaceRuns` |
| normalization (`internal/normalize`) | none | `Catalog` | two wire forms of one catalog; what storing added is dropped and nothing else; all or nothing | `Numbers`, `References`, `Normalization`, `CatalogForms` |
| semantic difference (`internal/diff`, `internal/model/pcore.go`) | the node difference | `Diff`, exclusions, fidelity, redaction | exclusions after differences, first match wins; rich values against their stored strings; secrets marked on one side only | `Values`, `TreeSteps`, `TreeOperators`, `ValueTrees`, `Exclusions`, `Differences`, `ComparisonResult`, `ComparisonProofs` |
| file content evidence (`internal/filecontent`, `internal/capture/content.go`) | none | `ResolveSide`, `ResolveFileContentEvidence`, `ResolveMembershipEvidence`, `Digest` | today's bytes must not stand for a historical catalog's; sources are tried in order while code is deployed | `FileContent`, `ContentEvidence`, `ComparisonProofs`, `Differences` |
| aggregation (`internal/aggregate`) | the groups | `Build` | members under different redaction policies in one group | `Aggregate`, `ComparisonResult`, `ComparisonProofs` |
| impact estimation (`internal/impact`) | the estimates | `EstimateAll`, `Estimate` | an answer at the limit; limits of one identity seen on several targets; deadlines | `ImpactEstimation`, `Sorting`, `ImpactEstimationProofs` |
| change assessment (`internal/assess`) | the plan, the request, the assessment | `Produce`, `BuildRequest`, `Interpret`, `Reveal` | evidence is shed until a request fits, and what is reported as sent was; ids mean the same group to the request and to the reply; one retry whose first reply is not mixed with the second | `Assessment`, `Sorting`, `AssessmentProofs` |
| inference client (`internal/inference`) | none | `Complete` | one bounded exchange | `Assessment` (its replies) |
| transport (`internal/transport`) | none | `Do` | every request ends | one failing outcome of each request |
| report validation (`internal/report/validate.go`, `decode.go`) | none | `Validate`, `DecodeJSON` | what a reader refuses, and that a producer never makes it | `ReportValidation`, `ComparisonResult`, `ReportPublication` |
| report rendering (`internal/report`) | none | renderers | wording and layout | a step of `ReportPublication` that may fail |
| change-context, debug tracing, limits, safe metadata | none | | text only | not modelled |

How they interact: `cmd/piace` resolves the target file and checks the
destinations, then runs `compare` or `capture`. For each target these load facts,
load the baseline (compare), ask the compiler adapter for a candidate, and
either normalize and diff the two catalogs or write a snapshot through
`internal/snapshot` and `internal/artifact`. `model.Result.Reduce` classifies
what was collected; `cmd/piace` renders every artifact and publishes them
through `internal/artifact`. A later `explain` reads the result document back,
and refuses one that does not validate.
Between processes there are only files, PuppetDB, and pipes.

## Modules

| module | models | lines of code it stands for |
|---|---|---|
| `AtomicFile` | the abstract promise of one destination: a register whose content is replaced or created in one step and read whole | `Write`, `WriteNew` as a caller sees them |
| `ArtifactPublish` | the system calls of `Write` and `WriteNew` | `publish.go` |
| `ArtifactPublishProofs` | theorems about it, and that it implements `AtomicFile` | |
| `Outcome` | classification and reduction as operators | `outcome.go`, `exitcode.go`, `Finalize` |
| `ResultDocument` | the document while a run fills it, and `Reduce` with its reasons | `outcome.go`, `workflow.go` |
| `OperatorProofs` | lemmas about `Outcome`, `Sorting`, lists (filtered, flattened) and least numbers that the other proofs cite | |
| `ResultDocumentProofs` | theorems about a document with any number of targets and diagnostics | |
| `CandidateRequest` | the decisions of the compiler adapter, provenance and its validation | `request.go`, `response.go`, `adapter.go`, `store.go` |
| `PiaceRuns` | processes of compare, capture facts and capture catalog on one target file, with PuppetDB, compiler and snapshot files | `compare/workflow.go`, `capture/workflow.go`, `adapter.go`, `filesource.go` |
| `PiaceRunsProofs` | theorems about them for any number of targets and processes | |
| `ReportPublication` | processes of compare and explain on the files of one directory | `main.go`, `destinations.go` |
| `ReportPublicationProofs` | theorems about any number of them on any files | |
| `Sorting` | what a stable sort makes of a finite set, and a filter of a list | `rankGroups`, the sorts and loops of `internal/diff` and `internal/aggregate` |
| `Assessment` | one change assessment, from the plan to the artifact | `produce.go`, `request.go`, `interpret.go`, `pseudonym.go`, `client.go` |
| `AssessmentProofs` | theorems about it for every comparison, reply and size | |
| `Values`, `Numbers` | the values of parameters, and the canonical form of numbers | `model/pcore.go`, `snapshot/canonical.go` |
| `TreeSteps`, `TreeOperators`, `ValueTrees` | what is asked of values at any depth: the bodies of the recursive functions, the functions as their callers see them, and the recursion | `model/pcore.go`, `model/disclosure.go`, `internal/diff` |
| `FileContent` | what is known of a File's bytes, as operators | `evidence.go`, `resolver.go` |
| `ContentEvidence` | one File through a capture and a comparison, beside deployments | `capture/content.go`, `evidence.go` |
| `Exclusions`, `Differences` | the difference of two normalized catalogs, and what of it is published | `internal/diff` |
| `Aggregate`, `ReportValidation` | the groups of a document, and what readers ask of it | `build.go`, `validate.go` |
| `ComparisonResult` | the data of a comparison from catalogs to document, composing the rows above | `compare/workflow.go` |
| `ComparisonProofs` | theorems about the content of one File, for every file server and any deployments, and about a comparison of any catalogs | |
| `References`, `Normalization` | the normalizer | `internal/normalize` |
| `CatalogForms` | the compiler's and PuppetDB's forms of a manifest, normalized and compared | `compare/workflow.go` |
| `Configuration` | resolution of the target and services files, as operators | `internal/config/resolve` |
| `ImpactEstimation` | a command from reading its files to its last estimate | `load.go`, `internal/impact` |
| `ImpactEstimationProofs` | theorems about it for any target files, saves, flags and PuppetDB | |

`PiaceRuns` extends `CandidateRequest` and `Outcome`, so that a comparison's exit
code is computed by the same operators that `ResultDocument` checks on every
document. `ComparisonResult` takes its operators too, and `CatalogForms` ends
in `NodeDiff`, the very difference that `ComparisonResult` publishes. `PiaceRuns`
and `ReportPublication` change a file in one step: that is
the promise of `AtomicFile`, and the refinement shows that the code keeps it.
Operators whose comment begins with "Mutant" are faults: each is a plausible
mistake in the code, and substituting it for the definition that follows it
breaks a property, which shows that the property looks at that code. Nothing
else uses them.

The prover sees through the definition of a function that refers to itself, and
not through `SelectSeq`, `SortSeq` or `FoldLeft` of the libraries. In the
modules that are proved about, a loop is therefore such a function (`ReduceAll`,
`Kept`, `Sorted`, `ReadLiteral`), or the library's fold where only the shape of its
result matters, and a sort is `Arranged` of `Sorting`: at each place the element that
exactly the elements of the places before it precede.

A parameter's value is a tree, and the code's functions on values call themselves.
`TreeSteps` has the body of each with the recursive call as a parameter.
`TreeOperators` declares the functions as constants, and `Differences`,
`Aggregate`, `ReportValidation` and `ComparisonResult` take them from there, so
that they can be proved about; `TreesAreRecursive` is all that is assumed of them:
each satisfies its equation. `ValueTrees` closes the recursion with `RECURSIVE`
operators, and only the modules of runs use it: the run of
`comparison_result` gives these operators to the constants and evaluates the
assumption on every value in use.

### ArtifactPublish

A *writer* is one call, named like the inode it creates. `pc[w]` is its next
system call: `stat`, `create` (MkdirAll and CreateTemp), `chmod`, `write`,
`sync` (Sync and Close), `publish` (rename or link), `syncdir`, `cleanup` (the
deferred `os.Remove`), and `inplace` for a destination that is not a regular
file. Each may fail where the code has an error path. `dest` is what the path
names; `survivors` is what it may name after a power failure, because a rename
is lost unless the directory was fsynced. A file's record says how many of its
bytes are there, under which mode, and whether they are fsynced; a power failure
leaves bytes that were not fsynced torn. A *reader* opens the path and reads to
the end later; it keeps its inode over renames.

Assumed: `os.CreateTemp` never returns a name twice, the deferred `os.Remove`
works, and nobody but PIACE removes the destination. An error from `Close` is
one of the errors of staging. A killed process may leave a `.piace-*.tmp`
behind, and the code promises nothing else. Writing in place is not atomic, as
the package comment says, and promises nothing about content.

### Outcome and ResultDocument

`Outcome` has the precedence table, `Reduce`, `ClassifyOutcome`, `Finalize` and
`ForOutcome` with their default branches. `ResultDocument` builds every document
up to its bounds and reduces it. Messages are numbers, as are certnames, whose
order stands for the order of names. The fixed text that a clean run has as its
only reason is the empty list.

### CandidateRequest and PiaceRuns

`policy` is the resolved target file, shared by all processes; `invocation` is
each command line. `pc` walks through the handler of one target: `facts`,
`baseline`, `compile`, `v4`, `v3`, `v3sent`, then `diff`, or `content` and
`write`. A request is two steps, sending and answering, so that the rest of the
world moves in between. An *answer* is a class that `processResponse` tells
apart (no response, generic 404, another status, an error member, malformed, or
a catalog for some node and environment). A v3 request may put its facts and
its catalog on PuppetDB's queue whatever is answered, and PuppetDB applies the
queue when it likes; agents replace facts and catalogs meanwhile. `origin`
tells where evidence comes from and `servedBy` which endpoint compiled a
snapshot; both are the model's knowledge, no code reads them. `sent` is a
history variable.

Abstractions: local failures to build a request, duplicate identity checks and
every transport or decoding error of a source are one failing outcome with the
operation the code gives it; the order of targets is any order; a difference is
a choice between same and different with the diagnostics it may add. All
processes use one target file: with two different target files for the same
node one may permit v3 and the other read PuppetDB, and what
`BaselineIsAgents` says would not hold; the code restricts one target file at a
time and cannot see another.

### ReportPublication

A process checks its destinations, works, renders *all* artifacts, publishes them in
order (JSON, HTML, JUnit, text; or assessment and HTML) and exits. An artifact
records its kind, the comparison it tells of and its writer. Two names of the model
are never one file, but for two: `Dash` is the path `-`, which the check skips, and
which `artifact.Write` takes for `DashFile`, the file of that name.
`ValidateDestinations` resolves links, which is not modelled. A write to a file
succeeds or leaves the file as it was; a write to standard output may leave a part.
`explain` reads a file, or from the end of another process's output.

### Assessment

`pc` follows `Produce`: `plan`, `fit` (the loops of `fitPayload`, one group a
step), `refuse` (`BuildRequest` failed), `await` (a request is out), `done`.
`planned` is `Produce`'s plan and `doc` the payload that `buildPayload` makes of
a plan of its own; they are two variables because the code keeps two, and cuts
one to the length of the other. `sent` and `replies` are the exchanges, `told`
the diagnostics. A reply is one of three: `failed` (`Complete` returns an error),
`unusable` (its content is not the requested JSON) or `usable`, with entries
that may name any id, twice or never, and any risk.

Abstractions. A text is three numbers: its bytes, the bytes that JSON quoting adds
to them when the payload becomes a string of the message, and what it would take
without indentation, which is how `groupsByEncodedSize` measures. A group is a frame
(its identity, nodes, edge and content) and the text of its values. Values are shed
in the order of the whole group's size, as the code does it: those of a group with
many nodes go before those of a smaller group, even when they are the smaller
values, although the comment (`internal/assess/request.go:509-510`) gives as the
reason that shedding then starts where it buys the most room. The context is counted
by the size of its fields and sent as JSON, which takes more. Policy notes, prompt
and the parameters of the request are within `Allowance`. Groups are ordered by
reach and a `key` that stands for kind, identity and parameter; several groups may
share all three, with different changes, and stay in the order of the document.
Prose is a sequence of words of which the first numbers are the aliases; only the
run's summary is modelled, and rationales are revealed the same way.

### Values, Differences, Aggregate, ReportValidation and ComparisonResult

A parameter's value is a record of its kind and content (`Values`), a text being
a sequence of the tokens a property tells apart; a Pcore rich value is the hash
that stands for it. A normalized catalog is a function from identities to
resources with a sequence of edges. `DiffResources` and `DiffEdges` are the full
difference, `ApplyExclusions` what the rules leave of it and `Publish` what may
be told of that; `NodeDiff` composes them in the code's order. A fingerprint is a
function of its unredacted row, so it is evaluated where the row is published,
while the diagnostics count the rows of the full difference that have none.
`ComparisonResult` takes one step per target (`CompareTarget`, or `FailTarget`
for whatever ended it before), aggregates, and finishes the document, whose
outcome is `Outcome`'s; `ReportValidation!Valid` is what a reader of that
document demands. `done` is a history of the inputs, which the properties need
to say what the difference *should* be: `SameParameter` compares rich values
with a table of what PuppetDB stores (`StoredAs`, measured), not with the code's
projection; `Tokens` and `Places` read what a value discloses.

Abstractions: a title pattern is the set of titles it matches; a digest is the
algorithm's length and the bytes, so no two contents share one; a fingerprint is
the row it hashes. Edges are sorted by type and title where the code compares
`Type[title]` strings, and groups are a set: both orders are layout.

### FileContent and ContentEvidence

`FileContent` has the decisions of `internal/filecontent` as operators;
`LocalEvidence` either answers from the catalog or names the references to ask
for, and `Digest` is what one answer amounts to. `ContentEvidence` runs them:
`Capture` compiles a File and asks for its content, `EndCapture` refuses or
keeps the digest, `Compare` compiles it again, resolves the baseline (the
snapshot, or what PuppetDB kept, which holds no digest), then the candidate, and
tells. Each request is a step, and `Deploy` may change what the file server
answers between any two. `asked` is the history of each side's requests, with the
answer that each of them got.

Abstractions: every failing request is one answer, status 500; escapes of a URI
are the tokens that the parser refuses or not; content is a short sequence of
tokens.

### References, Normalization and CatalogForms

`Normalization` decodes both forms of a catalog from the same value domain as
parameters. `CatalogForms` starts from a manifest and writes it as the compiler
answers (edges as references or as objects), or as PuppetDB returns it: with an
edge for every relationship parameter, an alias, other orders and spellings.
These writers are external and describe what the normalizer's comments and tests
say of Puppet. `Damages` are the malformed forms of an answer.
Rich values are not part of its manifests: their stored form is
`ComparisonResult`'s.

### Configuration and ImpactEstimation

`Configuration` is pure: it returns all problems, and a value if there are none.
`ImpactEstimation` reads the target file once to decide which services are required
and once to resolve it (`Load` does), with `SaveTargetFile` in between; works on
targets in their order, where a source without a client would panic; and runs
`EstimateAll`, one query at a time. A type and a title are sequences of characters,
because the query quotes both: `Letters` are the characters that are escaped and the
letter that each is escaped to (the quote, the backslash, and a line end in the
run), `Escaped` writes them and `ReadLiteral` is PuppetDB's reading of the literal.
Agents replace catalogs while the estimates run; `holders` is the history of who had
the resource when each query was answered.

Abstractions: decoding YAML succeeds or yields `Undecodable`; a path is its
segments; a duration either parses or not, and has a value.

## Runs

Every run takes at most about a minute and a half. `CHECK_DEADLOCK FALSE` is in all of them,
since commands end and nothing follows.

| run (cfg) | instance | what it shows |
|---|---|---|
| `publish` (`MCArtifactPublish.cfg`) | two writers, each `Write` or `WriteNew`; one reader; two power failures; a path that is absent, a file, or a device; fairness | `PublishedWhole`, `DurableOnceReturned`, `OneNewWinner`, `ReturnLeavesNoTemp`, `CallsReturn`, and the refinement `ImplementsAtomicFile` |
| `result_document` (`MCResultDocument.cfg`) | two targets, two diagnostics each, two of the run, four kinds of diagnostic | what exit 0 means, and that the reasons explain the outcome |
| `runs` (`MCPiaceRuns.cfg`) | two processes of any command, one target of any policy, an agent, one environment | nothing a v3 compile leaves behind passes for evidence; v3 is never hidden; snapshots record the endpoint that answered |
| `runs_targets` (`MCPiaceRunsTargets.cfg`) | one process, two targets of different policies, two environments, fairness | exit 0 is sound; no compile without a baseline; the command ends |
| `reports` (`MCReportPublication.cfg`) | a comparison beside an explain or another comparison, a few files, destinations that collide in each way, `-` and the file of that name among them | the exit code and the error message match what was written; checked inputs are kept; one explain tells of one comparison |
| `assessment` (`MCAssessment.cfg`) | up to three groups, of two reaches and five kinds of evidence (one is a large group with small values), five contexts, a plan of two or three; replies of each kind, with up to two entries | evidence is shed in its order, no request is over the limit, the artifact says what was sent, a judgement is the last reply's on the group the request numbered so |
| `content_evidence` (`MCContentEvidence.cfg`) | one File of every kind of evidence at capture and at comparison, two sources, answers of each kind, deployments | no baseline is fetched; changed and unchanged are true of bytes; silence means verified; the first source that exists is the one taken |
| `comparison_result` (`MCComparisonResult.cfg`) | two targets; catalogs with rich values, Files and edges; marked, wrapped and selected secrets; rules in both orders; failing targets | the verdict is the semantic difference; exclusions add up; no secret and no digest of one gets out; a group shows exactly what all of its members show; readers accept the document |
| `catalog_forms` (`MCCatalogForms.cfg`) | pairs of manifests with numbers, lists, brackets in titles, relationships and aliases; each answer intact or malformed | storing a catalog is no difference, normalizing hides none, and nothing is compared in part |
| `impact` (`MCImpactEstimation.cfg`) | target files with and without estimates, overrides and files; one save of the file, one agent run, up to three targets; fairness | an estimate is who was affected; the first enabling target decides; required services are the used ones; overrides reach every target; estimates end |

Two writers are enough for `publish`: every property relates at most two calls, and a
third could only do to them what the second does; the theorems make the point
for any number. One environment in `runs` makes it easiest for a candidate to
pass for a baseline; two processes are enough because the properties follow one
value from the process that produced it to the one that used it, and a third
could add only another producer. Two targets in `runs_targets` are what it takes
for one failure to touch another target. In `assessment` the sizes
are chosen so that a payload may fit at once, after one, two or all values, after
groups, or never; so that a payload that fits makes a request that does not; and
so that a retry does or does not fit. Three groups are what it takes for one to
go from the middle; two entries may contradict each other. In
`content_evidence` two deployments let every reference change between capture and
comparison and again between two requests; two sources are what an order needs.
In `comparison_result` a
row is compared with others of its target and of one other target, which is all
that exclusions, groups and the document relate; numbers are bounded to two
digits so that one that cannot be encoded exists. In `catalog_forms` no two
manifests mean the same, so equality of manifests is the reference for
equality of catalogs; a catalog has two resources, which is what an edge and a
reference need. In `impact` a limit is reached, met and
exceeded by three nodes; one save is enough for the two readings to differ.
Bounds: `MaxOutages` (power failures),
`MaxPerTarget` and `MaxRunLevel` (diagnostics), `MaxDeploys`, `MaxEdits`,
`MaxAgentRuns`. Nothing else is bounded.
Symmetry is used for the processes of `runs`, which has no liveness.

### Disagreements between the code and what it says

Two runs expect a violation.

* `destinations_not_honored` (`MCReportUnhonored.cfg`) checks `DestinationsHonored`,
  what the comments of `ValidateDestinations` promise, on explains that it fails
  for in two ways. `runExplain` does not name its `--change` file among the inputs
  that are compared, so an explain whose `--ai-out` is that file replaces it and
  exits 0 (`cmd/piace/main.go:788`; `internal/artifact/destinations.go:20-24`).
  And a destination `-` is skipped as a stream
  (`internal/artifact/destinations.go:38-39` and 48-50, `destinations_test.go:105-109`),
  while `artifact.Write` knows no such convention: nothing goes to standard output,
  and a file named `-` is written. As the name is not compared either,
  `compare --json-out - --html-out -` replaces its document with its report and
  exits below 30. The run `reports` has such command lines; `ExitMeansPublished`
  excepts exactly the artifacts that meet there (`Replaced`), and `InputsKept` the
  file of that name.
* `pseudonyms` (`MCAssessmentNames.cfg`): `Reveal` replaces each alias in all of the
  text, certnames it has just put back included. A certname that contains a later
  alias is rewritten, and the prose names no node
  (`internal/assess/pseudonym.go:116`; the comment at 93 says that each pseudonym is
  replaced by its certname).

Others were met while the modules were written and have no run of their own:

* A write to standard output that fails after the first bytes leaves an opening
  line that states one outcome while the process exits 30
  (`cmd/piace/main.go:452`; the comment at 396-398 says it cannot occur).
* `compare --json-out /dev/stdout` without `--text-out` writes the text report
  after the document on the same stream, and `explain --json-in -` refuses it
  (`cmd/piace/main.go:451`; the comment at 874-876 recommends the pipe).
* Evidence is shed until the payload fits, and the payload is then quoted into a
  message, where each quote, backslash and line end takes a byte more. What the
  allowances do not cover makes the request too large, and the assessment fails
  with every group in place (`internal/assess/request.go:454` and 198;
  `docs/change-assessment.md:49-51` says that evidence is shed).
* `capture catalog` asks for the content of a File whose `ensure` is `absent` or
  `link` and refuses the capture when that fails (`internal/capture/content.go:37`);
  `internal/filecontent/doc.go:50-55` says that such a File is reported without
  evidence and without a diagnostic. `SilenceMeansVerified` and `Capture`
  describe the code.
* A number that normalization accepts may have more digits, once its exponent is
  expanded, than canonical JSON takes, so its row has no fingerprint and an
  error (`internal/diff/diff.go:55-57` calls that impossible;
  `internal/snapshot/canonical.go:300`). `Encodable` models it; such a row is a
  group of its own.
* `internal/diff/edges.go:11-15` speaks of deduplicated edges, and
  `internal/normalize/catalog.go:103-116` removes none.
* A target file saved between its two readings may need a PuppetDB client that
  was not built; the comparison then calls a nil source
  (`internal/config/resolve/load.go:76-120`, `cmd/piace/main.go:374`).
  `RequiredIsUsed` says that this needs an edit, and says nothing of what happens
  after one.

## Fairness

`CallsReturn` assumes weak fairness of `CallStep(w)`: a call's next system call
eventually returns, with success or an error. No step of a call waits for
another call, so nothing stronger is needed. `RunsEnd` assumes weak fairness of
`RunStep(r)`: every request of `internal/transport` has a deadline
(`client.go`, `DefaultTimeout`), file operations return, and an answer or an
error is always one of the outcomes of the step. `EstimationEnds` assumes weak
fairness of `Estimating`, in which only the deadline ends a query: whether
PuppetDB ever answers is left open. None assumes anything of
agents, of PuppetDB's queue, or that a process is not killed: killed is one of
the ends the first two properties allow.

## Proofs

`ArtifactPublishProofs` proves, for any sets of writers and readers and any
number of power failures, each invariant and action property of `publish`, the
refinement, and `NoTornRead`, `ResultTellsTruth` and `NewNeverReplaces`, which the
refinement implies and no run repeats. The assumptions are those of the module:
the contents `Nothing`, `Original`, `Device` and the writers are distinct
(`DistinctContents`) and `MaxOutages` is a natural number.

None of the properties is inductive. The invariant `IInv` adds to them:

* `Progress`: what a writer's file looks like at each system call. Without it
  nothing says that what is renamed was fsynced.
* `Published`: a file that was ever put at the path is whole, its call has
  result `ok`, and while the call is about to fsync the directory the path
  names something at least as recent. This is what makes the fsync cover the
  call's own publication, or a later one that replaced it.
* `Reachable`: whatever the path names, may name, or a reader has open was
  published. With `Published` it gives `PublishedWhole` and `NoTornRead`.
* `DeviceStays`: a device is never replaced, so that a writer that saw one wrote
  to one.
* `OneHolder`: of the `WriteNew` calls whose publication is or may still become
  permanent there is one. This is `OneNewWinner` before its call returns: the
  second must have linked onto an absent path, which a power failure could have
  made only of a publication that was not permanent.

`TypeStep` and `NextInv` have one step per action, and under it one per
conjunct the action can disturb. The refinement maps the content to the inode
the path names and the call's phase to its program counter: `Apply` is the
rename or link, everything before it stutters, and `Settle` is the directory
fsync. `InitRefines` and `StepRefines` are combined with `IInv`.

`PiaceRunsProofs` proves, for any sets of targets, processes, environments and
policies, type correctness and eight of the properties of `PiaceRuns`:
`BaselineIsAgents`, `V3NeverHidden`, `V3OnlyWhenPermitted`,
`NoCompileWithoutBaseline`, `SnapshotTellsTruth`, `CaptureFitsValidation`,
`FactsNotRecycled` and `EveryTargetReported`. It assumes what `PiaceRuns` does:
the target file is one the resolver accepts (`PoliciesResolved`), the command
lines are ones `main.go` accepts (`InvocationsParse`), the stores hold what
agents and truthful captures left (`StoresAreEarlierWork`), and "nothing" is no
value (`AbsentIsNothing`, `AbsentIsNoResult`). For `BaselineIsAgents` the third
says that no candidate was in PuppetDB before the first command; it is the
place where a target file that was edited between two commands would show.

The properties speak of completed results and of files, and none is inductive:
what makes them true happened several steps earlier, in another handler or
another process. `RunsInv` is the conjunction of

* `Place`: a target is to come, at hand, or reported, and nothing was sent for one
  to come. It is `EveryTargetReported` before the run ends.
* `Way`: what has been sent for the target at hand, by where the run is; at `v3`,
  for instance, either v3 is the configured API or fallback is permitted and
  this target's v4 request was answered generically. It also carries the refusal
  of the whole target file, made once at the start, to every later stage.
* `Worth`: what the result in hand and every reported one tell (`Told`, which is
  `V3NeverHidden` of an unfinished result) and rest on (`Based`). It holds at
  every stage but `v3sent`, where the request is out and not yet recorded: the
  answer, whichever it is, restores it.
* `Traces`: where facts and catalogs of v3 compiles may be - queued, in PuppetDB,
  in a snapshot - and that the target's policy permits v3 if they are. This
  follows a value through processes that know nothing of each other.
* `HoldsCandidate` in `TypeInv`: a run that holds a catalog holds the one it asked for.

`TypeStep` and `RunStepKeeps` have one step per action; `UntouchedKeeps` is what
lets other processes' parts stay; `TracesKeep` and `SnapshotKeeps` treat the
shared state, and `StepKeeps` puts them together.

`AssessmentProofs` proves `RequestsStayInBudget`, `ErrorMeansUnjudged` and
`JudgementsAreTheLastReplys` for any comparisons, replies and sizes. It assumes
their shape (`InputsHaveShape`) and that sizes are numbers (`SizesAreNumbers`).
`AssessmentInv` adds to them what ties the plan to the payload:

* `PayloadIsPrefix`: position by position, the payload holds the group that the
  plan holds there, under that position's id, whatever was shed. Shedding from
  anywhere but the end would break it, as `ShedGroupLargest` shows.
* `SentIsPayload`: what was sent is the payload, and the plan has been cut to
  its length. With the former, it makes an id in a reply mean to `Interpret` the
  group it meant in the request.
* `Awaiting` and `BeforeSending`: how many requests and replies there are at each
  stage, and that a first reply that was answered by a retry was unusable.

`RiskIsAnswered` needs a last entry among those for an id. There is an induction
in that, which `LeastNumber` takes from the library's theorem on well-founded
relations.

`SheddingInv` is a second invariant, on top of `AssessmentInv`, and proves
`ArtifactTellsWhatWasSent` and `EvidenceShedInOrder`. `PlanIsRanked` says that the
plan is always a prefix of the ranking, before and after it is cut to the
payload; `LargestFirst` and `ValuesBeforeGroups` say what is left at each step of
shedding (the groups without their values are the largest ones, each as a whole),
where the properties speak only of what was sent in the end;
`PayloadCounts` and `ArtifactIsOfPayload` carry the payload's counts over to an
artifact made when the payload is no longer looked at. What sizes add up to plays
no part: that a request fits is `RequestsStayInBudget`, which the size checks give
whatever the sums are.

### Operators

`OperatorProofs` is about lists and sets of any size. `Loop` shows that a recursive
function over a list's positions is what its rounds say, and `CountingUp` that what
each round keeps holds at the end. With these, `FinalizedIsWorst` says that
`Finalize` is the most severe of the classes it is given, `KeptAreThose` what a
filter keeps, and `ZeroMeansAllowed` what exit code 0 says of any list of targets
and diagnostics. `ArrangedInOrder` says that `Arranged` puts each element of a
finite set in its one place, for any strict total order: the numbers of elements
before each are all different, and so are all of the places there are.

### ResultDocumentProofs and ZeroExitIsSound

`DocumentInv` says what `Reduce` made of what the document holds; the two properties
are then about operators. `ReasonsExplainOutcome` needs that a reason is given for
each class that occurs (`ReasonsAreGiven`) and that the sort puts the worst class
first (`SortedLeastFirst`). Assumed: certnames are numbers whose order is that of the
names, and a diagnosis has a severity, an operation and a message.

`ZeroExitIsSound` joins this to the runs: `VerdictInv` is `RunsInv` with `Verdict`,
which says that a result without an error was compared with what was asked for, and
that a run that ended with 0 classified every target as allowed. The order in which
the report lists targets is unknown to it; that it lists each of them
(`Listed`) is why `Targets` has to be finite (`TargetsAreFinite`).

### ReportPublicationProofs

`PublicationInv` proves the four properties of `reports`:

* `RenderedOnce`: what is being published is what the process rendered, each kind
  at most once and at the path its command line gave it (`Lists`), and only after
  the destination check.
* `FilesAreArtifacts`: a file that a process wrote last holds an artifact that it
  published there. A later write of the same process to the same path would break
  this for the earlier kind; the check, which was passed before, excludes it unless
  one of the two was given as `-`, which is what `Replaced` says.
* `OwnDocument`, `ExitIsLast`, `ToldOnFailure`: what the exit code and the message
  were made from, kept until the end.

Assumed: `CommandLinesParse`, `BeforeIsEarlierWork` and `NamesDiffer`: a path,
standard output, `-` and the lack of a path are told apart.

### ComparisonProofs: the content of one File

`EvidenceInv` proves the four properties of `content_evidence`. `OneSideAtATime` and
`StillAsking` follow a side: what it asked for is a prefix of its references, in
their order, each answered as absent, and the rest is still to ask for. Without
it nothing says that the source taken is the *first* that existed, since the
server may have changed in between. `VerifiedIsDigest` ties an answer to its
algorithm, so that two digests of one algorithm tell bytes apart;
`SidesAreOfCatalogs` says that only the comparison's baseline is historical;
`ToldOfTheSides` says what the verdict was made of. Assumed: responses have a status and
bytes (`ResponsesAreHTTP`), the Files are ones a catalog can hold
(`FilesAreWellFormed`), and every reference of theirs that parses is one of
`Sources` (`SourcesAreWellFormed`).

### ComparisonProofs: a comparison

`ComparisonInv` says that targets are done one after the other (`InTargetOrder`), that
each result is that of its inputs or a failure (`TargetsAreDone`), and that groups and
document are those of the results (`ThenAggregated`, `ThenFinished`). What is left to
prove of a property is then a fact about operators, for catalogs of any size.

* `ExclusionsAddUp`. The rule that a row is counted under is the first that
  touches it (`CoveringIsFirst`): the code's loop over the rules and `Covering`, a
  set of rules, agree. With that, the rows are partitioned by the rules, and what
  a filter keeps of a list has as many elements as places it came from
  (`NothingIsLost`, `KeptOfList`).
* `VerdictIsSemantic`. `FullRows` says which rows there are, out of two sorts, a
  loop over names and two concatenations; `RowsOfResource` that a resource has one
  exactly when it is not `SameResource`. The step that matters is
  `ProjectedIsStored`: the code's projection of a value is the value that PuppetDB
  stores for it. Values may be nested to any depth, and induction on data is not
  to be had; the argument takes an *innermost* value of which it fails
  (`Innermost`: of a set of values that is not empty, one holds no other of them,
  by the library's least element of a set of numbers) and shows that it holds there.
  `VerdictIsSemanticHolds` has a hypothesis, `EscapesAsMeasured`: of a Regexp in
  the catalogs, what `EscapeRegexpSlashes` writes is what was measured. That is
  about a loop over characters and a table of measurements, not about the
  difference; TLC evaluates it on the run's table, where the mutant of that loop
  breaks the property.
* `GroupsDiscloseLeast`. A published value is a *masking* of the row's value
  (`RedactedIsMasked`): the value with masks at some places. Members of a group have
  one fingerprint, hence maskings of one and the same value, and of these
  `RestrictProjection` gives another masking of it, which shows a place exactly when
  both show it (`RestrictedShowsBoth`); `ProjectedStepwise` carries that along the
  members. A place is a way into a value with what is there, the shape of a list or
  a hash included, so a group that masked more than its members do would break the
  property as one that masks less would. A change without a fingerprint is alone in
  its group, where there is nothing to restrict. Without the fingerprint the theorem
  is false: two shapes have no common masking.
* `ProducedIsAccepted`. The validator and the producer are two pieces of code in
  two packages; the proof follows each check of the first back through the
  second. What a side resolves to is a digest with its algorithm, and a marker is
  none (`ResolvedIsKnown`, `KnownDigests`), so evidence is valid when it gets into
  a row and when it is redacted (`PublishedEvidenceIsValid`). A redacted pair
  holds no wrapper at any depth (`RedactedIsClean`, by an innermost pair again),
  and restricting one masking by another makes none (`RestrictedStaysClean`), so
  that neither rows nor groups are refused for what they disclose
  (`PublishedIsAcceptable`, `GroupIsPublishable`). A target has an outcome that
  goes with its errors and its difference (`ResultIsClassified`,
  `TargetsAreValid`), and each reference of a group leads to the row it was made
  of (`RefLeadsToRow`), also for edges, which have no values.

Assumed, beside `TreesAreRecursive`: certnames are numbers that stand for their order
(`TargetsAreNumbered`); names and titles are ordered and not empty, and no type or parameter is
named `__ptype`, since Puppet's names begin with a letter (`NamesAreOrdered`; PIACE does
not check this, and of a parameter of that name with the value `Sensitive` the reader would
refuse the document);
inputs are what the normalizer, PuppetDB, a snapshot and a file server give
(`InputsAreNormalized`); a target that ends early has an error
(`FailuresAreErrors`); a value is deeper than the values in it (`ValuesAreTrees`).

### ImpactEstimationProofs

Three invariants, each on top of the one before.

* `ConfigInv` proves `RequiredIsUsed` and `OverrideReachesEveryTarget`. What is
  required follows from the file as it was first read (`ForeseenByFirstReading`),
  what is used from the second reading (`ResolvedBySecondReading`), and a
  service that lacks means that the file was saved (`LackedOnlyAfterASave`). The
  argument is that both readings merge in the same way, for any target.
* `EstimationInv` proves `FirstEnablingTargetDecides`. `OrderIsKept`: the estimates
  made and the queue are together the selected identities in order, each under
  the limits of its `Winner`; `ErrorsAreTold`: the diagnostics are those of the
  estimates without an answer, so that nothing is told twice or of another.
* `AffectedInv` proves `EstimateIsWhoIsAffected`, by `AskedOfTheNext`: the query
  that is out is for the head of the queue and asks for one more than its limit.
  Two facts carry the step where the answer arrives. PuppetDB reads
  back the type and title it was asked for, whatever characters are in them
  (`LiteralsAreReadBack`: reading is the inverse of quoting, for texts of any
  length). And the first `limit + 1` of the holders tell reaching the limit from
  exceeding it (`AnswersNameTheAffected`), which needs a limit that is a positive
  number: a target whose limit is not is a problem of the file, and a file with a
  problem is never resolved (`ResolvedLimits`).

Assumed: files are what decoding can give (`TargetFilesAreDecoded`), the alphabets
that stand for the order of names are sequences, and no two characters are escaped
to the same letter (`LettersTellCharacters`; the table is at
`internal/impact/pql.go:56-81`).

### Only model-checked

* Liveness, which is out of the prover's reach here: `CallsReturn`, `RunsEnd` and
  `EstimationEnds`.
* `SecretsStayInside`: which values are secret is told by the tokens that they are
  made of, and an assumption that only marked values hold those tokens would have
  to follow the wrappers down as the code's redaction does, so that the theorem
  would repeat its hypothesis. The run decides it on the tokens themselves.
* The three properties of `catalog_forms`. What they compare are manifests with what
  the normalizer makes of two ways of writing them, each a recursion on the data
  written; an induction on it is out of the provers' reach here.

## Not modelled

String encodings (JSON, YAML, PQL beyond the quoted type and title) and checksums; the
wording and layout of reports; TLS, redirects and size bounds (each is an error
of the request it hits); the inference section of the services file; flag
parsing; loading a change context and the git invocations that write one; debug
tracing; deciding that two path strings are one file; the Puppet compiler and
PuppetDB beyond what PIACE sees of them, which are the actions marked external
in the map. Hazards that no property covers say so in `PROJECT.json`.

## Plan

1. Done: publication and its refinement, the runs of compare and capture, and the
   change assessment, with proofs; outcomes and the result document; report
   publication; content evidence; the difference with its exclusions, redaction,
   aggregation and validation; normalization of both catalog forms; configuration
   and impact estimation. The safety properties of all of these are proved, but for
   those that "Only model-checked" lists.
2. `SplitReference` as the inverse of `Reference`, and the normalizer's functions on
   data cut into bodies and recursion as `TreeSteps` does, which is what a theorem
   about `CatalogForms` would begin with.
3. The caps of a loaded change context, with the assessment that sends it.
