-------------------------- MODULE ComparisonResult --------------------------
(***************************************************************************)
(* The data of one comparison, from the normalized catalogs of its targets *)
(* to the document it publishes: internal/diff on each target that gets so *)
(* far, internal/aggregate over them, the outcomes, and internal/report's  *)
(* validation of the document by whoever reads it.                         *)
(***************************************************************************)
EXTENDS Differences, Aggregate, ReportValidation

CONSTANTS
  Targets,        \* the certnames of the target file
  Inputs,         \* for each of them, what its comparison may be given
  TargetFailures, \* the diagnostics with which a target may end before a difference
  RunDiagnostics, \* the diagnostics that impact estimation may leave
  CatalogValues,  \* the values of the catalogs, with the values in them
  StoredAs,       \* measured: what PuppetDB stores for the rich values in use
  Secrets,        \* the tokens that only marked or wrapped values are made of
  SelectedToken,  \* a token that only values of the selected parameter are made of
  Stored(_),      \* what PuppetDB would hold in the place of a value
  Tokens(_),      \* the tokens a reader sees in a value
  Places(_),      \* the places of a value that a reader sees, with what is there
  Maskings(_)     \* the values that a value becomes when parts of it are masked

-----------------------------------------------------------------------------
(* What the parameters are                                                  *)

ASSUME TargetsAreNumbered ==
  IsFiniteSet(Targets) /\ Targets # {} /\ Targets = 1 .. Cardinality(Targets)

\* Names and titles are ordered, and a name is never empty.  Puppet's names of
\* types and parameters begin with a letter: none is a rich value's own key.
ASSUME NamesAreOrdered ==
  /\ IsSequence(NameOrder) /\ IsSequence(TitleOrder)
  /\ \A n \in ToSet(NameOrder) \cup ToSet(TitleOrder) : n # ""
  /\ "__ptype" \notin ToSet(NameOrder)

IsIdentity(id) ==
  id = [type |-> id.type, title |-> id.title]
    /\ id.type \in ToSet(NameOrder) /\ id.title \in ToSet(TitleOrder)

\* A catalog as the normalizer leaves it: no name is empty, and PuppetDB's
\* strings have taken the place of what was rich.
IsNormalized(catalog) ==
  /\ IsFiniteSet(DOMAIN catalog.resources) /\ catalog.stringified \in BOOLEAN
  /\ \A id \in DOMAIN catalog.resources : LET r == catalog.resources[id] IN
       /\ IsIdentity(id) /\ WellFormed(FileOf(r))
       /\ DOMAIN r.params \subseteq ToSet(NameOrder) /\ Hash(r.params) \in CatalogValues
       /\ catalog.stringified => ~ContainsRichData(Hash(r.params))
  /\ IsSequence(catalog.edges)
  /\ \A e \in ToSet(catalog.edges) : IsIdentity(e.source) /\ IsIdentity(e.target)

\* What the compiler's file server was found to hold, or why it is not known.
IsAnswer(e) == IF e.ok THEN IsDigest(e) /\ e.source = "compiler_retrieval"
               ELSE e = Unverified("", e.reason)

\* From PuppetDB, or a snapshot with the requests that made it.
IsBaseline(baseline) ==
  /\ baseline.kind = "puppetdb" => baseline.capture = <<>>
  /\ baseline.capture # <<>> =>
       \E p \in Provenances :
         /\ ValidProvenance(p) /\ baseline.kind = "file"
         /\ baseline.capture = <<[requested |-> p.requested, effective |-> p.effective,
                                  fellBack |-> p.fellBack, trusted |-> p.trusted,
                                  warned |-> p.effective = "v3"]>>

ASSUME InputsAreNormalized ==
  \A t \in Targets : \A input \in Inputs[t] :
    /\ IsNormalized(input.before) /\ IsNormalized(input.after)
    /\ IsAnswer(input.retrieved) /\ IsBaseline(input.baseline)
    /\ IsSequence(input.policy.exclude)

\* A target that ends early says so.
ASSUME FailuresAreErrors == \A d \in TargetFailures : Contributes(d)

\* The values of catalogs are built from Undef, texts, booleans and numbers, and
\* a container is deeper than what is in it.
ASSUME ValuesAreTrees ==
  /\ Undef \in CatalogValues
  /\ \A v \in CatalogValues :
       /\ v.kind = "hash" => v = Hash([k \in DOMAIN v.at |-> v.at[k]])
       /\ v.kind = "list" => v = List(v.items) /\ IsSequence(v.items)
       /\ Depth(v) \in Nat
       /\ \A c \in Children(v) : c \in CatalogValues /\ Depth(c) < Depth(v)

\* The value itself, or a mask for it or in it.
MaskingsAt(v, of(_)) ==
  LET within(f) == {g \in [DOMAIN f -> UNION {of(f[k]) : k \in DOMAIN f}] :
                      \A k \in DOMAIN f : g[k] \in of(f[k])}
  IN  {RedactedValue} \cup
        CASE IsHash(v) -> {Hash(g) : g \in within(v.at)}
          [] IsList(v) -> {List(g) : g \in within(v.items)}
          [] OTHER -> {v}

\* A place is a value, or the shape of one that holds others; or a key and a
\* place of what is under it.
PlacesAt(v, in(_)) ==
  LET behind(f) == UNION {{<<k, place>> : place \in in(f[k])} : k \in DOMAIN f}
      shape(f) == <<[kind |-> v.kind, keys |-> DOMAIN f]>>
  IN CASE IsHash(v) -> {shape(v.at)} \cup behind(v.at)
       [] IsList(v) -> {shape(v.items)} \cup behind(v.items)
       [] OTHER -> IF v = RedactedValue THEN {} ELSE {<<v>>}

StoredAt(v, of(_)) ==
  IF v \in DOMAIN StoredAs THEN StoredAs[v]
  ELSE CASE IsHash(v) -> Hash([k \in DOMAIN v.at |-> of(v.at[k])])
         [] IsList(v) -> List([j \in DOMAIN v.items |-> of(v.items[j])])
         [] OTHER -> v

TokensAt(v, in(_)) == IF IsText(v) THEN ToSet(v.text) ELSE UNION {in(c) : c \in Children(v)}

\* All that a reader may be shown in the place of catalog values.
ShownValues == UNION {Maskings(v) : v \in CatalogValues}

\* The recursive operators satisfy their equations at the values in use.
ASSUME TreesAreRecursive ==
  /\ \A v \in CatalogValues :
       /\ ContainsRichData(v) <=> RichDataAt(v, ContainsRichData)
       /\ Unmeasured(v) = UnmeasuredAt(v, Unmeasured)
       /\ ProjectStringifiedRich(v) = StringifiedRichAt(v, ProjectStringifiedRich)
       /\ Stored(v) = StoredAt(v, Stored)
       /\ Maskings(v) = MaskingsAt(v, Maskings)
  /\ \A v \in ShownValues :
       /\ ContainsSensitive(v) <=> SensitiveAt(v, ContainsSensitive)
       /\ Places(v) = PlacesAt(v, Places)
  /\ \A before, after \in CatalogValues :
       RedactSensitivePair(before, after) =
         RedactedPairAt(before, after, ContainsSensitive(before) \/ ContainsSensitive(after),
                        RedactSensitivePair)
  /\ \A v \in CatalogValues : \A a, b \in Maskings(v) :
       RestrictProjection(a, b) = RestrictedAt(a, b, RestrictProjection)

-----------------------------------------------------------------------------
(* The comparison                                                           *)

NoInput == [failed |-> TRUE]

VARIABLES
  done,       \* history: the inputs of the targets compared so far
  results,    \* the target results, in target-file order
  groups,     \* the aggregate
  document    \* the document, once it is finished

comparisonVars == <<done, results, groups, document>>

ComparisonInit == done = <<>> /\ results = <<>> /\ groups = <<>> /\ document = <<>>

Diffs == {results[i].nodeDiff[1] : i \in {j \in DOMAIN results : results[j].nodeDiff # <<>>}}

\* What Outcome needs to know of a target's difference.
Verdict(nodeDiff) ==
  IF nodeDiff = <<>> THEN "nil" ELSE IF nodeDiff[1].hasDifference THEN "different" ELSE "same"

TargetResult(certname, failOnDiff, baseline, nodeDiff, diagnostics) ==
  [certname |-> certname, baseline |-> baseline, nodeDiff |-> nodeDiff,
   diagnostics |-> diagnostics,
   outcome |-> ClassifyOutcome([diagnostics |-> diagnostics, nodeDiff |-> Verdict(nodeDiff),
                                failOnDiff |-> failOnDiff])]

ResultOf(certname, input, diff) ==
  TargetResult(certname, input.policy.failOnDiff, <<input.baseline>>, <<diff.nodeDiff>>,
               diff.diagnostics)

\* compareTarget, once both catalogs are normalized.
CompareTarget(t, input) ==
  /\ groups = <<>> /\ t = Len(results) + 1
  /\ results' = Append(results, ResultOf(t, input,
                  NodeDiff(t, input.policy, input.before, input.after, input.retrieved)))
  /\ done' = Append(done, input)
  /\ UNCHANGED <<groups, document>>

\* compareTarget, when facts, baseline, candidate or a normalization failed.
FailTarget(t, diagnostic) ==
  /\ groups = <<>> /\ t = Len(results) + 1
  /\ results' = Append(results, TargetResult(t, FALSE, <<>>, <<>>, <<diagnostic>>))
  /\ done' = Append(done, NoInput)
  /\ UNCHANGED <<groups, document>>

Aggregated ==
  /\ groups = <<>> /\ Len(results) = Cardinality(Targets)
  /\ groups' = <<Build(Diffs)>>
  /\ UNCHANGED <<done, results, document>>

\* The document, of all outcomes and of the run's own errors.
Document(diagnostics) ==
  LET outcome == ReduceAll([i \in DOMAIN results |-> results[i].outcome] \o Contributed(diagnostics))
  IN  [targets |-> results, groups |-> groups[1], diagnostics |-> diagnostics,
       outcome |-> outcome, exitCode |-> ForOutcome(outcome)]

Finish(diagnostics) ==
  /\ groups # <<>> /\ document = <<>>
  /\ document' = <<Document(diagnostics)>>
  /\ UNCHANGED <<done, results, groups>>

ComparisonNext ==
  \/ \E t \in Targets : \E input \in Inputs[t] : CompareTarget(t, input)
  \/ \E t \in Targets, diagnostic \in TargetFailures : FailTarget(t, diagnostic)
  \/ Aggregated
  \/ \E diagnostics \in RunDiagnostics : Finish(diagnostics)

ComparisonSpec == ComparisonInit /\ [][ComparisonNext]_comparisonVars

-----------------------------------------------------------------------------
(* Properties                                                               *)

Compared == {i \in DOMAIN results : results[i].nodeDiff # <<>>}
DiffOf(i) == results[i].nodeDiff[1]

\* The rows of the full, unredacted difference of a compared target.
Full(i) ==
  DiffResources(done[i].before, done[i].after, done[i].retrieved, done[i].policy.suppress).rows
FullEdges(i) == DiffEdges(done[i].before, done[i].after)
Ids(i) == Identities(done[i].before, done[i].after)

Excluded(i, id) == \E r \in DOMAIN done[i].policy.exclude :
                     MatchesExclusionRule(done[i].policy.exclude[r], id)

SameParameter(i, id, name) ==
  LET b == ParameterOf(done[i].before.resources[id], name)
      a == ParameterOf(done[i].after.resources[id], name)
  IN  CASE done[i].before.stringified = done[i].after.stringified -> a = b
        [] done[i].after.stringified /\ ~done[i].before.stringified -> Stored(b) = a
        [] OTHER -> Stored(a) = b

SameResource(i, id) ==
  LET input == done[i] IN
  /\ id \in DOMAIN input.before.resources \cap DOMAIN input.after.resources
  /\ \A name \in DOMAIN input.before.resources[id].params \cup DOMAIN input.after.resources[id].params :
       \/ id.type = FileResourceType /\ name \in FileContentBearingParameters
       \/ SameParameter(i, id, name)
  /\ ContentChange(id, input.before, input.after, input.retrieved, FALSE).rows = <<>>

\* A target has a difference exactly when some resource that no rule excludes
\* is on one side only, manages other content, or has a parameter whose stored
\* form is not the same, or some edge between such resources is on one side
\* only: what is redacted or in which order the rules stand has no part in it.
VerdictIsSemantic ==
  \A i \in Compared :
    DiffOf(i).hasDifference <=>
      \/ \E id \in Ids(i) : ~Excluded(i, id) /\ ~SameResource(i, id)
      \/ \E e \in (ToSet(done[i].before.edges) \cup ToSet(done[i].after.edges))
                    \ (ToSet(done[i].before.edges) \cap ToSet(done[i].after.edges)) :
           \A id \in {e.source, e.target} \cap Ids(i) : ~Excluded(i, id)

\* The first rule that covers one of ids, which are of resources of catalogs.
Covering(rules, ids) ==
  {r \in DOMAIN rules : /\ \E id \in ids : MatchesExclusionRule(rules[r], id)
                        /\ \A q \in 1 .. r - 1, id \in ids : ~MatchesExclusionRule(rules[q], id)}

\* What of a full difference has this cover, none or the set of one rule.
RowsUnder(rules, rows, cover) == {j \in DOMAIN rows : Covering(rules, {rows[j].id}) = cover}
EdgesUnder(rules, ids, edges, cover) ==
  {j \in DOMAIN edges :
     Covering(rules, {edges[j].edge.source, edges[j].edge.target} \cap ids) = cover}

What(row) == [kind |-> row.kind, id |-> row.id, parameter |-> row.parameter]

AddsUp(rules, ids, rows, edges, diff) ==
  LET resources == {j \in DOMAIN rows : rows[j].kind # "parameter_changed"}
      under(cover) == RowsUnder(rules, rows, cover)
      edgesUnder(cover) == EdgesUnder(rules, ids, edges, cover)
  IN
  /\ Len(diff.resourceChanges) = Cardinality(under({}))
  /\ {What(row) : row \in ToSet(diff.resourceChanges)} = {What(rows[j]) : j \in under({})}
  /\ Len(diff.edgeChanges) = Cardinality(edgesUnder({}))
  /\ ToSet(diff.edgeChanges) = {edges[j] : j \in edgesUnder({})}
  /\ {o.rule : o \in ToSet(diff.exclusions)} =
       {r \in DOMAIN rules : under({r}) # {} \/ edgesUnder({r}) # {}}
  /\ \A k \in DOMAIN diff.exclusions : LET o == diff.exclusions[k] IN
       /\ o.resources = Cardinality(under({o.rule}) \cap resources)
       /\ o.parameters = Cardinality(under({o.rule}) \ resources)
       /\ o.edges = Cardinality(edgesUnder({o.rule}))
       /\ \A j \in 1 .. k - 1 : diff.exclusions[j].rule < o.rule

\* Every row of the full difference is published or counted, once, under the
\* first rule that covers it, as what it is; a rule that took nothing is not
\* listed, and the others are in their order.
ExclusionsAddUp ==
  \A i \in Compared :
    AddsUp(done[i].policy.exclude, Ids(i), Full(i), FullEdges(i), DiffOf(i))

\* The tokens a reader sees in a row.
Disclosure(row) ==
  Tokens(row.before) \cup Tokens(row.after)
    \cup UNION {ToSet(row.content[k].beforeDigest) \cup ToSet(row.content[k].afterDigest) :
                  k \in DOMAIN row.content}

\* Nothing of a value that is wrapped as Sensitive on either side at its place,
\* marked by the compiler or named by a selector gets into a target's rows or
\* into a group: not the value, and not a digest made of it.
SecretsStayInside ==
  /\ \A i \in Compared : \A j \in DOMAIN DiffOf(i).resourceChanges :
       LET row == DiffOf(i).resourceChanges[j]
       IN  /\ Disclosure(row) \cap Secrets = {}
           /\ \A selector \in done[i].policy.redact : SelectedToken[selector] \notin Disclosure(row)
  /\ groups # <<>> => \A g \in groups[1] : (Tokens(g.before) \cup Tokens(g.after)) \cap Secrets = {}

\* A group shows exactly what every one of its members shows: what one of them
\* masks it masks, and what all of them show it does not lose.
GroupsDiscloseLeast ==
  groups # <<>> =>
    \A g \in groups[1] : ~IsEdgeKind(g.key.kind) =>
      LET member(k) == DiffOf(g.refs[k].certname).resourceChanges[g.refs[k].index]
          inAll(shown) == {p \in shown[1] : \A k \in DOMAIN shown : p \in shown[k]}
      IN  /\ Places(g.before) = inAll([k \in DOMAIN g.refs |-> Places(member(k).before)])
          /\ Places(g.after) = inAll([k \in DOMAIN g.refs |-> Places(member(k).after)])
          /\ \A k \in DOMAIN g.content : g.content[k].redacted <=>
               \E j \in DOMAIN g.refs : \E c \in ToSet(member(j).content) : c.redacted

\* The document of a comparison, whatever its catalogs held, its targets'
\* policies were and its targets failed with, is one that its readers accept.
ProducedIsAccepted == document # <<>> => Valid(document[1])
=============================================================================
