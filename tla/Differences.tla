---------------------------- MODULE Differences ----------------------------
(***************************************************************************)
(* internal/diff: the difference of two normalized catalogs of one node.   *)
(*                                                                         *)
(* A catalog is a record of its resources (a function of their             *)
(* identities), its edges (a sequence, as the normalizer sorted them),     *)
(* whether PuppetDB stringified its rich values, and its content context.  *)
(* A resource has its parameters (a function of their names), the names    *)
(* the compiler marked as sensitive and, for a File, its evidence.         *)
(***************************************************************************)
EXTENDS TreeOperators, FileContent, Exclusions, Numbers

CONSTANTS
  NameOrder,        \* the names of types and parameters in their order
  TitleOrder,       \* the titles of resources in theirs
  JSONNestingDepth  \* limits.JSONNestingDepth, 200 in the code

Place(order, a) == CHOOSE i \in DOMAIN order : order[i] = a
Before(order, a, b) == Place(order, a) < Place(order, b)
Precedes(a, b) == Before(NameOrder, a, b)

IdentityPrecedes(a, b) ==
  Precedes(a.type, b.type) \/ (a.type = b.type /\ Before(TitleOrder, a.title, b.title))

ParameterOf(resource, name) == Under(Hash(resource.params), name)

\* What internal/filecontent sees of a resource, parameters without wrappers.
FileOf(r) ==
  [p |-> Hash([n \in DOMAIN r.params |-> Unwrapped(r.params[n])]),
   static |-> r.static, captured |-> r.captured, recursive |-> r.recursive]

SideOf(catalog, id) == [file |-> FileOf(catalog.resources[id]), context |-> catalog.context]

\* ResolveSide; what an answer would be when the compiler is asked is given.
ResolvedSide(side, retrieved) ==
  LET local == LocalEvidence(side, TRUE)
  IN  IF local.ask = <<>> THEN local.evidence ELSE retrieved

-----------------------------------------------------------------------------
(* Pass 1: the full, unredacted difference                                  *)

Row(kind, id, parameter, before, after, content) ==
  [kind |-> kind, id |-> id, parameter |-> parameter, before |-> before, after |-> after,
   content |-> content]

\* fidelity.equal: when exactly one catalog is stringified, a rich value of
\* the other is compared by what it would have been stored as.
Fidelity(stringifiedBefore, stringifiedAfter, before, after) ==
  LET rich == IF stringifiedAfter THEN before ELSE after
      stored == IF stringifiedAfter THEN after ELSE before
      unmeasured == Unmeasured(rich)
  IN
  IF stringifiedBefore = stringifiedAfter \/ ~ContainsRichData(rich)
  THEN [equal |-> FALSE, unmeasured |-> {}]
  ELSE [equal |-> unmeasured = {} /\ ProjectStringifiedRich(rich) = stored,
        unmeasured |-> unmeasured]

FidelityDiagnostic == [severity |-> "warning", operation |-> "normalize"]

Diagnosed(told) ==
  [i \in DOMAIN told |-> [severity |-> told[i].severity, operation |-> "verify_content"]]

\* One parameter that is not content-bearing: a row when it differs, and a
\* warning when the difference may be one of fidelity.
ParameterChange(id, name, before, after, stringifiedBefore, stringifiedAfter) ==
  LET b == ParameterOf(before, name)
      a == ParameterOf(after, name)
      fidelity == Fidelity(stringifiedBefore, stringifiedAfter, b, a)
  IN
  IF b = a \/ fidelity.equal THEN [rows |-> <<>>, diagnostics |-> <<>>]
  ELSE [rows |-> <<Row("parameter_changed", id, name, b, a, <<>>)>>,
        diagnostics |-> IF fidelity.unmeasured = {} THEN <<>> ELSE <<FidelityDiagnostic>>]

ContentParameters(r) ==
  Hash([n \in DOMAIN r.params \cap FileContentBearingParameters |-> r.params[n]])

\* The content-bearing parameters of a File are one row, and only when its
\* evidence says that something changed.
ContentChange(id, before, after, retrieved, suppress) ==
  LET b == before.resources[id]
      a == after.resources[id]
      bs == SideOf(before, id)
      as == SideOf(after, id)
      told == ComparedEvidence(bs, as, ResolvedSide(bs, retrieved), ResolvedSide(as, retrieved),
                               suppress)
      differs == \E n \in FileContentBearingParameters : ParameterOf(b, n) # ParameterOf(a, n)
  IN
  IF id.type # FileResourceType \/ ~(differs \/ NeedsEvidence(bs.file) \/ NeedsEvidence(as.file))
  THEN [rows |-> <<>>, diagnostics |-> <<>>]
  ELSE [rows |-> IF ReportsDifference(told.evidence)
                 THEN <<Row("parameter_changed", id, "content", ContentParameters(b),
                            ContentParameters(a), <<told.evidence>>)>>
                 ELSE <<>>,
        diagnostics |-> Diagnosed(told.diagnostics)]

MembershipChange(kind, id, catalog, retrieved, suppress) ==
  LET resource == catalog.resources[id]
      side == SideOf(catalog, id)
      told == MembershipEvidence(kind, side, ResolvedSide(side, retrieved), suppress)
      needed == id.type = FileResourceType /\ NeedsEvidence(side.file)
      added == kind = "resource_added"
      held == Hash(resource.params)
  IN  [rows |-> <<Row(kind, id, "", IF added THEN Undef ELSE held, IF added THEN held ELSE Undef,
                      IF needed THEN <<told.evidence>> ELSE <<>>)>>,
       diagnostics |-> IF needed THEN Diagnosed(told.diagnostics) ELSE <<>>]

Joined(parts) ==
  [rows |-> FlattenSeq([i \in DOMAIN parts |-> parts[i].rows]),
   diagnostics |-> FlattenSeq([i \in DOMAIN parts |-> parts[i].diagnostics])]

DiffParameters(id, before, after, retrieved, suppress) ==
  LET b == before.resources[id]
      a == after.resources[id]
      all == DOMAIN b.params \cup DOMAIN a.params
      compared == IF id.type = FileResourceType THEN all \ FileContentBearingParameters ELSE all
      names == Arranged(compared, {p \in compared \X compared : Precedes(p[1], p[2])})
  IN  Joined([i \in DOMAIN names |->
                ParameterChange(id, names[i], b, a, before.stringified, after.stringified)]
             \o <<ContentChange(id, before, after, retrieved, suppress)>>)

Identities(before, after) == DOMAIN before.resources \cup DOMAIN after.resources

\* What there is to say of a resource of either catalog.
ResourceDiff(id, before, after, retrieved, suppress) ==
  IF id \notin DOMAIN after.resources
  THEN MembershipChange("resource_removed", id, before, retrieved, suppress)
  ELSE IF id \notin DOMAIN before.resources
  THEN MembershipChange("resource_added", id, after, retrieved, suppress)
  ELSE DiffParameters(id, before, after, retrieved, suppress)

DiffResources(before, after, retrieved, suppress) ==
  LET all == Identities(before, after)
      ids == Arranged(all, {p \in all \X all : IdentityPrecedes(p[1], p[2])})
  IN  Joined([i \in DOMAIN ids |-> ResourceDiff(ids[i], before, after, retrieved, suppress)])

\* The edges that the other catalog has not, each with the place it had.
EdgeRows(kind, edges, others) ==
  {[kind |-> kind, edge |-> edges[i], at |-> i] : i \in {j \in DOMAIN edges : edges[j] \notin ToSet(others)}}

\* By source, target and kind: an edge that is added sorts before one that is
\* removed.  The code compares the endpoints as Type[title] strings, which is
\* another order only of types where one begins with the other.
EdgeRowPrecedes(x, y) ==
  \/ IdentityPrecedes(x.edge.source, y.edge.source)
  \/ /\ x.edge.source = y.edge.source
     /\ \/ IdentityPrecedes(x.edge.target, y.edge.target)
        \/ x.edge.target = y.edge.target /\ <<x.kind, y.kind>> = <<"edge_added", "edge_removed">>

\* An edge that a catalog has twice is there twice.
DiffEdges(before, after) ==
  LET rows == EdgeRows("edge_removed", before.edges, after.edges)
                \cup EdgeRows("edge_added", after.edges, before.edges)
      precedes(x, y) == EdgeRowPrecedes(x, y) \/ (~EdgeRowPrecedes(y, x) /\ x.at < y.at)
      arranged == Arranged(rows, {p \in rows \X rows : precedes(p[1], p[2])})
  IN  [k \in DOMAIN arranged |-> [kind |-> arranged[k].kind, edge |-> arranged[k].edge]]

-----------------------------------------------------------------------------
(* Fingerprints: what makes two rows the same change                        *)

\* What canonical JSON can hold: numbers of bounded shape, in containers of
\* bounded depth.  A value is one level down in the evidence of its row.
Encodable(v) ==
  Depth(v) < JSONNestingDepth /\ \A n \in NumbersIn(v) : CheckNumericShape(n)

\* Nothing of a row is left out that its values hold; of its evidence, what
\* the sides' contexts are.  A row that cannot be encoded has none.
Fingerprint(row) ==
  IF ~Encodable(row.before) \/ ~Encodable(row.after) THEN <<>>
  ELSE <<[kind |-> row.kind, id |-> row.id, parameter |-> row.parameter,
          before |-> row.before, after |-> row.after,
          content |-> [i \in DOMAIN row.content |->
            [state |-> row.content[i].state, source |-> row.content[i].source,
             algorithm |-> row.content[i].algorithm,
             digests |-> <<row.content[i].beforeDigest, row.content[i].afterDigest>>]]]>>

UnencodableDiagnostics(rows) ==
  LET without == Kept(rows, {i \in DOMAIN rows : Fingerprint(rows[i]) = <<>>})
  IN  [i \in DOMAIN without |-> [severity |-> "error", operation |-> "normalize"]]

-----------------------------------------------------------------------------
(* Publication: the projection of a row that may leave the process          *)

MatchesRedactionSelector(selectors, type, parameter) ==
  [type |-> type, parameter |-> parameter] \in selectors

\* The names of a resource that are not disclosed, whatever they hold.
Undisclosed(selectors, id, resource) ==
  {n \in DOMAIN resource.params :
     \/ n \in resource.sensitive
     \/ MatchesRedactionSelector(selectors, id.type, n)
     \/ id.type = FileResourceType /\ n \in FileContentBearingParameters}

PublishParameters(selectors, id, resource) ==
  Hash([n \in DOMAIN resource.params |->
          IF n \in Undisclosed(selectors, id, resource) THEN RedactedValue
          ELSE RedactSensitivePair(resource.params[n], resource.params[n])[1]])

NoResource == [params |-> <<>>, sensitive |-> {}, static |-> <<>>, captured |-> <<>>,
               recursive |-> FALSE]

ResourceAt(catalog, id) ==
  IF id \in DOMAIN catalog.resources THEN catalog.resources[id] ELSE NoResource

\* A parameter either side marks, or a selector names, is masked on both.
Selected(selectors, row, before, after) ==
  \/ row.parameter \in before.sensitive \cup after.sensitive
  \/ MatchesRedactionSelector(selectors, row.id.type, row.parameter)

\* Mutant: what a wrapper in content covers is not looked at.
ContentMarked(selectors, row, before, after) ==
  \/ Selected(selectors, row, before, after)
  \/ \E n \in FileContentBearingParameters :
       \/ n \in before.sensitive \cup after.sensitive
       \/ MatchesRedactionSelector(selectors, row.id.type, n)

\* Digests disclose what the content-bearing parameters hold.
ContentSelected(selectors, row, before, after) ==
  \/ Selected(selectors, row, before, after)
  \/ \E n \in FileContentBearingParameters :
       \/ n \in before.sensitive \cup after.sensitive
       \/ MatchesRedactionSelector(selectors, row.id.type, n)
       \/ ContainsSensitive(ParameterOf(before, n)) \/ ContainsSensitive(ParameterOf(after, n))

\* Mutant: the algorithm stays.
PublishDigests(selected, evidence) ==
  IF ~selected THEN evidence
  ELSE [evidence EXCEPT !.beforeDigest = RedactedValue.text, !.afterDigest = RedactedValue.text,
                        !.redacted = TRUE]

PublishEvidence(selected, evidence) ==
  IF ~selected THEN evidence
  ELSE [evidence EXCEPT
          !.algorithm = "",
          !.beforeDigest = IF evidence.before = <<>> THEN @ ELSE RedactedValue.text,
          !.afterDigest = IF evidence.after = <<>> THEN @ ELSE RedactedValue.text,
          !.redacted = TRUE]

PublishedValues(selectors, row, before, after) ==
  CASE row.kind = "resource_added" -> <<Undef, PublishParameters(selectors, row.id, after)>>
    [] row.kind = "resource_removed" -> <<PublishParameters(selectors, row.id, before), Undef>>
    [] row.kind = "parameter_changed" /\ row.content # <<>> -> <<Undef, Undef>>
    [] OTHER -> IF Selected(selectors, row, before, after) THEN MaskedPair
                ELSE RedactSensitivePair(row.before, row.after)

PublishChange(selectors, row, before, after) ==
  LET b == ResourceAt(before, row.id)
      a == ResourceAt(after, row.id)
      values == PublishedValues(selectors, row, b, a)
  IN  [kind |-> row.kind, id |-> row.id, parameter |-> row.parameter,
       before |-> values[1], after |-> values[2],
       content |-> [i \in DOMAIN row.content |->
                      PublishEvidence(ContentSelected(selectors, row, b, a), row.content[i])],
       fingerprint |-> Fingerprint(row)]

-----------------------------------------------------------------------------
(* Diff                                                                     *)

\* Pass 3, of what the exclusions kept.  The verdict is the kept rows', before
\* anything is masked.
Publish(certname, selectors, before, after, kept) ==
  [certname |-> certname,
   resourceChanges |-> [i \in DOMAIN kept.changes |->
                          PublishChange(selectors, kept.changes[i], before, after)],
   edgeChanges |-> kept.edgeChanges,
   exclusions |-> kept.exclusions,
   hasDifference |-> kept.changes # <<>> \/ kept.edgeChanges # <<>>]

\* Passes 2 and 3, of the full difference.
DiffOfFull(certname, policy, before, after, full) ==
  [nodeDiff |-> Publish(certname, policy.redact, before, after,
                        ApplyExclusions(policy.exclude, Identities(before, after), full.rows,
                                        DiffEdges(before, after))),
   diagnostics |-> full.diagnostics \o UnencodableDiagnostics(full.rows)]

NodeDiff(certname, policy, before, after, retrieved) ==
  DiffOfFull(certname, policy, before, after,
             DiffResources(before, after, retrieved, policy.suppress))
=============================================================================
