----------------------------- MODULE Aggregate -----------------------------
(***************************************************************************)
(* internal/aggregate: the published changes of all targets, grouped by    *)
(* what makes two of them the same change.  The groups are a set: the      *)
(* order they are written in is layout.  A target is its certname, a       *)
(* number whose order stands for the order of names.                       *)
(***************************************************************************)
EXTENDS TreeOperators, Sorting

\* A change without a fingerprint is a group of its own.
ResourceKey(nodeDiff, i) ==
  LET change == nodeDiff.resourceChanges[i]
  IN  [kind |-> change.kind, id |-> change.id, parameter |-> change.parameter,
       fingerprint |-> change.fingerprint,
       alone |-> IF change.fingerprint = <<>> THEN <<nodeDiff.certname, i>> ELSE <<>>]

ResourceMember(nodeDiff, i) ==
  LET change == nodeDiff.resourceChanges[i]
  IN  [certname |-> nodeDiff.certname, index |-> i, key |-> ResourceKey(nodeDiff, i),
       before |-> change.before, after |-> change.after, content |-> change.content]

\* An edge has no values to combine.
EdgeMember(nodeDiff, i) ==
  [certname |-> nodeDiff.certname, index |-> i, key |-> nodeDiff.edgeChanges[i],
   before |-> Undef, after |-> Undef, content |-> <<>>]

Members(nodeDiff) ==
  {ResourceMember(nodeDiff, i) : i \in DOMAIN nodeDiff.resourceChanges}
    \cup {EdgeMember(nodeDiff, i) : i \in DOMAIN nodeDiff.edgeChanges}

MemberPrecedes(x, y) ==
  x.certname < y.certname \/ (x.certname = y.certname /\ x.index < y.index)

-----------------------------------------------------------------------------
(* What a group says of its members                                         *)

\* A source that is the same for all, or the word for several.
CombinedSource(sources) ==
  IF \E s \in sources : sources = {s} THEN CHOOSE s \in sources : TRUE ELSE "mixed"

\* combineSideSummary: of a side some member has.
CombinedSide(sides) ==
  LET present == {s[1] : s \in sides \ {<<>>}}
  IN  IF present = {} THEN <<>>
      ELSE <<[source |-> CombinedSource({s.source : s \in present}),
              verified |-> \A s \in present : s.verified]>>

\* combineContentSummary; the state is that of the first member that has one.
CombinedContent(members) ==
  LET with == Kept(members, {i \in DOMAIN members : members[i].content # <<>>})
      all == {with[i].content[1] : i \in DOMAIN with}
  IN  IF with = <<>> THEN <<>>
      ELSE <<[state |-> with[1].content[1].state,
              source |-> CombinedSource({e.source : e \in all}),
              redacted |-> \E e \in all : e.redacted,
              referenceChanged |-> \E e \in all : e.referenceChanged,
              before |-> CombinedSide({e.before : e \in all}),
              after |-> CombinedSide({e.after : e \in all})]>>

\* Mutant: a group shows what its first member shows.
ProjectionOfFirst(values) == values[1]

\* What every member discloses: the first's projection, restricted by each of
\* the others in turn.
Projection(values) ==
  LET shown[i \in 1 .. Len(values)] ==
        IF i = 1 THEN values[1] ELSE RestrictProjection(shown[i - 1], values[i])
  IN  shown[Len(values)]

IsEdgeKind(kind) == kind \in {"edge_added", "edge_removed"}

PublicKey(key) ==
  IF IsEdgeKind(key.kind) THEN [kind |-> key.kind, edge |-> key.edge]
  ELSE [kind |-> key.kind, id |-> key.id, parameter |-> key.parameter]

Group(key, members) ==
  [key |-> PublicKey(key),
   certnames |-> {members[i].certname : i \in DOMAIN members},
   refs |-> [i \in DOMAIN members |->
               [certname |-> members[i].certname, index |-> members[i].index]],
   before |-> Projection([i \in DOMAIN members |-> members[i].before]),
   after |-> Projection([i \in DOMAIN members |-> members[i].after]),
   content |-> CombinedContent(members)]

\* The members of one key, by certname and index.
MembersOf(key, all) ==
  LET mine == {m \in all : m.key = key}
  IN  Arranged(mine, {p \in mine \X mine : MemberPrecedes(p[1], p[2])})

Build(nodeDiffs) ==
  LET all == UNION {Members(d) : d \in nodeDiffs}
  IN  {Group(key, MembersOf(key, all)) : key \in {m.key : m \in all}}
=============================================================================
