---------------------------- MODULE CatalogForms ----------------------------
(***************************************************************************)
(* One target from its two compilations to its difference.  A manifest is  *)
(* compiled; the baseline may come as PuppetDB stored it or as a snapshot  *)
(* of the compiler's answer, the candidate as the compiler's answer, and   *)
(* any of them may be malformed.  Compiler and PuppetDB are external.      *)
(***************************************************************************)
EXTENDS Normalization, TLC

CONSTANTS
  Changes,    \* the pairs of manifests that a run may compare
  Spellings,  \* the ways of writing one number, a sequence for each number
  Damages(_), \* the malformed forms of an answer
  AliasedTitle \* the title of the resources that have an alias

VARIABLES
  change,     \* the manifests of the baseline and the candidate
  intact,     \* history: no answer so far was malformed
  catalogs,   \* the normalized catalogs, the baseline's first
  result      \* the target's difference and diagnostics, when it is done

vars == <<change, intact, catalogs, result>>

Init == change \in Changes /\ intact = TRUE /\ catalogs = <<>> /\ result = <<>>

-----------------------------------------------------------------------------
(* The forms of a catalog (external)                                        *)

Names(S) == List(SetToSeq({Text(<<n>>) : n \in S}))

ResourceEntry(id, params, sensitive) ==
  Hash([type |-> Text(<<id.type>>), title |-> Text(id.title), parameters |-> Hash(params),
        sensitive_parameters |-> Names(sensitive)])

ReferenceTo(id) == Text(Reference(<<id.type>>, id.title))
SpecOf(id) == Hash([type |-> Text(<<id.type>>), title |-> Text(id.title)])

Raw(resources, edges, stringified, context) ==
  [resources |-> resources, edges |-> edges, stringified |-> stringified, context |-> context,
   metadata |-> Undef, recursive |-> Undef, captured |-> <<>>]

\* What the compiler answers; an edge's ends are references, or objects.
CompilerAnswer(m, references, context) ==
  LET ids == SetToSeq(DOMAIN m.resources)
      edges == SetToSeq(m.contains)
      vertex(id) == IF references THEN ReferenceTo(id) ELSE SpecOf(id)
  IN  Raw(List([i \in DOMAIN ids |->
                  ResourceEntry(ids[i], m.resources[ids[i]].params, m.resources[ids[i]].sensitive)]),
          List([i \in DOMAIN edges |->
                  Hash([source |-> vertex(edges[i].source), target |-> vertex(edges[i].target)])]),
          FALSE, context)

\* A number comes back from storage in the next of its spellings.
Respelled(n) ==
  LET class == CHOOSE c \in Spellings : n \in ToSet(c)
  IN  class[(IndexFirstSubSeq(<<n>>, class) % Len(class)) + 1]

RECURSIVE StoredValue(_)
StoredValue(v) ==
  CASE IsNumber(v) -> Number(Respelled(v.number))
    [] IsList(v) -> List([i \in DOMAIN v.items |-> StoredValue(v.items[i])])
    [] IsHash(v) -> Hash([k \in DOMAIN v.at |-> StoredValue(v.at[k])])
    [] OTHER -> v

Relationships == "before" :> "before" @@ "notify" :> "notifies" @@ "require" :> "required-by"
                   @@ "subscribe" :> "subscription-of"

\* The lists that Puppet calls unordered come back in another order, and an
\* alias is added.
StoredParameters(id, r) ==
  [n \in DOMAIN r.params |->
     IF n \in UnorderedMetaparameters /\ IsList(r.params[n])
     THEN List(Reverse(r.params[n].items)) ELSE StoredValue(r.params[n])]
  @@ (IF id.title = AliasedTitle THEN "alias" :> List(<<Text(<<"alias">>)>>) ELSE <<>>)

PdbEdgeEntry(source, target, relationship) ==
  Hash([source_type |-> Text(source.type), source_title |-> Text(source.title),
        target_type |-> Text(target.type), target_title |-> Text(target.title),
        relationship |-> Text(<<relationship>>)])

JsonSpec(id) == [type |-> <<id.type>>, title |-> id.title]

Referred(v) == IF IsList(v) THEN ToSet(v.items) ELSE {v}

\* One edge for every relationship parameter, and the compiled ones.
StoredEdges(m) ==
  {PdbEdgeEntry(JsonSpec(e.source), JsonSpec(e.target), "contains") : e \in m.contains}
  \cup UNION {UNION {
    {LET other == SplitReference(ref.text)
         here == JsonSpec(id)
     IN  IF n \in {"before", "notify"} THEN PdbEdgeEntry(here, other, Relationships[n])
         ELSE PdbEdgeEntry(other, here, Relationships[n]) :
       ref \in Referred(m.resources[id].params[n])} :
      n \in DOMAIN Relationships \cap DOMAIN m.resources[id].params} : id \in DOMAIN m.resources}

StoredAnswer(m, context) ==
  LET ids == Reverse(SetToSeq(DOMAIN m.resources))
  IN  Raw(Hash("data" :> List([i \in DOMAIN ids |->
            ResourceEntry(ids[i], StoredParameters(ids[i], m.resources[ids[i]]),
                          m.resources[ids[i]].sensitive)])),
          Hash("data" :> List(Reverse(SetToSeq(StoredEdges(m))))),
          TRUE, context)

-----------------------------------------------------------------------------
(* compareTarget                                                            *)

Historical == [environment |-> "production", historical |-> TRUE]
Current == [environment |-> "feature", historical |-> FALSE]

NormalizeDiagnostic == [severity |-> "error", operation |-> "normalize"]

\* A catalog that does not normalize ends its target.
Read(answer, damaged) ==
  LET normalized == NormalizedCatalog(answer)
  IN  /\ intact' = (intact /\ ~damaged)
      /\ IF normalized.ok
         THEN catalogs' = Append(catalogs, normalized.it) /\ UNCHANGED result
         ELSE result' = <<[nodeDiff |-> <<>>, diagnostics |-> <<NormalizeDiagnostic>>]>>
              /\ UNCHANGED catalogs
      /\ UNCHANGED change

ReadAnyOf(answer) == Read(answer, FALSE) \/ \E damaged \in Damages(answer) : Read(damaged, TRUE)

LoadPuppetDB ==
  /\ catalogs = <<>> /\ result = <<>>
  /\ ReadAnyOf(StoredAnswer(change[1], Historical))

LoadSnapshot ==
  /\ catalogs = <<>> /\ result = <<>>
  /\ \E references \in BOOLEAN : ReadAnyOf(CompilerAnswer(change[1], references, Historical))

RequestCandidate ==
  /\ Len(catalogs) = 1 /\ result = <<>>
  /\ \E references \in BOOLEAN : ReadAnyOf(CompilerAnswer(change[2], references, Current))

Policy == [exclude |-> <<>>, redact |-> {}, suppress |-> FALSE]

Compared(diff) == [nodeDiff |-> <<diff.nodeDiff>>, diagnostics |-> diff.diagnostics]

Compare ==
  /\ Len(catalogs) = 2 /\ result = <<>>
  /\ result' = <<Compared(NodeDiff("node", Policy, catalogs[1], catalogs[2],
                                   Unverified("", "failed")))>>
  /\ UNCHANGED <<change, intact, catalogs>>

Next == LoadPuppetDB \/ LoadSnapshot \/ RequestCandidate \/ Compare

Spec == Init /\ [][Next]_vars

-----------------------------------------------------------------------------
(* Properties                                                               *)

HasDifference == result # <<>> /\ \E i \in DOMAIN result[1].nodeDiff :
                                     result[1].nodeDiff[i].hasDifference

\* A node whose baseline and candidate are compilations of the same manifest
\* has no difference and nothing to be told, however the baseline was kept
\* (normalize/doc.go: what is dropped or sorted is only what storing added).
StorageIsNoDifference ==
  intact /\ result # <<>> /\ change[1] = change[2] => ~HasDifference /\ result[1].diagnostics = <<>>

\* What is dropped, sorted or respelled hides no change: a different manifest
\* is a difference, whichever form the baseline came in.
NothingIsHidden ==
  intact /\ result # <<>> /\ change[1] # change[2] => HasDifference

\* A malformed answer ends its target, and an accepted one is all there: every
\* resource of the manifest, and every containment.
NeverPartial ==
  /\ result # <<>> => (intact <=> result[1].nodeDiff # <<>>)
  /\ \A i \in DOMAIN catalogs : intact =>
       /\ DOMAIN catalogs[i].resources = DOMAIN change[i].resources
       /\ ToSet(catalogs[i].edges) = change[i].contains
       /\ Len(catalogs[i].edges) = Cardinality(change[i].contains)

=============================================================================
