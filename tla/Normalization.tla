--------------------------- MODULE Normalization ---------------------------
(***************************************************************************)
(* internal/normalize: the catalog that Differences compares, from either  *)
(* of the forms it arrives in, the compiler's or PuppetDB's.  Both are     *)
(* JSON, for which the values of Values stand: objects are hashes, arrays  *)
(* lists, and a name or a title is a text.                                 *)
(***************************************************************************)
EXTENDS Differences, References

CONSTANT ElementOrder  \* the elements of unordered arrays in some order

-----------------------------------------------------------------------------
(* Decoding                                                                 *)

Failed == [ok |-> FALSE]
Decoded(x) == [ok |-> TRUE, it |-> x]

\* A field that holds a string; one that is missing or null is empty.
IsName(v) == v = Undef \/ IsText(v)
NameIn(entry, field) == IF IsText(Under(entry, field)) THEN entry.at[field].text ELSE <<>>

\* A null entry is an empty one; anything else must be an object.
IsEntry(v, fields) == v = Undef \/ (IsHash(v) /\ \A f \in fields : IsName(Under(v, f)))
EntryOf(v) == IF v = Undef THEN Hash(<<>>) ELSE v

\* Mutant: an expansion without data is an empty one.
ContainerOrEmpty(v) ==
  CASE IsList(v) -> Decoded(v.items)
    [] IsHash(v) /\ Under(v, "data") = Undef -> Decoded(<<>>)
    [] IsHash(v) /\ IsList(Under(v, "data")) -> Decoded(v.at["data"].items)
    [] OTHER -> Failed

\* An array, or an object with one under "data".
Container(v) ==
  CASE IsList(v) -> Decoded(v.items)
    [] IsHash(v) /\ IsList(Under(v, "data")) -> Decoded(v.at["data"].items)
    [] OTHER -> Failed

\* A vertex of the compiler's form: a reference, or an object with both names.
IsVertex(v) ==
  \/ IsText(v) /\ IsReference(v.text)
  \/ IsHash(v) /\ \A f \in {"type", "title"} : IsText(Under(v, f)) /\ v.at[f].text # <<>>

Vertex(v) == IF IsText(v) THEN SplitReference(v.text)
             ELSE [type |-> v.at["type"].text, title |-> v.at["title"].text]

VertexIn(entry, field) ==
  IF field \in DOMAIN entry.at THEN Vertex(entry.at[field]) ELSE [type |-> <<>>, title |-> <<>>]

CompilerEdge(e) == [source |-> VertexIn(e, "source"), target |-> VertexIn(e, "target")]
PdbEdge(e) == [source |-> [type |-> NameIn(e, "source_type"), title |-> NameIn(e, "source_title")],
               target |-> [type |-> NameIn(e, "target_type"), title |-> NameIn(e, "target_title")]]

PdbFields == {"source_type", "source_title", "target_type", "target_title", "relationship"}

IsEdge(form, v) ==
  IF form = "hash" THEN IsEntry(v, PdbFields)
  ELSE /\ IsEntry(v, {"relationship"})
       /\ \A f \in {"source", "target"} \cap DOMAIN EntryOf(v).at : IsVertex(v.at[f])

\* Mutant: the relationships PuppetDB added stay.
IsNoEdge(entry) == FALSE

\* PuppetDB's terminus adds an edge for every relationship parameter.
IsSynthesizedRelationship(entry) == NameIn(entry, "relationship") \notin {<<>>, <<"contains">>}

ExtractEdges(v) ==
  LET entries == Container(v) IN
  IF ~entries.ok THEN Failed
  ELSE IF \E i \in DOMAIN entries.it : ~IsEdge(v.kind, entries.it[i]) THEN Failed
  ELSE LET all == [i \in DOMAIN entries.it |-> EntryOf(entries.it[i])]
           kept == SelectSeq(all, LAMBDA e : ~IsSynthesizedRelationship(e))
       IN  Decoded([i \in DOMAIN kept |->
                      IF IsList(v) THEN CompilerEdge(kept[i]) ELSE PdbEdge(kept[i])])

\* Absent, or a list of distinct names.
DecodeSensitivity(entry) ==
  IF "sensitive_parameters" \notin DOMAIN entry.at THEN Decoded({})
  ELSE LET names == entry.at["sensitive_parameters"] IN
       IF /\ IsList(names)
          /\ \A i \in DOMAIN names.items : IsText(names.items[i]) /\ names.items[i].text # <<>>
          /\ IsInjective(names.items)
       THEN Decoded({names.items[i].text[1] : i \in DOMAIN names.items})
       ELSE Failed

-----------------------------------------------------------------------------
(* Parameters                                                               *)

GeneratedMetadataParameters == {"alias"}
UnorderedMetaparameters == {"audit", "before", "check", "notify", "require", "subscribe", "tag"}

\* A number that is too large to compare and a Sensitive without a value are
\* refused, at any depth.
RECURSIVE IsCanonicalizable(_)
IsCanonicalizable(v) ==
  /\ IsNumber(v) => CheckNumericShape(v.number)
  /\ IsHash(v) /\ Under(v, "__ptype") = Text(<<SensitiveWrapperType>>) => "__pvalue" \in DOMAIN v.at
  /\ \A c \in Children(v) : IsCanonicalizable(c)

RECURSIVE CanonicalizeValue(_)
CanonicalizeValue(v) ==
  CASE IsNumber(v) -> Number(CanonicalNumber(v.number))
    [] IsList(v) -> List([i \in DOMAIN v.items |-> CanonicalizeValue(v.items[i])])
    [] IsHash(v) -> Hash([k \in DOMAIN v.at |-> CanonicalizeValue(v.at[k])])
    [] OTHER -> v

Sorted(v) ==
  IF IsList(v) THEN List(SortSeq(v.items, LAMBDA x, y : Before(ElementOrder, x, y))) ELSE v

\* Mutant: every array is sorted.
SortAnyParameter(name, v) == Sorted(v)

\* The same order on both sides, whichever that is.
SortUnorderedMetaparameter(name, v) == IF name \in UnorderedMetaparameters THEN Sorted(v) ELSE v

DecodeParameters(v) ==
  CASE v = Undef -> Decoded(<<>>)
    [] IsHash(v) ->
         LET names == DOMAIN v.at \ GeneratedMetadataParameters IN
         IF \A n \in names : IsCanonicalizable(v.at[n])
         THEN Decoded([n \in names |-> SortUnorderedMetaparameter(n, CanonicalizeValue(v.at[n]))])
         ELSE Failed
    [] OTHER -> Failed

-----------------------------------------------------------------------------
(* Catalog                                                                  *)

\* Metadata of static catalogs, by the title of a File; what is recursive may
\* hold anything.
IsByTitle(v) == v = Undef \/ IsHash(v)
Entries(v) == IF IsHash(v) THEN v.at ELSE <<>>
EntryAt(f, title) == IF title \in DOMAIN f THEN <<f[title]>> ELSE <<>>

IsStaticMetadata(v) ==
  IsEntry(v, {"type"}) /\ IsEntry(Under(EntryOf(v), "checksum"), {"type", "value"})

IsMetadata(v) == IsByTitle(v) /\ \A title \in DOMAIN Entries(v) : IsStaticMetadata(v.at[title])

\* The type of file and the algorithm are words the program knows, or none.
StaticMetadata(v) ==
  LET checksum == EntryOf(Under(EntryOf(v), "checksum"))
      word(entry, field) == IF Len(NameIn(entry, field)) = 1 THEN NameIn(entry, field)[1] ELSE ""
  IN  [type |-> word(EntryOf(v), "type"), algorithm |-> word(checksum, "type"),
       digest |-> NameIn(checksum, "value")]

IdentityOf(spec) == [type |-> spec.type[1], title |-> spec.title]

ResourceSpec(entry) == [type |-> NameIn(entry, "type"), title |-> NameIn(entry, "title")]

IsNamed(spec) == spec.type # <<>> /\ spec.title # <<>>

IsResource(v) ==
  /\ IsEntry(v, {"type", "title"})
  /\ IsNamed(ResourceSpec(EntryOf(v)))
  /\ DecodeSensitivity(v).ok
  /\ DecodeParameters(Under(v, "parameters")).ok

ResourceOf(raw, entry) ==
  LET id == IdentityOf(ResourceSpec(entry))
      forFile(f) == IF id.type = FileResourceType THEN EntryAt(f, id.title) ELSE <<>>
  IN  [params |-> DecodeParameters(Under(entry, "parameters")).it,
       sensitive |-> DecodeSensitivity(entry).it,
       static |-> forFile([title \in DOMAIN Entries(raw.metadata) |->
                             StaticMetadata(raw.metadata.at[title])]),
       captured |-> forFile(raw.captured),
       recursive |-> forFile(Entries(raw.recursive)) # <<>>]

\* A catalog, or the failure of everything that is not one: never a part.
NormalizedCatalog(raw) ==
  LET entries == Container(raw.resources)
      edges == ExtractEdges(raw.edges)
      id(i) == IdentityOf(ResourceSpec(entries.it[i]))
  IN
  IF ~IsMetadata(raw.metadata) \/ ~IsByTitle(raw.recursive) \/ ~entries.ok \/ ~edges.ok THEN Failed
  ELSE IF \/ \E i \in DOMAIN entries.it : ~IsResource(entries.it[i])
          \/ \E i, j \in DOMAIN entries.it : i # j /\ id(i) = id(j)
          \/ \E i \in DOMAIN edges.it : ~IsNamed(edges.it[i].source) \/ ~IsNamed(edges.it[i].target)
  THEN Failed
  ELSE LET ids == {id(i) : i \in DOMAIN entries.it}
           entryOf(r) == entries.it[CHOOSE i \in DOMAIN entries.it : id(i) = r]
           edge(e) == [source |-> IdentityOf(e.source), target |-> IdentityOf(e.target)]
       IN  Decoded([resources |-> [r \in ids |-> ResourceOf(raw, entryOf(r))],
                    edges |-> SortSeq([i \in DOMAIN edges.it |-> edge(edges.it[i])],
                                      LAMBDA x, y : EdgeRowPrecedes([edge |-> x, kind |-> ""],
                                                                    [edge |-> y, kind |-> ""])),
                    stringified |-> raw.stringified,
                    context |-> raw.context])
=============================================================================
