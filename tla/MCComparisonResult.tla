------------------------- MODULE MCComparisonResult -------------------------
(* Two targets: the first with every pair of catalogs below, under several  *)
(* exclusions and redactions, the second with a few of them, some the same. *)
EXTENDS ComparisonResult, TLC, ValueTrees

RECURSIVE MCStored(_), MCTokens(_), MCPlaces(_), MCMaskings(_), WithParts(_)
MCStored(v) == StoredAt(v, MCStored)
MCTokens(v) == TokensAt(v, MCTokens)
MCPlaces(v) == PlacesAt(v, MCPlaces)
MCMaskings(v) == MaskingsAt(v, MCMaskings)
WithParts(v) == {v} \cup UNION {WithParts(c) : c \in Children(v)}

MCNameOrder == <<"Exec", "File", "command", "content", "ensure", "env", "mode", "source">>
MCTitleOrder == <<"/f", "e">>

\* 1, and 1e2 as it is normalized: more digits than two.
One == Number([neg |-> FALSE, int |-> <<1>>, frac |-> <<>>, exp |-> 0])
Hundred == Number(CanonicalNumber([neg |-> FALSE, int |-> <<1>>, frac |-> <<>>, exp |-> 2]))

E == [type |-> "Exec", title |-> "e"]
F == [type |-> "File", title |-> "/f"]

A == Text(<<"a">>)
B == Text(<<"b">>)
S == Text(<<"s">>)
P == Text(<<"p">>)
Wrapped(v) == Rich("Sensitive", v)
Regexp(pattern) == Rich("Regexp", Text(pattern))
Timestamp == Rich("Timestamp", A)

MCSecrets == {"s"}
MCStoredAs ==
  Regexp(<<"x", "/", "y">>) :> Text(<<"/", "x", "\\", "/", "y", "/">>)
    @@ Regexp(<<"x", "\\", "/", "y">>) :> Text(<<"/", "x", "\\", "/", "y", "/">>)
    @@ Regexp(<<"x", "\\", "\\", "/">>) :> Text(<<"/", "x", "\\", "\\", "\\", "/", "/">>)

With(params) == [NoResource EXCEPT !.params = params]
Marked(params, names) == [With(params) EXCEPT !.sensitive = names]
Command(v) == With("command" :> v)

Catalog(resources, edges, stringified, environment, historical) ==
  [resources |-> resources, edges |-> edges, stringified |-> stringified,
   context |-> [environment |-> environment, historical |-> historical]]

Baseline(resources, edges, stringified) == Catalog(resources, edges, stringified, "production", TRUE)
Candidate(resources, edges) == Catalog(resources, edges, FALSE, "feature", FALSE)

Edge(source, target) == [source |-> source, target |-> target]

Url(path) == <<"puppet://", "/">> \o path
SourceA == Text(Url(<<"a">>))
SourceB == Text(Url(<<"q">>))

\* What the Exec is before and after, and whether the baseline is stringified.
Execs ==
  { <<Command(A), Command(A), TRUE>>,
    <<Command(A), Command(B), FALSE>>,
    <<Command(P), Command(B), FALSE>>,
    <<Command(Wrapped(S)), With(<<>>), FALSE>>,
    <<Command(Hash("k" :> Wrapped(S) @@ "l" :> A)), Command(Hash("k" :> S @@ "l" :> B)), FALSE>>,
    <<Command(Hash("k" :> Wrapped(S) @@ "l" :> A)), Command(Hash("k" :> S)), FALSE>>,
    <<Command(S), Command(List(<<A, Wrapped(S)>>)), FALSE>>,
    <<Command(List(<<A, S, B>>)), Command(List(<<A, Wrapped(S), A>>)), FALSE>>,
    <<Command(List(<<S>>)), Command(List(<<A, Wrapped(S)>>)), FALSE>>,
    <<Marked("command" :> S, {"command"}), Command(S), FALSE>>,
    <<Marked("command" :> S, {"command"}), With("command" :> A @@ "env" :> A), FALSE>>,
    <<Command(Text(<<"/", "x", "\\", "/", "y", "/">>)), Command(Regexp(<<"x", "/", "y">>)), TRUE>>,
    <<Command(Text(<<"/", "x", "\\", "/", "y", "/">>)), Command(Regexp(<<"x", "\\", "/", "y">>)), TRUE>>,
    <<Command(Text(<<"/", "x", "\\", "\\", "\\", "/", "/">>)), Command(Regexp(<<"x", "\\", "\\", "/">>)), TRUE>>,
    <<Command(Hash("k" :> Text(<<"/", "x", "\\", "/", "y", "/">>))),
      Command(Hash("k" :> Regexp(<<"x", "/", "y">>))), TRUE>>,
    <<Command(Text(<<"/", "x", "\\", "/", "y", "/">>)), Command(Regexp(<<"x", "/", "y">>)), FALSE>>,
    <<Command(A), Command(Timestamp), TRUE>>,
    <<Command(Hundred), Command(One), FALSE>> }

Files ==
  { <<With("content" :> A), With("content" :> A)>>,
    <<With("content" :> A @@ "mode" :> A), With("content" :> B @@ "mode" :> B)>>,
    <<With("content" :> Wrapped(S)), With("content" :> A)>>,
    <<With("content" :> A), Marked("content" :> S, {"content"})>>,
    <<With("source" :> SourceA), With("source" :> SourceB)>>,
    <<With("source" :> SourceB), With("source" :> SourceB)>>,
    <<With("content" :> A), With("source" :> SourceB)>>,
    <<With("content" :> A), With("ensure" :> Text(<<"absent">>) @@ "source" :> SourceA)>>,
    <<[With("source" :> SourceA) EXCEPT !.recursive = TRUE], With("source" :> SourceA)>> }

Pair(before, after, edgesBefore, edgesAfter, stringified) ==
  [before |-> Baseline(before, edgesBefore, stringified), after |-> Candidate(after, edgesAfter)]

SameFile == With("mode" :> A)

EdgesBefore == <<Edge(E, F)>>
EdgesAfter == <<Edge(F, E), Edge(F, E)>>

ExecPair(x) == Pair(E :> x[1] @@ F :> SameFile, E :> x[2] @@ F :> SameFile, <<>>, <<>>, x[3])
ExecPairs == {ExecPair(x) : x \in Execs}
FilePairs ==
  {Pair(E :> Command(A) @@ F :> x[1], E :> Command(A) @@ F :> x[2], <<>>, <<>>, FALSE) : x \in Files}
MembershipPairs ==
  {Pair(<<>>, F :> x[1], <<>>, <<>>, FALSE) : x \in Files}
    \cup {Pair(F :> SameFile, E :> x @@ F :> SameFile, <<>>, EdgesAfter, FALSE) :
            x \in {Marked("command" :> S @@ "env" :> A, {"command"}),
                   Command(List(<<Wrapped(S), A>>)), Command(P)}}

\* Rows of every kind on both resources, and edges both ways.
RichPairs ==
  {Pair(E :> Command(A) @@ F :> x[1], E :> Command(B) @@ F :> x[2], EdgesBefore, EdgesAfter, FALSE) :
     x \in Files}
    \cup {Pair(E :> Command(A), F :> x[1], <<>>, EdgesAfter, FALSE) : x \in Files}

Rule(type, titles) == [type |-> type, titles |-> titles]
ExcludeLists ==
  {<<>>, <<Rule("Exec", {"e"})>>, <<Rule("File", {"e"}), Rule("File", {"/f"}), Rule("Exec", {"e"})>>,
   <<Rule("Exec", {"e", "/f"}), Rule("File", {"e", "/f"}), Rule("Exec", {"e"})>>}

Selector(type, parameter) == [type |-> type, parameter |-> parameter]
MCSelectedToken == Selector("Exec", "command") :> "p" @@ Selector("File", "source") :> "q"
RedactSets ==
  {{}, {Selector("Exec", "command")},
   {Selector("File", "source"), Selector("Exec", "command")}}

Retrievals ==
  {Verified("compiler_retrieval", "sha256", HashOf("sha256", <<"q">>)), Unverified("", "failed")}

\* A baseline from PuppetDB, or a snapshot with the requests that made it.
PuppetDBBaseline == [kind |-> "puppetdb", capture |-> <<>>]
SnapshotBaselines ==
  {[kind |-> "file", capture |-> <<[requested |-> p.requested, effective |-> p.effective,
      fellBack |-> p.fellBack, trusted |-> p.trusted, warned |-> p.effective = "v3"]>>] :
     p \in {q \in Provenances : ValidProvenance(q)}}

Input(pair, exclude, redact, fail, suppress, retrieved, baseline) ==
  [before |-> pair.before, after |-> pair.after, retrieved |-> retrieved, baseline |-> baseline,
   policy |-> [exclude |-> exclude, redact |-> redact, failOnDiff |-> fail, suppress |-> suppress]]

Retrieved == CHOOSE r \in Retrievals : r.ok
APair == Pair(E :> Command(P) @@ F :> With("source" :> SourceB),
              E :> Command(B) @@ F :> With("source" :> SourceB @@ "mode" :> A), <<>>, EdgesAfter, FALSE)

FirstInputs ==
  {Input(pair, <<>>, redact, FALSE, FALSE, retrieved, PuppetDBBaseline) :
     pair \in ExecPairs \cup FilePairs \cup MembershipPairs, redact \in RedactSets,
     retrieved \in Retrievals}
  \cup {Input(pair, exclude, {}, FALSE, FALSE, Retrieved, PuppetDBBaseline) :
          pair \in RichPairs, exclude \in ExcludeLists}
  \cup {Input(APair, <<>>, {}, fail, suppress, retrieved, baseline) :
          fail \in BOOLEAN, suppress \in BOOLEAN, retrieved \in Retrievals,
          baseline \in SnapshotBaselines}

SecondInputs ==
  {Input(pair, <<>>, redact, FALSE, FALSE, Retrieved, PuppetDBBaseline) :
     pair \in {APair} \cup {ExecPair(x) :
                 x \in {<<Command(P), Command(B), FALSE>>,
                        <<Command(S), Command(List(<<A, Wrapped(S)>>)), FALSE>>,
                        <<Command(Hundred), Command(One), FALSE>>}},
     redact \in {{}, {Selector("Exec", "command")}}}

MCInputs == <<FirstInputs, SecondInputs>>

MCCatalogValues ==
  LET catalogs == UNION {{input.before, input.after} : input \in FirstInputs \cup SecondInputs}
      hashes == UNION {{Hash(c.resources[id].params) : id \in DOMAIN c.resources} : c \in catalogs}
  IN  {Undef} \cup UNION {WithParts(v) : v \in hashes}

Diagnosis(severity, operation) == [severity |-> severity, operation |-> operation]
MCTargetFailures == {Diagnosis("error", "load_baseline"), Diagnosis("error", "request_candidate")}
MCRunDiagnostics == {<<>>, <<Diagnosis("error", "estimate_impact")>>}
=============================================================================
