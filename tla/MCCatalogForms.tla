--------------------------- MODULE MCCatalogForms ---------------------------
(* Manifests of an Exec and a class that contains it, no two of which mean  *)
(* the same, and each place of an answer damaged in its turn.               *)
EXTENDS CatalogForms, ValueTrees

MCNameOrder == <<"Class", "Exec", "command", "require", "tag", "umask">>

\* Titles with brackets, which references have to be split around.
Main == <<"main">>
Run == <<"a", "[", "b", "]">>
MCTitleOrder == <<Run, Main>>

C == [type |-> "Class", title |-> Main]
E == [type |-> "Exec", title |-> Run]

MCElementOrder == <<Text(<<"p">>), Text(<<"q">>), Text(Reference(<<"Class">>, Main)),
                    Text(Reference(<<"Exec">>, Run))>>

Token(neg, int, frac, exp) == [neg |-> neg, int |-> int, frac |-> frac, exp |-> exp]
Zero == <<Token(FALSE, <<0>>, <<>>, 0), Token(TRUE, <<0>>, <<0>>, 0), Token(FALSE, <<0>>, <<>>, 2)>>
One == <<Token(FALSE, <<1>>, <<>>, 0), Token(FALSE, <<1>>, <<0>>, 0), Token(FALSE, <<1, 0>>, <<>>, -1)>>
MinusOne == <<Token(TRUE, <<1>>, <<>>, 0), Token(TRUE, <<0>>, <<1>>, 1)>>
Ten == <<Token(FALSE, <<1, 0>>, <<>>, 0), Token(FALSE, <<1>>, <<>>, 1)>>
Hundred == <<Token(FALSE, <<1>>, <<>>, 2), Token(FALSE, <<1, 0>>, <<>>, 1)>>
Tenth == <<Token(FALSE, <<1>>, <<>>, -1), Token(FALSE, <<0>>, <<1>>, 0)>>
Hundredth == <<Token(FALSE, <<1>>, <<>>, -2), Token(FALSE, <<0>>, <<1>>, -1)>>
MCSpellings == {Zero, One, MinusOne, Ten, Hundred, Tenth, Hundredth}

P == Text(<<"p">>)
Q == Text(<<"q">>)

Declared(params, sensitive) == [params |-> params, sensitive |-> sensitive]

Commands == {P, List(<<P, Q>>), List(<<Q, P>>), Hash("k" :> P)}
Umasks == {Number(class[1]) : class \in MCSpellings}
Requires == {ReferenceTo(C), List(<<ReferenceTo(C), ReferenceTo(E)>>), List(<<ReferenceTo(E)>>)}

Execs == {Declared("command" :> c, {}) : c \in Commands}
           \cup {Declared("command" :> P @@ "umask" :> u, {"command"}) : u \in Umasks}
           \cup {Declared("command" :> P @@ "require" :> r, {}) : r \in Requires}
           \cup {Declared("tag" :> List(<<Q, P>>), {})}

Containment == [source |-> C, target |-> E]

Manifest(exec, contains) ==
  [resources |-> C :> Declared(<<>>, {}) @@ E :> exec, contains |-> contains]

Manifests == {Manifest(exec, {Containment}) : exec \in Execs}
               \cup {Manifest(Declared(<<>>, {}), {}),
                     [resources |-> C :> Declared(<<>>, {}), contains |-> {}]}
MCChanges == Manifests \X Manifests

\* The lists of an answer's resources and edges, and the answer with others.
Items(v) == Container(v).it
Rewrapped(v, items) == IF IsList(v) THEN List(items) ELSE Hash("data" :> List(items))

Replaced(items, replacements(_)) ==
  UNION {{[items EXCEPT ![i] = x] : x \in replacements(items[i])} : i \in DOMAIN items}

Without(entry, field) == Hash([f \in DOMAIN entry.at \ {field} |-> entry.at[f]])
Having(entry, field, v) == Hash(field :> v @@ entry.at)

TooLong == Number(Token(FALSE, <<1, 0, 0>>, <<>>, 0))
TooLarge == Number(Token(FALSE, <<1>>, <<>>, 3))

BadResources(entry) ==
  {Undef, P, Having(entry, "title", Text(<<>>)), Having(entry, "type", Number(One[1])),
   Having(entry, "sensitive_parameters", Undef), Having(entry, "sensitive_parameters", List(<<P, P>>)),
   Having(entry, "sensitive_parameters", List(<<Text(<<>>)>>)), Having(entry, "parameters", P)}
  \cup {Having(entry, "parameters", Hash("umask" :> v)) :
          v \in {TooLong, List(<<TooLarge>>), Hash("__ptype" :> Text(<<"Sensitive">>))}}

\* Only a compiled edge is read further than its relationship.
NotReferences == {Text(<<"[", "a", "]">>), Text(<<"Exec", "]", "[", "a", "]">>), Text(<<"Exec", "[", "]">>),
                  Hash("type" :> Text(<<"Exec">>))}
BadEdges(entry) ==
  {Undef, P}
  \cup (IF "source" \in DOMAIN entry.at
        THEN {Without(entry, "source")} \cup {Having(entry, "target", v) : v \in NotReferences}
        ELSE IF IsSynthesizedRelationship(entry) THEN {}
        ELSE {Without(entry, "target_title"), Having(entry, "source_type", Text(<<>>))})

BadContainers(v) ==
  {Undef, P, Hash("href" :> P), Hash("data" :> Undef)}
  \cup IF Len(Items(v)) = 0 THEN {} ELSE {Rewrapped(v, Append(Items(v), Undef))}

MCDamages(answer) ==
  {[answer EXCEPT !.resources = v] :
     v \in BadContainers(answer.resources)
             \cup {Rewrapped(answer.resources, Items(answer.resources) \o <<Items(answer.resources)[1]>>)}
             \cup {Rewrapped(answer.resources, items) :
                     items \in Replaced(Items(answer.resources), BadResources)}}
  \cup {[answer EXCEPT !.edges = v] :
          v \in BadContainers(answer.edges)
                  \cup {Rewrapped(answer.edges, items) :
                          items \in Replaced(Items(answer.edges), BadEdges)}}
  \cup {[answer EXCEPT !.metadata = v] :
          v \in {P, Hash(P.text :> P), Hash(P.text :> Hash("type" :> List(<<P>>))),
                 Hash(P.text :> Hash("checksum" :> P))}}
  \cup {[answer EXCEPT !.recursive = P]}

MCAliasedTitle == Main
=============================================================================
