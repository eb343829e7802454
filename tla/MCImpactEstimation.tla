-------------------------- MODULE MCImpactEstimation -------------------------
EXTENDS ImpactEstimation

MCBackslash == "\\"
MCLetters == ("'" :> "'") @@ (MCBackslash :> MCBackslash) @@ ("newline" :> "n")
Titles == <<<<"c", "n">>, <<"c", MCBackslash, "newline">>, <<"c", "^">>>>
Certnames == <<"n1", "n2", "n3">>
Types == <<<<"File">>>>
Dir == <<<<"etc">>, <<"piace">>>>

Path(segments) == <<[absolute |-> FALSE, nul |-> FALSE, segments |-> segments]>>
Snapshots(kind) == Path(<<<<kind>>, <<Token, ".", "json">>>>)
Duration(n) == <<[parses |-> TRUE, value |-> n]>>

Environment == [TLS_KEY |-> <<[absolute |-> TRUE, nul |-> FALSE, segments |-> <<<<"run">>, <<"key">>>>]>>,
                UNSET |-> <<>>]

Candidate(env, api) ==
  [environment |-> env, api |-> api, fallback |-> FALSE, lookup |-> FALSE]
FromFile(kind) == [source |-> "file", file |-> Snapshots(kind)]
FromPuppetDB == [source |-> "puppetdb", file |-> <<>>]
Baseline(from) == [source |-> from.source, file |-> from.file, environment |-> "production"]
Estimates(n) == [enabled |-> TRUE, timeout |-> Duration(n), resultLimit |-> <<n>>]
NoEstimates == [enabled |-> FALSE, timeout |-> <<>>, resultLimit |-> <<>>]

Defaults ==
  [candidate |-> Candidate("feature", "v4"), facts |-> FromFile("facts"),
   baseline |-> Baseline(FromFile("catalogs")), impact |-> NoEstimates, failOnDiff |-> <<>>,
   exclude |-> <<[type |-> "Class", parses |-> TRUE, titles |-> {}]>>, redact |-> <<>>]

Node(c) ==
  [certname |-> c, candidate |-> <<>>, facts |-> <<>>, baseline |-> <<>>, impact |-> <<>>,
   failOnDiff |-> <<>>, exclude |-> <<>>, redact |-> <<>>]

File(nodes) == Decoded([version |-> 1, defaults |-> Defaults, targets |-> nodes])

\* Snapshots only; estimates for the second and third of three targets; facts or
\* baseline from PuppetDB; a candidate block without an environment.
Plain == File(<<Node("n1")>>)
Late == File(<<Node("n1"), [Node("n2") EXCEPT !.impact = <<Estimates(2)>>,
                                           !.candidate = <<Candidate("other", "v4")>>],
               [Node("n3") EXCEPT !.impact = <<Estimates(1)>>]>>)
LiveFacts == File(<<Node("n1"), [Node("n2") EXCEPT !.facts = <<FromPuppetDB>>,
                                     !.candidate = <<Candidate("", "v4")>>]>>)
LiveBaseline == File(<<[Node("n1") EXCEPT !.baseline = <<Baseline(FromPuppetDB)>>,
                                          !.candidate = <<Candidate("other", "v3")>>]>>)

Bad == {Undecodable, File(<<>>), File(<<Node("n1"), Node("n1")>>), File(<<Node("..")>>),
        File(<<[Node("n1") EXCEPT !.facts = <<[FromFile("facts") EXCEPT !.file = Path(<<Up, <<"x">>>>)]>>]>>)}

MCTargetFiles == {Plain, Late, LiveFacts, LiveBaseline} \cup Bad

Ref(segments) == [path |-> Path(segments), variable |-> ""]
Endpoint ==
  [endpoint |-> <<[parses |-> TRUE, userinfo |-> FALSE, scheme |-> "https", host |-> "h:8140"]>>,
   caBundle |-> Ref(<<<<"ca">>>>), clientCert |-> Ref(<<<<"cert">>>>),
   privateKey |-> [path |-> <<>>, variable |-> "TLS_KEY"], timeout |-> <<>>]
NoSection ==
  [Endpoint EXCEPT !.endpoint = <<>>, !.privateKey = [path |-> <<>>, variable |-> "UNSET"],
                   !.timeout = Duration(0)]

MCServicesFiles ==
  {Decoded([version |-> 1, compiler |-> Endpoint, puppetdb |-> Endpoint]),
   Decoded([version |-> 1, compiler |-> Endpoint, puppetdb |-> NoSection]), Undecodable}

Resource(i) == [type |-> Types[1], title |-> Titles[i]]
MCChanges == {{}, {Resource(1)}, {Resource(1), Resource(2)}, {Resource(2), Resource(3)}}

\* The first resource on every node, the second on one of them.
MCCatalogs ==
  {[c \in ToSet(Certnames) |-> IF c = "n3" THEN {Resource(1)} ELSE {Resource(1), Resource(2)}],
   [c \in ToSet(Certnames) |-> IF c = "n2" THEN {Resource(1), Resource(2)} ELSE {}]}

MCCommands == {"compare", "capture facts", "capture catalog"}
=============================================================================
