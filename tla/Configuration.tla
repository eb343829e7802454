---------------------------- MODULE Configuration ----------------------------
(***************************************************************************)
(* internal/config/resolve: what a command makes of a decoded target file, *)
(* a decoded services file and its own flags.  A file that cannot be       *)
(* decoded (a syntax error, an unknown field, a second document, too many  *)
(* bytes) is Undecodable.  What is resolved is a record of the problems    *)
(* found, all of them, and a value that stands only when there is none.    *)
(*                                                                         *)
(* An optional block or value is a sequence of at most one.  A path is     *)
(* [absolute, nul, segments], a segment the sequence of its pieces, with   *)
(* Token for "{certname}".  A duration is [parses, value], a title pattern *)
(* the set of titles it matches and whether path.Match can read it.        *)
(***************************************************************************)
EXTENDS Integers, Sequences, FiniteSets, SequencesExt

CONSTANTS
  UnsafeCertnames,  \* empty, or with a separator, a NUL byte or ".."
  Variables         \* the process environment: name -> a path, or <<>> when empty

Undecodable == <<>>
Decoded(file) == <<file>>

Token == "{certname}"
Up == <<"..">>

Problem(condition, what) == IF condition THEN <<what>> ELSE <<>>
Or(option, default) == IF option = <<>> THEN default ELSE option[1]

----------------------------------------------------------------------------
(* requirements.go: what a command needs of a target file and of services. *)

Needs(command) ==
  [candidateEnvironment |-> command = "compare",
   candidateAPI         |-> command # "capture facts",
   baselineSource       |-> command # "capture facts",
   baselineEnvironment  |-> command = "compare"]

\* A block of a target replaces the block of the defaults as a whole.
MergeScalars(defaults, t) ==
  [candidate  |-> Or(t.candidate, defaults.candidate),
   facts      |-> Or(t.facts, defaults.facts),
   baseline   |-> Or(t.baseline, defaults.baseline),
   impact     |-> Or(t.impact, defaults.impact),
   failOnDiff |-> Or(t.failOnDiff, Or(defaults.failOnDiff, FALSE))]

\* Mutant: an impact estimate is forgotten among the uses of PuppetDB.
AsksPuppetDBForInputs(command, s) ==
  \/ command = "capture facts"
  \/ s.facts.source # "file"
  \/ s.baseline.source # "file"

AsksPuppetDB(command, s) ==
  \/ command = "capture facts"
  \/ /\ command = "capture catalog"
     /\ s.baseline.source = "file" /\ s.facts.source # "file"
  \/ /\ command = "compare"
     /\ \/ s.facts.source # "file"
        \/ s.baseline.source # "file"
        \/ s.impact.enabled

RequiredServices(command, file) ==
  [compiler |-> command # "capture facts",
   puppetdb |-> \/ command = "capture facts"
                \/ \E i \in DOMAIN file.targets :
                     AsksPuppetDB(command, MergeScalars(file.defaults, file.targets[i]))]

----------------------------------------------------------------------------
(* override.go: the candidate environment of the invocation.               *)

\* Mutant: only the defaults are overridden, not the blocks of the targets.
ApplyToDefaults(environment, file) ==
  IF environment = "" THEN file
  ELSE [file EXCEPT !.defaults.candidate.environment = environment]

ApplyToTarget(environment, t) ==
  [t EXCEPT !.candidate = [j \in DOMAIN @ |-> [@[j] EXCEPT !.environment = environment]]]

Apply(environment, file) ==
  IF environment = "" THEN file
  ELSE [file EXCEPT
          !.defaults.candidate.environment = environment,
          !.targets = [i \in DOMAIN @ |-> ApplyToTarget(environment, @[i])]]

----------------------------------------------------------------------------
(* validate.go: certnames and paths.                                       *)

MayHoldToken(segment) ==
  \/ Token \notin ToSet(segment)
  \/ /\ segment[1] = Token
     /\ Token \notin ToSet(Tail(segment))
     /\ Len(segment) > 1 => segment[2] = "."

Expanded(path, certname) ==
  [i \in DOMAIN path.segments |->
     [j \in DOMAIN path.segments[i] |->
        IF path.segments[i][j] = Token THEN certname ELSE path.segments[i][j]]]

\* filepath.Clean of an absolute path: a name goes when more ".." than names
\* follow it somewhere.
IsDot(segment) == segment \in {<<>>, <<".">>}

Clean(segments) ==
  LET names(i, j) == {k \in i..j : segments[k] # Up /\ ~IsDot(segments[k])}
      ups(i, j) == {k \in i..j : segments[k] = Up}
      kept == {i \in names(1, Len(segments)) :
                 \A j \in i + 1..Len(segments) :
                   Cardinality(ups(i + 1, j)) <= Cardinality(names(i + 1, j))}
      order == SetToSortSeq(kept, <)
  IN  [i \in DOMAIN order |-> segments[order[i]]]

\* Joined to the directory of the file that names it, and still beneath it.
ResolveFilePath(path, dir, certname) ==
  LET expanded == Expanded(path, certname)
      joined == IF path.absolute THEN Clean(expanded) ELSE Clean(dir \o expanded)
      bad == \E i \in DOMAIN path.segments : ~MayHoldToken(path.segments[i])
      escapes == ~path.absolute /\ ~IsPrefix(dir, joined)
  IN  [problems |-> Problem(bad, "the token is not a component of its own")
                    \o Problem(~bad /\ escapes, "the path escapes the directory"),
       value |-> joined]

----------------------------------------------------------------------------
(* target.go: one target, with every problem it has.                       *)

CandidateProblems(c, needs) ==
  Problem(needs.candidateEnvironment /\ c.environment = "", "candidate.environment")
  \o Problem(c.api \notin {"v3", "v4"} /\ (c.api # "" \/ needs.candidateAPI),
             "candidate.catalog_api")
  \o Problem(c.fallback /\ c.api = "v3", "allow_v3_fallback with v3")
  \o Problem(c.lookup /\ c.api = "v3", "trusted_facts_compiler_lookup with v3")

\* A source and its file: a file exactly when the source is one.
SourceProblems(s, needed) ==
  CASE s.source = "puppetdb" -> Problem(s.file # <<>>, "file beside puppetdb")
    [] s.source = "file" -> Problem(s.file = <<>>, "file is required")
    [] s.source = "" -> Problem(needed, "source")
    [] OTHER -> <<"source">>

FileAt(s, dir, certname) ==
  IF s.source = "file" /\ s.file # <<>>
  THEN LET at == ResolveFilePath(s.file[1], dir, certname)
       IN  [at EXCEPT !.value = <<at.value>>]
  ELSE [problems |-> <<>>, value |-> <<>>]

\* Appended to the global list, a repeated entry kept where it came first.
Merged(global, own) ==
  LET all == global \o own
  IN  FoldLeft(LAMBDA kept, entry : IF entry \in ToSet(kept) THEN kept ELSE Append(kept, entry),
               <<>>, all)

RuleProblems(exclude, redact) ==
  Problem(\E i \in DOMAIN exclude : exclude[i].type = "", "exclude type")
  \o Problem(\E i \in DOMAIN exclude : ~exclude[i].parses, "exclude title glob")
  \o Problem(\E i \in DOMAIN redact : "" \in {redact[i].type, redact[i].parameter}, "redact selector")

\* A disabled estimate needs no limits and has none.
ImpactProblems(p) ==
  IF ~p.enabled THEN <<>>
  ELSE Problem(p.timeout = <<>> \/ ~p.timeout[1].parses \/ p.timeout[1].value <= 0, "impact timeout")
       \o Problem(p.resultLimit = <<>> \/ p.resultLimit[1] <= 0, "impact result_limit")

ImpactPolicy(p) ==
  [enabled |-> p.enabled,
   timeout |-> IF p.enabled THEN p.timeout[1].value ELSE 0,
   resultLimit |-> IF p.enabled THEN p.resultLimit[1] ELSE 0]

TargetProblems(defaults, t, dir, needs) ==
  LET s == MergeScalars(defaults, t)
  IN  CandidateProblems(s.candidate, needs)
      \o SourceProblems(s.facts, TRUE)
      \o Problem(needs.baselineEnvironment /\ s.baseline.environment = "", "baseline.environment")
      \o SourceProblems(s.baseline, needs.baselineSource)
      \o FileAt(s.facts, dir, t.certname).problems
      \o FileAt(s.baseline, dir, t.certname).problems
      \o RuleProblems(Merged(defaults.exclude, t.exclude), Merged(defaults.redact, t.redact))
      \o ImpactProblems(s.impact)

ResolvedTarget(defaults, t, dir) ==
  LET s == MergeScalars(defaults, t)
  IN  [certname   |-> t.certname,
       candidate  |-> s.candidate,
       facts      |-> [source |-> s.facts.source, file |-> FileAt(s.facts, dir, t.certname).value],
       baseline   |-> [source |-> s.baseline.source, environment |-> s.baseline.environment,
                       file |-> FileAt(s.baseline, dir, t.certname).value],
       exclude    |-> Merged(defaults.exclude, t.exclude),
       redact     |-> Merged(defaults.redact, t.redact),
       impact     |-> ImpactPolicy(s.impact),
       failOnDiff |-> s.failOnDiff]

\* A target with an unsafe or repeated certname is not looked at further.
EntryProblems(file, i, dir, needs) ==
  LET t == file.targets[i]
      seen == {file.targets[j].certname : j \in 1..i - 1} \ UnsafeCertnames
  IN  CASE t.certname \in UnsafeCertnames -> <<"certname">>
        [] t.certname \in seen -> <<"duplicate certname">>
        [] OTHER -> TargetProblems(file.defaults, t, dir, needs)

ResolveTargets(file, dir, command) ==
  LET problems == Problem(file.version # 1, "target file version")
                  \o Problem(file.targets = <<>>, "no targets")
                  \o FlattenSeq([i \in DOMAIN file.targets |->
                                   EntryProblems(file, i, dir, Needs(command))])
  IN  [problems |-> problems,
       value |-> IF problems # <<>> THEN <<>>
                 ELSE [i \in DOMAIN file.targets |->
                         ResolvedTarget(file.defaults, file.targets[i], dir)]]

LoadTargetFile(file, dir, command, environment) ==
  IF file = Undecodable THEN [problems |-> <<"decoding target file">>, value |-> <<>>]
  ELSE ResolveTargets(Apply(environment, file[1]), dir, command)

----------------------------------------------------------------------------
(* services.go: the endpoints a command needs, and no other.               *)

IsHTTPSEndpoint(url) ==
  url # <<>> /\ url[1].parses /\ ~url[1].userinfo /\ url[1].scheme = "https" /\ url[1].host # ""

\* Exactly one of a path in the file and the name of a variable that holds an
\* absolute one.
ResolveTLSPath(ref, dir) ==
  LET named == IF ref.variable = "" THEN <<>> ELSE Variables[ref.variable]
      bad == \/ (ref.path = <<>>) = (ref.variable = "")
             \/ ref.variable # "" /\ (named = <<>> \/ named[1].nul \/ ~named[1].absolute)
             \/ ref.path # <<>> /\ ref.path[1].nul
  IN  [problems |-> Problem(bad, "TLS path"),
       value |-> CASE bad -> <<>>
                   [] ref.variable # "" -> <<named[1].segments>>
                   [] ref.path[1].absolute -> <<ref.path[1].segments>>
                   [] OTHER -> <<Clean(dir \o ref.path[1].segments)>>]

NoEndpoint == [url |-> <<>>, caBundle |-> <<>>, clientCert |-> <<>>, privateKey |-> <<>>, timeout |-> 0]

EndpointProblems(ep, dir) ==
  Problem(~IsHTTPSEndpoint(ep.endpoint), "endpoint")
  \o ResolveTLSPath(ep.caBundle, dir).problems
  \o ResolveTLSPath(ep.clientCert, dir).problems
  \o ResolveTLSPath(ep.privateKey, dir).problems
  \o Problem(ep.timeout # <<>> /\ (~ep.timeout[1].parses \/ ep.timeout[1].value <= 0), "service timeout")

\* A timeout of 0 leaves the deadline to the transport.
ResolveEndpoint(ep, dir) ==
  [url        |-> ep.endpoint,
   caBundle   |-> ResolveTLSPath(ep.caBundle, dir).value,
   clientCert |-> ResolveTLSPath(ep.clientCert, dir).value,
   privateKey |-> ResolveTLSPath(ep.privateKey, dir).value,
   timeout    |-> IF ep.timeout = <<>> THEN 0 ELSE ep.timeout[1].value]

ResolveServices(file, dir, need) ==
  LET problems == Problem(file.version # 1, "services file version")
                  \o (IF need.compiler THEN EndpointProblems(file.compiler, dir) ELSE <<>>)
                  \o (IF need.puppetdb THEN EndpointProblems(file.puppetdb, dir) ELSE <<>>)
      section(wanted, ep) == IF wanted THEN ResolveEndpoint(ep, dir) ELSE NoEndpoint
  IN  [problems |-> problems,
       value |-> IF problems # <<>> THEN [compiler |-> NoEndpoint, puppetdb |-> NoEndpoint]
                 ELSE [compiler |-> section(need.compiler, file.compiler),
                       puppetdb |-> section(need.puppetdb, file.puppetdb)]]

LoadServicesFile(file, dir, need) ==
  IF file = Undecodable
  THEN [problems |-> <<"decoding services file">>,
        value |-> [compiler |-> NoEndpoint, puppetdb |-> NoEndpoint]]
  ELSE ResolveServices(file[1], dir, need)

----------------------------------------------------------------------------
(* load.go and comparison.go.                                              *)

NoTargets == [targets |-> <<>>]

\* A file that cannot be decoded leaves what the command needs in any case.
ServiceSetFor(command, file, environment) ==
  RequiredServices(command,
    IF file = Undecodable THEN NoTargets ELSE Apply(environment, file[1]))

\* The problems of a comparison that v3 could spoil the baseline of.
ComparisonProblems(targets) ==
  SelectSeq(targets, LAMBDA t : /\ t.baseline.source = "puppetdb"
                                /\ t.candidate.api = "v3" \/ t.candidate.fallback)
=============================================================================
