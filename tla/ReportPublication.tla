-------------------------- MODULE ReportPublication --------------------------
(***************************************************************************)
(* cmd/piace/main.go: what compare and explain do around their work. They  *)
(* check the destinations they were given, render every artifact, publish  *)
(* one file after the other, and exit. Several commands run at once, on    *)
(* files of one directory, and one may read what another prints.           *)
(*                                                                         *)
(* A file changes in one step, as AtomicFile promises. An artifact is a    *)
(* record of what it is, the comparison it tells of, and who wrote it.     *)
(***************************************************************************)
EXTENDS Naturals, Sequences, SequencesExt

CONSTANTS
  Runs,          \* processes
  Files,         \* their files, each with a path; two paths are never one file
  DashFile,      \* the one of them whose name in its directory is "-"
  CommandLines,  \* what the processes may be asked to do
  Before,        \* what the files may hold before
  Stdout,        \* /dev/stdout, as a destination
  Dash,          \* "-", as it is given: standard input, or another path of DashFile
  Nothing        \* no file, no path given, nothing read yet

Roles == {"json", "html", "junit", "text", "ai"}
ExitCodes == {0, 10, 20, 30}

\* inputs are the files ValidateDestinations is told of: a comparison's
\* configuration and snapshots, the services file of an explain.
CommandLine ==
  [command : {"compare", "explain"}, inputs : SUBSET (Files \cup {Dash}),
   jsonIn : Files \cup {Dash, Nothing}, change : Files \cup {Nothing},
   stdin : Runs \cup {Nothing}, out : [Roles -> Files \cup {Stdout, Dash, Nothing}],
   failOnInferenceError : BOOLEAN]

ASSUME CommandLinesParse ==
  CommandLines \subseteq [Runs -> CommandLine]

Documents == [run : Runs \cup {Nothing}, exit : ExitCodes]

\* What may be there before: configuration, or the report of an earlier run.
Given(k) == [kind |-> k, doc |-> [run |-> Nothing, exit |-> 0], by |-> Nothing, whole |-> TRUE]

ASSUME BeforeIsEarlierWork == Before \subseteq [Files -> {Nothing, Given("input"), Given("json")}]

\* A path, a device and the lack of either are told apart.
ASSUME NamesDiffer ==
  /\ Stdout \notin Files \cup {Nothing} /\ Nothing \notin Files \cup Runs
  /\ DashFile \in Files /\ Dash \notin Files \cup {Stdout, Nothing}

\* The file that os.Open and artifact.Write find at a path.
FileOf(p) == IF p = Dash THEN DashFile ELSE p

VARIABLES
  line,       \* the command line of each process
  content,    \* the files
  stdout,     \* what each process has written to its standard output
  pc,
  document,   \* the comparison the process reports, its own or one it read
  failed,     \* whether an explain's assessment failed
  pending,    \* the artifacts rendered, in the order they are published
  published,  \* how many of them are
  told,       \* what the error says of the artifacts when one is not written
  exit

vars == <<line, content, stdout, pc, document, failed, pending, published, told, exit>>

Init ==
  /\ line \in CommandLines
  /\ content \in Before
  /\ stdout = [r \in Runs |-> <<>>]
  /\ pc = [r \in Runs |-> "start"]
  /\ document = [r \in Runs |-> Nothing]
  /\ failed = [r \in Runs |-> FALSE]
  /\ pending = [r \in Runs |-> <<>>]
  /\ published = [r \in Runs |-> 0]
  /\ told = [r \in Runs |-> Nothing]
  /\ exit = [r \in Runs |-> 0]

Compares(r) == line[r].command = "compare"
Goto(r, l)  == pc' = [pc EXCEPT ![r] = l]

\* Any error up to publication: exit 30, nothing written.
Refuse(r) ==
  /\ Goto(r, "done")
  /\ exit' = [exit EXCEPT ![r] = 30]
  /\ UNCHANGED <<line, content, stdout, document, failed, pending, published, told>>

-----------------------------------------------------------------------------
(* Before the work.                                                        *)

\* What the command hands to ValidateDestinations, which leaves "-" out of it.
Inputs(r)  == (line[r].inputs \cup ({line[r].jsonIn} \cap Files)) \ {Dash}
Outputs(r) == {k \in Roles : line[r].out[k] \notin {Nothing, Dash}}

\* Mutant: inputs are not compared.
ConflictingOutputs(r) ==
  \E k \in Outputs(r) : \E j \in Outputs(r) \ {k} : line[r].out[j] = line[r].out[k]

\* Mutant: outputs are compared with the inputs only.
ConflictingInputs(r) == \E k \in Outputs(r) : line[r].out[k] \in Inputs(r)

\* ValidateDestinations: two outputs, or an output and an input, name one file.
Conflicting(r) ==
  \E k \in Outputs(r) :
    \/ \E j \in Outputs(r) \ {k} : line[r].out[j] = line[r].out[k]
    \/ line[r].out[k] \in Inputs(r)

\* The configuration, too, may be refused.
CheckDestinations(r) ==
  /\ pc[r] = "start"
  /\ \/ Refuse(r)
     \/ /\ ~Conflicting(r)
        /\ Goto(r, IF Compares(r) THEN "run" ELSE "read")
        /\ UNCHANGED <<line, content, stdout, document, failed, pending, published, told, exit>>

\* Workflow.Run: see PiaceRuns. Its result has an exit code, whatever happened.
RunComparison(r) ==
  /\ pc[r] = "run"
  /\ \E e \in ExitCodes : document' = [document EXCEPT ![r] = [run |-> r, exit |-> e]]
  /\ Goto(r, "render")
  /\ UNCHANGED <<line, content, stdout, failed, pending, published, told, exit>>

\* DecodeJSON: one result document, complete, and nothing after it.
Decodes(items) == Len(items) = 1 /\ items[1].kind = "json" /\ items[1].whole

\* What --json-in reads; standard input is read to its end.
Source(r) ==
  CASE line[r].jsonIn \in Files ->
         IF content[line[r].jsonIn] = Nothing THEN <<>> ELSE <<content[line[r].jsonIn]>>
    [] line[r].jsonIn = Dash /\ line[r].stdin \in Runs -> stdout[line[r].stdin]
    [] OTHER -> <<>>

AtEnd(r) ==
  (line[r].jsonIn = Dash /\ line[r].stdin \in Runs) => pc[line[r].stdin] \in {"done", "killed"}

\* The document, and then the services file and the change context.
ReadDocument(r) ==
  /\ pc[r] = "read"
  /\ AtEnd(r)
  /\ \/ Refuse(r)
     \/ /\ Decodes(Source(r))
        /\ document' = [document EXCEPT ![r] = Source(r)[1].doc]
        /\ Goto(r, "assess")
        /\ UNCHANGED <<line, content, stdout, failed, pending, published, told, exit>>

\* assess.Produce always returns an assessment, which may tell of a failure.
Produce(r) ==
  /\ pc[r] = "assess"
  /\ \E b \in BOOLEAN : failed' = [failed EXCEPT ![r] = b]
  /\ Goto(r, "render")
  /\ UNCHANGED <<line, content, stdout, document, pending, published, told, exit>>

-----------------------------------------------------------------------------
(* writeReports and writeAssessment.                                       *)

Artifact(r, k, p) ==
  [path |-> p, item |-> [kind |-> k, doc |-> document[r], by |-> r, whole |-> TRUE]]

Kinds(r) == IF Compares(r) THEN {"json", "html", "junit", "text"} ELSE {"ai", "html"}

Requested(r) == {k \in Kinds(r) : line[r].out[k] # Nothing}

IfRequested(r, k) ==
  IF line[r].out[k] = Nothing THEN <<>> ELSE <<Artifact(r, k, line[r].out[k])>>

Destined(r) ==
  IF Compares(r)
  THEN IfRequested(r, "json") \o IfRequested(r, "html") \o IfRequested(r, "junit")
         \o IfRequested(r, "text")
  ELSE IfRequested(r, "ai") \o IfRequested(r, "html")

\* Without --text-out, a comparison's text goes to its standard output.
PrintsText(r) == Compares(r) /\ line[r].out["text"] = Nothing

Printed(r) == IF PrintsText(r) THEN <<Artifact(r, "text", Stdout)>> ELSE <<>>

\* Mutant: the HTML report of an explain is made from the document as it is now.
RenderedAnew(r) ==
  [i \in DOMAIN Destined(r) |->
     IF Destined(r)[i].item.kind = "html" /\ Decodes(Source(r))
     THEN [Destined(r)[i] EXCEPT !.item.doc = Source(r)[1].doc] ELSE Destined(r)[i]] \o Printed(r)

Rendered(r) == Destined(r) \o Printed(r)

\* All of it is rendered before any of it is published.
Render(r) ==
  /\ pc[r] = "render"
  /\ \/ Refuse(r)
     \/ /\ pending' = [pending EXCEPT ![r] = Rendered(r)]
        /\ Goto(r, "publish")
        /\ UNCHANGED <<line, content, stdout, document, failed, published, told, exit>>

\* artifact.Write: a file at once, a device in place. "-" is a file to it.
PublishArtifact(r) ==
  LET a == pending[r][published[r] + 1] IN
  /\ pc[r] = "publish"
  /\ published[r] < Len(pending[r])
  /\ IF a.path = Stdout
     THEN stdout' = [stdout EXCEPT ![r] = Append(@, a.item)] /\ UNCHANGED content
     ELSE content' = [content EXCEPT ![FileOf(a.path)] = a.item] /\ UNCHANGED stdout
  /\ published' = [published EXCEPT ![r] = @ + 1]
  /\ UNCHANGED <<line, pc, document, failed, pending, told, exit>>

KindsIn(as, S) == {as[i].item.kind : i \in S}

\* Mutant: the artifact that failed is counted with the ones written.
PublishedSoFarInclusive(as, n) ==
  [written |-> KindsIn(as, 1 .. n + 1), notWritten |-> KindsIn(as, n + 2 .. Len(as))]

\* What exists when the artifact after the first n could not be written.
PublishedSoFar(as, n) ==
  [written |-> KindsIn(as, 1 .. n), notWritten |-> KindsIn(as, n + 2 .. Len(as))]

\* A write that fails leaves a file as it was; a device may have had a part.
PublishFails(r) ==
  LET a == pending[r][published[r] + 1] IN
  /\ pc[r] = "publish"
  /\ published[r] < Len(pending[r])
  /\ \/ UNCHANGED stdout
     \/ /\ a.path = Stdout
        /\ stdout' = [stdout EXCEPT ![r] = Append(@, [a.item EXCEPT !.whole = FALSE])]
  /\ IF published[r] < Len(Destined(r))
     THEN told' = [told EXCEPT ![r] = PublishedSoFar(Destined(r), published[r])]
     ELSE UNCHANGED told
  /\ exit' = [exit EXCEPT ![r] = 30]
  /\ Goto(r, "done")
  /\ UNCHANGED <<line, content, document, failed, pending, published>>

\* The exit code: the comparison's own, or an explain's.
Exit(r) ==
  /\ pc[r] = "publish"
  /\ published[r] = Len(pending[r])
  /\ exit' = [exit EXCEPT ![r] =
                CASE Compares(r) -> document[r].exit
                  [] ~Compares(r) /\ line[r].failOnInferenceError /\ failed[r] -> 30
                  [] OTHER -> 0]
  /\ Goto(r, "done")
  /\ UNCHANGED <<line, content, stdout, document, failed, pending, published, told>>

Kill(r) ==
  /\ pc[r] \notin {"done", "killed"}
  /\ Goto(r, "killed")
  /\ UNCHANGED <<line, content, stdout, document, failed, pending, published, told, exit>>

Step(r) ==
  \/ CheckDestinations(r)
  \/ RunComparison(r)
  \/ ReadDocument(r)
  \/ Produce(r)
  \/ Render(r)
  \/ PublishArtifact(r)
  \/ PublishFails(r)
  \/ Exit(r)
  \/ Kill(r)

Next == \E r \in Runs : Step(r)

Spec == Init /\ [][Next]_vars

-----------------------------------------------------------------------------
(* Properties.                                                             *)

WrittenBy(r) == {k \in Roles : \E i \in 1 .. published[r] : pending[r][i].item.kind = k}

\* Where the run's artifact of one kind is still the last one written there, it
\* is that kind's and tells of the run's document.
InPlace(r, k) ==
  LET f == FileOf(line[r].out[k]) IN
  (f \in Files /\ content[f] # Nothing /\ content[f].by = r) =>
    content[f] = [kind |-> k, doc |-> document[r], by |-> r, whole |-> TRUE]

\* Where two artifacts meet behind the check's back: it skips "-".
Replaced(r, k) ==
  \E j \in Requested(r) \ {k} :
    /\ FileOf(line[r].out[j]) = FileOf(line[r].out[k])
    /\ Dash \in {line[r].out[j], line[r].out[k]}
    /\ InPlace(r, j)

\* A comparison that exits with anything but 30 has written every artifact it
\* was asked for, each at its own destination, and all of them state the exit
\* code the process has (writeReports: a write failure is never papered over).
\* Only an artifact that goes to "-" may be lost to another one that does, or
\* lose that one: DestinationsHonored shows how.
ExitMeansPublished ==
  \A r \in Runs :
    (pc[r] = "done" /\ exit[r] # 30) =>
      /\ Requested(r) \subseteq WrittenBy(r)
      /\ \A k \in Requested(r) : InPlace(r, k) \/ Replaced(r, k)
      /\ Compares(r) => document[r] = [run |-> r, exit |-> exit[r]]

\* When an artifact cannot be written the error names exactly those that were
\* and, apart from the one that failed, those that were not (publishedSoFar).
FailureNamesWhatExists ==
  \A r \in Runs :
    told[r] # Nothing =>
      /\ told[r].written = WrittenBy(r)
      /\ told[r].written \cap told[r].notWritten = {}
      /\ \E k \in Requested(r) \ WrittenBy(r) :
           told[r].written \cup told[r].notWritten = Requested(r) \ {k}

\* The files a command reads by the paths it hands to the check.
CheckedInputs(r) ==
  {FileOf(p) : p \in line[r].inputs} \cup ({line[r].jsonIn} \cap Files)

\* What the check says nothing about, when a path is given as "-".
Unchecked(r) ==
  IF Dash \in line[r].inputs \cup {line[r].out[k] : k \in Roles} THEN {DashFile} ELSE {}

\* No process replaces a file that it was told to read and that it checks: its
\* configuration, its snapshots, the result document it explains. A file named
\* "-" is not checked.
InputsKept ==
  \A r \in Runs : \A f \in CheckedInputs(r) \ Unchecked(r) :
    content[f] # Nothing => content[f].by # r

\* The assessment and the report an explain writes tell of one comparison,
\* also when another process replaces the document meanwhile.
ExplainTellsOneStory ==
  \A r \in Runs : \A f, g \in Files :
    (/\ ~Compares(r)
     /\ content[f] # Nothing /\ content[f].by = r
     /\ content[g] # Nothing /\ content[g].by = r) => content[f].doc = content[g].doc

(* What comments in the code say, and the code does not do.                *)

\* An explain also reads its change context.
Reads(r) == CheckedInputs(r) \cup ({line[r].change} \cap Files)

\* destinations.go: the check "rejects a set of destinations that cannot all be
\* honored", among them "an output naming a file the same run reads", and "-" is
\* "the stdin/stdout convention". So a command that ends well has replaced
\* nothing that it reads, and what was to go to "-" is on its standard output.
DestinationsHonored ==
  \A r \in Runs :
    (pc[r] = "done" /\ exit[r] # 30) =>
      /\ \A f \in Reads(r) : content[f] # Nothing => content[f].by # r
      /\ \A k \in Requested(r) :
           line[r].out[k] = Dash => \E item \in Range(stdout[r]) : item.kind = k

=============================================================================
