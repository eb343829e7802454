-------------------------- MODULE ContentEvidence --------------------------
(***************************************************************************)
(* The content of one File through a capture and a later comparison.       *)
(*                                                                         *)
(* capture catalog compiles the resource and, where the catalog does not   *)
(* say what its bytes are, asks the compiler's file server for them, one   *)
(* reference after the other (internal/capture/content.go).  A comparison  *)
(* resolves its baseline (that snapshot, or the catalog PuppetDB stored)   *)
(* and its candidate (internal/filecontent, ResolveFileContentEvidence).   *)
(* Between any two of these steps somebody may deploy: what the file       *)
(* server answers for a reference changes under the run's feet.            *)
(***************************************************************************)
EXTENDS FileContent, SequencesExt

CONSTANTS
  Environments,   \* the environments the compiler serves
  Files,          \* the File resources a compile may produce
  Sources,        \* the references they name that the compiler can be asked for
  Responses,      \* what it may answer for one
  FirstResponse,  \* what it answers for all of them in the beginning
  MaxDeploys      \* bound: deployments

ASSUME ResponsesAreHTTP ==
  /\ FirstResponse \in Responses
  /\ \A r \in Responses : r.status \in Nat /\ IsSequence(r.bytes)

ASSUME FilesAreWellFormed == \A file \in Files : WellFormed(file)

\* The references that can be asked for, and no other one is ever sent.
ASSUME SourcesAreWellFormed ==
  /\ \A ref \in Sources : ParsePuppetSourceURI(ref) = ""
  /\ \A file \in Files : \A i \in DOMAIN References(Under(file.p, "source")) :
       LET ref == References(Under(file.p, "source"))[i]
       IN  ParsePuppetSourceURI(ref) = "" => ref \in Sources

VARIABLES
  server,     \* what the file server answers now, by environment and reference
  deploys,    \* how often that changed
  phase,      \* what is being done
  side,       \* of each of the three: its file and the context of its catalog
  todo,       \* the references still to ask for, for the side in work
  resolved,   \* what each side resolved to
  asked,      \* history: each side's requests for content, and their answers
  from,       \* where the baseline of the comparison comes from
  suppress,   \* --suppress-source-content-warnings
  told        \* the comparison's evidence and diagnostics

vars == <<server, deploys, phase, side, todo, resolved, asked, from, suppress, told>>

Sides == {"capture", "baseline", "candidate"}

NotYet == Unverified("", "not_yet")
NoFile == [p |-> Hash(<<>>), static |-> <<>>, captured |-> <<>>, recursive |-> FALSE]

Side(file, environment, historical) ==
  [file |-> file, context |-> [environment |-> environment, historical |-> historical]]

Init ==
  /\ server = [e \in Environments |-> [ref \in Sources |-> FirstResponse]]
  /\ deploys = 0
  /\ phase = "idle"
  /\ side = [s \in Sides |-> Side(NoFile, "", FALSE)]
  /\ todo = <<>>
  /\ resolved = [s \in Sides |-> NotYet]
  /\ asked = [s \in Sides |-> <<>>]
  /\ from = "" /\ suppress = FALSE
  /\ told = Untold(NoEvidence("not_managed"))

-----------------------------------------------------------------------------
(* The file server                                                          *)

Deploy(e, ref) ==
  /\ deploys < MaxDeploys
  /\ \E response \in Responses \ {server[e][ref]} : server' = [server EXCEPT ![e][ref] = response]
  /\ deploys' = deploys + 1
  /\ UNCHANGED <<phase, side, todo, resolved, asked, from, suppress, told>>

\* Mutant: a historical side is resolved like a live one.
ResolveAlive(s, given) ==
  LET local == LocalEvidence([given EXCEPT !.context.historical = FALSE], TRUE)
  IN  /\ todo' = local.ask
      /\ resolved' = [resolved EXCEPT ![s] = IF local.ask = <<>> THEN local.evidence ELSE @]

\* What the catalog says, or the references to ask for.
Resolve(s, given) ==
  LET local == LocalEvidence(given, TRUE)
  IN  /\ todo' = local.ask
      /\ resolved' = [resolved EXCEPT ![s] = IF local.ask = <<>> THEN local.evidence ELSE @]

\* A request that fails, whatever the server holds.
Failure == [status |-> 500, body |-> "", bytes |-> <<>>]

\* Ask for the next reference of side s, in that side's own environment; a
\* reference that is refused is never sent.
Ask(s) ==
  /\ todo # <<>>
  /\ LET ref == Head(todo)
         sent == ParsePuppetSourceURI(ref) = ""
     IN
     \E response \in {Failure}
          \cup (IF sent THEN {server[side[s].context.environment][ref]} ELSE {}) :
       LET evidence == Digest(ref, response)
           next == IF evidence.reason = "not_found" THEN Tail(todo) ELSE <<>>
       IN  /\ todo' = next
           /\ resolved' = [resolved EXCEPT ![s] = IF next = <<>> THEN evidence ELSE @]
           /\ asked' = IF sent
                       THEN [asked EXCEPT ![s] = Append(@, [ref |-> ref, response |-> response])]
                       ELSE asked
  /\ UNCHANGED <<server, deploys, phase, side, from, suppress, told>>

\* The side the current phase is about, "" when none is.
Working ==
  CASE phase = "capturing" -> "capture"
    [] phase = "baseline" -> "baseline"
    [] phase = "candidate" -> "candidate"
    [] OTHER -> ""

AskNext == Working # "" /\ Ask(Working)

-----------------------------------------------------------------------------
(* capture catalog                                                          *)

\* The catalog is compiled and normalized; a file that names no bytes needs
\* no evidence.
Capture(file, e) ==
  /\ phase = "idle"
  /\ side' = [side EXCEPT !["capture"] = Side(file, e, FALSE)]
  /\ IF NeedsEvidence(file)
     THEN Resolve("capture", Side(file, e, FALSE))
     ELSE UNCHANGED <<todo, resolved>>
  /\ phase' = "capturing"
  /\ UNCHANGED <<server, deploys, asked, from, suppress, told>>

\* A digest is kept only of bytes that were retrieved: all other evidence is
\* in the catalog already.
CapturedDigest(evidence) ==
  IF evidence.ok /\ evidence.source = "compiler_retrieval"
  THEN <<[algorithm |-> evidence.algorithm, digest |-> evidence.digest]>>
  ELSE <<>>

CaptureFails ==
  /\ NeedsEvidence(side["capture"].file)
  /\ ~resolved["capture"].ok
  /\ ClassifyEvidenceError(resolved["capture"].reason) = "error"

\* An observation that failed prevents publication, evidence that never was
\* obtainable does not.
EndCapture ==
  /\ phase = "capturing" /\ todo = <<>>
  /\ phase' = IF CaptureFails THEN "refused" ELSE "captured"
  /\ UNCHANGED <<server, deploys, side, todo, resolved, asked, from, suppress, told>>

-----------------------------------------------------------------------------
(* compare                                                                  *)

Compare(candidate, e, source, quiet) ==
  /\ phase \in {"captured", "refused"}
  /\ source = "file" => phase = "captured"
  /\ LET stored == side["capture"].file
         kept == IF source = "file" THEN CapturedDigest(resolved["capture"]) ELSE <<>>
     IN  side' = [side EXCEPT
                    !["baseline"] = Side([stored EXCEPT !.captured = kept],
                                         side["capture"].context.environment, TRUE),
                    !["candidate"] = Side(candidate, e, FALSE)]
  /\ from' = source /\ suppress' = quiet
  /\ phase' = "compiled"
  /\ UNCHANGED <<server, deploys, todo, resolved, asked, told>>

\* Whether the difference looks at content at all, and whether it then looks
\* at bytes.
LooksAtContent ==
  LET b == side["baseline"].file  a == side["candidate"].file IN
  \/ NeedsEvidence(b) \/ NeedsEvidence(a)
  \/ \E name \in FileContentBearingParameters : Under(b.p, name) # Under(a.p, name)

LooksAtBytes ==
  /\ LooksAtContent
  /\ \A s \in {"baseline", "candidate"} : Manages(side[s].file) /\ ~NonByteComparable(side[s].file)

ResolveBaseline ==
  /\ phase = "compiled" /\ LooksAtBytes
  /\ Resolve("baseline", side["baseline"])
  /\ phase' = "baseline"
  /\ UNCHANGED <<server, deploys, side, asked, from, suppress, told>>

ResolveCandidate ==
  /\ phase = "baseline" /\ todo = <<>>
  /\ Resolve("candidate", side["candidate"])
  /\ phase' = "candidate"
  /\ UNCHANGED <<server, deploys, side, asked, from, suppress, told>>

Tell ==
  /\ \/ phase = "candidate" /\ todo = <<>>
     \/ phase = "compiled" /\ ~LooksAtBytes
  /\ told' = IF LooksAtContent
             THEN ComparedEvidence(side["baseline"], side["candidate"],
                                   resolved["baseline"], resolved["candidate"], suppress)
             ELSE told
  /\ phase' = "done"
  /\ UNCHANGED <<server, deploys, side, todo, resolved, asked, from, suppress>>

Next ==
  \/ \E e \in Environments, ref \in Sources : Deploy(e, ref)
  \/ AskNext
  \/ \E file \in Files, e \in Environments : Capture(file, e)
  \/ EndCapture
  \/ \E file \in Files, e \in Environments, source \in {"file", "puppetdb"}, quiet \in BOOLEAN :
       Compare(file, e, source, quiet)
  \/ ResolveBaseline \/ ResolveCandidate \/ Tell

Spec == Init /\ [][Next]_vars

-----------------------------------------------------------------------------
(* Properties                                                               *)

\* A baseline is never asked for, in any environment: nothing a comparison
\* says of it can be a file of today.
BaselineIsNotFetched == asked["baseline"] = <<>>

\* The bytes a side is verified to have.
BytesOf(s) == Tail(resolved[s].digest)

\* "changed" and "unchanged" are said only of bytes that both sides are known
\* to have, and are true of them.
VerdictIsAboutBytes ==
  phase = "done" /\ told.evidence.state \in {"changed", "unchanged"} =>
    /\ resolved["baseline"].ok /\ resolved["candidate"].ok
    /\ told.evidence.state = "unchanged" <=> BytesOf("baseline") = BytesOf("candidate")

\* A comparison that says nothing about a File, no row and no diagnostic, has
\* verified that its bytes are the same or that one catalog manages none; on
\* request it is also silent where a source could not be verified, but never
\* where something failed.
SilenceMeansVerified ==
  phase = "done" /\ LooksAtContent
    /\ told.diagnostics = <<>> /\ ~ReportsDifference(told.evidence) =>
      \/ \E s \in {"baseline", "candidate"} : ~Manages(side[s].file)
      \/ /\ resolved["baseline"].ok /\ resolved["candidate"].ok
         /\ BytesOf("baseline") = BytesOf("candidate")
      \/ /\ suppress
         /\ \E s \in {"baseline", "candidate"} : Under(side[s].file.p, "source") # Undef
         /\ LooksAtBytes => \A s \in {"baseline", "candidate"} :
              resolved[s].ok \/ ClassifyEvidenceError(resolved[s].reason) = "warning"

\* Evidence retrieved for a side is that of its first source that existed
\* when it was asked for: every source before it was asked for, in order, and
\* found to be absent; any other answer stops the selection.
FirstSourceThatExists ==
  \A s \in Sides :
    resolved[s].ok /\ resolved[s].source = "compiler_retrieval" =>
      LET refs == References(Under(side[s].file.p, "source"))
          mine == asked[s]
          last == mine[Len(mine)]
      IN  /\ Len(mine) \in 1 .. Len(refs)
          /\ \A i \in DOMAIN mine : mine[i].ref = refs[i]
          /\ \A i \in 1 .. Len(mine) - 1 :
               mine[i].response.status = 404 /\ mine[i].response.body # "router"
          /\ last.response.status = 200
          /\ resolved[s].digest = HashOf("sha256", last.response.bytes)

=============================================================================
