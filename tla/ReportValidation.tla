-------------------------- MODULE ReportValidation --------------------------
(***************************************************************************)
(* internal/report/validate.go: what a stored result document must satisfy *)
(* before a consumer reads it.  The document is the one that was decoded:  *)
(* a sequence of targets, the aggregate's groups, the run's diagnostics,   *)
(* its outcome and exit code.  Fields the decoder's types already fix      *)
(* (a kind with its edge or its identity) and the invocation's version and *)
(* timestamp are not repeated here.                                        *)
(***************************************************************************)
EXTENDS TreeOperators, Outcome, CandidateRequest

ResourceKinds == {"resource_added", "resource_removed", "parameter_changed"}
EdgeKinds == {"edge_added", "edge_removed"}

KnownFileContentStates ==
  {"resource_added", "resource_removed", "unchanged", "changed", "reference_changed",
   "content_indeterminate", "not_managed"}
KnownEvidenceSources ==
  {"", "inline_content", "compiled_checksum", "compiler_retrieval", "static_metadata",
   "captured_digest", "mixed"}

HasErrorDiagnostic(diagnostics) == \E i \in DOMAIN diagnostics : Contributes(diagnostics[i])

-----------------------------------------------------------------------------
(* One target                                                               *)

\* baselineCapture: a sequence of requests that can have happened, with the
\* warning that a v3 compile owes.
ValidCapture(baseline) ==
  baseline.capture # <<>> =>
    LET c == baseline.capture[1] IN
    /\ baseline.kind = "file"
    /\ {c.requested, c.effective} \subseteq {"v3", "v4"}
    /\ c.fellBack => c.requested = "v4" /\ c.effective = "v3"
    /\ ~c.fellBack => c.requested = c.effective
    /\ c.warned <=> c.effective = "v3"
    /\ c.effective = "v3" => c.trusted = "none"

\* Redacted evidence carries no digest but the marker, other evidence none but
\* digests of its algorithm.
ValidContent(content) ==
  LET marker == RedactedValue.text
      digests == {content.beforeDigest, content.afterDigest}
  IN
  /\ content.state \in KnownFileContentStates
  /\ content.source \in KnownEvidenceSources
  /\ content.redacted => content.algorithm = "" /\ digests \subseteq {<<>>, marker}
  /\ ~content.redacted => marker \notin digests /\ (digests # {<<>>} => content.algorithm # "")

\* publishedValue: nothing wrapped as sensitive, and of a File no
\* content-bearing parameter.
Publishable(type, parameter, value) ==
  /\ ~ContainsSensitive(value)
  /\ type = FileResourceType /\ value # Undef =>
       /\ parameter \in FileContentBearingParameters => value = RedactedValue
       /\ parameter = "" /\ IsHash(value) =>
            \A n \in FileContentBearingParameters \cap DOMAIN value.at : value.at[n] = RedactedValue

ValidResourceChange(c) ==
  /\ c.kind \in ResourceKinds
  /\ c.parameter # "" <=> c.kind = "parameter_changed"
  /\ c.id.type # "" /\ c.id.title # ""
  /\ \A i \in DOMAIN c.content : ValidContent(c.content[i])

ValidNodeDiff(t) ==
  LET d == t.nodeDiff[1] IN
  /\ d.certname = t.certname
  /\ d.hasDifference <=> d.resourceChanges # <<>> \/ d.edgeChanges # <<>>
  /\ t.outcome = "clean" => ~d.hasDifference
  /\ t.outcome \in {"differences_allowed", "policy_disallowed_difference"} => d.hasDifference
  /\ \A i \in DOMAIN d.resourceChanges : ValidResourceChange(d.resourceChanges[i])
  /\ \A i \in DOMAIN d.edgeChanges :
       /\ d.edgeChanges[i].kind \in EdgeKinds
       /\ "" \notin {d.edgeChanges[i].edge.source.title, d.edgeChanges[i].edge.target.title}

\* A target that failed states its error, and its difference, if it has one,
\* is not looked at.
ValidTarget(t) ==
  /\ t.outcome \in Outcomes
  /\ \A i \in DOMAIN t.baseline : ValidCapture(t.baseline[i])
  /\ IF t.outcome \in {"compilation_failure", "operational_error"}
     THEN HasErrorDiagnostic(t.diagnostics)
     ELSE t.nodeDiff # <<>> /\ ValidNodeDiff(t)

-----------------------------------------------------------------------------
(* The document                                                             *)

TargetsNamed(document, certname) ==
  {i \in DOMAIN document.targets : document.targets[i].certname = certname}

\* A reference leads to a change of the group's kind.
ValidRef(document, group, ref) ==
  \E i \in TargetsNamed(document, ref.certname) :
    \E d \in ToSet(document.targets[i].nodeDiff) :
      LET rows == IF group.key.kind \in EdgeKinds THEN d.edgeChanges ELSE d.resourceChanges
      IN  ref.index \in DOMAIN rows /\ rows[ref.index].kind = group.key.kind

ValidGroup(document, group) ==
  /\ group.key.kind \in ResourceKinds \cup EdgeKinds
  /\ group.key.kind \in ResourceKinds \ {"parameter_changed"} => group.key.parameter = ""
  /\ group.refs # <<>>
  /\ \A i \in DOMAIN group.content :
       /\ group.content[i].state \in KnownFileContentStates
       /\ group.content[i].source \in KnownEvidenceSources
  /\ \A i \in DOMAIN group.refs : ValidRef(document, group, group.refs[i])
  /\ group.certnames = {group.refs[i].certname : i \in DOMAIN group.refs}

\* The outcome is computed again from what the document itself records.
ValidOutcome(document) ==
  /\ document.outcome =
       ReduceAll([i \in DOMAIN document.targets |-> document.targets[i].outcome]
                   \o Contributed(document.diagnostics))
  /\ document.exitCode = ForOutcome(document.outcome)

Disclosed(document) ==
  /\ \A i \in DOMAIN document.targets : \A d \in ToSet(document.targets[i].nodeDiff) :
       \A j \in DOMAIN d.resourceChanges :
         LET c == d.resourceChanges[j]
         IN  \A v \in {c.before, c.after} : Publishable(c.id.type, c.parameter, v)
  /\ \A g \in document.groups :
       g.key.kind \in ResourceKinds =>
         \A v \in {g.before, g.after} : Publishable(g.key.id.type, g.key.parameter, v)

Valid(document) ==
  /\ document.targets # <<>>
  /\ \A i, j \in DOMAIN document.targets :
       i # j => document.targets[i].certname # document.targets[j].certname
  /\ \A i \in DOMAIN document.targets : ValidTarget(document.targets[i])
  /\ \A g \in document.groups : ValidGroup(document, g)
  /\ ValidOutcome(document)
  /\ Disclosed(document)
=============================================================================
