----------------------------- MODULE Assessment -----------------------------
(***************************************************************************)
(* internal/assess: how explain judges a stored comparison. Its groups are *)
(* ranked and cut to a plan, the plan becomes a payload that sheds         *)
(* evidence until it fits its budget, one request is sent, and a reply     *)
(* that cannot be used is answered by one retry. What comes back is        *)
(* resolved against the ids that were sent.                                *)
(*                                                                         *)
(* A text of the payload is its size in bytes, the number of bytes that    *)
(* are escaped when it becomes part of a JSON string, and what its size    *)
(* would be without indentation. A group's key is a number that orders it  *)
(* (kind, identity and parameter; several groups may share it, with        *)
(* different changes). Prose is a sequence of words, the first of which    *)
(* are the aliases node-001, node-002, ...                                 *)
(***************************************************************************)
EXTENDS Naturals, Sequences, SequencesExt, Sorting

CONSTANTS
  Comparisons,       \* the result documents and configurations explained
  Replies,           \* what the inference service may answer
  Limit,             \* limits.InferenceRequest
  Allowance,         \* what BuildRequest sets aside for prompt and envelope,
  Envelope,          \* and what they take
  RetryAllowance,    \* what it sets aside for a retry's message,
  RetryMessage,      \* and what that takes
  MinimumPayload,    \* minimumPayloadBudget
  Base,              \* the payload without its groups
  Marker             \* OmittedForSize, in place of both values

Risks == {"low", "medium", "high", "unknown"}

Texts == [size : Nat, escapes : Nat, compact : Nat]

\* frame is the group without Before and After (its identity, its nodes, its
\* edge, its evidence of content); value is what they add, of size 0 when the
\* group has neither.
Groups == [change : Nat, key : Nat, reach : Nat, frame : Texts, value : Texts]

\* context is counted by the size of its fields and sent as JSON; names are
\* the certnames in order, or none when they are not pseudonymized.
Comparison ==
  [groups : Seq(Groups), maxGroups : Nat \ {0},
   context : [counted : Nat, actual : Nat], names : Seq(Seq(Nat))]

Reply ==
  [kind : {"failed", "unusable", "usable"}, fenced : BOOLEAN, run : STRING,
   summary : Seq(Nat), entries : Seq([id : Nat, risk : STRING])]

ASSUME InputsHaveShape == Comparisons \subseteq Comparison /\ Replies \subseteq Reply

ASSUME SizesAreNumbers ==
  /\ {Limit, Allowance, Envelope, RetryAllowance, RetryMessage, MinimumPayload} \subseteq Nat
  /\ {Base, Marker} \subseteq Texts
  /\ Envelope <= Allowance
  /\ RetryMessage <= RetryAllowance

VARIABLES
  comparison,
  pc,
  planned,   \* Produce's plan: an id and a group behind it
  doc,       \* the payload, while it is fitted
  sent,      \* the requests made
  replies,   \* what came back
  artifact,
  told       \* the diagnostics

vars == <<comparison, pc, planned, doc, sent, replies, artifact, told>>

Nothing == [groups |-> <<>>, run |-> "unknown", summary |-> <<>>, total |-> 0,
            assessed |-> 0, truncated |-> FALSE, omitted |-> 0]

Init ==
  /\ comparison \in Comparisons
  /\ pc = "plan"
  /\ planned = <<>>
  /\ doc = [groups |-> <<>>, truncated |-> FALSE, omitted |-> 0]
  /\ sent = <<>> /\ replies = <<>>
  /\ artifact = Nothing
  /\ told = {}

-----------------------------------------------------------------------------
(* The plan.                                                               *)

\* Mutant: fewest nodes first.
OutranksByRarity(g, h) ==
  g.reach < h.reach \/ (g.reach = h.reach /\ g.key < h.key)

\* rankGroups: widest reach first, then by key.
Outranks(g, h) ==
  g.reach > h.reach \/ (g.reach = h.reach /\ g.key < h.key)

\* The sort is stable: equals stay in the order of the document.
GoesBefore(gs) ==
  {p \in (DOMAIN gs) \X (DOMAIN gs) :
     \/ Outranks(gs[p[1]], gs[p[2]])
     \/ ~Outranks(gs[p[2]], gs[p[1]]) /\ p[1] < p[2]}

Ranked(gs) ==
  LET order == Arranged(DOMAIN gs, GoesBefore(gs))
  IN  [i \in DOMAIN gs |-> gs[order[i]]]

PlanGroups(c) ==
  [i \in 1 .. Min({c.maxGroups, Len(c.groups)}) |-> [id |-> i, group |-> Ranked(c.groups)[i]]]

\* The payload of a plan, with every value in it.
Carried(plan) ==
  [i \in DOMAIN plan |-> [id |-> plan[i].id, group |-> plan[i].group, omitted |-> FALSE]]

Overhead(c) == c.context.counted + Allowance + RetryAllowance

\* Produce and buildPayload each plan the groups; the payload is worked on.
Plan ==
  /\ pc = "plan"
  /\ planned' = PlanGroups(comparison)
  /\ doc' = [groups |-> Carried(PlanGroups(comparison)), omitted |-> 0,
             truncated |-> Len(comparison.groups) > comparison.maxGroups]
  /\ pc' = IF Overhead(comparison) + MinimumPayload > Limit THEN "refuse" ELSE "fit"
  /\ UNCHANGED <<comparison, sent, replies, artifact, told>>

-----------------------------------------------------------------------------
(* fitPayload.                                                             *)

Values(p) == IF p.omitted THEN Marker ELSE p.group.value

PayloadSize(d) ==
  FoldLeft(LAMBDA n, p : n + p.group.frame.size + Values(p).size, Base.size, d.groups)

Fits(d) == Overhead(comparison) + PayloadSize(d) <= Limit

\* The groups whose values are still there to be omitted.
Valued(d) == {i \in DOMAIN d.groups : d.groups[i].group.value.size > 0 /\ ~d.groups[i].omitted}

\* groupsByEncodedSize: a group counts as a whole, as it was before anything
\* was omitted.
EncodedSize(g) == g.frame.compact + g.value.compact

\* The values of the largest group go first, whatever they are of it, and
\* whether or not the marker is smaller.
OmitValue ==
  /\ pc = "fit" /\ ~Fits(doc)
  /\ \E i \in Valued(doc) : LET size(j) == EncodedSize(doc.groups[j].group) IN
       /\ \A j \in Valued(doc) : size(j) < size(i) \/ (size(j) = size(i) /\ i <= j)
       /\ doc' = [doc EXCEPT !.groups[i].omitted = TRUE, !.omitted = @ + 1]
  /\ UNCHANGED <<comparison, pc, planned, sent, replies, artifact, told>>

\* Mutant: the group that was largest goes, wherever it ranks.
ShedGroupLargest ==
  /\ pc = "fit" /\ ~Fits(doc)
  /\ Valued(doc) = {} /\ doc.groups # <<>>
  /\ \E i \in DOMAIN doc.groups :
       /\ \A j \in DOMAIN doc.groups :
            EncodedSize(doc.groups[j].group) <= EncodedSize(doc.groups[i].group)
       /\ doc' = [groups |-> RemoveAt(doc.groups, i), truncated |-> TRUE,
                  omitted |-> doc.omitted - (IF doc.groups[i].omitted THEN 1 ELSE 0)]
  /\ UNCHANGED <<comparison, pc, planned, sent, replies, artifact, told>>

\* Whole groups go once no value is left, the lowest ranked first.
ShedGroup ==
  /\ pc = "fit" /\ ~Fits(doc)
  /\ Valued(doc) = {} /\ doc.groups # <<>>
  /\ doc' = [groups |-> Front(doc.groups), truncated |-> TRUE,
             omitted |-> doc.omitted - (IF Last(doc.groups).omitted THEN 1 ELSE 0)]
  /\ UNCHANGED <<comparison, pc, planned, sent, replies, artifact, told>>

NothingFits ==
  /\ pc = "fit" /\ ~Fits(doc)
  /\ doc.groups = <<>>
  /\ pc' = "refuse"
  /\ UNCHANGED <<comparison, planned, doc, sent, replies, artifact, told>>

-----------------------------------------------------------------------------
(* The request. The payload is text within a JSON string there, and the    *)
(* context JSON within it.                                                 *)

Escapes(d) ==
  FoldLeft(LAMBDA n, p : n + p.group.frame.escapes + Values(p).escapes, Base.escapes, d.groups)

RequestSize(d) == Envelope + comparison.context.actual + PayloadSize(d) + Escapes(d)

\* Mutant: a payload within its budget makes a request within the limit.
WithinLimitAlways(d) == TRUE

\* checkRequestSize.
WithinLimit(d) == RequestSize(d) <= Limit

TooLarge ==
  /\ pc = "fit" /\ Fits(doc) /\ ~WithinLimit(doc)
  /\ pc' = "refuse"
  /\ UNCHANGED <<comparison, planned, doc, sent, replies, artifact, told>>

\* Mutant: the plan stays as it was before the payload was fitted.
SendWholePlan ==
  /\ pc = "fit" /\ Fits(doc) /\ WithinLimit(doc)
  /\ sent' = <<[groups |-> doc.groups, size |-> RequestSize(doc)]>>
  /\ pc' = "await"
  /\ UNCHANGED <<comparison, planned, doc, replies, artifact, told>>

\* The plan is cut to the number of groups the request carries.
Send ==
  /\ pc = "fit" /\ Fits(doc) /\ WithinLimit(doc)
  /\ planned' = SubSeq(planned, 1, Len(doc.groups))
  /\ sent' = <<[groups |-> doc.groups, size |-> RequestSize(doc)]>>
  /\ pc' = "await"
  /\ UNCHANGED <<comparison, doc, replies, artifact, told>>

-----------------------------------------------------------------------------
(* The artifact.                                                           *)

Error(about)   == [severity |-> "error", about |-> about]
Warning(about) == [severity |-> "warning", about |-> about]

HasError(ds) == \E d \in ds : d.severity = "error"

Downgrade(ds) == {Warning(d.about) : d \in ds}

\* unknownAssessment: every group, none of them judged.
Unjudged(plan) ==
  [groups |-> [i \in DOMAIN plan |-> [group |-> plan[i].group, risk |-> "unknown"]],
   run |-> "unknown", summary |-> <<>>]

\* stamp, and the end of Produce.
Finish(a, plan, d, ds) ==
  /\ artifact' = [groups |-> a.groups, run |-> a.run, summary |-> a.summary,
                  total |-> Len(comparison.groups), assessed |-> Len(plan),
                  truncated |-> d.truncated, omitted |-> d.omitted]
  /\ told' = ds
  /\ pc' = "done"
  /\ UNCHANGED <<comparison, planned, doc>>

\* BuildRequest failed: the artifact has the plan, as if nothing was shed.
Refuse ==
  /\ pc = "refuse"
  /\ Finish(Unjudged(planned), planned,
            [truncated |-> Len(comparison.groups) > comparison.maxGroups, omitted |-> 0],
            {Error("build")})
  /\ UNCHANGED <<sent, replies>>

-----------------------------------------------------------------------------
(* The reply.                                                              *)

ValidRisk(r) == IF r \in Risks THEN r ELSE "unknown"

\* Where a reply speaks of an id; a later entry replaces an earlier one.
Answered(reply, id) == {k \in DOMAIN reply.entries : reply.entries[k].id = id}

RiskOf(reply, id) ==
  IF Answered(reply, id) = {} THEN "unknown"
  ELSE ValidRisk(reply.entries[Max(Answered(reply, id))].risk)

\* strings.ReplaceAll.
Substitute(text, alias, name) ==
  FlattenSeq([i \in DOMAIN text |-> IF text[i] = alias THEN name ELSE <<text[i]>>])

\* One alias after the other, each in all of the text so far.
Reveal(text) ==
  FoldLeft(LAMBDA t, a : Substitute(t, a, comparison.names[a]), text,
           [a \in DOMAIN comparison.names |-> a])

Judged(reply, plan) ==
  [groups |-> [i \in DOMAIN plan |-> [group |-> plan[i].group,
                                     risk |-> RiskOf(reply, plan[i].id)]],
   run |-> ValidRisk(reply.run), summary |-> Reveal(reply.summary)]

\* The diagnostics of a reply whose JSON could be read.
Doubts(reply, ids) ==
  LET used  == {Max(Answered(reply, id)) : id \in {id \in ids : Answered(reply, id) # {}}}
      risks == {reply.run} \cup {reply.entries[k].risk : k \in used}
  IN  {Warning("risk") : r \in risks \ Risks}
      \cup {Warning("dropped") : e \in {e \in Range(reply.entries) : e.id \notin ids}}
      \cup {Warning("unanswered") : id \in {id \in ids : Answered(reply, id) = {}}}

\* Interpret's diagnostics.
Problems(reply, plan) ==
  (IF reply.fenced THEN {Warning("fence")} ELSE {})
  \cup (IF reply.kind = "unusable" THEN {Error("reply")}
        ELSE Doubts(reply, {plan[i].id : i \in DOMAIN plan}))

First == Len(sent) = 1

\* The service could not be reached, or answered nothing that is a reply.
\* This is never retried.
Failed(reply) ==
  /\ reply.kind = "failed"
  /\ Finish(Unjudged(planned), planned, doc, Downgrade(told) \cup {Error("request")})
  /\ UNCHANGED sent

\* The message of a retry is appended to the request.
RetryFits == sent[1].size + RetryMessage <= Limit

Retry(reply) ==
  /\ reply.kind = "unusable" /\ First /\ RetryFits
  /\ sent' = <<sent[1], [groups |-> sent[1].groups, size |-> sent[1].size + RetryMessage]>>
  /\ told' = Problems(reply, planned)
  /\ UNCHANGED <<comparison, pc, planned, doc, artifact>>

NoRetry(reply) ==
  /\ reply.kind = "unusable" /\ First /\ ~RetryFits
  /\ Finish(Unjudged(planned), planned, doc,
            Problems(reply, planned) \cup {Error("retry size")})
  /\ UNCHANGED sent

GiveUp(reply) ==
  /\ reply.kind = "unusable" /\ ~First
  /\ Finish(Unjudged(planned), planned, doc, Downgrade(told) \cup Problems(reply, planned))
  /\ UNCHANGED sent

Accept(reply) ==
  /\ reply.kind = "usable"
  /\ Finish(Judged(reply, planned), planned, doc, Downgrade(told) \cup Problems(reply, planned))
  /\ UNCHANGED sent

Receive(reply) ==
  /\ pc = "await"
  /\ replies' = Append(replies, reply)
  /\ \/ Failed(reply)
     \/ Retry(reply)
     \/ NoRetry(reply)
     \/ GiveUp(reply)
     \/ Accept(reply)

-----------------------------------------------------------------------------
Next ==
  \/ Plan
  \/ OmitValue
  \/ ShedGroup
  \/ NothingFits
  \/ TooLarge
  \/ Send
  \/ Refuse
  \/ \E reply \in Replies : Receive(reply)

Spec == Init /\ [][Next]_vars

-----------------------------------------------------------------------------
(* Properties.                                                             *)

\* The values the variables take; no more groups are counted as sent
\* without their values than are sent.
TypeOK ==
  /\ comparison \in Comparison
  /\ pc \in {"plan", "fit", "refuse", "await", "done"}
  /\ \A i \in DOMAIN planned :
       planned[i].id = i /\ planned[i].group \in Range(comparison.groups)
  /\ \A i \in DOMAIN doc.groups : doc.groups[i].omitted \in BOOLEAN
  /\ doc.truncated \in BOOLEAN /\ doc.omitted \in 0 .. Len(doc.groups)
  /\ Len(replies) <= Len(sent)
  /\ told \subseteq [severity : {"warning", "error"},
                     about : {"build", "fence", "reply", "risk", "dropped", "unanswered",
                              "request", "retry size"}]

Asked == Last(sent).groups

\* An artifact made from a reply lists the groups of the request, in its
\* order, and says how many groups and values the service did not see: the
\* plan is cut by number only, and has to be a prefix (produce.go, Produce).
ArtifactTellsWhatWasSent ==
  pc = "done" /\ sent # <<>> =>
    /\ [i \in DOMAIN artifact.groups |-> artifact.groups[i].group]
         = [i \in DOMAIN Asked |-> Asked[i].group]
    /\ artifact.assessed = Len(Asked)
    /\ artifact.truncated <=> Len(Asked) < artifact.total
    /\ artifact.omitted = Cardinality({i \in DOMAIN Asked : Asked[i].omitted})

\* A group is judged by what the last reply said under the id that the
\* last request gave this very group, and by nothing else it said
\* (interpret.go, Interpret).
JudgementsAreTheLastReplys ==
  pc = "done" /\ ~HasError(told) =>
    \A g \in Range(artifact.groups) : \E p \in Range(Asked) :
      LET said == {e \in Range(Last(replies).entries) : e.id = p.id}
      IN  /\ p.group = g.group
          /\ IF said = {} THEN g.risk = "unknown"
             ELSE g.risk \in {ValidRisk(e.risk) : e \in said}

\* An error is told exactly when no reply could be used, in the end, and
\* then nothing is judged (produce.go, Produce; HasErrorDiagnostic decides
\* what explain exits with).
ErrorMeansUnjudged ==
  pc = "done" =>
    /\ HasError(told) <=> (replies = <<>> \/ Last(replies).kind # "usable")
    /\ HasError(told) =>
         /\ artifact.run = "unknown" /\ artifact.summary = <<>>
         /\ \A g \in Range(artifact.groups) : g.risk = "unknown"

\* No request is larger than the limit, whatever the payload becomes when
\* it is quoted; a second one is made only after a reply that could not be
\* used, and discloses what the first did (request.go, checkRequestSize;
\* produce.go, Produce).
RequestsStayInBudget ==
  /\ \A i \in DOMAIN sent : sent[i].size <= Limit
  /\ Len(sent) <= 2
  /\ Len(sent) = 2 => replies[1].kind = "unusable" /\ sent[2].groups = sent[1].groups

\* What is sent reaches at least as many nodes as what is not; no group that
\* keeps its values is larger, as a whole, than one without its own, and none
\* keeps them when a group of the plan is not sent (request.go, PlanGroups
\* and fitPayload).
EvidenceShedInOrder ==
  sent # <<>> =>
    LET kept == {p.group : p \in {p \in Range(Asked) : ~p.omitted /\ p.group.value.size > 0}} IN
    /\ \A p \in Range(Asked), g \in Range(comparison.groups) :
         g \in {q.group : q \in Range(Asked)} \/ g.reach <= p.group.reach
    /\ \A p \in Range(Asked) : p.omitted =>
         \A g \in kept : EncodedSize(g) <= EncodedSize(p.group)
    /\ Len(Asked) < Min({comparison.maxGroups, Len(comparison.groups)}) => kept = {}

\* pseudonym.go, Reveal: it "replaces every pseudonym appearing in s with
\* the certname it stands for".
ProseNamesNodes ==
  pc = "done" /\ ~HasError(told) =>
    LET said == Last(replies).summary
        names == comparison.names
    IN  artifact.summary =
          FlattenSeq([i \in DOMAIN said |->
                        IF said[i] \in DOMAIN names THEN names[said[i]] ELSE <<said[i]>>])

=============================================================================
