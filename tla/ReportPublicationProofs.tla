----------------------- MODULE ReportPublicationProofs -----------------------
(***************************************************************************)
(* What holds of any number of compares and explains on one set of files.  *)
(* The argument follows one process: the artifacts it publishes are those  *)
(* it rendered, at most one of a kind, each for the path its command line  *)
(* gave that kind; its destinations passed the check before it published   *)
(* anything; so a file that it wrote last holds one of its artifacts, and  *)
(* the path says which.                                                    *)
(***************************************************************************)
EXTENDS ReportPublication, SequenceTheorems, TLAPS

Labels == {"start", "run", "read", "assess", "render", "publish", "done", "killed"}

Shapes ==
  /\ line \in CommandLines
  /\ content = [f \in Files |-> content[f]]
  /\ stdout = [r \in Runs |-> stdout[r]]
  /\ pc \in [Runs -> Labels]
  /\ document = [r \in Runs |-> document[r]]
  /\ failed = [r \in Runs |-> failed[r]]
  /\ pending = [r \in Runs |-> pending[r]]
  /\ published \in [Runs -> Nat]
  /\ told = [r \in Runs |-> told[r]]
  /\ exit = [r \in Runs |-> exit[r]]

\* What is rendered is published as it is, and only after the check.
RenderedOnce ==
  \A r \in Runs :
    /\ pending[r] # <<>> => pending[r] = Rendered(r)
    /\ pc[r] = "publish" => pending[r] = Rendered(r)
    /\ pc[r] \in {"start", "run", "read", "assess", "render"} => pending[r] = <<>>
    /\ published[r] <= Len(pending[r])
    /\ pc[r] \in {"run", "read", "assess", "render", "publish"} \/ pending[r] # <<>> =>
         ~Conflicting(r)

\* A comparison reports its own result, and reads no other.
OwnDocument ==
  \A r \in Runs :
    Compares(r) =>
      /\ pc[r] \notin {"read", "assess"}
      /\ pc[r] \in {"render", "publish"} => document[r] = [run |-> r, exit |-> document[r].exit]

\* A file that a process wrote last holds an artifact that it published there.
FilesAreArtifacts ==
  \A r \in Runs : \A f \in Files :
    content[f] # Nothing /\ content[f].by = r =>
      \E i \in 1 .. published[r] :
        FileOf(pending[r][i].path) = f /\ pending[r][i].item = content[f]

\* An exit other than 30 is one after everything was published.
ExitIsLast ==
  \A r \in Runs :
    pc[r] = "done" /\ exit[r] # 30 =>
      /\ pending[r] = Rendered(r) /\ published[r] = Len(pending[r])
      /\ ~Conflicting(r)
      /\ Compares(r) => document[r] = [run |-> r, exit |-> exit[r]]

\* The error of a write that failed was made from where publication stopped.
ToldOnFailure ==
  \A r \in Runs :
    told[r] # Nothing =>
      /\ pc[r] = "done" /\ exit[r] = 30
      /\ pending[r] = Rendered(r) /\ published[r] < Len(Destined(r))
      /\ told[r] = PublishedSoFar(Destined(r), published[r])

PublicationInv ==
  /\ Shapes
  /\ RenderedOnce
  /\ OwnDocument
  /\ FilesAreArtifacts
  /\ ExitIsLast
  /\ ToldOnFailure

-----------------------------------------------------------------------------
(* What a process renders.                                                 *)

\* The artifacts a process may be asked for.
Artifacts(r) == {Artifact(r, k, line[r].out[k]) : k \in Roles}

\* s lists those of the kinds K that are requested, each of them once.
Lists(r, s, K) ==
  /\ s \in Seq(Artifacts(r))
  /\ \A i \in 1 .. Len(s) :
       \E k \in K : line[r].out[k] # Nothing /\ s[i] = Artifact(r, k, line[r].out[k])
  /\ \A k \in K : line[r].out[k] # Nothing =>
       \E i \in 1 .. Len(s) : s[i] = Artifact(r, k, line[r].out[k])
  /\ \A i, j \in 1 .. Len(s) : s[i].item.kind = s[j].item.kind => i = j

\* An artifact tells its kind.
LEMMA KindOfArtifact ==
  ASSUME NEW r, NEW k, NEW p
  PROVE  /\ Artifact(r, k, p).item.kind = k
         /\ Artifact(r, k, p).path = p
         /\ Artifact(r, k, p).item = [kind |-> k, doc |-> document[r], by |-> r, whole |-> TRUE]
BY DEF Artifact

\* One kind, requested or not.
LEMMA OneKind ==
  ASSUME NEW r, NEW k \in Roles
  PROVE  Lists(r, IfRequested(r, k), {k})
<1> DEFINE s == IfRequested(r, k)
<1>1. CASE line[r].out[k] = Nothing
  <2>1. s = <<>>  BY <1>1 DEF IfRequested
  <2> QED BY <1>1, <2>1 DEF Lists
<1>2. CASE line[r].out[k] # Nothing
  <2> DEFINE a == Artifact(r, k, line[r].out[k])
  <2>1. s = <<a>>  BY <1>2 DEF IfRequested
  <2>2. a \in Artifacts(r)  BY DEF Artifacts
  <2> HIDE DEF a
  <2>3. s \in Seq(Artifacts(r)) /\ Len(s) = 1 /\ s[1] = a  BY <2>1, <2>2
  <2> QED BY <1>2, <2>3 DEF Lists, a
<1> QED BY <1>1, <1>2

\* A kind that is not in the list yet goes to its end.
LEMMA OneMoreKind ==
  ASSUME NEW r, NEW s, NEW K \in SUBSET Roles, NEW k \in Roles \ K, Lists(r, s, K)
  PROVE  Lists(r, s \o IfRequested(r, k), K \cup {k})
<1> DEFINE t == IfRequested(r, k)
           c == s \o t
<1>1. s \in Seq(Artifacts(r)) /\ t \in Seq(Artifacts(r)) /\ Lists(r, t, {k})
  BY OneKind DEF Lists
<1>2. /\ c \in Seq(Artifacts(r)) /\ Len(c) = Len(s) + Len(t)
      /\ \A i \in 1 .. Len(c) : c[i] = IF i <= Len(s) THEN s[i] ELSE t[i - Len(s)]
  <2> HIDE DEF t
  <2> QED BY <1>1, ConcatProperties
<1>3. Len(s) \in Nat /\ Len(t) \in Nat  BY <1>1, LenProperties
<1>4. ASSUME NEW i \in 1 .. Len(s)  PROVE s[i].item.kind \in K
  <2>1. PICK q \in K : s[i] = Artifact(r, q, line[r].out[q])  BY DEF Lists
  <2> QED BY <2>1 DEF Artifact
<1>5. ASSUME NEW i \in 1 .. Len(t)  PROVE t[i].item.kind = k
  <2>1. t[i] = Artifact(r, k, line[r].out[k])  BY <1>1 DEF Lists
  <2> QED BY <2>1 DEF Artifact
<1> HIDE DEF t, c
<1>6. \A i \in 1 .. Len(c) : \/ i \in 1 .. Len(s) /\ c[i] = s[i]
                             \/ i - Len(s) \in 1 .. Len(t) /\ c[i] = t[i - Len(s)]
  BY <1>2, <1>3
<1>7. /\ \A i \in 1 .. Len(s) : i \in 1 .. Len(c) /\ c[i] = s[i]
      /\ \A i \in 1 .. Len(t) : i + Len(s) \in 1 .. Len(c) /\ c[i + Len(s)] = t[i]
  BY <1>2, <1>3
<1>8. \A i \in 1 .. Len(c) :
        \E q \in K \cup {k} : line[r].out[q] # Nothing /\ c[i] = Artifact(r, q, line[r].out[q])
  <2> TAKE i \in 1 .. Len(c)
  <2>1. CASE i \in 1 .. Len(s) /\ c[i] = s[i]
    <3>1. PICK q \in K : line[r].out[q] # Nothing /\ s[i] = Artifact(r, q, line[r].out[q])
      BY <2>1 DEF Lists
    <3> QED BY <2>1, <3>1
  <2>2. CASE i - Len(s) \in 1 .. Len(t) /\ c[i] = t[i - Len(s)]
    <3>1. line[r].out[k] # Nothing /\ t[i - Len(s)] = Artifact(r, k, line[r].out[k])
      BY <1>1, <2>2 DEF Lists
    <3> QED BY <2>2, <3>1
  <2> QED BY <1>6, <2>1, <2>2
<1>9. \A q \in K \cup {k} : line[r].out[q] # Nothing =>
        \E i \in 1 .. Len(c) : c[i] = Artifact(r, q, line[r].out[q])
  BY <1>1, <1>7 DEF Lists
<1>10. \A i, j \in 1 .. Len(c) : c[i].item.kind = c[j].item.kind => i = j
  <2> SUFFICES ASSUME NEW i \in 1 .. Len(c), NEW j \in 1 .. Len(c),
                      c[i].item.kind = c[j].item.kind
               PROVE  i = j
    OBVIOUS
  <2>1. CASE i \in 1 .. Len(s) /\ c[i] = s[i] /\ j \in 1 .. Len(s) /\ c[j] = s[j]
    BY <2>1 DEF Lists
  <2>2. CASE i - Len(s) \in 1 .. Len(t) /\ c[i] = t[i - Len(s)]
             /\ j - Len(s) \in 1 .. Len(t) /\ c[j] = t[j - Len(s)]
    <3>1. i - Len(s) = j - Len(s)  BY <1>1, <2>2 DEF Lists
    <3> QED BY <3>1, <1>3
  <2> QED BY <1>4, <1>5, <1>6, <2>1, <2>2
<1> QED BY <1>2, <1>8, <1>9, <1>10 DEF Lists, c, t

\* What a process writes to destinations of its own is what it was asked for.
LEMMA DestinedIsRequested ==
  ASSUME NEW r
  PROVE  Lists(r, Destined(r), Kinds(r))
<1>1. CASE Compares(r)
  <2>1. Lists(r, IfRequested(r, "json"), {"json"})  BY OneKind DEF Roles
  <2>2. Lists(r, IfRequested(r, "json") \o IfRequested(r, "html"), {"json", "html"})
    <3>1. {"json"} \cup {"html"} = {"json", "html"}  OBVIOUS
    <3> QED BY <2>1, <3>1, OneMoreKind DEF Roles
  <2>3. Lists(r, IfRequested(r, "json") \o IfRequested(r, "html") \o IfRequested(r, "junit"),
              {"json", "html", "junit"})
    <3>1. {"json", "html"} \cup {"junit"} = {"json", "html", "junit"}  OBVIOUS
    <3> QED BY <2>2, <3>1, OneMoreKind DEF Roles
  <2>4. Lists(r, IfRequested(r, "json") \o IfRequested(r, "html") \o IfRequested(r, "junit")
                   \o IfRequested(r, "text"),
              {"json", "html", "junit", "text"})
    <3>1. {"json", "html", "junit"} \cup {"text"} = {"json", "html", "junit", "text"}  OBVIOUS
    <3> QED BY <2>3, <3>1, OneMoreKind DEF Roles
  <2> QED BY <1>1, <2>4 DEF Destined, Kinds
<1>2. CASE ~Compares(r)
  <2>1. Lists(r, IfRequested(r, "ai"), {"ai"})  BY OneKind DEF Roles
  <2>2. Lists(r, IfRequested(r, "ai") \o IfRequested(r, "html"), {"ai", "html"})
    <3>1. {"ai"} \cup {"html"} = {"ai", "html"}  OBVIOUS
    <3> QED BY <2>1, <3>1, OneMoreKind DEF Roles
  <2> QED BY <1>2, <2>2 DEF Destined, Kinds
<1> QED BY <1>1, <1>2

\* What is rendered begins with that; what has a path that is not the standard
\* output is the artifact of a requested kind for that kind's destination.
LEMMA RenderedShape ==
  ASSUME NEW r
  PROVE  /\ Len(Destined(r)) \in Nat /\ Len(Rendered(r)) \in Nat
         /\ Len(Destined(r)) <= Len(Rendered(r))
         /\ \A i \in 1 .. Len(Destined(r)) : Rendered(r)[i] = Destined(r)[i]
         /\ \A i \in 1 .. Len(Rendered(r)) : \E k \in Roles : \E p \in {Stdout, line[r].out[k]} :
              /\ Rendered(r)[i] = Artifact(r, k, p)
              /\ p # Stdout => k \in Requested(r)
<1> DEFINE d == Destined(r)
           t == Printed(r)
           A == Artifacts(r) \cup {Artifact(r, "text", Stdout)}
<1>1. Lists(r, d, Kinds(r))  BY DestinedIsRequested
<1>2. d \in Seq(A)
  <2>1. d \in Seq(Artifacts(r))  BY <1>1 DEF Lists
  <2> QED BY <2>1, SeqMonotonic
<1>3. t \in Seq(A) /\ \A i \in 1 .. Len(t) : t[i] = Artifact(r, "text", Stdout)
  <2> HIDE DEF A
  <2>1. Artifact(r, "text", Stdout) \in A  BY DEF A
  <2> QED BY <2>1 DEF Printed
<1> HIDE DEF d, t, A
<1>4. /\ d \o t \in Seq(A) /\ Len(d \o t) = Len(d) + Len(t)
      /\ \A i \in 1 .. Len(d \o t) : (d \o t)[i] = IF i <= Len(d) THEN d[i] ELSE t[i - Len(d)]
  BY <1>2, <1>3, ConcatProperties
<1>5. Len(d) \in Nat /\ Len(t) \in Nat  BY <1>2, <1>3, LenProperties
<1>6. Rendered(r) = d \o t  BY DEF Rendered, d, t
<1>7. \A i \in 1 .. Len(d) : i \in 1 .. Len(d \o t) /\ (d \o t)[i] = d[i]  BY <1>4, <1>5
<1>8. ASSUME NEW i \in 1 .. Len(d \o t)
      PROVE  \E k \in Roles : \E p \in {Stdout, line[r].out[k]} :
               (d \o t)[i] = Artifact(r, k, p) /\ (p # Stdout => k \in Requested(r))
  <2>1. CASE i <= Len(d)
    <3>1. (d \o t)[i] = d[i] /\ i \in 1 .. Len(d)  BY <1>4, <1>5, <2>1
    <3>2. PICK k \in Kinds(r) : line[r].out[k] # Nothing /\ d[i] = Artifact(r, k, line[r].out[k])
      BY <1>1, <3>1 DEF Lists
    <3>3. k \in Roles /\ k \in Requested(r)  BY <3>2 DEF Kinds, Roles, Requested
    <3> QED BY <3>1, <3>2, <3>3
  <2>2. CASE ~(i <= Len(d))
    <3>1. (d \o t)[i] = Artifact(r, "text", Stdout)  BY <1>3, <1>4, <1>5, <2>2
    <3> QED BY <3>1 DEF Roles
  <2> QED BY <2>1, <2>2
<1> QED BY <1>4, <1>5, <1>6, <1>7, <1>8 DEF d

-----------------------------------------------------------------------------
(* The invariant.                                                          *)

\* What a process renders, and whether its destinations conflict, depends on
\* its command line and its document only.
LEMMA SameLineSameReports ==
  ASSUME line' = line, NEW r \in Runs
  PROVE  /\ Requested(r)' = Requested(r) /\ Conflicting(r)' = Conflicting(r)
         /\ Compares(r)' = Compares(r)
         /\ document'[r] = document[r] =>
              Destined(r)' = Destined(r) /\ Rendered(r)' = Rendered(r)
<1>1. Compares(r)' = Compares(r)  BY DEF Compares
<1>2. Kinds(r)' = Kinds(r)  BY <1>1 DEF Kinds
<1>3. Requested(r)' = Requested(r)  BY <1>2 DEF Requested
<1>4. Inputs(r)' = Inputs(r) /\ Outputs(r)' = Outputs(r)  BY DEF Inputs, Outputs
<1>5. Conflicting(r)' = Conflicting(r)  BY <1>4 DEF Conflicting
<1>6. ASSUME document'[r] = document[r]
      PROVE  Destined(r)' = Destined(r) /\ Rendered(r)' = Rendered(r)
  <2>1. \A k : IfRequested(r, k)' = IfRequested(r, k)  BY <1>6 DEF IfRequested, Artifact
  <2>2. Destined(r)' = Destined(r)  BY <1>1, <2>1 DEF Destined
  <2>3. Printed(r)' = Printed(r)  BY <1>1, <1>6 DEF Printed, PrintsText, Artifact
  <2> QED BY <2>2, <2>3 DEF Rendered
<1> QED BY <1>1, <1>3, <1>5, <1>6

\* Nothing is written by anyone at first.
LEMMA InitEstablishesInv == Init => PublicationInv
<1> SUFFICES ASSUME Init  PROVE PublicationInv
  OBVIOUS
<1>1. Shapes  BY BeforeIsEarlierWork DEF Init, Shapes, Labels
<1>2. RenderedOnce  BY DEF Init, RenderedOnce
<1>3. OwnDocument  BY DEF Init, OwnDocument
<1>4. FilesAreArtifacts
  <2> SUFFICES ASSUME NEW r \in Runs, NEW f \in Files, content[f] # Nothing
               PROVE  content[f].by # r
    BY DEF FilesAreArtifacts
  <2>1. content[f] \in {Given("input"), Given("json")}  BY BeforeIsEarlierWork DEF Init
  <2> QED BY <2>1, NamesDiffer DEF Given
<1>5. ExitIsLast  BY DEF Init, ExitIsLast
<1>6. ToldOnFailure  BY DEF Init, ToldOnFailure
<1> QED BY <1>1, <1>2, <1>3, <1>4, <1>5, <1>6 DEF PublicationInv

\* A step that only moves on, with no artifact rendered, published or told of,
\* and documents as they are but where nothing is rendered yet.
LEMMA MovingOn ==
  ASSUME PublicationInv, NEW r \in Runs, NEW l \in Labels,
         pc' = [pc EXCEPT ![r] = l],
         UNCHANGED <<line, content, pending, published, told>>,
         Shapes',
         \A q \in Runs \ {r} : exit'[q] = exit[q] /\ document'[q] = document[q],
         pc[r] \notin {"done", "killed"},
         \/ document'[r] = document[r]
         \/ pc[r] \in {"run", "read"} /\ l \in {"assess", "render"},
         l \in {"run", "read", "assess", "render"} => pc[r] \in {"start", "run", "read", "assess"},
         l \in {"run", "read", "assess", "render", "publish"} => ~Conflicting(r),
         l # "publish",
         l = "start" => pc[r] = "start",
         l \in {"read", "assess"} => ~Compares(r),
         l = "render" /\ Compares(r) => document'[r] = [run |-> r, exit |-> document'[r].exit],
         l = "done" => exit'[r] = 30
  PROVE  PublicationInv'
<1> USE DEF PublicationInv
<1>1. /\ pc'[r] = l
      /\ \A q \in Runs \ {r} : pc'[q] = pc[q]
  BY DEF Shapes
<1>2. \A q \in Runs : /\ Compares(q)' = Compares(q) /\ Conflicting(q)' = Conflicting(q)
                      /\ document'[q] = document[q] =>
                           Destined(q)' = Destined(q) /\ Rendered(q)' = Rendered(q)
  BY SameLineSameReports
<1>3. pc[r] \in {"run", "read"} => pending[r] = <<>>  BY DEF RenderedOnce
<1>4. \A q \in Runs : pending[q] # <<>> => document'[q] = document[q]
  BY <1>3
<1>5. RenderedOnce'
  <2> SUFFICES ASSUME NEW q \in Runs
               PROVE  /\ pending[q] # <<>> => pending[q] = Rendered(q)'
                      /\ pc'[q] = "publish" => pending[q] = Rendered(q)'
                      /\ pc'[q] \in {"start", "run", "read", "assess", "render"} => pending[q] = <<>>
                      /\ published[q] <= Len(pending[q])
                      /\ pc'[q] \in {"run", "read", "assess", "render", "publish"}
                           \/ pending[q] # <<>> => ~Conflicting(q)
    BY <1>2 DEF RenderedOnce
  <2>1. CASE q = r  BY <2>1, <1>1, <1>2, <1>4 DEF RenderedOnce
  <2>2. CASE q # r  BY <2>2, <1>1, <1>2, <1>4 DEF RenderedOnce
  <2> QED BY <2>1, <2>2
<1>6. OwnDocument'
  <2> SUFFICES ASSUME NEW q \in Runs, Compares(q)
               PROVE  /\ pc'[q] \notin {"read", "assess"}
                      /\ pc'[q] \in {"render", "publish"} =>
                           document'[q] = [run |-> q, exit |-> document'[q].exit]
    BY <1>2 DEF OwnDocument
  <2>1. CASE q = r  BY <2>1, <1>1
  <2>2. CASE q # r  BY <2>2, <1>1 DEF OwnDocument
  <2> QED BY <2>1, <2>2
<1>7. FilesAreArtifacts'  BY DEF FilesAreArtifacts
<1>8. ExitIsLast'
  <2> SUFFICES ASSUME NEW q \in Runs, pc'[q] = "done", exit'[q] # 30
               PROVE  /\ pending[q] = Rendered(q)' /\ published[q] = Len(pending[q])
                      /\ ~Conflicting(q)
                      /\ Compares(q) => document'[q] = [run |-> q, exit |-> exit'[q]]
    BY <1>2 DEF ExitIsLast
  <2>1. q # r  BY <1>1
  <2> QED BY <2>1, <1>1, <1>2 DEF ExitIsLast
<1>9. ToldOnFailure'
  <2> SUFFICES ASSUME NEW q \in Runs, told[q] # Nothing
               PROVE  /\ pc'[q] = "done" /\ exit'[q] = 30
                      /\ pending[q] = Rendered(q)' /\ published[q] < Len(Destined(q)')
                      /\ told[q] = PublishedSoFar(Destined(q)', published[q])
    BY <1>2 DEF ToldOnFailure, PublishedSoFar, KindsIn
  <2>1. q # r  BY DEF ToldOnFailure
  <2> QED BY <2>1, <1>1, <1>2 DEF ToldOnFailure
<1> QED BY <1>5, <1>6, <1>7, <1>8, <1>9

\* No step of a process undoes any of it.
LEMMA StepKeepsInv ==
  ASSUME PublicationInv, NEW r \in Runs, Step(r)
  PROVE  PublicationInv'
<1> USE DEF PublicationInv
<1>1. ASSUME Refuse(r), pc[r] \notin {"done", "killed"}
      PROVE  PublicationInv'
  <2>1. Shapes'  BY <1>1 DEF Refuse, Goto, Shapes, Labels
  <2> QED BY <1>1, <2>1, MovingOn DEF Refuse, Goto, Shapes, Labels
<1>2. CASE CheckDestinations(r)
  <2>1. CASE Refuse(r)  BY <1>1, <1>2, <2>1 DEF CheckDestinations
  <2>2. CASE ~Refuse(r)
    <3> DEFINE l == IF Compares(r) THEN "run" ELSE "read"
    <3>1. /\ pc[r] = "start" /\ ~Conflicting(r) /\ pc' = [pc EXCEPT ![r] = l]
          /\ UNCHANGED <<line, content, stdout, document, failed, pending, published, told, exit>>
      BY <1>2, <2>2 DEF CheckDestinations, Goto
    <3>2. l \in {"run", "read"} /\ l \in Labels  BY DEF Labels
    <3> HIDE DEF l
    <3>3. Shapes'  BY <3>1, <3>2 DEF Shapes
    <3>4. l = "read" => ~Compares(r)  BY DEF l
    <3> QED BY <3>1, <3>2, <3>3, <3>4, MovingOn DEF Shapes
  <2> QED BY <2>1, <2>2
<1>3. CASE RunComparison(r)
  <2>1. PICK e \in ExitCodes : document' = [document EXCEPT ![r] = [run |-> r, exit |-> e]]
    BY <1>3 DEF RunComparison
  <2>2. document'[r] = [run |-> r, exit |-> e] /\ \A q \in Runs \ {r} : document'[q] = document[q]
    BY <2>1 DEF Shapes
  <2>3. ~Conflicting(r)  BY <1>3 DEF RunComparison, RenderedOnce
  <2>4. Shapes'  BY <1>3, <2>1 DEF RunComparison, Goto, Shapes, Labels
  <2>5. /\ pc[r] = "run" /\ pc' = [pc EXCEPT ![r] = "render"] /\ "render" \in Labels
        /\ UNCHANGED <<line, content, pending, published, told, exit>>
    BY <1>3 DEF RunComparison, Goto, Labels
  <2>6. document'[r] = [run |-> r, exit |-> document'[r].exit]  BY <2>2
  <2>7. \A q \in Runs \ {r} : exit'[q] = exit[q] /\ document'[q] = document[q]  BY <2>2, <2>5
  <2> HIDE DEF PublicationInv
  <2> QED BY <2>3, <2>4, <2>5, <2>6, <2>7, MovingOn
<1>4. CASE ReadDocument(r)
  <2>1. CASE Refuse(r)  BY <1>1, <1>4, <2>1 DEF ReadDocument
  <2>2. CASE ~Refuse(r)
    <3>1. /\ pc[r] = "read" /\ document' = [document EXCEPT ![r] = Source(r)[1].doc]
          /\ pc' = [pc EXCEPT ![r] = "assess"]
          /\ UNCHANGED <<line, content, stdout, failed, pending, published, told, exit>>
      BY <1>4, <2>2 DEF ReadDocument, Goto
    <3>2. \A q \in Runs \ {r} : document'[q] = document[q]  BY <3>1 DEF Shapes
    <3>3. ~Conflicting(r) /\ ~Compares(r)  BY <3>1 DEF RenderedOnce, OwnDocument
    <3>4. Shapes'  BY <3>1 DEF Shapes, Labels
    <3> QED BY <3>1, <3>2, <3>3, <3>4, MovingOn DEF Labels
  <2> QED BY <2>1, <2>2
<1>5. CASE Produce(r)
  <2>1. ~Conflicting(r)  BY <1>5 DEF Produce, RenderedOnce
  <2>2. Shapes'  BY <1>5 DEF Produce, Goto, Shapes, Labels
  <2>3. ~Compares(r)  BY <1>5 DEF Produce, OwnDocument
  <2>4. /\ pc[r] = "assess" /\ pc' = [pc EXCEPT ![r] = "render"] /\ "render" \in Labels
        /\ UNCHANGED <<line, content, document, pending, published, told, exit>>
    BY <1>5 DEF Produce, Goto, Labels
  <2> QED BY <2>1, <2>2, <2>3, <2>4, MovingOn
<1>6. CASE Kill(r)
  <2>1. Shapes'  BY <1>6 DEF Kill, Goto, Shapes, Labels
  <2>2. /\ pc[r] \notin {"done", "killed"} /\ pc' = [pc EXCEPT ![r] = "killed"] /\ "killed" \in Labels
        /\ UNCHANGED <<line, content, document, pending, published, told, exit>>
    BY <1>6 DEF Kill, Goto, Labels
  <2> QED BY <2>1, <2>2, MovingOn
<1>7. ASSUME UNCHANGED line
      PROVE  \A q \in Runs :
               /\ Compares(q)' = Compares(q) /\ Conflicting(q)' = Conflicting(q)
               /\ document'[q] = document[q] =>
                    Destined(q)' = Destined(q) /\ Rendered(q)' = Rendered(q)
  BY <1>7, SameLineSameReports
<1>8. CASE Render(r)
  <2>1. CASE Refuse(r)  BY <1>1, <1>8, <2>1 DEF Render
  <2>2. CASE ~Refuse(r)
    <3>1. /\ pc[r] = "render" /\ pending' = [pending EXCEPT ![r] = Rendered(r)]
          /\ pc' = [pc EXCEPT ![r] = "publish"]
          /\ UNCHANGED <<line, content, stdout, document, failed, published, told, exit>>
      BY <1>8, <2>2 DEF Render, Goto
    <3>2. Shapes'  BY <3>1 DEF Shapes, Labels
    <3>3. /\ pending'[r] = Rendered(r) /\ pc'[r] = "publish" /\ published[r] = 0
          /\ \A q \in Runs \ {r} : pending'[q] = pending[q] /\ pc'[q] = pc[q]
      BY <3>1 DEF Shapes, RenderedOnce
    <3>4. RenderedOnce'
      <4>1. ~Conflicting(r)  BY <3>1 DEF RenderedOnce
      <4>2. 0 <= Len(Rendered(r))  BY RenderedShape
      <4> QED BY <3>1, <3>3, <4>1, <4>2, <1>7 DEF RenderedOnce
    <3>5. OwnDocument'  BY <3>1, <3>3, <1>7 DEF OwnDocument
    <3>6. FilesAreArtifacts'
      <4> SUFFICES ASSUME NEW q \in Runs, NEW f \in Files, content[f] # Nothing, content[f].by = q
                   PROVE  \E i \in 1 .. published[q] :
                            /\ FileOf(pending'[q][i].path) = f
                            /\ pending'[q][i].item = content[f]
        BY <3>1 DEF FilesAreArtifacts
      <4>1. PICK i \in 1 .. published[q] :
              FileOf(pending[q][i].path) = f /\ pending[q][i].item = content[f]
        BY DEF FilesAreArtifacts
      <4>2. q # r  BY <3>3, <4>1
      <4> QED BY <3>3, <4>1, <4>2
    <3>7. ExitIsLast'  BY <3>1, <3>3, <1>7 DEF ExitIsLast
    <3>8. ToldOnFailure'
      <4> SUFFICES ASSUME NEW q \in Runs, told[q] # Nothing
                   PROVE  /\ pc'[q] = "done" /\ exit[q] = 30
                          /\ pending'[q] = Rendered(q) /\ published[q] < Len(Destined(q))
                          /\ told[q] = PublishedSoFar(Destined(q), published[q])
        BY <3>1, <1>7 DEF ToldOnFailure, PublishedSoFar, KindsIn
      <4>1. q # r  BY <3>1 DEF ToldOnFailure
      <4> QED BY <3>3, <4>1 DEF ToldOnFailure
    <3> QED BY <3>2, <3>4, <3>5, <3>6, <3>7, <3>8
  <2> QED BY <2>1, <2>2
<1>9. CASE PublishArtifact(r)
  <2> DEFINE n == published[r] + 1
             a == pending[r][n]
  <2>1. /\ pc[r] = "publish" /\ published[r] < Len(pending[r])
        /\ published' = [published EXCEPT ![r] = n]
        /\ UNCHANGED <<line, pc, document, failed, pending, told, exit>>
    BY <1>9 DEF PublishArtifact
  <2>2. \/ a.path = Stdout /\ content' = content /\ stdout' = [stdout EXCEPT ![r] = Append(@, a.item)]
        \/ a.path # Stdout /\ content' = [content EXCEPT ![FileOf(a.path)] = a.item]
             /\ stdout' = stdout
    BY <1>9 DEF PublishArtifact
  <2>3. published[r] \in Nat /\ pending[r] = Rendered(r) /\ Len(pending[r]) \in Nat
    BY <2>1, RenderedShape DEF Shapes, RenderedOnce
  <2>4. n \in 1 .. Len(pending[r]) /\ n \in Nat  BY <2>1, <2>3
  <2>5. PICK k \in Roles : \E p \in {Stdout, line[r].out[k]} :
          a = Artifact(r, k, p) /\ (p # Stdout => k \in Requested(r))
    BY <2>3, <2>4, RenderedShape
  <2> HIDE DEF n, a
  <2>6. /\ published'[r] = n /\ n = published[r] + 1
        /\ \A q \in Runs \ {r} : published'[q] = published[q]
    BY <2>1 DEF Shapes, n
  <2>7. Shapes'  BY <2>1, <2>2, <2>4 DEF Shapes
  <2>8. RenderedOnce'  BY <2>1, <2>4, <2>6, <1>7 DEF RenderedOnce
  <2>9. OwnDocument'  BY <2>1, <1>7 DEF OwnDocument
  <2>10. FilesAreArtifacts'
    <3> SUFFICES ASSUME NEW q \in Runs, NEW f \in Files, content'[f] # Nothing, content'[f].by = q
                 PROVE  \E i \in 1 .. published'[q] :
                          FileOf(pending[q][i].path) = f /\ pending[q][i].item = content'[f]
      BY <2>1 DEF FilesAreArtifacts
    <3>1. CASE content'[f] = content[f]
      <4>1. PICK i \in 1 .. published[q] :
              FileOf(pending[q][i].path) = f /\ pending[q][i].item = content[f]
        BY <3>1 DEF FilesAreArtifacts
      <4>2. i \in 1 .. published'[q]
        <5>1. published[q] \in Nat  BY DEF Shapes
        <5>2. CASE q = r  BY <2>3, <2>6, <4>1, <5>2
        <5>3. CASE q # r  BY <2>6, <4>1, <5>3
        <5> QED BY <5>2, <5>3
      <4> QED BY <3>1, <4>1, <4>2
    <3>2. CASE content'[f] # content[f]
      <4>1. FileOf(a.path) = f /\ content'[f] = a.item  BY <2>2, <3>2 DEF Shapes
      <4>2. q = r  BY <2>5, <4>1 DEF Artifact
      <4>3. n \in 1 .. published'[r] /\ pending[r][n] = a  BY <2>4, <2>6 DEF a
      <4> QED BY <4>1, <4>2, <4>3
    <3> QED BY <3>1, <3>2
  <2>11. ExitIsLast'
    <3> SUFFICES ASSUME NEW q \in Runs, pc[q] = "done", exit[q] # 30
                 PROVE  /\ pending[q] = Rendered(q) /\ published'[q] = Len(pending[q])
                        /\ ~Conflicting(q)
                        /\ Compares(q) => document[q] = [run |-> q, exit |-> exit[q]]
      BY <2>1, <1>7 DEF ExitIsLast
    <3>1. q # r  BY <2>1
    <3> QED BY <2>6, <3>1 DEF ExitIsLast
  <2>12. ToldOnFailure'
    <3> SUFFICES ASSUME NEW q \in Runs, told[q] # Nothing
                 PROVE  /\ pc[q] = "done" /\ exit[q] = 30
                        /\ pending[q] = Rendered(q) /\ published'[q] < Len(Destined(q))
                        /\ told[q] = PublishedSoFar(Destined(q), published'[q])
      BY <2>1, <1>7 DEF ToldOnFailure, PublishedSoFar, KindsIn
    <3>1. q # r  BY <2>1 DEF ToldOnFailure
    <3> QED BY <2>6, <3>1 DEF ToldOnFailure
  <2> QED BY <2>7, <2>8, <2>9, <2>10, <2>11, <2>12
<1>10. CASE PublishFails(r)
  <2>1. /\ pc[r] = "publish" /\ pc' = [pc EXCEPT ![r] = "done"]
        /\ exit' = [exit EXCEPT ![r] = 30]
        /\ UNCHANGED <<line, content, document, failed, pending, published>>
    BY <1>10 DEF PublishFails, Goto
  <2>2. told' = IF published[r] < Len(Destined(r))
                THEN [told EXCEPT ![r] = PublishedSoFar(Destined(r), published[r])] ELSE told
    BY <1>10 DEF PublishFails
  <2>3. stdout' = [q \in Runs |-> stdout'[q]]  BY <1>10 DEF PublishFails, Shapes
  <2>4. Shapes'  BY <2>1, <2>2, <2>3 DEF Shapes, Labels
  <2>5. /\ pc'[r] = "done" /\ exit'[r] = 30 /\ told[r] = Nothing
        /\ \A q \in Runs \ {r} : pc'[q] = pc[q] /\ exit'[q] = exit[q] /\ told'[q] = told[q]
    BY <2>1, <2>2 DEF Shapes, ToldOnFailure
  <2>6. RenderedOnce'  BY <2>1, <2>5, <1>7 DEF RenderedOnce
  <2>7. OwnDocument'  BY <2>1, <2>5, <1>7 DEF OwnDocument
  <2>8. FilesAreArtifacts'  BY <2>1 DEF FilesAreArtifacts
  <2>9. ExitIsLast'
    <3> SUFFICES ASSUME NEW q \in Runs, pc'[q] = "done", exit'[q] # 30
                 PROVE  /\ pending[q] = Rendered(q) /\ published[q] = Len(pending[q])
                        /\ ~Conflicting(q)
                        /\ Compares(q) => document[q] = [run |-> q, exit |-> exit'[q]]
      BY <2>1, <1>7 DEF ExitIsLast
    <3>1. q # r  BY <2>5
    <3> QED BY <2>5, <3>1 DEF ExitIsLast
  <2>10. ToldOnFailure'
    <3> SUFFICES ASSUME NEW q \in Runs, told'[q] # Nothing
                 PROVE  /\ pc'[q] = "done" /\ exit'[q] = 30
                        /\ pending[q] = Rendered(q) /\ published[q] < Len(Destined(q))
                        /\ told'[q] = PublishedSoFar(Destined(q), published[q])
      <4>1. pending' = pending /\ published' = published  BY <2>1
      <4>2. ASSUME NEW q \in Runs
            PROVE  Rendered(q)' = Rendered(q) /\ Destined(q)' = Destined(q)
        BY <1>7, <2>1
      <4> QED BY <4>1, <4>2 DEF ToldOnFailure
    <3>1. CASE q = r
      <4>1. published[r] < Len(Destined(r))  BY <2>2, <2>5, <3>1
      <4>2. told'[r] = PublishedSoFar(Destined(r), published[r])
        BY <2>2, <4>1 DEF Shapes
      <4> QED BY <2>1, <2>5, <3>1, <4>1, <4>2 DEF RenderedOnce
    <3>2. CASE q # r  BY <2>5, <3>2 DEF ToldOnFailure
    <3> QED BY <3>1, <3>2
  <2> QED BY <2>4, <2>6, <2>7, <2>8, <2>9, <2>10
<1>11. CASE Exit(r)
  <2>1. /\ pc[r] = "publish" /\ pc' = [pc EXCEPT ![r] = "done"]
        /\ published[r] = Len(pending[r])
        /\ UNCHANGED <<line, content, stdout, document, failed, pending, published, told>>
    BY <1>11 DEF Exit, Goto
  <2>2. /\ \A q \in Runs \ {r} : exit'[q] = exit[q]
        /\ Compares(r) => exit'[r] = document[r].exit
    BY <1>11 DEF Exit, Shapes
  <2>3. exit' = [q \in Runs |-> exit'[q]]  BY <1>11 DEF Exit, Shapes
  <2>4. Shapes'  BY <2>1, <2>3 DEF Shapes, Labels
  <2>5. /\ pc'[r] = "done" /\ told[r] = Nothing
        /\ \A q \in Runs \ {r} : pc'[q] = pc[q]
    BY <2>1 DEF Shapes, ToldOnFailure
  <2>6. RenderedOnce'  BY <2>1, <2>5, <1>7 DEF RenderedOnce
  <2>7. OwnDocument'  BY <2>1, <2>5, <1>7 DEF OwnDocument
  <2>8. FilesAreArtifacts'  BY <2>1 DEF FilesAreArtifacts
  <2>9. ExitIsLast'
    <3> SUFFICES ASSUME NEW q \in Runs, pc'[q] = "done", exit'[q] # 30
                 PROVE  /\ pending[q] = Rendered(q) /\ published[q] = Len(pending[q])
                        /\ ~Conflicting(q)
                        /\ Compares(q) => document[q] = [run |-> q, exit |-> exit'[q]]
      BY <2>1, <1>7 DEF ExitIsLast
    <3>1. CASE q = r
      <4>1. pending[r] = Rendered(r) /\ ~Conflicting(r)  BY <2>1 DEF RenderedOnce
      <4>2. Compares(r) => document[r] = [run |-> r, exit |-> document[r].exit]
        BY <2>1 DEF OwnDocument
      <4> QED BY <2>1, <2>2, <3>1, <4>1, <4>2
    <3>2. CASE q # r  BY <2>2, <2>5, <3>2 DEF ExitIsLast
    <3> QED BY <3>1, <3>2
  <2>10. ToldOnFailure'
    <3> SUFFICES ASSUME NEW q \in Runs, told[q] # Nothing
                 PROVE  /\ pc'[q] = "done" /\ exit'[q] = 30
                        /\ pending[q] = Rendered(q) /\ published[q] < Len(Destined(q))
                        /\ told[q] = PublishedSoFar(Destined(q), published[q])
      BY <2>1, <1>7 DEF ToldOnFailure, PublishedSoFar, KindsIn
    <3>1. q # r  BY <2>5
    <3> QED BY <2>2, <2>5, <3>1 DEF ToldOnFailure
  <2> QED BY <2>4, <2>6, <2>7, <2>8, <2>9, <2>10
<1> QED BY <1>2, <1>3, <1>4, <1>5, <1>6, <1>8, <1>9, <1>10, <1>11 DEF Step

\* In every state: what a process publishes is what it rendered, from one
\* document, for destinations that passed the check, and what it says of that
\* in its error or by its exit code is so.
THEOREM PublicationInvariant == Spec => []PublicationInv
<1>1. PublicationInv /\ [Next]_vars => PublicationInv'
  <2> SUFFICES ASSUME PublicationInv, [Next]_vars  PROVE PublicationInv'
    OBVIOUS
  <2>1. CASE Next  BY <2>1, StepKeepsInv DEF Next
  <2>2. CASE UNCHANGED vars
    <3>1. line' = line /\ document' = document  BY <2>2 DEF vars
    <3>2. \A q \in Runs : /\ Compares(q)' = Compares(q) /\ Conflicting(q)' = Conflicting(q)
                          /\ Destined(q)' = Destined(q) /\ Rendered(q)' = Rendered(q)
      BY <3>1, SameLineSameReports
    <3>3. Shapes'  BY <2>2 DEF vars, PublicationInv, Shapes
    <3>4. RenderedOnce'  BY <2>2, <3>2 DEF vars, PublicationInv, RenderedOnce
    <3>5. OwnDocument'  BY <2>2, <3>2 DEF vars, PublicationInv, OwnDocument
    <3>6. FilesAreArtifacts'  BY <2>2 DEF vars, PublicationInv, FilesAreArtifacts
    <3>7. ExitIsLast'  BY <2>2, <3>2 DEF vars, PublicationInv, ExitIsLast
    <3>8. ToldOnFailure'
      BY <2>2, <3>2 DEF vars, PublicationInv, ToldOnFailure, PublishedSoFar, KindsIn
    <3> QED BY <3>3, <3>4, <3>5, <3>6, <3>7, <3>8 DEF PublicationInv
  <2> QED BY <2>1, <2>2
<1> QED BY InitEstablishesInv, <1>1, PTL DEF Spec

-----------------------------------------------------------------------------
(* The properties.                                                         *)

\* A file that a process wrote last: the path is where the command line has an
\* artifact of one kind go, and the file holds that artifact.
LEMMA WhatIsInAFile ==
  ASSUME PublicationInv, NEW r \in Runs, NEW f \in Files, content[f] # Nothing, content[f].by = r
  PROVE  /\ ~Conflicting(r)
         /\ \E k \in Requested(r) :
              /\ k \in Roles /\ FileOf(line[r].out[k]) = f
              /\ content[f] = [kind |-> k, doc |-> document[r], by |-> r, whole |-> TRUE]
<1>1. PICK i \in 1 .. published[r] :
        FileOf(pending[r][i].path) = f /\ pending[r][i].item = content[f]
  BY DEF PublicationInv, FilesAreArtifacts
<1>2. published[r] \in Nat /\ published[r] <= Len(pending[r])
  BY DEF PublicationInv, Shapes, RenderedOnce
<1>3. pending[r] # <<>>
  <2>1. Len(<<>>) = 0  OBVIOUS
  <2> QED BY <1>1, <1>2, <2>1
<1>4. pending[r] = Rendered(r) /\ ~Conflicting(r)  BY <1>3 DEF PublicationInv, RenderedOnce
<1>5. i \in 1 .. Len(Rendered(r))  BY <1>1, <1>2, <1>4, RenderedShape
<1>6. PICK k \in Roles : \E p \in {Stdout, line[r].out[k]} :
        Rendered(r)[i] = Artifact(r, k, p) /\ (p # Stdout => k \in Requested(r))
  BY <1>5, RenderedShape
<1>7. PICK p \in {Stdout, line[r].out[k]} :
        Rendered(r)[i] = Artifact(r, k, p) /\ (p # Stdout => k \in Requested(r))
  BY <1>6
<1>8. /\ FileOf(p) = f
      /\ content[f] = [kind |-> k, doc |-> document[r], by |-> r, whole |-> TRUE]
  BY <1>1, <1>4, <1>7, KindOfArtifact
<1>9. p # Stdout  BY <1>8, NamesDiffer DEF FileOf
<1> QED BY <1>4, <1>6, <1>7, <1>8, <1>9

\* A file that a process wrote is one it was told to write.
LEMMA NameOfAFile ==
  ASSUME PublicationInv, NEW r \in Runs, NEW f \in Files, content[f] # Nothing, content[f].by = r
  PROVE  \E k \in Requested(r) : k \in Roles /\ FileOf(line[r].out[k]) = f
<1>1. \E k \in Requested(r) :
        /\ k \in Roles /\ FileOf(line[r].out[k]) = f
        /\ content[f] = [kind |-> k, doc |-> document[r], by |-> r, whole |-> TRUE]
  BY WhatIsInAFile
<1> QED BY ONLY <1>1

\* And what is in it tells of the document that the process read or made.
LEMMA DocumentInAFile ==
  ASSUME PublicationInv, NEW r \in Runs, NEW f \in Files, content[f] # Nothing, content[f].by = r
  PROVE  content[f].doc = document[r]
<1>1. \E k \in Requested(r) :
        /\ k \in Roles /\ FileOf(line[r].out[k]) = f
        /\ content[f] = [kind |-> k, doc |-> document[r], by |-> r, whole |-> TRUE]
  BY WhatIsInAFile
<1> QED BY ONLY <1>1

\* writeReports: whoever sees a comparison exit with 0, 10 or 20 has all of its
\* artifacts, stating that very exit code, but for one that met another at "-",
\* which ValidateDestinations skips.
THEOREM ExitMeansPublishedHolds == Spec => []ExitMeansPublished
<1>1. PublicationInv => ExitMeansPublished
  <2> SUFFICES ASSUME PublicationInv, NEW r \in Runs, pc[r] = "done", exit[r] # 30
               PROVE  /\ Requested(r) \subseteq WrittenBy(r)
                      /\ \A k \in Requested(r) : InPlace(r, k) \/ Replaced(r, k)
                      /\ Compares(r) => document[r] = [run |-> r, exit |-> exit[r]]
    BY DEF ExitMeansPublished
  <2>1. /\ pending[r] = Rendered(r) /\ published[r] = Len(pending[r])
        /\ Compares(r) => document[r] = [run |-> r, exit |-> exit[r]]
    BY DEF PublicationInv, ExitIsLast
  <2>2. ASSUME NEW k \in Requested(r)  PROVE k \in WrittenBy(r)
    <3>1. k \in Kinds(r) /\ k \in Roles /\ line[r].out[k] # Nothing
      BY <2>2 DEF Requested, Kinds, Roles
    <3>2. PICK i \in 1 .. Len(Destined(r)) : Destined(r)[i] = Artifact(r, k, line[r].out[k])
      BY <3>1, DestinedIsRequested DEF Lists
    <3>3. i \in 1 .. published[r] /\ pending[r][i] = Artifact(r, k, line[r].out[k])
      BY <2>1, <3>2, RenderedShape
    <3> QED BY <3>1, <3>3 DEF WrittenBy, Artifact
  <2>3. ASSUME NEW k \in Requested(r)  PROVE InPlace(r, k) \/ Replaced(r, k)
    <3> DEFINE f == FileOf(line[r].out[k])
    <3>1. k \in Roles /\ line[r].out[k] # Nothing  BY <2>3 DEF Requested, Kinds, Roles
    <3>2. SUFFICES ASSUME f \in Files, content[f] # Nothing, content[f].by = r
                   PROVE  \/ content[f] = [kind |-> k, doc |-> document[r], by |-> r, whole |-> TRUE]
                          \/ Replaced(r, k)
      BY DEF InPlace
    <3>3. PICK j \in Requested(r) :
            /\ j \in Roles /\ FileOf(line[r].out[j]) = f
            /\ content[f] = [kind |-> j, doc |-> document[r], by |-> r, whole |-> TRUE]
      BY <3>2, WhatIsInAFile
    <3>4. ~Conflicting(r)  BY <3>2, WhatIsInAFile
    <3>5. line[r].out[j] # Nothing  BY DEF Requested
    <3>6. CASE j = k  BY <3>3, <3>6
    <3>7. CASE j # k
      <4>1. InPlace(r, j)  BY <3>3 DEF InPlace
      <4>2. Dash \in {line[r].out[j], line[r].out[k]}
        <5> SUFFICES ASSUME line[r].out[j] # Dash, line[r].out[k] # Dash  PROVE FALSE
          OBVIOUS
        <5>1. j \in Outputs(r) /\ k \in Outputs(r)  BY <3>1, <3>3, <3>5 DEF Outputs
        <5>2. line[r].out[j] = line[r].out[k]  BY <3>3 DEF FileOf
        <5> QED BY <3>4, <3>7, <5>1, <5>2 DEF Conflicting
      <4> QED BY <3>3, <3>7, <4>1, <4>2 DEF Replaced
    <3> QED BY <3>6, <3>7
  <2> QED BY <2>1, <2>2, <2>3
<1> QED BY <1>1, PublicationInvariant, PTL

\* publishedSoFar: the error of a write that fails tells what exists and what
\* does not, and leaves out one artifact, which is not there.
THEOREM FailureNamesWhatExistsHolds == Spec => []FailureNamesWhatExists
<1>1. PublicationInv => FailureNamesWhatExists
  <2> SUFFICES ASSUME PublicationInv, NEW r \in Runs, told[r] # Nothing
               PROVE  /\ told[r].written = WrittenBy(r)
                      /\ told[r].written \cap told[r].notWritten = {}
                      /\ \E k \in Requested(r) \ WrittenBy(r) :
                           told[r].written \cup told[r].notWritten = Requested(r) \ {k}
    BY DEF FailureNamesWhatExists
  <2> DEFINE d == Destined(r)
             n == published[r]
             kind(i) == d[i].item.kind
  <2>1. /\ pending[r] = Rendered(r) /\ n < Len(d) /\ n \in Nat
        /\ told[r] = PublishedSoFar(d, n)
    BY DEF PublicationInv, ToldOnFailure, Shapes
  <2>2. /\ Len(d) \in Nat
        /\ \A i \in 1 .. Len(d) : pending[r][i] = d[i]
    BY <2>1, RenderedShape
  <2>3. Lists(r, d, Kinds(r))  BY DestinedIsRequested
  <2>4. \A i \in 1 .. Len(d) : kind(i) \in Requested(r) /\ kind(i) \in Roles
    <3> TAKE i \in 1 .. Len(d)
    <3>1. PICK k \in Kinds(r) : line[r].out[k] # Nothing /\ d[i] = Artifact(r, k, line[r].out[k])
      BY <2>3 DEF Lists
    <3>2. kind(i) = k  BY <3>1 DEF Artifact
    <3> QED BY <3>1, <3>2 DEF Requested, Kinds, Roles
  <2>5. \A k \in Requested(r) : \E i \in 1 .. Len(d) : kind(i) = k
    <3> TAKE k \in Requested(r)
    <3>1. PICK i \in 1 .. Len(d) : d[i] = Artifact(r, k, line[r].out[k])
      BY <2>3 DEF Lists, Requested
    <3> QED BY <3>1 DEF Artifact
  <2>6. \A i, j \in 1 .. Len(d) : kind(i) = kind(j) => i = j  BY <2>3 DEF Lists
  <2>7. /\ told[r].written = {kind(i) : i \in 1 .. n}
        /\ told[r].notWritten = {kind(i) : i \in n + 2 .. Len(d)}
    BY <2>1 DEF PublishedSoFar, KindsIn
  <2>8. WrittenBy(r) = {kind(i) : i \in 1 .. n}
    <3>1. \A i \in 1 .. n : i \in 1 .. Len(d) /\ pending[r][i] = d[i]  BY <2>1, <2>2
    <3> QED BY <2>4, <3>1 DEF WrittenBy
  <2> HIDE DEF d, n, kind
  <2>9. \A i \in 1 .. n : \A j \in n + 2 .. Len(d) : kind(i) # kind(j)
    BY <2>1, <2>2, <2>6
  <2>10. n + 1 \in 1 .. Len(d)  BY <2>1, <2>2
  <2>11. kind(n + 1) \in Requested(r) \ WrittenBy(r)
    <3>1. \A i \in 1 .. n : kind(i) # kind(n + 1)  BY <2>1, <2>2, <2>6, <2>10
    <3> QED BY <2>4, <2>8, <2>10, <3>1
  <2>12. told[r].written \cup told[r].notWritten = Requested(r) \ {kind(n + 1)}
    <3>1. \A i \in 1 .. Len(d) : i \in 1 .. n \/ i = n + 1 \/ i \in n + 2 .. Len(d)
      BY <2>1, <2>2
    <3>2. \A i \in (1 .. n) \cup (n + 2 .. Len(d)) : i \in 1 .. Len(d) /\ i # n + 1
      BY <2>1, <2>2
    <3>3. \A i \in (1 .. n) \cup (n + 2 .. Len(d)) : kind(i) \in Requested(r) \ {kind(n + 1)}
      BY <2>4, <2>6, <2>10, <3>2
    <3>4. \A k \in Requested(r) \ {kind(n + 1)} :
            \E i \in (1 .. n) \cup (n + 2 .. Len(d)) : kind(i) = k
      BY <2>5, <3>1
    <3> QED BY <2>7, <3>3, <3>4
  <2>13. told[r].written \cap told[r].notWritten = {}  BY <2>7, <2>9
  <2> QED BY <2>7, <2>8, <2>11, <2>12, <2>13
<1> QED BY <1>1, PublicationInvariant, PTL

\* ValidateDestinations: no process replaces what it was told to read, as far
\* as the check was told of it and looks at it.
THEOREM InputsKeptHolds == Spec => []InputsKept
<1>1. PublicationInv => InputsKept
  <2> SUFFICES ASSUME PublicationInv, NEW r \in Runs,
                      NEW f \in CheckedInputs(r) \ Unchecked(r), content[f] # Nothing,
                      content[f].by = r
               PROVE  FALSE
    BY DEF InputsKept
  <2>1. line[r] \in CommandLine  BY CommandLinesParse DEF PublicationInv, Shapes
  <2>2. f \in Files  BY <2>1, NamesDiffer DEF CheckedInputs, CommandLine, FileOf
  <2>3. ~Conflicting(r)  BY <2>2, WhatIsInAFile
  <2>4. PICK k \in Requested(r) : k \in Roles /\ FileOf(line[r].out[k]) = f
    BY <2>2, NameOfAFile
  <2>5. line[r].out[k] # Nothing  BY <2>4 DEF Requested
  <2>6. line[r].out[k] # Dash
    BY <2>4 DEF Unchecked, FileOf
  <2>7. k \in Outputs(r) /\ line[r].out[k] = f  BY <2>4, <2>5, <2>6 DEF Outputs, FileOf
  <2>8. f \in Inputs(r)
    <3>1. CASE f \in {line[r].jsonIn} \cap Files  BY <3>1, NamesDiffer DEF Inputs
    <3>2. CASE f \in {FileOf(p) : p \in line[r].inputs}
      <4>1. PICK p \in line[r].inputs : f = FileOf(p)  BY <3>2
      <4>2. p # Dash  BY <4>1 DEF Unchecked, FileOf
      <4> QED BY <4>1, <4>2 DEF Inputs, FileOf
    <3> QED BY <3>1, <3>2 DEF CheckedInputs
  <2> QED BY <2>3, <2>7, <2>8 DEF Conflicting
<1> QED BY <1>1, PublicationInvariant, PTL

\* runExplain: the assessment and the report tell of the document that was read
\* once, whoever replaces it meanwhile.
THEOREM ExplainTellsOneStoryHolds == Spec => []ExplainTellsOneStory
<1>1. PublicationInv => ExplainTellsOneStory
  <2> SUFFICES ASSUME PublicationInv, NEW r \in Runs, NEW f \in Files, NEW g \in Files,
                      content[f] # Nothing, content[f].by = r,
                      content[g] # Nothing, content[g].by = r
               PROVE  content[f].doc = content[g].doc
    BY DEF ExplainTellsOneStory
  <2>1. content[f].doc = document[r]  BY DocumentInAFile
  <2>2. content[g].doc = document[r]  BY DocumentInAFile
  <2> QED BY <2>1, <2>2
<1> QED BY <1>1, PublicationInvariant, PTL
=============================================================================
