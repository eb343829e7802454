-------------------------- MODULE ComparisonProofs --------------------------
(***************************************************************************)
(* What holds of the content of one File, for every File, file server and  *)
(* any deployments between the steps, and of one comparison, for every     *)
(* catalog, policy and failure of its targets.                             *)
(*                                                                         *)
(* The content's argument has two halves. One follows a side: what it      *)
(* asked for is a prefix of its references, all of them absent while it    *)
(* goes on asking. The other is about the answer: whatever a side verified *)
(* is the digest of its algorithm, so two digests of one algorithm tell    *)
(* bytes apart, and each branch of the comparison says so.                 *)
(*                                                                         *)
(* The comparison's invariant says that each result is that of its inputs, *)
(* the groups those of the results and the document that of both. What     *)
(* the properties ask is then asked of the difference of two catalogs:     *)
(* what its rows are, which of them the rules take, what is published of   *)
(* them and what a group combines. Of values it is shown by looking at an  *)
(* innermost one that would be an exception. That a reader accepts the     *)
(* document follows its parts: the evidence of a side, the rows it gets    *)
(* into, what is published of them, the target's outcome and the groups.   *)
(***************************************************************************)
EXTENDS ContentEvidence, ComparisonResult, OperatorProofs, SequenceTheorems, FiniteSetTheorems,
        TLAPS

-----------------------------------------------------------------------------
(* The content of a File                                                    *)

Phases ==
  {"idle", "capturing", "captured", "refused", "compiled", "baseline", "candidate", "done"}

\* What a side refers to, and all that the files of catalogs refer to.
Refs(s) == References(Under(side[s].file.p, "source"))
Named ==
  UNION {{References(Under(file.p, "source"))[i] : i \in DOMAIN References(Under(file.p, "source"))} :
           file \in Files}

Request == [ref : Named, response : Responses \cup {Failure}]

\* The server only ever answers what it may, and a side has a file that a
\* catalog can have. Only the comparison's baseline is of another time.
Shapes ==
  /\ phase \in Phases
  /\ server \in [Environments -> [Sources -> Responses]]
  /\ side = [s \in Sides |-> side[s]]
  /\ resolved = [s \in Sides |-> resolved[s]]
  /\ asked \in [Sides -> Seq(Request)]
  /\ todo \in Seq(Named)

\* A side that the phase has reached is one of a catalog.
SidesAreOfCatalogs ==
  /\ phase # "idle" =>
       \E file \in Files, e \in Environments : side["capture"] = Side(file, e, FALSE)
  /\ phase \in {"compiled", "baseline", "candidate", "done"} =>
       /\ WellFormed(side["baseline"].file) /\ side["baseline"].context.historical
       /\ \E file \in Files, e \in Environments : side["candidate"] = Side(file, e, FALSE)

Untouched(s) == resolved[s] = NotYet /\ asked[s] = <<>>

\* The sides are resolved one after the other.
OneSideAtATime ==
  /\ phase = "idle" => Untouched("capture")
  /\ phase \in {"idle", "capturing", "captured", "refused", "compiled"} => Untouched("baseline")
  /\ phase \in {"idle", "capturing", "captured", "refused", "compiled", "baseline"} =>
       Untouched("candidate")
  /\ todo # <<>> => Working \in {"capture", "candidate"}

\* While a side asks it has asked for its first references, which are absent,
\* and has the others still to ask for.
StillAsking ==
  todo # <<>> =>
    LET s == Working IN
    /\ resolved[s] = NotYet
    /\ Len(asked[s]) + Len(todo) = Len(Refs(s))
    /\ \A i \in 1 .. Len(todo) : todo[i] = Refs(s)[Len(asked[s]) + i]
    /\ \A i \in 1 .. Len(asked[s]) : asked[s][i].ref = Refs(s)[i] /\ SourceAbsent(asked[s][i].response)

VerifiedIsDigest == \A s \in Sides : resolved[s].ok => IsDigest(resolved[s])

\* The comparison is told of what its sides resolved to.
ToldOfTheSides ==
  told = IF phase = "done" /\ LooksAtContent
         THEN ComparedEvidence(side["baseline"], side["candidate"],
                               resolved["baseline"], resolved["candidate"], suppress)
         ELSE Untold(NoEvidence("not_managed"))

EvidenceInv ==
  /\ Shapes
  /\ SidesAreOfCatalogs
  /\ OneSideAtATime
  /\ StillAsking
  /\ VerifiedIsDigest
  /\ BaselineIsNotFetched
  /\ FirstSourceThatExists
  /\ ToldOfTheSides

-----------------------------------------------------------------------------
(* What a side can know.                                                   *)

\* A sequence is one over any set that has its elements.
LEMMA SequenceShape ==
  ASSUME NEW s
  PROVE  /\ IsSequence(s) => Len(s) \in Nat /\ DOMAIN s = 1 .. Len(s)
         /\ \A S : s \in Seq(S) => IsSequence(s)
<1>1. IsSequence(s) => Len(s) \in Nat /\ DOMAIN s = 1 .. Len(s)  BY LenProperties DEF IsSequence
<1>2. ASSUME NEW S, s \in Seq(S)  PROVE IsSequence(s)
  <2> DEFINE T == {s[i] : i \in DOMAIN s}
  <2>1. Len(s) \in Nat /\ DOMAIN s = 1 .. Len(s) /\ s \in [1 .. Len(s) -> S]
    BY <1>2, LenProperties
  <2>2. s = [i \in 1 .. Len(s) |-> s[i]] /\ \A i \in 1 .. Len(s) : s[i] \in T  BY <2>1
  <2> HIDE DEF T
  <2>3. s \in Seq(T)  BY <2>1, <2>2
  <2> QED BY <2>3 DEF IsSequence, T
<1> QED BY <1>1, <1>2

\* What evidence says: nothing of the bytes, or their digest.
LEMMA UnverifiedFields ==
  ASSUME NEW source, NEW reason
  PROVE  LET e == Unverified(source, reason)
         IN  ~e.ok /\ e.source = source /\ e.reason = reason
BY DEF Unverified

\* The same of evidence that is a digest.
LEMMA VerifiedFields ==
  ASSUME NEW source, NEW algorithm, NEW digest
  PROVE  LET e == Verified(source, algorithm, digest)
         IN  /\ e.ok /\ e.source = source /\ e.reason = ""
             /\ e.algorithm = algorithm /\ e.digest = digest
BY DEF Verified

\* What one answer of the file server is evidence of: an absence, bytes that
\* were sent, or a failure.
LEMMA AnswerFields ==
  ASSUME NEW ref, NEW response
  PROVE  LET e == Digest(ref, response)
             sent == ParsePuppetSourceURI(ref) = ""
         IN  \/ ~e.ok /\ e.reason # "not_found"
             \/ sent /\ SourceAbsent(response) /\ ~e.ok /\ e.reason = "not_found"
             \/ /\ sent /\ ~SourceAbsent(response) /\ response.status = 200
                /\ e.ok /\ e.reason = "" /\ e.algorithm = "sha256"
                /\ e.digest = HashOf("sha256", response.bytes)
<1> DEFINE e == Digest(ref, response)
           h == HashOf("sha256", response.bytes)
<1>1. \/ e = Unverified("", ParsePuppetSourceURI(ref)) /\ ParsePuppetSourceURI(ref) # ""
      \/ /\ ParsePuppetSourceURI(ref) = "" /\ SourceAbsent(response)
         /\ e = Unverified("", "not_found")
      \/ e = Unverified("", "failed")
      \/ /\ ParsePuppetSourceURI(ref) = "" /\ ~SourceAbsent(response) /\ response.status = 200
         /\ e = Verified("compiler_retrieval", "sha256", h)
  BY DEF Digest
<1>2. ParsePuppetSourceURI(ref) # "not_found"  BY DEF ParsePuppetSourceURI
<1> HIDE DEF e, h
<1>3. CASE e = Unverified("", ParsePuppetSourceURI(ref))
  <2>1. ~e.ok /\ e.reason = ParsePuppetSourceURI(ref)  BY <1>3, UnverifiedFields
  <2> QED BY <1>2, <2>1 DEF e
<1>4. CASE ParsePuppetSourceURI(ref) = "" /\ SourceAbsent(response) /\ e = Unverified("", "not_found")
  <2>1. ~e.ok /\ e.reason = "not_found"  BY <1>4, UnverifiedFields
  <2> QED BY <1>4, <2>1 DEF e
<1>5. CASE e = Unverified("", "failed")
  <2>1. ~e.ok /\ e.reason = "failed"  BY <1>5, UnverifiedFields
  <2>2. e.reason # "not_found"  BY <2>1
  <2> QED BY <2>1, <2>2 DEF e
<1>6. CASE /\ ParsePuppetSourceURI(ref) = "" /\ ~SourceAbsent(response) /\ response.status = 200
           /\ e = Verified("compiler_retrieval", "sha256", h)
  <2>1. e.ok /\ e.reason = "" /\ e.algorithm = "sha256" /\ e.digest = h  BY <1>6 DEF Verified
  <2> QED BY <1>6, <2>1 DEF e, h
<1> QED BY <1>1, <1>3, <1>4, <1>5, <1>6

\* The first of a sequence is its head.
LEMMA HeadIsFirst ==
  ASSUME NEW S, NEW q \in Seq(S), q # <<>>
  PROVE  Head(q) \in S /\ Head(q) = q[1]
BY HeadTailProperties

\* What is left to ask for starts after what was asked for.
LEMMA NextIsThere ==
  ASSUME NEW before \in Nat, NEW left \in Nat, NEW all \in Nat, left # 0, before + left = all
  PROVE  1 \in 1 .. left /\ before + 1 \in 1 .. all
OBVIOUS

\* A side that was not resolved has verified nothing.
LEMMA NotYetFields == ~NotYet.ok
BY UnverifiedFields DEF NotYet

\* A digest of bytes is one of its algorithm.
LEMMA HashIsDigest ==
  ASSUME NEW bytes, IsSequence(bytes), NEW e, e.algorithm = "sha256",
         e.digest = HashOf("sha256", bytes)
  PROVE  IsDigest(e)
<1> DEFINE h == HexLength["sha256"]
           t == <<h>>
           S == {h} \cup {bytes[i] : i \in DOMAIN bytes}
           d == e.digest
<1>1. e.digest = t \o bytes  BY DEF HashOf
<1> HIDE DEF h
<1>2. t \in Seq(S) /\ Len(t) = 1 /\ t[1] = h  OBVIOUS
<1> HIDE DEF t
<1>3. bytes \in Seq(S) /\ Len(bytes) \in Nat  BY SeqMonotonic, LenProperties DEF IsSequence
<1> HIDE DEF S
<1>4. /\ t \o bytes \in Seq(S) /\ Len(t \o bytes) = 1 + Len(bytes)
      /\ \A i \in 1 .. 1 + Len(bytes) : (t \o bytes)[i] = IF i <= 1 THEN t[i] ELSE bytes[i - 1]
  <2>1. /\ t \o bytes \in Seq(S) /\ Len(t \o bytes) = Len(t) + Len(bytes)
        /\ \A i \in 1 .. Len(t) + Len(bytes) :
             (t \o bytes)[i] = IF i <= Len(t) THEN t[i] ELSE bytes[i - Len(t)]
    <3>1. t \in Seq(S) /\ bytes \in Seq(S)  BY <1>2, <1>3
    <3> QED BY ONLY <3>1, ConcatProperties
  <2> QED BY <1>2, <2>1
<1>5. (t \o bytes)[1] = h  BY <1>2, <1>3, <1>4
<1> HIDE DEF d
<1>6. d \in Seq(S) /\ Len(d) = 1 + Len(bytes) /\ d[1] = h  BY <1>1, <1>4, <1>5 DEF d
<1>7. d # <<>> /\ IsSequence(d)  BY <1>3, <1>6, EmptySeq, SequenceShape
<1>8. e.algorithm \in DOMAIN HexLength  BY DEF HexLength
<1> QED BY <1>6, <1>7, <1>8 DEF IsDigest, h, d

\* What is known of one side's bytes: a digest, or nothing.
IsKnown(e) ==
  /\ e.source \in KnownEvidenceSources
  /\ e.ok => IsDigest(e)
  /\ ~e.ok => e.digest = <<>> /\ e.algorithm = ""

\* A text is verified only as a digest of its algorithm.
LEMMA ValidIsKnown ==
  ASSUME NEW source \in {"compiled_checksum", "static_metadata", "captured_digest"},
         NEW algorithm, NEW text, IsSequence(text)
  PROVE  LET e == ValidateDigest(source, algorithm, text)
         IN  IsKnown(e) /\ e.source # "compiler_retrieval"
<1> DEFINE prefixed == text # <<>> /\ text[1] \in {AlgorithmPrefix[a] : a \in DOMAIN AlgorithmPrefix}
           digest == IF prefixed THEN Tail(text) ELSE text
<1>1. IsSequence(digest)
  <2>1. prefixed => Tail(text) \in Seq({text[i] : i \in DOMAIN text})
    BY HeadTailProperties DEF IsSequence
  <2> QED BY <2>1, SequenceShape
<1> HIDE DEF digest
<1>2. ValidateDigest(source, algorithm, text) \in
        {Unverified(source, "invalid_checksum")} \cup
        (IF algorithm \in DOMAIN HexLength /\ digest # <<>> /\ digest[1] = HexLength[algorithm]
         THEN {Verified(source, algorithm, digest)} ELSE {})
  BY DEF ValidateDigest, digest
<1> DEFINE e == ValidateDigest(source, algorithm, text)
<1>3. CASE e = Unverified(source, "invalid_checksum")
  <2> HIDE DEF e
  <2>1. e.source = source /\ ~e.ok /\ e.digest = <<>> /\ e.algorithm = ""
    BY <1>3 DEF Unverified
  <2> QED BY <2>1 DEF e, IsKnown, KnownEvidenceSources
<1>4. CASE /\ algorithm \in DOMAIN HexLength /\ digest # <<>> /\ digest[1] = HexLength[algorithm]
           /\ e = Verified(source, algorithm, digest)
  <2> HIDE DEF e
  <2>1. e.source = source /\ e.ok /\ e.digest = digest /\ e.algorithm = algorithm
    BY <1>4 DEF Verified
  <2> QED BY <1>1, <1>4, <2>1 DEF IsDigest, e, IsKnown, KnownEvidenceSources
<1>5. e = Unverified(source, "invalid_checksum")
        \/ (/\ algorithm \in DOMAIN HexLength /\ digest # <<>> /\ digest[1] = HexLength[algorithm]
            /\ e = Verified(source, algorithm, digest))
  BY <1>2
<1> QED BY <1>3, <1>4, <1>5

\* The references of a source are texts, and as many as it lists.
LEMMA ReferencesAreTexts ==
  ASSUME NEW file, WellFormed(file)
  PROVE  IsSequence(References(Under(file.p, "source")))
<1> DEFINE value == Under(file.p, "source")
           names == CASE IsText(value) -> <<value>>
                      [] IsList(value) -> value.items
                      [] OTHER -> <<>>
<1>1. IsTokens(value)  BY DEF WellFormed, FileContentBearingParameters
<1>2. /\ Len(names) \in Nat /\ DOMAIN names = 1 .. Len(names)
      /\ \A i \in DOMAIN names : IsTokens(names[i])
  <2>1. CASE IsText(value)
    <3> HIDE DEF value
    <3>1. names = <<value>>  BY <2>1 DEF IsText, IsList
    <3> HIDE DEF names
    <3>2. Len(names) = 1 /\ DOMAIN names = 1 .. 1 /\ names[1] = value  BY <3>1
    <3> QED BY <1>1, <3>2
  <2>2. CASE ~IsText(value) /\ IsList(value)
    <3>1. names = value.items  BY <2>2
    <3> QED BY <2>2, <3>1, SequenceShape DEF WellFormed
  <2>3. CASE ~IsText(value) /\ ~IsList(value)
    <3>1. names = <<>>  BY <2>3
    <3> QED BY <3>1
  <2> QED BY <2>1, <2>2, <2>3
<1> HIDE DEF names
<1>3. References(value) = IF \A i \in DOMAIN names : IsText(names[i]) /\ names[i].text # <<>>
                          THEN [i \in DOMAIN names |-> names[i].text] ELSE <<>>
  BY DEF References, names
<1> HIDE DEF value
<1>4. CASE \A i \in DOMAIN names : IsText(names[i]) /\ names[i].text # <<>>
  <2>1. References(value) = [i \in 1 .. Len(names) |-> names[i].text]  BY <1>2, <1>3, <1>4
  <2>2. References(value) \in Seq({names[i].text : i \in 1 .. Len(names)})  BY <1>2, <2>1
  <2> QED BY <2>2, SequenceShape DEF value
<1>5. CASE ~(\A i \in DOMAIN names : IsText(names[i]) /\ names[i].text # <<>>)
  <2>1. References(value) = <<>>  BY <1>3, <1>5
  <2>2. IsSequence(<<>>)  BY EmptySeq, SequenceShape
  <2> QED BY <2>1, <2>2 DEF value
<1> QED BY <1>4, <1>5

\* What a catalog says of its file is a digest when it says what the bytes
\* are; references are left to ask for in a live catalog only.
LEMMA LocalAnswers ==
  ASSUME NEW given, WellFormed(given.file)
  PROVE  LET local == LocalEvidence(given, TRUE) IN
         /\ local.ask # <<>> =>
              /\ local.ask = References(Under(given.file.p, "source"))
              /\ ~given.context.historical
         /\ local.evidence.source # "compiler_retrieval"
         /\ IsKnown(local.evidence)
<1> DEFINE file == given.file
           content == Under(file.p, "content")
           value == Under(file.p, "checksum_value")
           algorithm == IF "checksum" \in DOMAIN file.p.at THEN file.p.at["checksum"]
                        ELSE Text(<<"sha256">>)
           local == LocalEvidence(given, TRUE)
           Answers(e) == local = [evidence |-> e, ask |-> <<>>]
           Sound(e) == e.source # "compiler_retrieval" /\ IsKnown(e)
<1>1. \/ \E reason \in {"non_byte_comparable", "historical", "no_content_or_source",
                        "no_retriever", "no_environment"} : Answers(Unverified("", reason))
      \/ IsText(content) /\ Answers(Verified("inline_content", "sha256", HashOf("sha256", content.text)))
      \/ Answers(CompiledChecksum(file.p))
      \/ /\ file.static # <<>>
         /\ Answers(ValidateDigest("static_metadata", file.static[1].algorithm, file.static[1].digest))
      \/ /\ file.captured # <<>>
         /\ Answers(ValidateDigest("captured_digest", file.captured[1].algorithm, file.captured[1].digest))
      \/ /\ ~given.context.historical
         /\ local = [evidence |-> Unverified("", "not_found"), ask |-> References(Under(file.p, "source"))]
  BY DEF LocalEvidence
<1> HIDE DEF local
<1>2. \A reason : Sound(Unverified("", reason))
  BY DEF Unverified, IsKnown, KnownEvidenceSources
<1>3. IsText(content) => Sound(Verified("inline_content", "sha256", HashOf("sha256", content.text)))
  <2> SUFFICES ASSUME IsText(content)
               PROVE  Sound(Verified("inline_content", "sha256", HashOf("sha256", content.text)))
    OBVIOUS
  <2>1. IsSequence(content.text)  BY DEF WellFormed, IsTokens, FileContentBearingParameters
  <2> DEFINE e == Verified("inline_content", "sha256", HashOf("sha256", content.text))
  <2>2. /\ e.ok /\ e.algorithm = "sha256" /\ e.digest = HashOf("sha256", content.text)
        /\ e.source = "inline_content"
    BY DEF Verified
  <2> HIDE DEF e
  <2>3. IsDigest(e)  BY <2>1, <2>2, HashIsDigest
  <2> QED BY <2>2, <2>3 DEF e, IsKnown, KnownEvidenceSources
<1>4. Sound(CompiledChecksum(file.p))
  <2>1. CASE ~IsText(algorithm) \/ ~IsText(value)
    <3>1. CompiledChecksum(file.p) = Unverified("", "invalid_checksum")
      BY <2>1 DEF CompiledChecksum
    <3> QED BY <3>1, <1>2
  <2>2. CASE IsText(algorithm) /\ IsText(value)
    <3> DEFINE a == IF Len(algorithm.text) = 1 THEN algorithm.text[1] ELSE ""
    <3>1. CompiledChecksum(file.p)
            = ValidateDigest("compiled_checksum", a, value.text)
      BY <2>2 DEF CompiledChecksum
    <3>2. IsSequence(value.text)  BY <2>2 DEF WellFormed, IsTokens, FileContentBearingParameters
    <3> HIDE DEF a, value
    <3> QED BY <3>1, <3>2, ValidIsKnown
  <2> QED BY <2>1, <2>2
<1>5. file.static # <<>> =>
        Sound(ValidateDigest("static_metadata", file.static[1].algorithm, file.static[1].digest))
  BY ValidIsKnown DEF WellFormed, AreDigests
<1>6. file.captured # <<>> =>
        Sound(ValidateDigest("captured_digest", file.captured[1].algorithm, file.captured[1].digest))
  BY ValidIsKnown DEF WellFormed, AreDigests
<1> HIDE DEF Sound, value, content
<1>7. \/ local.ask = <<>> /\ Sound(local.evidence)
      \/ /\ ~given.context.historical /\ local.ask = References(Under(file.p, "source"))
         /\ Sound(local.evidence)
  <2>1. ASSUME NEW e, Answers(e), Sound(e)  PROVE local.ask = <<>> /\ Sound(local.evidence)
    BY <2>1
  <2>2. ASSUME ~given.context.historical,
               local = [evidence |-> Unverified("", "not_found"),
                        ask |-> References(Under(file.p, "source"))]
        PROVE  /\ ~given.context.historical /\ local.ask = References(Under(file.p, "source"))
               /\ Sound(local.evidence)
    BY <1>2, <2>2
  <2> HIDE DEF Answers
  <2>3. (\E reason \in {"non_byte_comparable", "historical", "no_content_or_source",
                        "no_retriever", "no_environment"} : Answers(Unverified("", reason))) =>
          local.ask = <<>> /\ Sound(local.evidence)
    BY <1>2, <2>1
  <2>4. IsText(content) /\ Answers(Verified("inline_content", "sha256", HashOf("sha256", content.text)))
          => local.ask = <<>> /\ Sound(local.evidence)
    BY <1>3, <2>1
  <2>5. Answers(CompiledChecksum(file.p))
          => local.ask = <<>> /\ Sound(local.evidence)
    BY <1>4, <2>1
  <2>6. (/\ file.static # <<>>
         /\ Answers(ValidateDigest("static_metadata", file.static[1].algorithm, file.static[1].digest)))
          => local.ask = <<>> /\ Sound(local.evidence)
    BY <1>5, <2>1
  <2>7. (/\ file.captured # <<>>
         /\ Answers(ValidateDigest("captured_digest", file.captured[1].algorithm, file.captured[1].digest)))
          => local.ask = <<>> /\ Sound(local.evidence)
    BY <1>6, <2>1
  <2> QED BY <1>1, <2>2, <2>3, <2>4, <2>5, <2>6, <2>7
<1> QED BY <1>7 DEF local, Sound

\* Two digests of one algorithm are equal when the bytes are.
LEMMA DigestsTellBytesApart ==
  ASSUME NEW b, NEW a, IsDigest(b), IsDigest(a), b.algorithm = a.algorithm
  PROVE  b.digest = a.digest <=> Tail(b.digest) = Tail(a.digest)
<1> SUFFICES ASSUME Tail(b.digest) = Tail(a.digest)  PROVE b.digest = a.digest
  OBVIOUS
<1> DEFINE x == b.digest
           y == a.digest
<1>1. IsSequence(x) /\ IsSequence(y) /\ x # <<>> /\ y # <<>> /\ x[1] = y[1]  BY DEF IsDigest
<1>2. Tail(x) = Tail(y)  OBVIOUS
<1> HIDE DEF x, y
<1> DEFINE t == Tail(x)
<1>3. /\ Len(t) = Len(x) - 1 /\ \A i \in 1 .. Len(t) : t[i] = x[i + 1]
      /\ Len(t) = Len(y) - 1 /\ \A i \in 1 .. Len(t) : t[i] = y[i + 1]
  <2>1. \A z : IsSequence(z) /\ z # <<>> =>
          Len(Tail(z)) = Len(z) - 1 /\ \A i \in 1 .. Len(Tail(z)) : Tail(z)[i] = z[i + 1]
    BY HeadTailProperties DEF IsSequence
  <2> QED BY <1>1, <1>2, <2>1
<1> HIDE DEF t
<1>4. Len(x) \in Nat /\ DOMAIN x = 1 .. Len(x) /\ Len(y) \in Nat /\ DOMAIN y = 1 .. Len(y)
  BY <1>1, SequenceShape
<1>5. Len(x) = Len(y)  BY <1>3, <1>4
<1>6. ASSUME NEW i \in 1 .. Len(x)  PROVE x[i] = y[i]
  <2>1. CASE i = 1  BY <1>1, <2>1
  <2>2. CASE i # 1
    <3>1. i - 1 \in 1 .. Len(t) /\ (i - 1) + 1 = i  BY <1>3, <1>4, <2>2
    <3>2. t[i - 1] = x[(i - 1) + 1] /\ t[i - 1] = y[(i - 1) + 1]  BY <1>3, <3>1
    <3> QED BY <3>1, <3>2
  <2> QED BY <2>1, <2>2
<1>7. x = [i \in 1 .. Len(x) |-> x[i]] /\ y = [i \in 1 .. Len(y) |-> y[i]]
  BY <1>1, <1>4, LenProperties DEF IsSequence
<1>8. x = y  BY <1>5, <1>6, <1>7
<1> QED BY <1>8 DEF x, y

-----------------------------------------------------------------------------
(* The invariant.                                                          *)

\* What FirstSourceThatExists says of one side.
FirstExists(s) ==
  resolved[s].ok /\ resolved[s].source = "compiler_retrieval" =>
    /\ Len(asked[s]) \in 1 .. Len(Refs(s))
    /\ \A i \in DOMAIN asked[s] : asked[s][i].ref = Refs(s)[i]
    /\ \A i \in 1 .. Len(asked[s]) - 1 :
         asked[s][i].response.status = 404 /\ asked[s][i].response.body # "router"
    /\ asked[s][Len(asked[s])].response.status = 200
    /\ resolved[s].digest = HashOf("sha256", asked[s][Len(asked[s])].response.bytes)

\* The property is that of every side.
LEMMA FirstOfEverySide ==
  /\ FirstSourceThatExists <=> \A s \in Sides : FirstExists(s)
  /\ FirstSourceThatExists' <=> \A s \in Sides : FirstExists(s)'
BY DEF FirstSourceThatExists, FirstExists, Refs

\* A side that a step leaves alone.
LEMMA SideKept ==
  ASSUME NEW s \in Sides, FirstExists(s), asked'[s] = asked[s],
         (resolved'[s] = resolved[s] /\ side'[s] = side[s]) \/ ~resolved'[s].ok
  PROVE  FirstExists(s)'
BY DEF FirstExists, Refs

\* Whether content is looked at depends on the two files only.
LEMMA SameSides ==
  ASSUME side' = side
  PROVE  LooksAtContent' = LooksAtContent /\ \A s : Refs(s)' = Refs(s)
BY DEF LooksAtContent, Refs

\* Nothing has been asked for, and nothing told, in the beginning.
LEMMA InitEstablishesInv == Init => EvidenceInv
<1> SUFFICES ASSUME Init  PROVE EvidenceInv
  OBVIOUS
<1>1. Shapes
  <2>1. server \in [Environments -> [Sources -> Responses]]  BY ResponsesAreHTTP DEF Init
  <2>2. asked \in [Sides -> Seq(Request)] /\ todo \in Seq(Named)  BY EmptySeq DEF Init
  <2> QED BY <2>1, <2>2 DEF Init, Shapes, Phases
<1>2. SidesAreOfCatalogs  BY DEF Init, SidesAreOfCatalogs
<1>3. \A s \in Sides : Untouched(s)  BY DEF Init, Untouched
<1>4. OneSideAtATime  BY <1>3 DEF Init, OneSideAtATime, Sides
<1>5. StillAsking  BY DEF Init, StillAsking
<1>6. \A s \in Sides : ~resolved[s].ok  BY NotYetFields DEF Init
<1>7. VerifiedIsDigest  BY <1>6 DEF VerifiedIsDigest
<1>8. BaselineIsNotFetched  BY <1>3 DEF BaselineIsNotFetched, Untouched, Sides
<1>9. FirstSourceThatExists  BY <1>6, FirstOfEverySide DEF FirstExists
<1>10. ToldOfTheSides  BY DEF Init, ToldOfTheSides
<1> QED BY <1>1, <1>2, <1>4, <1>5, <1>7, <1>8, <1>9, <1>10 DEF EvidenceInv

\* What resolving a side comes to before anyone is asked.
LEMMA Resolving ==
  ASSUME Shapes, NEW s \in Sides, NEW given, WellFormed(given.file), Resolve(s, given)
  PROVE  /\ resolved' = [q \in Sides |-> resolved'[q]]
         /\ \A q \in Sides \ {s} : resolved'[q] = resolved[q]
         /\ \/ /\ todo' = <<>>
               /\ resolved'[s].source # "compiler_retrieval"
               /\ resolved'[s].ok => IsDigest(resolved'[s])
            \/ /\ todo' # <<>> /\ todo' = References(Under(given.file.p, "source"))
               /\ ~given.context.historical
               /\ resolved'[s] = resolved[s]
<1> DEFINE local == LocalEvidence(given, TRUE)
<1>1. /\ todo' = local.ask
      /\ resolved' = [resolved EXCEPT ![s] = IF local.ask = <<>> THEN local.evidence ELSE @]
  BY DEF Resolve
<1>2. /\ local.ask # <<>> =>
              /\ local.ask = References(Under(given.file.p, "source"))
              /\ ~given.context.historical
      /\ local.evidence.source # "compiler_retrieval"
      /\ IsKnown(local.evidence)
  BY LocalAnswers
<1> HIDE DEF local
<1>3. /\ \A q \in Sides \ {s} : resolved'[q] = resolved[q]
      /\ resolved' = [q \in Sides |-> resolved'[q]]
      /\ resolved'[s] = IF local.ask = <<>> THEN local.evidence ELSE resolved[s]
  BY <1>1 DEF Shapes
<1> QED BY <1>1, <1>2, <1>3 DEF IsKnown

\* A side that is resolved for the first time asks for all of its references,
\* from the first one on, or for none.
LEMMA BeginsToAsk ==
  ASSUME EvidenceInv, NEW s \in {"capture", "candidate"}, NEW file \in Files, NEW e \in Environments,
         todo = <<>>, Untouched(s), UNCHANGED asked,
         side'[s] = Side(file, e, FALSE),
         \A q \in Sides \ {s} : side'[q] = side[q] \/ ~resolved[q].ok,
         Working' = s, phase' \in Phases, side' = [q \in Sides |-> side'[q]],
         Resolve(s, side'[s])
  PROVE  /\ resolved' = [q \in Sides |-> resolved'[q]] /\ todo' \in Seq(Named)
         /\ \A q \in Sides \ {s} : resolved'[q] = resolved[q]
         /\ StillAsking' /\ VerifiedIsDigest' /\ BaselineIsNotFetched' /\ FirstSourceThatExists'
<1> USE DEF EvidenceInv
<1>1. s \in Sides  BY DEF Sides
<1>2. WellFormed(file) /\ side'[s].file = file  BY FilesAreWellFormed DEF Side
<1> DEFINE given == side'[s]
<1>3. WellFormed(given.file) /\ Resolve(s, given)  BY <1>2
<1> HIDE DEF given
<1>4. /\ resolved' = [q \in Sides |-> resolved'[q]]
      /\ \A q \in Sides \ {s} : resolved'[q] = resolved[q]
      /\ \/ /\ todo' = <<>>
            /\ resolved'[s].source # "compiler_retrieval"
            /\ resolved'[s].ok => IsDigest(resolved'[s])
         \/ /\ todo' # <<>> /\ todo' = References(Under(given.file.p, "source"))
            /\ ~given.context.historical
            /\ resolved'[s] = resolved[s]
  BY <1>1, <1>3, Resolving
<1>5. ~resolved[s].ok /\ asked[s] = <<>>  BY NotYetFields DEF Untouched
<1>6. todo' \in Seq(Named)
  <2>1. CASE todo' = <<>>  BY <2>1, EmptySeq
  <2>2. CASE todo' # <<>>
    <3> DEFINE refs == References(Under(file.p, "source"))
    <3>1. todo' = refs  BY <1>2, <1>4, <2>2 DEF given
    <3>2. refs \in Seq({refs[i] : i \in DOMAIN refs})  BY <1>2, ReferencesAreTexts DEF IsSequence
    <3>3. {refs[i] : i \in DOMAIN refs} \subseteq Named  BY DEF Named
    <3> HIDE DEF refs
    <3> QED BY <3>1, <3>2, <3>3, SeqMonotonic
  <2> QED BY <2>1, <2>2
<1>7. StillAsking'
  <2> HIDE DEF EvidenceInv
  <2>1. CASE todo' = <<>>  BY <2>1 DEF StillAsking
  <2>2. CASE todo' # <<>>
    <3>1. todo' = Refs(s)'  BY <1>4, <2>2 DEF Refs, given
    <3>2. resolved'[s] = NotYet  BY <1>4, <2>2 DEF Untouched
    <3>3. asked'[s] = <<>> /\ Len(asked'[s]) = 0 /\ Len(todo') \in Nat  BY <1>5, <1>6, LenProperties
    <3>4. \A i \in 1 .. Len(todo') : todo'[i] = Refs(s)'[Len(asked'[s]) + i]  BY <3>1, <3>3
    <3>5. Len(asked'[s]) + Len(todo') = Len(Refs(s)')  BY <3>1, <3>3
    <3>6. 1 .. Len(asked'[s]) = {}  BY <3>3
    <3> QED BY ONLY Working' = s, <3>2, <3>4, <3>5, <3>6 DEF StillAsking
  <2> QED BY <2>1, <2>2
<1>8. VerifiedIsDigest'  BY <1>1, <1>4, <1>5 DEF VerifiedIsDigest, IsDigest
<1>9. BaselineIsNotFetched'  BY DEF BaselineIsNotFetched
<1>10. FirstSourceThatExists'
  <2>1. \A q \in Sides : FirstExists(q)  BY FirstOfEverySide
  <2>2. ASSUME NEW q \in Sides \ {s}  PROVE FirstExists(q)'
    BY <1>4, <2>1, SideKept
  <2>3. FirstExists(s)'  BY <1>4, <1>5 DEF FirstExists
  <2>4. \A q \in Sides : FirstExists(q)'  BY <2>2, <2>3
  <2> QED BY <2>4, FirstOfEverySide
<1> QED BY <1>4, <1>6, <1>7, <1>8, <1>9, <1>10


\* One answer: an absence goes on to the next reference, anything else ends
\* the search, and only bytes that were sent are verified.
LEMMA AskKeepsInv ==
  ASSUME EvidenceInv, AskNext
  PROVE  EvidenceInv'
<1> USE DEF EvidenceInv
<1>0. PICK s \in {"capture", "candidate"} : s = Working
  BY DEF AskNext, Ask, OneSideAtATime
<1> DEFINE ref == Head(todo)
           n == Len(asked[s])
<1>1. todo # <<>> /\ Ask(s)  BY <1>0 DEF AskNext, Ask
<1>2. s \in {"capture", "candidate"} /\ s \in Sides  BY <1>0 DEF Sides
<1>3. UNCHANGED <<server, deploys, phase, side, from, suppress, told>>  BY <1>1 DEF Ask
<1>4. phase \in {"capturing", "candidate"} /\ (s = "capture" <=> phase = "capturing")
  BY <1>0 DEF Working
<1>5. PICK file \in Files, e \in Environments : side[s] = Side(file, e, FALSE)
  BY <1>2, <1>4 DEF SidesAreOfCatalogs
<1>6. side[s].file = file /\ side[s].context.environment = e  BY <1>5 DEF Side
<1>7. WellFormed(file)  BY FilesAreWellFormed
<1> DEFINE refs == References(Under(file.p, "source"))
           answers == {Failure} \cup
             (IF ParsePuppetSourceURI(ref) = "" THEN {server[e][ref]} ELSE {})
           evidence(response) == Digest(ref, response)
           next(response) == IF evidence(response).reason = "not_found" THEN Tail(todo) ELSE <<>>
<1>8. PICK response \in answers :
        /\ todo' = next(response)
        /\ resolved' = [resolved EXCEPT ![s] = IF next(response) = <<>> THEN evidence(response) ELSE @]
        /\ asked' = IF ParsePuppetSourceURI(ref) = ""
                    THEN [asked EXCEPT ![s] = Append(@, [ref |-> ref, response |-> response])]
                    ELSE asked
  BY <1>1, <1>6 DEF Ask
<1>9. Refs(s) = refs  BY <1>6 DEF Refs
<1>10. IsSequence(refs) /\ DOMAIN refs = 1 .. Len(refs) /\ Len(refs) \in Nat
  BY <1>7, ReferencesAreTexts, SequenceShape
<1> HIDE DEF refs
<1>11. /\ asked[s] \in Seq(Request) /\ n \in Nat /\ DOMAIN asked[s] = 1 .. n
       /\ todo \in Seq(Named) /\ Len(todo) \in Nat \ {0}
  BY <1>1, <1>2, LenProperties, EmptySeq DEF Shapes
<1>12. /\ resolved[s] = NotYet
       /\ n + Len(todo) = Len(refs)
       /\ \A i \in 1 .. Len(todo) : todo[i] = refs[n + i]
       /\ \A i \in 1 .. n : asked[s][i].ref = refs[i] /\ SourceAbsent(asked[s][i].response)
  BY <1>0, <1>1, <1>9 DEF StillAsking
<1>13. ref = refs[n + 1] /\ n + 1 \in 1 .. Len(refs) /\ ref \in Named
  <2>1. todo \in Seq(Named) /\ todo # <<>>  BY <1>1, <1>11
  <2> DEFINE l == Len(todo)
             m == Len(refs)
  <2>2. ref \in Named /\ ref = todo[1]  BY <2>1, HeadIsFirst
  <2>3. n \in Nat /\ l \in Nat \ {0} /\ m \in Nat /\ n + l = m  BY <1>10, <1>11, <1>12
  <2> HIDE DEF ref, n, l, m
  <2>4. 1 \in 1 .. l /\ n + 1 \in 1 .. m
    <3>1. n \in Nat /\ l \in Nat /\ m \in Nat /\ l # 0 /\ n + l = m  BY <2>3
    <3> QED BY <3>1, NextIsThere
  <2>5. \A i \in 1 .. l : todo[i] = refs[n + i]  BY <1>12 DEF n, l
  <2> QED BY <2>2, <2>4, <2>5 DEF m
<1> HIDE DEF ref
<1>14. ParsePuppetSourceURI(ref) = "" => ref \in Sources
  BY <1>5, <1>10, <1>13, SourcesAreWellFormed DEF refs
<1>15. response \in Responses \cup {Failure}  
  <2>1. response = Failure \/ (ParsePuppetSourceURI(ref) = "" /\ response = server[e][ref])
    BY <1>8
  <2>2. server \in [Environments -> [Sources -> Responses]]  BY DEF Shapes
  <2>3. \A r \in Sources : server[e][r] \in Responses  BY <1>5, <2>2
  <2> HIDE DEF answers
  <2> QED BY <1>14, <2>1, <2>3
<1>16. IsSequence(response.bytes) \/ response = Failure  BY <1>15, ResponsesAreHTTP
<1> DEFINE q1 == [ref |-> ref, response |-> response]
<1>17. q1 \in Request  BY <1>13, <1>15 DEF Request
<1> HIDE DEF answers
<1>18. \A q \in Sides \ {s} : resolved'[q] = resolved[q] /\ asked'[q] = asked[q]
  BY <1>2, <1>8 DEF Shapes
<1>19. /\ resolved' = [q \in Sides |-> resolved'[q]]
       /\ resolved'[s] = IF next(response) = <<>> THEN evidence(response) ELSE resolved[s]
       /\ asked'[s] = IF ParsePuppetSourceURI(ref) = "" THEN Append(asked[s], q1) ELSE asked[s]
  BY <1>2, <1>8 DEF Shapes
<1>20. /\ Append(asked[s], q1) \in Seq(Request) /\ Len(Append(asked[s], q1)) = n + 1
       /\ \A i \in 1 .. n : Append(asked[s], q1)[i] = asked[s][i]
       /\ Append(asked[s], q1)[n + 1] = q1
       /\ DOMAIN Append(asked[s], q1) = 1 .. n + 1
  <2> HIDE DEF q1, n
  <2>1. Append(asked[s], q1) \in Seq(Request)  BY <1>11, <1>17, AppendProperties
  <2> QED BY <1>11, <1>17, <2>1, AppendProperties, LenProperties DEF n
<1>21. /\ Tail(todo) \in Seq(Named) /\ Len(Tail(todo)) = Len(todo) - 1
       /\ \A i \in 1 .. Len(Tail(todo)) : Tail(todo)[i] = todo[i + 1]
  BY <1>1, <1>11, HeadTailProperties
<1> DEFINE t == Tail(todo)
\* The three outcomes of a request.
<1>22. \/ /\ todo' = <<>> /\ ~resolved'[s].ok
       \/ /\ ParsePuppetSourceURI(ref) = "" /\ SourceAbsent(response)
          /\ todo' = t /\ todo' # <<>> /\ resolved'[s] = resolved[s]
       \/ /\ ParsePuppetSourceURI(ref) = "" /\ response.status = 200
          /\ todo' = <<>> /\ resolved'[s].ok /\ resolved'[s].algorithm = "sha256"
          /\ resolved'[s].digest = HashOf("sha256", response.bytes)
  <2> DEFINE v == Digest(ref, response)
  <2>1. /\ todo' = IF v.reason = "not_found" THEN t ELSE <<>>
        /\ resolved'[s] = IF todo' = <<>> THEN v ELSE resolved[s]
    BY <1>8, <1>19
  <2>2. \/ ~v.ok /\ v.reason # "not_found"
        \/ ParsePuppetSourceURI(ref) = "" /\ SourceAbsent(response) /\ ~v.ok /\ v.reason = "not_found"
        \/ /\ ParsePuppetSourceURI(ref) = "" /\ ~SourceAbsent(response) /\ response.status = 200
           /\ v.ok /\ v.reason = "" /\ v.algorithm = "sha256"
           /\ v.digest = HashOf("sha256", response.bytes)
    BY AnswerFields
  <2> HIDE DEF v, t
  <2>3. CASE ~v.ok /\ v.reason # "not_found"  BY <2>1, <2>3
  <2>4. CASE ParsePuppetSourceURI(ref) = "" /\ SourceAbsent(response) /\ ~v.ok /\ v.reason = "not_found"
    BY <2>1, <2>4
  <2>5. CASE /\ ParsePuppetSourceURI(ref) = "" /\ response.status = 200
             /\ v.ok /\ v.reason = "" /\ v.algorithm = "sha256"
             /\ v.digest = HashOf("sha256", response.bytes)
    <3>1. v.reason # "not_found"  BY <2>5
    <3>2. todo' = <<>> /\ resolved'[s] = v  BY <2>1, <3>1
    <3> QED BY <2>5, <3>2
  <2> QED BY <2>2, <2>3, <2>4, <2>5
<1> HIDE DEF evidence, q1, n, t
<1> HIDE DEF next
<1>23. Shapes'
  <2>1. todo' \in Seq(Named)  BY <1>21, <1>22, EmptySeq DEF t
  <2>2. asked' \in [Sides -> Seq(Request)]  BY <1>2, <1>8, <1>11, <1>20 DEF Shapes, q1
  <2> QED BY <1>3, <1>19, <2>1, <2>2 DEF Shapes
<1>24. SidesAreOfCatalogs'  BY <1>3 DEF SidesAreOfCatalogs
<1>25. Working' = s  BY <1>0, <1>3 DEF Working
<1>26. OneSideAtATime'
  <2>1. \A q \in Sides \ {s} : Untouched(q) => Untouched(q)'  BY <1>18, NotYetFields DEF Untouched
  <2> QED BY <1>2, <1>3, <1>4, <1>25, <2>1 DEF OneSideAtATime, Sides
<1>27. StillAsking'
  <2> SUFFICES ASSUME todo' # <<>>
               PROVE  /\ resolved'[s] = NotYet
                      /\ Len(asked'[s]) + Len(todo') = Len(Refs(s)')
                      /\ \A i \in 1 .. Len(todo') : todo'[i] = Refs(s)'[Len(asked'[s]) + i]
                      /\ \A i \in 1 .. Len(asked'[s]) :
                           asked'[s][i].ref = Refs(s)'[i] /\ SourceAbsent(asked'[s][i].response)
    <3> DEFINE asks(q) ==
                 /\ resolved[q] = NotYet
                 /\ Len(asked[q]) + Len(todo) = Len(Refs(q))
                 /\ \A i \in 1 .. Len(todo) : todo[i] = Refs(q)[Len(asked[q]) + i]
                 /\ \A i \in 1 .. Len(asked[q]) :
                      asked[q][i].ref = Refs(q)[i] /\ SourceAbsent(asked[q][i].response)
    <3>1. (todo # <<>> => asks(Working))' => StillAsking'  BY DEF StillAsking
    <3>2. asks(s)' => (todo # <<>> => asks(Working))'  BY <1>25
    <3>3. (todo' # <<>> => asks(s)') => asks(s)' \/ todo' = <<>>  OBVIOUS
    <3> QED BY <3>1, <3>2, <3>3 DEF NotYet, SourceAbsent
  <2>1. Refs(s)' = refs  BY <1>3, <1>9, SameSides
  <2>2. SourceAbsent(response) /\ todo' = t /\ resolved'[s] = NotYet /\ asked'[s] = Append(asked[s], q1)
    BY <1>12, <1>19, <1>22
  <2>3. Len(asked'[s]) = n + 1 /\ Len(todo') = Len(todo) - 1  BY <1>20, <1>21, <2>2 DEF t
  <2>4. ASSUME NEW i \in 1 .. Len(todo')  PROVE todo'[i] = refs[(n + 1) + i]
    <3>1. i + 1 \in 1 .. Len(todo) /\ n + (i + 1) = (n + 1) + i  BY <1>11, <2>3
    <3>2. todo'[i] = todo[i + 1]  BY <1>21, <2>2, <2>3 DEF t
    <3>3. todo[i + 1] = refs[n + (i + 1)]  BY <1>12, <3>1
    <3> QED BY <3>1, <3>2, <3>3
  <2>5. ASSUME NEW i \in 1 .. n + 1
        PROVE  asked'[s][i].ref = refs[i] /\ SourceAbsent(asked'[s][i].response)
    <3>1. CASE i = n + 1  BY <1>13, <1>20, <2>2, <3>1 DEF q1
    <3>2. CASE i # n + 1
      <4>1. i \in 1 .. n  BY <1>11, <3>2
      <4> QED BY <1>12, <1>20, <2>2, <4>1
    <3> QED BY <3>1, <3>2
  <2>6. Len(asked'[s]) + Len(todo') = Len(refs)
    <3> DEFINE l == Len(todo)
               m == Len(refs)
    <3>1. n \in Nat /\ l \in Nat \ {0} /\ n + l = m  BY <1>11, <1>12 DEF n
    <3>2. Len(asked'[s]) = n + 1 /\ Len(todo') = l - 1  BY <2>3
    <3> HIDE DEF l, m
    <3>3. (n + 1) + (l - 1) = m  BY <3>1
    <3> QED BY <3>2, <3>3 DEF m
  <2> QED BY <2>1, <2>2, <2>3, <2>4, <2>5, <2>6
<1>28. VerifiedIsDigest'
  <2>1. resolved'[s].ok => IsDigest(resolved'[s])
    <3>1. CASE /\ response.status = 200 /\ resolved'[s].algorithm = "sha256"
               /\ resolved'[s].digest = HashOf("sha256", response.bytes)
      <4>1. Failure.status = 500  BY DEF Failure
      <4>2. response # Failure  BY <3>1, <4>1
      <4> DEFINE d == resolved'[s]
      <4>3. d.algorithm = "sha256" /\ d.digest = HashOf("sha256", response.bytes)  BY <3>1
      <4> HIDE DEF d
      <4>4. IsDigest(d)  BY <1>16, <4>2, <4>3, HashIsDigest
      <4> QED BY <4>4 DEF d
    <3>2. CASE resolved'[s] = resolved[s]
      BY <1>12, <3>2, NotYetFields
    <3> QED BY <1>22, <3>1, <3>2
  <2> QED BY <1>18, <2>1 DEF VerifiedIsDigest, IsDigest
<1>29. BaselineIsNotFetched'  BY <1>2, <1>18 DEF BaselineIsNotFetched, Sides
<1>30. FirstExists(s)'
  <2>1. CASE ~resolved'[s].ok  BY <2>1 DEF FirstExists
  <2>2. CASE resolved'[s] = resolved[s]
    BY <1>12, <2>2, NotYetFields DEF FirstExists
  <2>3. CASE /\ ParsePuppetSourceURI(ref) = "" /\ response.status = 200
             /\ resolved'[s].digest = HashOf("sha256", response.bytes)
    <3>1. Refs(s)' = refs  BY <1>3, <1>9, SameSides
    <3>2. asked'[s] = Append(asked[s], q1)  BY <1>19, <2>3
    <3> DEFINE mine == asked'[s]
    <3>3. /\ Len(mine) = n + 1 /\ DOMAIN mine = 1 .. n + 1 /\ mine[n + 1] = q1
          /\ \A i \in 1 .. n : mine[i] = asked[s][i]
      BY <1>20, <3>2
    <3> HIDE DEF mine
    <3>4. Len(mine) \in 1 .. Len(refs)  BY <1>13, <3>3
    <3>5. \A i \in DOMAIN mine : mine[i].ref = refs[i]
      <4> TAKE i \in DOMAIN mine
      <4>1. CASE i = n + 1  BY <1>13, <3>3, <4>1 DEF q1
      <4>2. CASE i # n + 1
        <5>1. i \in 1 .. n  BY <1>11, <3>3, <4>2
        <5> QED BY <1>12, <3>3, <5>1
      <4> QED BY <4>1, <4>2
    <3>6. \A i \in 1 .. Len(mine) - 1 :
            mine[i].response.status = 404 /\ mine[i].response.body # "router"
      <4> TAKE i \in 1 .. Len(mine) - 1
      <4>1. i \in 1 .. n  BY <1>11, <3>3
      <4>2. mine[i] = asked[s][i] /\ SourceAbsent(asked[s][i].response)  BY <1>12, <3>3, <4>1
      <4> QED BY <4>2 DEF SourceAbsent
    <3>7. mine[Len(mine)].response = response  BY <3>3 DEF q1
    <3> QED BY <2>3, <3>1, <3>4, <3>5, <3>6, <3>7 DEF FirstExists, mine
  <2> QED BY <1>22, <2>1, <2>2, <2>3
<1>31. FirstSourceThatExists'
  <2>1. \A q \in Sides : FirstExists(q)  BY FirstOfEverySide
  <2>2. ASSUME NEW q \in Sides \ {s}  PROVE FirstExists(q)'
    BY <1>3, <1>18, <2>1, SideKept
  <2>3. \A q \in Sides : FirstExists(q)'  BY <1>30, <2>2
  <2> QED BY <2>3, FirstOfEverySide
<1>32. ToldOfTheSides'  BY <1>3, <1>4 DEF ToldOfTheSides
<1> QED BY <1>23, <1>24, <1>26, <1>27, <1>28, <1>29, <1>31, <1>32


\* No other step undoes any of it: a deployment changes what will be answered
\* only, and a comparison starts with two sides that nobody has asked for.
LEMMA StepKeepsInv == EvidenceInv /\ [Next]_vars => EvidenceInv'
<1> SUFFICES ASSUME EvidenceInv, [Next]_vars  PROVE EvidenceInv'
  OBVIOUS
<1> USE DEF EvidenceInv
\* The sides, and what was found about them, are as they were.
<1>1. ASSUME UNCHANGED <<side, resolved, asked, todo>>, phase' \in Phases,
             server' \in [Environments -> [Sources -> Responses]],
             SidesAreOfCatalogs', OneSideAtATime', ToldOfTheSides',
             todo # <<>> => Working' = Working
      PROVE  EvidenceInv'
  <2>1. Shapes'  BY <1>1 DEF Shapes
  <2>2. StillAsking'
    <3> DEFINE asks(q) ==
                 /\ resolved[q] = NotYet
                 /\ Len(asked[q]) + Len(todo) = Len(Refs(q))
                 /\ \A i \in 1 .. Len(todo) : todo[i] = Refs(q)[Len(asked[q]) + i]
                 /\ \A i \in 1 .. Len(asked[q]) :
                      asked[q][i].ref = Refs(q)[i] /\ SourceAbsent(asked[q][i].response)
    <3>1. (todo # <<>> => asks(Working))' => StillAsking'  BY DEF StillAsking
    <3>2. todo # <<>> => asks(Working)  BY DEF StillAsking
    <3>3. \A q : asks(q) =>
            /\ resolved'[q] = NotYet
            /\ Len(asked'[q]) + Len(todo') = Len(Refs(q)')
            /\ \A i \in 1 .. Len(todo') : todo'[i] = Refs(q)'[Len(asked'[q]) + i]
            /\ \A i \in 1 .. Len(asked'[q]) :
                 asked'[q][i].ref = Refs(q)'[i] /\ SourceAbsent(asked'[q][i].response)
      BY <1>1, SameSides
    <3>4. todo' # <<>> => asks(Working)'
      <4> SUFFICES ASSUME todo # <<>>  PROVE asks(Working)'
        BY <1>1
      <4>1. asks(Working) /\ Working' = Working  BY <1>1, <3>2
      <4> HIDE DEF asks
      <4>2. PICK q : q = Working  OBVIOUS
      <4>3. asks(q) /\ Working' = q  BY <4>1, <4>2
      <4>4. /\ resolved'[q] = NotYet
            /\ Len(asked'[q]) + Len(todo') = Len(Refs(q)')
            /\ \A i \in 1 .. Len(todo') : todo'[i] = Refs(q)'[Len(asked'[q]) + i]
            /\ \A i \in 1 .. Len(asked'[q]) :
                 asked'[q][i].ref = Refs(q)'[i] /\ SourceAbsent(asked'[q][i].response)
        BY <3>3, <4>3
      <4>5. asks(q)'  BY <4>4 DEF asks, NotYet, SourceAbsent
      <4> QED BY <4>3, <4>5 DEF asks
    <3> QED BY <3>1, <3>4
  <2>3. VerifiedIsDigest'  BY <1>1 DEF VerifiedIsDigest, IsDigest
  <2>4. BaselineIsNotFetched'  BY <1>1 DEF BaselineIsNotFetched
  <2>5. FirstSourceThatExists'
    <3>1. \A q \in Sides : FirstExists(q)  BY FirstOfEverySide
    <3>2. \A q \in Sides : FirstExists(q)'  BY <1>1, <3>1, SideKept
    <3> QED BY <3>2, FirstOfEverySide
  <2> QED BY <1>1, <2>1, <2>2, <2>3, <2>4, <2>5
<1>2. ASSUME UNCHANGED <<phase, side, todo, resolved, asked, from, suppress, told>>,
             server' \in [Environments -> [Sources -> Responses]]
      PROVE  EvidenceInv'
  <2>1. SidesAreOfCatalogs'  BY <1>2 DEF SidesAreOfCatalogs
  <2>2. OneSideAtATime'  BY <1>2 DEF OneSideAtATime, Untouched, NotYet, Working
  <2>3. LooksAtContent' = LooksAtContent  BY <1>2, SameSides
  <2>4. ToldOfTheSides'  BY <1>2, <2>3 DEF ToldOfTheSides
  <2> QED BY <1>1, <1>2, <2>1, <2>2, <2>4 DEF Shapes, Working
<1>3. ASSUME NEW e \in Environments, NEW ref \in Sources, Deploy(e, ref)
      PROVE  EvidenceInv'
  <2>1. PICK response \in Responses : server' = [server EXCEPT ![e][ref] = response]
    BY <1>3 DEF Deploy
  <2>2. server' \in [Environments -> [Sources -> Responses]]  BY <2>1 DEF Shapes
  <2> QED BY <1>2, <1>3, <2>2 DEF Deploy
<1>4. ASSUME NEW file \in Files, NEW e \in Environments, Capture(file, e)
      PROVE  EvidenceInv'
  <2>1. /\ phase = "idle" /\ side' = [side EXCEPT !["capture"] = Side(file, e, FALSE)]
        /\ phase' = "capturing"
        /\ UNCHANGED <<server, deploys, asked, from, suppress, told>>
    BY <1>4 DEF Capture
  <2>2. /\ side'["capture"] = Side(file, e, FALSE) /\ side' = [q \in Sides |-> side'[q]]
        /\ \A q \in Sides \ {"capture"} : side'[q] = side[q]
    BY <2>1 DEF Shapes, Sides
  <2>3. todo = <<>> /\ \A s \in Sides : Untouched(s)  BY <2>1 DEF OneSideAtATime, Working, Sides
  <2>4. SidesAreOfCatalogs'  BY <2>1, <2>2 DEF SidesAreOfCatalogs
  <2>5. ToldOfTheSides'  BY <2>1 DEF ToldOfTheSides
  <2>6. Working' = "capture"  BY <2>1 DEF Working
  <2>7. CASE NeedsEvidence(file)
    <3>1. Resolve("capture", side'["capture"])  BY <1>4, <2>2, <2>7 DEF Capture
    <3>2. \A q \in Sides : ~resolved[q].ok  BY <2>3, NotYetFields DEF Untouched
    <3>3. phase' \in Phases  BY <2>1 DEF Phases
    <3>4. /\ resolved' = [q \in Sides |-> resolved'[q]] /\ todo' \in Seq(Named)
          /\ \A q \in Sides \ {"capture"} : resolved'[q] = resolved[q]
          /\ StillAsking' /\ VerifiedIsDigest' /\ BaselineIsNotFetched' /\ FirstSourceThatExists'
      BY <2>1, <2>2, <2>3, <2>6, <3>1, <3>2, <3>3, BeginsToAsk DEF Sides
    <3>5. Shapes'  BY <2>1, <2>2, <3>3, <3>4 DEF Shapes
    <3>6. OneSideAtATime'
      <4>1. \A q \in Sides \ {"capture"} : Untouched(q)'
        BY <2>1, <2>3, <3>4, NotYetFields DEF Untouched
      <4> QED BY <2>1, <2>6, <4>1 DEF OneSideAtATime, Sides
    <3> QED BY <2>4, <2>5, <3>4, <3>5, <3>6
  <2>8. CASE ~NeedsEvidence(file)
    <3>1. UNCHANGED <<todo, resolved>>  BY <1>4, <2>8 DEF Capture
    <3>2. Shapes'  BY <2>1, <2>2, <3>1 DEF Shapes, Phases
    <3>3. \A q \in Sides : Untouched(q)'
      BY <2>1, <2>3, <3>1, NotYetFields DEF Untouched
    <3>4. OneSideAtATime'  BY <2>1, <2>3, <3>1, <3>3 DEF OneSideAtATime, Sides
    <3>5. StillAsking'  BY <2>3, <3>1 DEF StillAsking
    <3>6. \A q \in Sides : ~resolved'[q].ok
      BY <2>3, <3>1, NotYetFields DEF Untouched
    <3>7. VerifiedIsDigest'  BY <3>6 DEF VerifiedIsDigest
    <3>8. BaselineIsNotFetched'  BY <2>1 DEF BaselineIsNotFetched
    <3>9. FirstSourceThatExists'
      <4>1. \A q \in Sides : FirstExists(q)'  BY <3>6 DEF FirstExists
      <4> QED BY <4>1, FirstOfEverySide
    <3> QED BY <2>4, <2>5, <3>2, <3>4, <3>5, <3>7, <3>8, <3>9
  <2> QED BY <2>7, <2>8
<1>5. CASE EndCapture
  <2>1. /\ phase = "capturing" /\ todo = <<>> /\ phase' \in {"refused", "captured"}
        /\ UNCHANGED <<server, deploys, side, todo, resolved, asked, from, suppress, told>>
    BY <1>5 DEF EndCapture
  <2>2. SidesAreOfCatalogs'  BY <2>1 DEF SidesAreOfCatalogs
  <2>3. OneSideAtATime'  BY <2>1 DEF OneSideAtATime, Untouched, NotYet
  <2>4. ToldOfTheSides'  BY <2>1 DEF ToldOfTheSides
  <2>5. phase' \in Phases  BY <2>1 DEF Phases
  <2> QED BY <1>1, <2>1, <2>2, <2>3, <2>4, <2>5 DEF Shapes
<1>6. ASSUME NEW candidate \in Files, NEW e \in Environments, NEW source, NEW quiet,
             Compare(candidate, e, source, quiet)
      PROVE  EvidenceInv'
  <2> DEFINE stored == side["capture"].file
             kept == IF source = "file" THEN CapturedDigest(resolved["capture"]) ELSE <<>>
             baseline == Side([stored EXCEPT !.captured = kept],
                              side["capture"].context.environment, TRUE)
  <2>1. /\ phase \in {"captured", "refused"} /\ phase' = "compiled"
        /\ side' = [side EXCEPT !["baseline"] = baseline,
                                !["candidate"] = Side(candidate, e, FALSE)]
        /\ UNCHANGED <<server, deploys, todo, resolved, asked, told>>
    BY <1>6 DEF Compare
  <2>2. WellFormed([stored EXCEPT !.captured = kept])
    <3>1. WellFormed(stored)
      <4>1. PICK file \in Files, f \in Environments : side["capture"] = Side(file, f, FALSE)
        BY <2>1 DEF SidesAreOfCatalogs
      <4> QED BY <4>1, FilesAreWellFormed DEF Side
    <3> HIDE DEF stored
    <3>2. AreDigests(kept)
      <4>1. CASE kept = <<>>  BY <4>1 DEF AreDigests
      <4>2. CASE kept # <<>>
        <5>1. /\ resolved["capture"].ok
              /\ kept = <<[algorithm |-> resolved["capture"].algorithm,
                           digest |-> resolved["capture"].digest]>>
          BY <4>2 DEF CapturedDigest
        <5>2. IsSequence(resolved["capture"].digest)
          BY <5>1 DEF VerifiedIsDigest, IsDigest, Sides
        <5>3. kept[1].digest = resolved["capture"].digest  BY <5>1
        <5> QED BY <5>2, <5>3 DEF AreDigests
      <4> QED BY <4>1, <4>2
    <3> HIDE DEF kept
    <3>3. [stored EXCEPT !.captured = kept]
            = [p |-> stored.p, static |-> stored.static, captured |-> kept,
               recursive |-> stored.recursive]
      BY <3>1 DEF WellFormed
    <3> DEFINE f == [p |-> stored.p, static |-> stored.static, captured |-> kept,
                     recursive |-> stored.recursive]
    <3>4. /\ f.p = stored.p /\ f.static = stored.static /\ f.captured = kept
          /\ f.recursive = stored.recursive /\ f = [stored EXCEPT !.captured = kept]
          /\ f = [p |-> f.p, static |-> f.static, captured |-> f.captured, recursive |-> f.recursive]
      BY <3>3
    <3> HIDE DEF f
    <3>5. WellFormed(f)  BY <3>1, <3>2, <3>4 DEF WellFormed
    <3> QED BY <3>4, <3>5
  <2>3. WellFormed(baseline.file) /\ baseline.context.historical
    BY <2>2 DEF Side
  <2> HIDE DEF baseline
  <2>4. /\ side' = [q \in Sides |-> side'[q]] /\ side'["capture"] = side["capture"]
        /\ side'["baseline"] = baseline /\ side'["candidate"] = Side(candidate, e, FALSE)
    BY <2>1 DEF Shapes, Sides
  <2>5. todo = <<>> /\ Untouched("baseline") /\ Untouched("candidate")
    BY <2>1 DEF OneSideAtATime, Working
  <2>6. Shapes'  BY <2>1, <2>4 DEF Shapes, Phases
  <2>7. SidesAreOfCatalogs'  BY <2>1, <2>3, <2>4 DEF SidesAreOfCatalogs
  <2>8. OneSideAtATime'
    BY <2>1, <2>5 DEF OneSideAtATime, Untouched, NotYet
  <2>9. StillAsking'  BY <2>1, <2>5 DEF StillAsking
  <2>10. VerifiedIsDigest'  BY <2>1 DEF VerifiedIsDigest, IsDigest
  <2>11. BaselineIsNotFetched'  BY <2>1 DEF BaselineIsNotFetched
  <2>12. FirstSourceThatExists'
    <3>1. \A q \in Sides : FirstExists(q)  BY FirstOfEverySide
    <3>2. \A q \in {"baseline", "candidate"} : ~resolved'[q].ok
      BY <2>1, <2>5, NotYetFields DEF Untouched
    <3>3. \A q \in Sides : side'[q] = side[q] \/ ~resolved'[q].ok  BY <2>4, <3>2 DEF Sides
    <3>4. \A q \in Sides : asked'[q] = asked[q] /\ resolved'[q] = resolved[q]  BY <2>1
    <3>5. \A q \in Sides : FirstExists(q)'  BY <3>1, <3>3, <3>4, SideKept
    <3> QED BY <3>5, FirstOfEverySide
  <2>13. ToldOfTheSides'  BY <2>1 DEF ToldOfTheSides
  <2> QED BY <2>6, <2>7, <2>8, <2>9, <2>10, <2>11, <2>12, <2>13
<1>7. CASE ResolveBaseline
  <2>1. /\ phase = "compiled" /\ Resolve("baseline", side["baseline"]) /\ phase' = "baseline"
        /\ UNCHANGED <<server, deploys, side, asked, from, suppress, told>>
    BY <1>7 DEF ResolveBaseline
  <2> DEFINE given == side["baseline"]
  <2>2. WellFormed(given.file) /\ given.context.historical  BY <2>1 DEF SidesAreOfCatalogs
  <2>3. "baseline" \in Sides /\ Resolve("baseline", given)  BY <2>1 DEF Sides
  <2> HIDE DEF given
  <2>4. /\ resolved' = [q \in Sides |-> resolved'[q]]
        /\ \A q \in Sides \ {"baseline"} : resolved'[q] = resolved[q]
        /\ todo' = <<>>
        /\ resolved'["baseline"].source # "compiler_retrieval"
        /\ resolved'["baseline"].ok => IsDigest(resolved'["baseline"])
    BY <2>2, <2>3, Resolving
  <2>5. Shapes'  BY <2>1, <2>4, EmptySeq DEF Shapes, Phases
  <2>6. SidesAreOfCatalogs'  BY <2>1 DEF SidesAreOfCatalogs
  <2>7. OneSideAtATime'
    <3>1. Untouched("candidate")'
      BY <2>1, <2>4 DEF OneSideAtATime, Untouched, Sides, NotYet
    <3> QED BY <2>1, <2>4, <3>1 DEF OneSideAtATime
  <2>8. StillAsking'  BY <2>4 DEF StillAsking
  <2>9. VerifiedIsDigest'  BY <2>4 DEF VerifiedIsDigest, IsDigest
  <2>10. BaselineIsNotFetched'  BY <2>1 DEF BaselineIsNotFetched
  <2>11. FirstSourceThatExists'
    <3>1. \A q \in Sides : FirstExists(q)  BY FirstOfEverySide
    <3>2. ASSUME NEW q \in Sides \ {"baseline"}  PROVE FirstExists(q)'
      BY <2>1, <2>4, <3>1, SideKept
    <3>3. FirstExists("baseline")'  BY <2>4 DEF FirstExists
    <3>4. \A q \in Sides : FirstExists(q)'  BY <3>2, <3>3
    <3> QED BY <3>4, FirstOfEverySide
  <2>12. ToldOfTheSides'  BY <2>1 DEF ToldOfTheSides
  <2> QED BY <2>5, <2>6, <2>7, <2>8, <2>9, <2>10, <2>11, <2>12
<1>8. CASE ResolveCandidate
  <2>1. /\ phase = "baseline" /\ todo = <<>> /\ phase' = "candidate"
        /\ Resolve("candidate", side["candidate"])
        /\ UNCHANGED <<server, deploys, side, asked, from, suppress, told>>
    BY <1>8 DEF ResolveCandidate
  <2>2. PICK file \in Files, e \in Environments : side["candidate"] = Side(file, e, FALSE)
    BY <2>1 DEF SidesAreOfCatalogs
  <2>3. Untouched("candidate")  BY <2>1 DEF OneSideAtATime
  <2>4. Working' = "candidate" /\ phase' \in Phases  BY <2>1 DEF Working, Phases
  <2>5. side' = [q \in Sides |-> side'[q]]  BY <2>1 DEF Shapes
  <2>6. /\ side'["candidate"] = Side(file, e, FALSE) /\ Resolve("candidate", side'["candidate"])
        /\ \A q \in Sides : side'[q] = side[q]
    BY <2>1, <2>2
  <2>7. /\ resolved' = [q \in Sides |-> resolved'[q]] /\ todo' \in Seq(Named)
        /\ \A q \in Sides \ {"candidate"} : resolved'[q] = resolved[q]
        /\ StillAsking' /\ VerifiedIsDigest' /\ BaselineIsNotFetched' /\ FirstSourceThatExists'
    BY <2>1, <2>3, <2>4, <2>5, <2>6, BeginsToAsk
  <2>8. Shapes'  BY <2>1, <2>4, <2>5, <2>7 DEF Shapes
  <2>9. SidesAreOfCatalogs'  BY <2>1 DEF SidesAreOfCatalogs
  <2>10. OneSideAtATime'  BY <2>1, <2>4 DEF OneSideAtATime
  <2>11. ToldOfTheSides'  BY <2>1 DEF ToldOfTheSides
  <2> QED BY <2>7, <2>8, <2>9, <2>10, <2>11
<1>9. CASE Tell
  <2>1. /\ phase \in {"candidate", "compiled"} /\ phase' = "done"
        /\ UNCHANGED <<server, deploys, side, todo, resolved, asked, from, suppress>>
        /\ phase = "candidate" => todo = <<>>
    BY <1>9 DEF Tell
  <2>2. todo = <<>>  BY <2>1 DEF OneSideAtATime, Working
  <2>3. told = Untold(NoEvidence("not_managed"))  BY <2>1 DEF ToldOfTheSides
  <2>4. told' = IF LooksAtContent
                THEN ComparedEvidence(side["baseline"], side["candidate"],
                                      resolved["baseline"], resolved["candidate"], suppress)
                ELSE told
    BY <1>9 DEF Tell
  <2>5. LooksAtContent' = LooksAtContent  BY <2>1, SameSides
  <2>6. ToldOfTheSides'  BY <2>1, <2>3, <2>4, <2>5 DEF ToldOfTheSides
  <2>7. SidesAreOfCatalogs'  BY <2>1 DEF SidesAreOfCatalogs
  <2>8. OneSideAtATime'  BY <2>1, <2>2 DEF OneSideAtATime
  <2>9. phase' \in Phases  BY <2>1 DEF Phases
  <2> QED BY <1>1, <2>1, <2>2, <2>6, <2>7, <2>8, <2>9 DEF Shapes
<1>10. CASE UNCHANGED vars  BY <1>2, <1>10 DEF vars, Shapes
<1> HIDE DEF EvidenceInv
<1> QED BY <1>3, <1>4, <1>5, <1>6, <1>7, <1>8, <1>9, <1>10, AskKeepsInv DEF Next

\* In every state: each side asked for its first references in order, knows of
\* bytes by a digest only, and the comparison is told of what the sides know.
THEOREM EvidenceInvariant == Spec => []EvidenceInv
BY InitEstablishesInv, StepKeepsInv, PTL DEF Spec

-----------------------------------------------------------------------------
(* The properties.                                                         *)

\* ResolveSide never asks the compiler for a file of a historical catalog.
THEOREM BaselineIsNotFetchedHolds == Spec => []BaselineIsNotFetched
<1>1. EvidenceInv => BaselineIsNotFetched  BY DEF EvidenceInv
<1> QED BY <1>1, EvidenceInvariant, PTL

\* Resolver.Digest and its caller: sources are tried in order, and only an
\* absence lets the next one be tried, whatever is deployed meanwhile.
THEOREM FirstSourceThatExistsHolds == Spec => []FirstSourceThatExists
<1>1. EvidenceInv => FirstSourceThatExists  BY DEF EvidenceInv
<1> QED BY <1>1, EvidenceInvariant, PTL


\* What ComparedEvidence says, branch by branch.
LEMMA WhatIsTold ==
  ASSUME NEW before, NEW after, NEW b, NEW a, NEW quiet
  PROVE  LET t == ComparedEvidence(before, after, b, a, quiet)
             sides == {before, after}
             reason == ReportedFailure(b, a)
             state == IF Under(before.file.p, "source") # Under(after.file.p, "source")
                      THEN "reference_changed" ELSE "content_indeterminate"
             Silent == /\ quiet /\ \E side_ \in sides : Under(side_.file.p, "source") # Undef
         IN
         \/ (\E s \in sides : ~Manages(s.file)) /\ t.evidence.state = "not_managed"
         \/ /\ \E s \in sides : NonByteComparable(s.file)
            /\ t.evidence.state = state
            /\ t.diagnostics = <<>> => Silent
         \/ /\ Comparable(b, a)
            /\ t.evidence.state = StateFromDigests(b.digest, a.digest)
         \/ /\ b.ok /\ a.ok /\ t.evidence.state = state /\ t.diagnostics # <<>>
         \/ /\ ~(b.ok /\ a.ok)
            /\ t.evidence.state = state
            /\ t.diagnostics = <<>> => Silent /\ ClassifyEvidenceError(reason) = "warning"
<1> DEFINE t == ComparedEvidence(before, after, b, a, quiet)
           sides == {before, after}
           reason == ReportedFailure(b, a)
           referenceChanged == Under(before.file.p, "source") # Under(after.file.p, "source")
           state == IF referenceChanged THEN "reference_changed" ELSE "content_indeterminate"
           Silent == quiet /\ \E side_ \in sides : Under(side_.file.p, "source") # Undef
           known == [NoEvidence(state) EXCEPT
                       !.before = <<Known(before, b)>>, !.after = <<Known(after, a)>>,
                       !.referenceChanged = referenceChanged]
           unknown == [known EXCEPT !.before = <<Unknown(before)>>, !.after = <<Unknown(after)>>]
           compared == [known EXCEPT !.state = StateFromDigests(b.digest, a.digest),
                                     !.source = IF b.source = a.source THEN b.source ELSE "mixed",
                                     !.algorithm = b.algorithm,
                                     !.beforeDigest = b.digest, !.afterDigest = a.digest]
<1>1. \/ (\E s \in sides : ~Manages(s.file)) /\ t = Untold(NoEvidence("not_managed"))
      \/ /\ \E s \in sides : NonByteComparable(s.file)
         /\ t = Told(quiet, "warning", "non_byte_comparable", unknown, sides)
      \/ Comparable(b, a) /\ t = Untold(compared)
      \/ b.ok /\ a.ok /\ t = Told(quiet, "warning", "different_algorithms", known, sides)
      \/ ~(b.ok /\ a.ok) /\ t = Told(quiet, ClassifyEvidenceError(reason), reason, known, sides)
  BY DEF ComparedEvidence
<1>2. /\ known.state = state /\ unknown.state = state
      /\ compared.state = StateFromDigests(b.digest, a.digest)
      /\ known.before = <<Known(before, b)>> /\ known.after = <<Known(after, a)>>
  BY DEF NoEvidence
<1> HIDE DEF known, unknown, compared, t, state
<1>3. \A e : Untold(e).evidence = e  BY DEF Untold
<1>4. \A severity, why, e :
        /\ Told(quiet, severity, why, e, sides).evidence = e
        /\ Told(quiet, severity, why, e, sides).diagnostics = <<>> =>
             SuppressSourceWarning(quiet, severity, e, sides)
  BY DEF Told, VerifyContent
<1>5. \A severity, e : SuppressSourceWarning(quiet, severity, e, sides) =>
        Silent /\ severity = "warning" /\ \E s \in {e.before, e.after} : s # <<>> /\ ~s[1].verified
  BY DEF SuppressSourceWarning
<1>6. b.ok /\ a.ok => \A s \in {known.before, known.after} : s[1].verified
  BY <1>2 DEF Known
<1>7. NoEvidence("not_managed").state = "not_managed"  BY DEF NoEvidence
<1> HIDE DEF Silent
<1>8. CASE (\E s \in sides : ~Manages(s.file)) /\ t = Untold(NoEvidence("not_managed"))
  BY <1>3, <1>7, <1>8 DEF t
<1>9. CASE /\ \E s \in sides : NonByteComparable(s.file)
           /\ t = Told(quiet, "warning", "non_byte_comparable", unknown, sides)
  <2>1. t.evidence = unknown /\ (t.diagnostics = <<>> => SuppressSourceWarning(quiet, "warning", unknown, sides))
    BY <1>4, <1>9
  <2>2. t.evidence.state = state /\ (t.diagnostics = <<>> => Silent)  BY <1>2, <1>5, <2>1
  <2> QED BY <1>9, <2>2 DEF t, state, Silent
<1>10. CASE Comparable(b, a) /\ t = Untold(compared)  BY <1>2, <1>3, <1>10 DEF t
<1>11. CASE b.ok /\ a.ok /\ t = Told(quiet, "warning", "different_algorithms", known, sides)
  <2>1. t.evidence = known /\ (t.diagnostics = <<>> => SuppressSourceWarning(quiet, "warning", known, sides))
    BY <1>4, <1>11
  <2>2. ~SuppressSourceWarning(quiet, "warning", known, sides)  BY <1>5, <1>6, <1>11
  <2>3. t.evidence.state = state /\ t.diagnostics # <<>>  BY <1>2, <2>1, <2>2
  <2> QED BY <1>11, <2>3 DEF t, state
<1>12. CASE ~(b.ok /\ a.ok) /\ t = Told(quiet, ClassifyEvidenceError(reason), reason, known, sides)
  <2> DEFINE severity == ClassifyEvidenceError(reason)
  <2>1. t = Told(quiet, severity, reason, known, sides)  BY <1>12
  <2> HIDE DEF reason, severity
  <2>2. t.evidence = known /\ (t.diagnostics = <<>> => SuppressSourceWarning(quiet, severity, known, sides))
    BY <1>4, <2>1
  <2>3. /\ t.evidence.state = state
        /\ t.diagnostics = <<>> => Silent /\ severity = "warning"
    BY <1>2, <1>5, <2>2
  <2> QED BY <1>12, <2>3 DEF t, state, Silent, reason, severity
<1> QED BY <1>1, <1>8, <1>9, <1>10, <1>11, <1>12

\* ResolveFileContentEvidence: two digests are compared only when both sides
\* verified theirs by one algorithm, and then they tell whether bytes changed.
THEOREM VerdictIsAboutBytesHolds == Spec => []VerdictIsAboutBytes
<1>1. EvidenceInv => VerdictIsAboutBytes
  <2> SUFFICES ASSUME EvidenceInv, phase = "done", told.evidence.state \in {"changed", "unchanged"}
               PROVE  /\ resolved["baseline"].ok /\ resolved["candidate"].ok
                      /\ told.evidence.state = "unchanged" <=>
                           BytesOf("baseline") = BytesOf("candidate")
    BY DEF VerdictIsAboutBytes
  <2> DEFINE b == resolved["baseline"]
             a == resolved["candidate"]
  <2>1. told \in {ComparedEvidence(side["baseline"], side["candidate"], b, a, suppress),
                  Untold(NoEvidence("not_managed"))}
    BY DEF EvidenceInv, ToldOfTheSides
  <2>2. Untold(NoEvidence("not_managed")).evidence.state = "not_managed"
    BY DEF Untold, NoEvidence
  <2>3. (b.ok => IsDigest(b)) /\ (a.ok => IsDigest(a))
    BY DEF EvidenceInv, VerifiedIsDigest, Sides
  <2> HIDE DEF b, a
  <2>4. told = ComparedEvidence(side["baseline"], side["candidate"], b, a, suppress)
    BY <2>1, <2>2
  <2>5. Comparable(b, a) /\ told.evidence.state = StateFromDigests(b.digest, a.digest)
    BY <2>4, WhatIsTold
  <2>6. b.ok /\ a.ok /\ b.algorithm = a.algorithm  BY <2>5 DEF Comparable
  <2>7. b.digest = a.digest <=> Tail(b.digest) = Tail(a.digest)
    BY <2>3, <2>6, DigestsTellBytesApart
  <2>8. told.evidence.state = "unchanged" <=> b.digest = a.digest
    BY <2>5 DEF StateFromDigests
  <2> QED BY <2>6, <2>7, <2>8 DEF BytesOf, b, a
<1> QED BY <1>1, EvidenceInvariant, PTL

\* suppressSourceWarning: what a comparison leaves unsaid about a File is that
\* its bytes are the same, or, on request, that nobody could know; a failure is
\* never among it.
THEOREM SilenceMeansVerifiedHolds == Spec => []SilenceMeansVerified
<1>1. EvidenceInv => SilenceMeansVerified
  <2> DEFINE b == resolved["baseline"]
             a == resolved["candidate"]
             sides == {side["baseline"], side["candidate"]}
             state == IF Under(side["baseline"].file.p, "source") # Under(side["candidate"].file.p, "source")
                      THEN "reference_changed" ELSE "content_indeterminate"
             Silent == suppress /\ \E s \in sides : Under(s.file.p, "source") # Undef
  <2> SUFFICES ASSUME EvidenceInv, phase = "done", LooksAtContent,
                      told.diagnostics = <<>>, ~ReportsDifference(told.evidence)
               PROVE  \/ \E s \in {"baseline", "candidate"} : ~Manages(side[s].file)
                      \/ b.ok /\ a.ok /\ BytesOf("baseline") = BytesOf("candidate")
                      \/ /\ suppress
                         /\ \E s \in {"baseline", "candidate"} : Under(side[s].file.p, "source") # Undef
                         /\ LooksAtBytes => \A s \in {"baseline", "candidate"} :
                              resolved[s].ok \/ ClassifyEvidenceError(resolved[s].reason) = "warning"
    BY DEF SilenceMeansVerified
  <2>1. told = ComparedEvidence(side["baseline"], side["candidate"], b, a, suppress)
    BY DEF EvidenceInv, ToldOfTheSides
  <2>2. told.evidence.state \in {"unchanged", "not_managed", "content_indeterminate"}
    BY DEF ReportsDifference
  <2>3. (b.ok => IsDigest(b)) /\ (a.ok => IsDigest(a))
    BY DEF EvidenceInv, VerifiedIsDigest, Sides
  <2>4. \/ \E s \in sides : ~Manages(s.file)
        \/ (\E s \in sides : NonByteComparable(s.file)) /\ Silent
        \/ Comparable(b, a) /\ told.evidence.state = StateFromDigests(b.digest, a.digest)
        \/ /\ ~(b.ok /\ a.ok) /\ Silent
           /\ ClassifyEvidenceError(ReportedFailure(b, a)) = "warning"
    <3> HIDE DEF b, a
    <3> QED BY <2>1, WhatIsTold
  <2>5. Silent => /\ suppress
                  /\ \E s \in {"baseline", "candidate"} : Under(side[s].file.p, "source") # Undef
    OBVIOUS
  <2>6. CASE \E s \in sides : ~Manages(s.file)  BY <2>6
  <2>7. CASE (\E s \in sides : NonByteComparable(s.file)) /\ Silent
    BY <2>5, <2>7 DEF LooksAtBytes
  <2>8. CASE Comparable(b, a) /\ told.evidence.state = StateFromDigests(b.digest, a.digest)
    <3>1. b.ok /\ a.ok /\ b.digest = a.digest
      BY <2>2, <2>8 DEF Comparable, StateFromDigests
    <3> QED BY <3>1 DEF BytesOf
  <2>9. CASE /\ ~(b.ok /\ a.ok) /\ Silent
             /\ ClassifyEvidenceError(ReportedFailure(b, a)) = "warning"
    <3> HIDE DEF b, a
    <3>1. \A r : ClassifyEvidenceError(r) \in {"warning", "error"}  BY DEF ClassifyEvidenceError
    <3>2. /\ a.ok => ClassifyEvidenceError(b.reason) = "warning"
          /\ b.ok => ClassifyEvidenceError(a.reason) = "warning"
          /\ ~b.ok /\ ~a.ok => /\ ClassifyEvidenceError(b.reason) = "warning"
                               /\ ClassifyEvidenceError(a.reason) = "warning"
      BY <2>9, <3>1 DEF ReportedFailure
    <3>3. /\ b.ok \/ ClassifyEvidenceError(b.reason) = "warning"
          /\ a.ok \/ ClassifyEvidenceError(a.reason) = "warning"
      BY <3>2
    <3> QED BY <2>5, <2>9, <3>3 DEF b, a
  <2> QED BY <2>4, <2>6, <2>7, <2>8, <2>9
<1> QED BY <1>1, EvidenceInvariant, PTL

----------------------------------------------------------------------------
(* What a comparison has done so far.                                      *)

NodeDiffOf(i) ==
  NodeDiff(i, done[i].policy, done[i].before, done[i].after, done[i].retrieved)

WasCompared(i) == done[i] \in Inputs[i] /\ results[i] = ResultOf(i, done[i], NodeDiffOf(i))

HasFailed(i) ==
  done[i] = NoInput
    /\ \E d \in TargetFailures : results[i] = TargetResult(i, FALSE, <<>>, <<>>, <<d>>)

\* The targets are taken one after the other.
InTargetOrder ==
  /\ IsSequence(done) /\ IsSequence(results) /\ Len(done) = Len(results)
  /\ Len(results) <= Cardinality(Targets)

TargetsAreDone == \A i \in 1 .. Len(results) : WasCompared(i) \/ HasFailed(i)

ThenAggregated ==
  groups # <<>> => Len(results) = Cardinality(Targets) /\ groups = <<Build(Diffs)>>

ThenFinished ==
  document # <<>> =>
    groups # <<>> /\ \E diagnostics \in RunDiagnostics : document = <<Document(diagnostics)>>

ComparisonInv == InTargetOrder /\ TargetsAreDone /\ ThenAggregated /\ ThenFinished

\* One more at the end of a list is a list.
LEMMA OneMore ==
  ASSUME NEW s, IsSequence(s), NEW x
  PROVE  /\ IsSequence(Append(s, x)) /\ Len(s) \in Nat /\ Len(Append(s, x)) = Len(s) + 1
         /\ Append(s, x)[Len(s) + 1] = x /\ \A i \in 1 .. Len(s) : Append(s, x)[i] = s[i]
<1> DEFINE S == {s[i] : i \in DOMAIN s} \cup {x}
           t == Append(s, x)
           n == Len(s)
<1>1. s \in Seq(S)  BY SeqMonotonic DEF IsSequence
<1>2. x \in S  OBVIOUS
<1> HIDE DEF S
<1>3. n \in Nat  BY <1>1, LenProperties
<1>4. t \in Seq(S) /\ Len(t) = n + 1 /\ t[n + 1] = x /\ \A i \in 1 .. n : t[i] = s[i]
  BY <1>1, <1>2, AppendProperties
<1> HIDE DEF t, n
<1>5. IsSequence(t)  BY <1>4, ListsAreSequences
<1> QED BY <1>3, <1>4, <1>5 DEF t, n

\* A comparison begins with nothing done.
LEMMA ComparisonStarts == ComparisonInit => ComparisonInv
<1> SUFFICES ASSUME ComparisonInit  PROVE ComparisonInv
  OBVIOUS
<1>1. done = <<>> /\ results = <<>> /\ groups = <<>> /\ document = <<>>  BY DEF ComparisonInit
<1>2. IsSequence(<<>>) /\ Len(<<>>) = 0  BY EmptySeq DEF IsSequence
<1>3. Cardinality(Targets) \in Nat  BY TargetsAreNumbered, FS_CardinalityType
<1> QED BY <1>1, <1>2, <1>3
    DEF ComparisonInv, InTargetOrder, TargetsAreDone, ThenAggregated, ThenFinished

\* A result more changes nothing of those that are there.
LEMMA OneMoreResult ==
  ASSUME ComparisonInv, groups = <<>>, NEW t \in Targets, t = Len(results) + 1,
         NEW input, done' = Append(done, input), NEW result, results' = Append(results, result),
         UNCHANGED <<groups, document>>,
         \/ /\ input \in Inputs[t]
            /\ result = ResultOf(t, input,
                          NodeDiff(t, input.policy, input.before, input.after, input.retrieved))
         \/ /\ input = NoInput
            /\ \E d \in TargetFailures : result = TargetResult(t, FALSE, <<>>, <<>>, <<d>>)
  PROVE  ComparisonInv'
<1>1. /\ IsSequence(done) /\ IsSequence(results) /\ Len(done) = Len(results)
      /\ Len(results) <= Cardinality(Targets)
  BY DEF ComparisonInv, InTargetOrder
<1>2. Len(results) \in Nat  BY <1>1, OneMore
<1>3. t \in 1 .. Cardinality(Targets) /\ Cardinality(Targets) \in Nat
  BY TargetsAreNumbered, FS_CardinalityType
<1>4. /\ IsSequence(done)' /\ IsSequence(results)'
      /\ Len(done') = t /\ Len(results') = t /\ done'[t] = input /\ results'[t] = result
      /\ \A i \in 1 .. Len(results) : done'[i] = done[i] /\ results'[i] = results[i]
  <2>1. IsSequence(Append(done, input)) /\ IsSequence(Append(results, result))  BY <1>1, OneMore
  <2>2. IsSequence(done') /\ IsSequence(results')  BY <2>1
  <2>3. IsSequence(done)' /\ IsSequence(results)'  BY <2>2 DEF IsSequence
  <2> QED BY <1>1, <2>3, OneMore
<1>5. InTargetOrder'
  <2>1. Len(results') <= Cardinality(Targets)  BY <1>3, <1>4
  <2> QED BY <1>4, <2>1 DEF InTargetOrder
<1>6. TargetsAreDone'
  <2> SUFFICES ASSUME NEW i \in 1 .. Len(results')  PROVE WasCompared(i)' \/ HasFailed(i)'
    BY DEF TargetsAreDone
  <2>1. CASE i = t
    BY <1>4, <2>1 DEF WasCompared, HasFailed, NodeDiffOf
  <2>2. CASE i # t
    <3>1. i \in 1 .. Len(results)  BY <1>2, <1>4, <2>2
    <3>2. WasCompared(i) \/ HasFailed(i)  BY <3>1 DEF ComparisonInv, TargetsAreDone
    <3> QED BY <1>4, <3>1, <3>2 DEF WasCompared, HasFailed, NodeDiffOf
  <2> QED BY <2>1, <2>2
<1>7. ThenAggregated' /\ ThenFinished'
  BY DEF ComparisonInv, ThenAggregated, ThenFinished
<1> QED BY <1>5, <1>6, <1>7 DEF ComparisonInv

\* Every step keeps what a comparison is.
LEMMA ComparisonStep == ComparisonInv /\ [ComparisonNext]_comparisonVars => ComparisonInv'
<1> SUFFICES ASSUME ComparisonInv, [ComparisonNext]_comparisonVars  PROVE ComparisonInv'
  OBVIOUS
<1>1. ASSUME NEW t \in Targets, NEW input \in Inputs[t], CompareTarget(t, input)
      PROVE  ComparisonInv'
  <2> DEFINE result == ResultOf(t, input,
                         NodeDiff(t, input.policy, input.before, input.after, input.retrieved))
  <2>1. /\ groups = <<>> /\ t = Len(results) + 1 /\ done' = Append(done, input)
        /\ results' = Append(results, result) /\ UNCHANGED <<groups, document>>
    BY <1>1 DEF CompareTarget
  <2> QED BY <2>1, OneMoreResult
<1>2. ASSUME NEW t \in Targets, NEW d \in TargetFailures, FailTarget(t, d)
      PROVE  ComparisonInv'
  <2> DEFINE result == TargetResult(t, FALSE, <<>>, <<>>, <<d>>)
  <2>1. /\ groups = <<>> /\ t = Len(results) + 1 /\ done' = Append(done, NoInput)
        /\ results' = Append(results, result) /\ UNCHANGED <<groups, document>>
    BY <1>2 DEF FailTarget
  <2> QED BY <2>1, OneMoreResult
<1>3. CASE Aggregated
  <2>1. /\ groups = <<>> /\ Len(results) = Cardinality(Targets) /\ groups' = <<Build(Diffs)>>
        /\ done' = done /\ results' = results /\ document' = document
    BY <1>3 DEF Aggregated
  <2>2. Diffs' = Diffs  BY <2>1 DEF Diffs
  <2>3. ThenAggregated'  BY <2>1, <2>2 DEF ThenAggregated
  <2>4. document = <<>>  BY <2>1 DEF ComparisonInv, ThenFinished
  <2>5. ThenFinished'  BY <2>1, <2>4 DEF ThenFinished
  <2>6. InTargetOrder'  BY <2>1 DEF ComparisonInv, InTargetOrder
  <2>7. TargetsAreDone'
    BY <2>1 DEF ComparisonInv, TargetsAreDone, WasCompared, HasFailed, NodeDiffOf
  <2> QED BY <2>3, <2>5, <2>6, <2>7 DEF ComparisonInv
<1>4. ASSUME NEW diagnostics \in RunDiagnostics, Finish(diagnostics)  PROVE ComparisonInv'
  <2>1. /\ groups # <<>> /\ document' = <<Document(diagnostics)>>
        /\ done' = done /\ results' = results /\ groups' = groups
    BY <1>4 DEF Finish
  <2>2. Diffs' = Diffs  BY <2>1 DEF Diffs
  <2>3. ThenAggregated'  BY <2>1, <2>2 DEF ComparisonInv, ThenAggregated
  <2>4. Document(diagnostics)' = Document(diagnostics)  BY <2>1 DEF Document
  <2>5. ThenFinished'  BY <2>1, <2>4 DEF ThenFinished
  <2>6. InTargetOrder'  BY <2>1 DEF ComparisonInv, InTargetOrder
  <2>7. TargetsAreDone'
    BY <2>1 DEF ComparisonInv, TargetsAreDone, WasCompared, HasFailed, NodeDiffOf
  <2> QED BY <2>3, <2>5, <2>6, <2>7 DEF ComparisonInv
<1>5. CASE UNCHANGED comparisonVars
  <2>1. done' = done /\ results' = results /\ groups' = groups /\ document' = document
    BY <1>5 DEF comparisonVars
  <2>2. Diffs' = Diffs  BY <2>1 DEF Diffs
  <2>3. ThenAggregated'  BY <2>1, <2>2 DEF ComparisonInv, ThenAggregated
  <2>4. ASSUME NEW diagnostics  PROVE Document(diagnostics)' = Document(diagnostics)
    BY <2>1 DEF Document
  <2>5. ThenFinished'  BY <2>1, <2>4 DEF ComparisonInv, ThenFinished
  <2>6. InTargetOrder'  BY <2>1 DEF ComparisonInv, InTargetOrder
  <2>7. TargetsAreDone'
    BY <2>1 DEF ComparisonInv, TargetsAreDone, WasCompared, HasFailed, NodeDiffOf
  <2> QED BY <2>3, <2>5, <2>6, <2>7 DEF ComparisonInv
<1> QED BY <1>1, <1>2, <1>3, <1>4, <1>5 DEF ComparisonNext

\* Each target was compared, as its inputs were, or failed; the groups are
\* those of what was compared, and the document is of both.
THEOREM ComparisonInvariant == ComparisonSpec => []ComparisonInv
<1> QED BY ComparisonStarts, ComparisonStep, PTL DEF ComparisonSpec

----------------------------------------------------------------------------
(* The rule that a row goes with.                                          *)

\* The rules that match one of the identities.
Touching(rules, ids) == {r \in DOMAIN rules : \E id \in ids : MatchesExclusionRule(rules[r], id)}

\* The first of some indices is the least of them.
LEMMA FirstIsLeast ==
  ASSUME NEW T, T \subseteq Nat, T # {}
  PROVE  First(T) \in T /\ \A j \in T : First(T) <= j
<1>1. \E i \in T : \A j \in T : i <= j  BY LeastNumber
<1> QED BY <1>1, Zenon DEF First

\* What covers is the first rule that matches, if any does.
LEMMA CoveringIsFirst ==
  ASSUME NEW rules, IsSequence(rules), NEW ids
  PROVE  /\ Touching(rules, ids) = {} => Covering(rules, ids) = {}
         /\ Touching(rules, ids) # {} =>
              /\ Covering(rules, ids) = {First(Touching(rules, ids))}
              /\ First(Touching(rules, ids)) \in DOMAIN rules
<1> DEFINE T == Touching(rules, ids)
           n == Len(rules)
<1>1. n \in Nat /\ DOMAIN rules = 1 .. n  BY ListsHaveLengths
<1>2. T = {} => Covering(rules, ids) = {}  BY DEF Covering, Touching
<1> SUFFICES ASSUME T # {}
             PROVE  Covering(rules, ids) = {First(T)} /\ First(T) \in DOMAIN rules
  BY <1>2
<1>3. T \subseteq 1 .. n  BY <1>1 DEF Touching
<1> HIDE DEF n
<1>4. First(T) \in T /\ \A j \in T : First(T) <= j
  <2> HIDE DEF T
  <2>1. T \subseteq Nat  BY <1>3
  <2> QED BY <2>1, FirstIsLeast
<1> DEFINE f == First(T)
<1>5. f \in 1 .. n /\ \E id \in ids : MatchesExclusionRule(rules[f], id)
  BY <1>3, <1>4 DEF Touching
<1>6. \A q \in 1 .. n : q \in T <=> \E id \in ids : MatchesExclusionRule(rules[q], id)
  BY <1>1 DEF Touching
<1>7. \A r : r \in Covering(rules, ids) <=>
               /\ r \in 1 .. n /\ \E id \in ids : MatchesExclusionRule(rules[r], id)
               /\ \A q \in 1 .. r - 1, id \in ids : ~MatchesExclusionRule(rules[q], id)
  BY <1>1 DEF Covering
<1> HIDE DEF T, f
<1>8. \A q \in T : f <= q  BY <1>4 DEF f
<1>9. \A q \in 1 .. f - 1, id \in ids : ~MatchesExclusionRule(rules[q], id)
  <2> TAKE q \in 1 .. f - 1, id \in ids
  <2>1. q \in 1 .. n /\ ~(f <= q)  BY <1>1, <1>5
  <2> QED BY <1>6, <1>8, <2>1
<1>10. f \in Covering(rules, ids)  BY <1>5, <1>7, <1>9
<1>11. ASSUME NEW r \in Covering(rules, ids)  PROVE r = f
  <2>1. r \in 1 .. n /\ r \in T  BY <1>6, <1>7
  <2>2. f <= r  BY <1>8, <2>1
  <2>3. ~(f \in 1 .. r - 1)  BY <1>5, <1>7
  <2> QED BY <1>1, <1>5, <2>1, <2>2, <2>3
<1> QED BY <1>1, <1>5, <1>10, <1>11 DEF f

\* The cover of an identity is its rule.
LEMMA CoverOfOne ==
  ASSUME NEW rules, IsSequence(rules), NEW id
  PROVE  /\ RuleOf(rules, id) = 0 \/ RuleOf(rules, id) \in DOMAIN rules
         /\ Covering(rules, {id}) = {} <=> RuleOf(rules, id) = 0
         /\ \A i \in DOMAIN rules : Covering(rules, {id}) = {i} <=> RuleOf(rules, id) = i
         /\ RuleOf(rules, id) # 0 => RuleOf(rules, id) = First(Touching(rules, {id}))
         /\ RuleOf(rules, id) = 0 <=> Touching(rules, {id}) = {}
<1>1. Matching(rules, id) = Touching(rules, {id})  BY DEF Matching, Touching
<1> DEFINE T == Touching(rules, {id})
<1>2. RuleOf(rules, id) = IF T = {} THEN 0 ELSE First(T)  BY <1>1 DEF RuleOf
<1>3. /\ T = {} => Covering(rules, {id}) = {}
      /\ T # {} => Covering(rules, {id}) = {First(T)} /\ First(T) \in DOMAIN rules
  BY CoveringIsFirst
<1>4. \A i \in DOMAIN rules : i # 0  BY ListsHaveLengths
<1> HIDE DEF T
<1> QED BY <1>2, <1>3, <1>4 DEF T

\* The cover of an edge is the first of the rules of its ends in the catalogs.
LEMMA CoverOfEdge ==
  ASSUME NEW rules, IsSequence(rules), NEW ids, NEW edge
  PROVE  LET ends == {edge.source, edge.target} \cap ids
         IN  /\ Covering(rules, ends) = {} <=> EdgeRule(rules, ids, edge) = 0
             /\ \A i \in DOMAIN rules : Covering(rules, ends) = {i} <=> EdgeRule(rules, ids, edge) = i
<1> DEFINE ends == {edge.source, edge.target} \cap ids
           of == {RuleOf(rules, id) : id \in ends} \ {0}
           T == Touching(rules, ends)
<1>1. EdgeRule(rules, ids, edge) = IF of = {} THEN 0 ELSE First(of)
  <2>1. ids \cap {edge.source, edge.target} = ends  OBVIOUS
  <2> QED BY <2>1 DEF EdgeRule
<1>2. /\ T = {} => Covering(rules, ends) = {}
      /\ T # {} => Covering(rules, ends) = {First(T)} /\ First(T) \in DOMAIN rules
  BY CoveringIsFirst
<1>3. \A id \in ends : RuleOf(rules, id) \in of \/ RuleOf(rules, id) = 0  OBVIOUS
<1>4. \A r \in of : r # 0 /\ \E id \in ends : r = RuleOf(rules, id)  OBVIOUS
<1>5. \A r : r \in T <=> \E id \in ends : r \in Touching(rules, {id})  BY DEF Touching
<1>6. DOMAIN rules \subseteq Nat /\ 0 \notin DOMAIN rules /\ T \subseteq DOMAIN rules
  BY ListsHaveLengths DEF Touching
<1> HIDE DEF ends, of, T
<1>7. ASSUME NEW id \in ends, RuleOf(rules, id) # 0
      PROVE  /\ RuleOf(rules, id) \in Touching(rules, {id})
             /\ \A r \in Touching(rules, {id}) : RuleOf(rules, id) <= r
  <2> DEFINE U == Touching(rules, {id})
  <2>1. RuleOf(rules, id) = First(U) /\ U # {}  BY <1>7, CoverOfOne
  <2>2. U \subseteq Nat  BY <1>6 DEF Touching
  <2> HIDE DEF U
  <2>3. First(U) \in U /\ \A r \in U : First(U) <= r  BY <2>1, <2>2, FirstIsLeast
  <2> QED BY <2>1, <2>3 DEF U
<1>8. ASSUME NEW id \in ends, Touching(rules, {id}) # {}  PROVE RuleOf(rules, id) # 0
  BY <1>8, CoverOfOne
<1>9. of \subseteq T  BY <1>4, <1>5, <1>7
<1>10. ASSUME NEW r \in T  PROVE \E q \in of : q <= r
  <2>1. PICK id \in ends : r \in Touching(rules, {id})  BY <1>5
  <2>2. RuleOf(rules, id) # 0  BY <1>8, <2>1
  <2> QED BY <1>3, <1>7, <2>1, <2>2
<1>11. CASE T = {}
  <2>1. EdgeRule(rules, ids, edge) = 0 /\ Covering(rules, ends) = {}  BY <1>1, <1>2, <1>9, <1>11
  <2> QED BY <1>6, <2>1 DEF ends
<1>12. CASE T # {}
  <2>1. of # {} /\ of \subseteq Nat /\ T \subseteq Nat  BY <1>6, <1>9, <1>10, <1>12
  <2>2. First(of) \in of /\ \A q \in of : First(of) <= q  BY <2>1, FirstIsLeast
  <2>3. First(T) \in T /\ \A q \in T : First(T) <= q  BY <1>12, <2>1, FirstIsLeast
  <2>4. First(of) = First(T)
    <3>1. First(T) <= First(of)  BY <1>9, <2>2, <2>3
    <3>2. PICK q \in of : q <= First(T)  BY <1>10, <2>3
    <3>3. First(of) <= q  BY <2>2
    <3>4. First(of) \in Nat /\ First(T) \in Nat /\ q \in Nat  BY <2>1, <2>2, <2>3
    <3> QED BY <3>1, <3>2, <3>3, <3>4
  <2>5. EdgeRule(rules, ids, edge) = First(T) /\ Covering(rules, ends) = {First(T)}
    BY <1>1, <1>2, <1>12, <2>1, <2>4
  <2>6. First(T) # 0  BY <1>6, <2>3
  <2> QED BY <2>5, <2>6 DEF ends
<1> QED BY <1>11, <1>12

TakenRows(rules, rows, i) == {j \in DOMAIN rows : RuleOf(rules, rows[j].id) = i}
TakenEdges(rules, ids, edges, i) == {j \in DOMAIN edges : EdgeRule(rules, ids, edges[j].edge) = i}

\* What a rule covers is what it takes.
LEMMA UnderIsTaken ==
  ASSUME NEW rules, IsSequence(rules), NEW ids, NEW rows, NEW edges
  PROVE  /\ RowsUnder(rules, rows, {}) = TakenRows(rules, rows, 0)
         /\ EdgesUnder(rules, ids, edges, {}) = TakenEdges(rules, ids, edges, 0)
         /\ \A i \in DOMAIN rules :
              /\ RowsUnder(rules, rows, {i}) = TakenRows(rules, rows, i)
              /\ EdgesUnder(rules, ids, edges, {i}) = TakenEdges(rules, ids, edges, i)
<1>1. RowsUnder(rules, rows, {}) = TakenRows(rules, rows, 0)
  BY CoverOfOne DEF RowsUnder, TakenRows
<1>2. EdgesUnder(rules, ids, edges, {}) = TakenEdges(rules, ids, edges, 0)
  BY CoverOfEdge DEF EdgesUnder, TakenEdges
<1>3. ASSUME NEW i \in DOMAIN rules
      PROVE  /\ RowsUnder(rules, rows, {i}) = TakenRows(rules, rows, i)
             /\ EdgesUnder(rules, ids, edges, {i}) = TakenEdges(rules, ids, edges, i)
  <2>1. RowsUnder(rules, rows, {i}) = TakenRows(rules, rows, i)
    BY CoverOfOne DEF RowsUnder, TakenRows
  <2>2. EdgesUnder(rules, ids, edges, {i}) = TakenEdges(rules, ids, edges, i)
    BY CoverOfEdge DEF EdgesUnder, TakenEdges
  <2> QED BY <2>1, <2>2
<1> QED BY <1>1, <1>2, <1>3

\* A list of what is kept is a sequence of what was listed.
LEMMA KeptAreOfList ==
  ASSUME NEW S, NEW s, IsSequence(s), \A i \in 1 .. Len(s) : s[i] \in S,
         NEW keep, keep \subseteq DOMAIN s
  PROVE  /\ Kept(s, keep) \in Seq(S)
         /\ Range(Kept(s, keep)) = {s[i] : i \in keep}
<1>1. Len(s) \in Nat /\ keep \cap (1 .. Len(s)) = keep  BY ListsHaveLengths
<1>2. /\ Kept(s, keep) \in Seq(S)
      /\ Range(Kept(s, keep)) = {s[i] : i \in keep \cap (1 .. Len(s))}
  BY <1>1, KeptAreThose
<1> QED BY <1>1, <1>2

\* A list of what is kept has as many entries, and those.
LEMMA KeptOfList ==
  ASSUME NEW s, IsSequence(s), NEW keep, keep \subseteq DOMAIN s
  PROVE  /\ IsFiniteSet(keep) /\ Cardinality(keep) \in Nat
         /\ IsSequence(Kept(s, keep)) /\ Len(Kept(s, keep)) = Cardinality(keep)
         /\ ToSet(Kept(s, keep)) = {s[j] : j \in keep}
         /\ \E place : AreKept(Kept(s, keep), s, keep, Len(s), Cardinality(keep), place)
<1> DEFINE n == Len(s)
           S == {s[i] : i \in DOMAIN s}
           r == Kept(s, keep)
<1>1. n \in Nat /\ DOMAIN s = 1 .. n  BY ListsHaveLengths
<1>2. \A i \in 1 .. n : s[i] \in S  BY <1>1
<1>3. keep \cap (1 .. n) = keep  BY <1>1
<1> HIDE DEF S, n
<1>4. Len(s) = n  BY DEF n
<1>5. /\ IsFiniteSet(keep) /\ Cardinality(keep) \in Nat
      /\ \E place : AreKept(r, s, keep, n, Cardinality(keep), place)
  <2>1. /\ IsFiniteSet(keep \cap (1 .. n)) /\ Cardinality(keep \cap (1 .. n)) \in Nat
        /\ \E place : AreKept(r, s, keep, n, Cardinality(keep \cap (1 .. n)), place)
    BY <1>1, <1>2, <1>4, KeptInOrder
  <2> QED BY <1>3, <2>1
<1>6. r \in Seq(S) /\ Range(r) = {s[i] : i \in keep}
  BY <1>2, <1>4, KeptAreOfList
<1> HIDE DEF r
<1>7. IsSequence(r)  BY <1>6, ListsAreSequences
<1>8. ToSet(r) = {s[j] : j \in keep}  BY <1>6 DEF ToSet, Range
<1>9. Len(r) = Cardinality(keep)
  <2>1. PICK place : AreKept(r, s, keep, n, Cardinality(keep), place)  BY <1>5
  <2>2. r = [j \in 1 .. Cardinality(keep) |-> s[place[j]]]  BY <2>1 DEF AreKept
  <2> QED BY <1>5, <2>2
<1> QED BY <1>5, <1>7, <1>8, <1>9 DEF r, n

\* Parts of the places of a list can be counted.
LEMMA PlacesAreCounted ==
  ASSUME NEW s, IsSequence(s), NEW T, T \subseteq DOMAIN s
  PROVE  IsFiniteSet(T) /\ Cardinality(T) \in Nat /\ (Cardinality(T) = 0 <=> T = {})
<1>1. IsFiniteSet(T) /\ Cardinality(T) \in Nat  BY KeptOfList
<1> QED BY <1>1, FS_EmptySet

\* What the rules leave and what they count of rows and edges is all of it.
LEMMA NothingIsLost ==
  ASSUME NEW rules, IsSequence(rules), NEW ids, NEW rows, IsSequence(rows),
         \A j \in DOMAIN rows : rows[j].kind \in ResourceKinds,
         NEW edges, IsSequence(edges),
         NEW diff, LET kept == ApplyExclusions(rules, ids, rows, edges)
                   IN  /\ Len(diff.resourceChanges) = Len(kept.changes)
                       /\ {What(row) : row \in ToSet(diff.resourceChanges)}
                            = {What(row) : row \in ToSet(kept.changes)}
                       /\ diff.edgeChanges = kept.edgeChanges
                       /\ diff.exclusions = kept.exclusions
  PROVE  AddsUp(rules, ids, rows, edges, diff)
<1>0. /\ RowsUnder(rules, rows, {}) = TakenRows(rules, rows, 0)
      /\ EdgesUnder(rules, ids, edges, {}) = TakenEdges(rules, ids, edges, 0)
      /\ \A i \in DOMAIN rules :
           /\ RowsUnder(rules, rows, {i}) = TakenRows(rules, rows, i)
           /\ EdgesUnder(rules, ids, edges, {i}) = TakenEdges(rules, ids, edges, i)
  BY UnderIsTaken
<1> DEFINE kept == ApplyExclusions(rules, ids, rows, edges)
           n == Len(rules)
           taken(i) == TakenRows(rules, rows, i)
           takenEdges(i) == TakenEdges(rules, ids, edges, i)
           membership == {j \in DOMAIN rows : rows[j].kind \in MembershipKinds}
           resources == {j \in DOMAIN rows : rows[j].kind # "parameter_changed"}
           counts == [i \in DOMAIN rules |->
                        [rule |-> i,
                         resources |-> Cardinality(taken(i) \cap membership),
                         parameters |-> Cardinality(taken(i) \ membership),
                         edges |-> Cardinality(takenEdges(i))]]
           used == {i \in DOMAIN rules : counts[i].resources + counts[i].parameters
                                           + counts[i].edges > 0}
<1>1. /\ kept.changes = Kept(rows, taken(0)) /\ kept.edgeChanges = Kept(edges, takenEdges(0))
      /\ kept.exclusions = Kept(counts, used)
  BY DEF ApplyExclusions, TakenRows, TakenEdges
<1>2. n \in Nat /\ DOMAIN rules = 1 .. n  BY ListsHaveLengths
<1>3. membership = resources  BY DEF ResourceKinds, MembershipKinds
<1>4. \A i : taken(i) \subseteq DOMAIN rows /\ takenEdges(i) \subseteq DOMAIN edges
  BY DEF TakenRows, TakenEdges
<1>5. /\ RowsUnder(rules, rows, {}) = taken(0)
      /\ EdgesUnder(rules, ids, edges, {}) = takenEdges(0)
      /\ \A i \in DOMAIN rules : /\ RowsUnder(rules, rows, {i}) = taken(i)
                                 /\ EdgesUnder(rules, ids, edges, {i}) = takenEdges(i)
  BY <1>0
<1>6. /\ Len(diff.resourceChanges) = Len(kept.changes)
      /\ {What(row) : row \in ToSet(diff.resourceChanges)} = {What(row) : row \in ToSet(kept.changes)}
      /\ diff.edgeChanges = kept.edgeChanges /\ diff.exclusions = kept.exclusions
  OBVIOUS
<1> HIDE DEF kept, n, taken, takenEdges
<1>7. /\ Len(kept.changes) = Cardinality(taken(0))
      /\ ToSet(kept.changes) = {rows[j] : j \in taken(0)}
  BY <1>1, <1>4, KeptOfList
<1>8. /\ Len(kept.edgeChanges) = Cardinality(takenEdges(0))
      /\ ToSet(kept.edgeChanges) = {edges[j] : j \in takenEdges(0)}
  BY <1>1, <1>4, KeptOfList
<1>9. \A i \in 1 .. n :
        /\ counts[i].rule = i
        /\ counts[i].resources = Cardinality(taken(i) \cap resources)
        /\ counts[i].parameters = Cardinality(taken(i) \ resources)
        /\ counts[i].edges = Cardinality(takenEdges(i))
  BY <1>2, <1>3
<1>10. \A i \in 1 .. n : i \in used <=> taken(i) # {} \/ takenEdges(i) # {}
  <2> TAKE i \in 1 .. n
  <2> DEFINE a == Cardinality(taken(i) \cap resources)
             b == Cardinality(taken(i) \ resources)
             c == Cardinality(takenEdges(i))
  <2>1. a \in Nat /\ (a = 0 <=> taken(i) \cap resources = {})
    <3>1. taken(i) \cap resources \subseteq DOMAIN rows  BY <1>4
    <3> QED BY <3>1, PlacesAreCounted
  <2>2. b \in Nat /\ (b = 0 <=> taken(i) \ resources = {})
    <3>1. taken(i) \ resources \subseteq DOMAIN rows  BY <1>4
    <3> QED BY <3>1, PlacesAreCounted
  <2>3. c \in Nat /\ (c = 0 <=> takenEdges(i) = {})  BY <1>4, PlacesAreCounted
  <2>4. i \in used <=> a + b + c > 0  BY <1>2, <1>9
  <2>5. taken(i) = {} <=> taken(i) \cap resources = {} /\ taken(i) \ resources = {}  OBVIOUS
  <2> HIDE DEF a, b, c, used, counts
  <2>6. a + b + c > 0 <=> a # 0 \/ b # 0 \/ c # 0  BY <2>1, <2>2, <2>3
  <2> QED BY <2>1, <2>2, <2>3, <2>4, <2>5, <2>6
<1>11. IsSequence(counts) /\ Len(counts) = n /\ DOMAIN counts = 1 .. n
  <2>1. counts = [i \in 1 .. n |-> counts[i]]  BY <1>2
  <2> HIDE DEF counts
  <2>2. DOMAIN counts = 1 .. n /\ Len(counts) = n  BY <1>2, <2>1, OfLength
  <2>3. counts \in Seq({counts[i] : i \in DOMAIN counts})  BY <1>2, <2>1, <2>2
  <2> QED BY <2>2, <2>3 DEF IsSequence
<1>12. used \subseteq 1 .. n  BY <1>2
<1> HIDE DEF counts, used
<1>13. /\ ToSet(kept.exclusions) = {counts[i] : i \in used} /\ Cardinality(used) \in Nat
       /\ \E place : AreKept(kept.exclusions, counts, used, n, Cardinality(used), place)
  <2>1. used \subseteq DOMAIN counts  BY <1>11, <1>12
  <2>2. /\ ToSet(Kept(counts, used)) = {counts[i] : i \in used} /\ Cardinality(used) \in Nat
        /\ \E place : AreKept(Kept(counts, used), counts, used, Len(counts), Cardinality(used), place)
    BY <1>11, <2>1, KeptOfList
  <2> QED BY <1>1, <1>11, <2>2
<1>14. {o.rule : o \in ToSet(kept.exclusions)} = used
  <2>1. \A i \in used : counts[i].rule = i  BY <1>9, <1>12
  <2> QED BY <1>13, <2>1
<1>15. used = {r \in DOMAIN rules : taken(r) # {} \/ takenEdges(r) # {}}
  BY <1>2, <1>10, <1>12
<1>16. ASSUME NEW k \in DOMAIN kept.exclusions
       PROVE  LET o == kept.exclusions[k]
              IN  /\ o.rule \in 1 .. n
                  /\ o.resources = Cardinality(taken(o.rule) \cap resources)
                  /\ o.parameters = Cardinality(taken(o.rule) \ resources)
                  /\ o.edges = Cardinality(takenEdges(o.rule))
                  /\ \A j \in 1 .. k - 1 : kept.exclusions[j].rule < o.rule
  <2> DEFINE m == Cardinality(used)
             e == kept.exclusions
  <2>1. PICK place : AreKept(e, counts, used, n, m, place)  BY <1>13
  <2>2. /\ place \in [1 .. m -> used \cap (1 .. n)] /\ e = [j \in 1 .. m |-> counts[place[j]]]
        /\ \A a, b \in 1 .. m : a < b => place[a] < place[b]
    BY <2>1 DEF AreKept
  <2>3. m \in Nat /\ k \in DOMAIN e  BY <1>13
  <2> HIDE DEF m, e
  <2>4. k \in 1 .. m  BY <2>2, <2>3
  <2>5. \A j \in 1 .. m : place[j] \in 1 .. n /\ e[j] = counts[place[j]] /\ e[j].rule = place[j]
    <3> TAKE j \in 1 .. m
    <3>1. place[j] \in 1 .. n /\ e[j] = counts[place[j]]  BY <2>2
    <3> QED BY <1>9, <3>1
  <2>6. \A j \in 1 .. k - 1 : e[j].rule < e[k].rule
    <3> TAKE j \in 1 .. k - 1
    <3>1. j \in 1 .. m /\ j < k  BY <2>3, <2>4
    <3> QED BY <2>2, <2>4, <2>5, <3>1
  <2> DEFINE p == place[k]
  <2>7. p \in 1 .. n /\ e[k] = counts[p] /\ e[k].rule = p  BY <2>4, <2>5
  <2> HIDE DEF p
  <2> QED BY <1>9, <2>6, <2>7 DEF e
<1> DEFINE under(cover) == RowsUnder(rules, rows, cover)
           edgesUnder(cover) == EdgesUnder(rules, ids, edges, cover)
<1>17. {What(row) : row \in ToSet(diff.resourceChanges)} = {What(rows[j]) : j \in under({})}
  <2>1. {What(row) : row \in ToSet(diff.resourceChanges)}
          = {What(row) : row \in {rows[j] : j \in taken(0)}}
    BY <1>6, <1>7
  <2>2. {What(row) : row \in {rows[j] : j \in taken(0)}} = {What(rows[j]) : j \in taken(0)}
    OBVIOUS
  <2> QED BY <1>5, <2>1, <2>2
<1>18. {o.rule : o \in ToSet(diff.exclusions)} =
         {r \in DOMAIN rules : under({r}) # {} \/ edgesUnder({r}) # {}}
  BY <1>5, <1>6, <1>14, <1>15
<1>19. \A k \in DOMAIN diff.exclusions : LET o == diff.exclusions[k] IN
         /\ o.resources = Cardinality(under({o.rule}) \cap resources)
         /\ o.parameters = Cardinality(under({o.rule}) \ resources)
         /\ o.edges = Cardinality(edgesUnder({o.rule}))
         /\ \A j \in 1 .. k - 1 : diff.exclusions[j].rule < o.rule
  <2> TAKE k \in DOMAIN diff.exclusions
  <2> DEFINE o == kept.exclusions[k]
  <2>1. /\ o.rule \in 1 .. n /\ o.resources = Cardinality(taken(o.rule) \cap resources)
        /\ o.parameters = Cardinality(taken(o.rule) \ resources)
        /\ o.edges = Cardinality(takenEdges(o.rule))
        /\ \A j \in 1 .. k - 1 : kept.exclusions[j].rule < o.rule
    BY <1>6, <1>16
  <2>2. under({o.rule}) = taken(o.rule) /\ edgesUnder({o.rule}) = takenEdges(o.rule)
    BY <1>2, <1>5, <2>1
  <2>3. diff.exclusions[k] = o  BY <1>6
  <2> HIDE DEF o, under, edgesUnder, resources
  <2> QED BY <1>6, <2>1, <2>2, <2>3
<1>20. Len(diff.resourceChanges) = Cardinality(under({}))  BY <1>5, <1>6, <1>7
<1>21. Len(diff.edgeChanges) = Cardinality(edgesUnder({}))  BY <1>5, <1>6, <1>8
<1>22. ToSet(diff.edgeChanges) = {edges[j] : j \in edgesUnder({})}  BY <1>5, <1>6, <1>8
<1> QED BY <1>17, <1>18, <1>19, <1>20, <1>21, <1>22 DEF AddsUp

----------------------------------------------------------------------------
(* The rows of a full difference.                                          *)

\* A name has a place, which no other name has.
LEMMA PlaceOfName ==
  ASSUME NEW order, IsSequence(order), NEW a \in ToSet(order)
  PROVE  Place(order, a) \in Nat /\ Place(order, a) \in DOMAIN order /\ order[Place(order, a)] = a
<1>1. \E i \in DOMAIN order : order[i] = a  BY DEF ToSet
<1>2. Place(order, a) \in DOMAIN order /\ order[Place(order, a)] = a  BY <1>1, Zenon DEF Place
<1> QED BY <1>2, ListsHaveLengths

\* What a list has in it is finite.
LEMMA ListedIsFinite ==
  ASSUME NEW s, IsSequence(s)
  PROVE  IsFiniteSet(ToSet(s))
<1> DEFINE n == Len(s)
<1>1. n \in Nat /\ DOMAIN s = 1 .. n  BY ListsHaveLengths
<1> HIDE DEF n
<1>2. IsFiniteSet(1 .. n)  BY <1>1, FS_Interval
<1>3. IsFiniteSet({s[i] : i \in 1 .. n})
  <2> DEFINE T == {s[i] : i \in 1 .. n}
             f == [i \in 1 .. n |-> s[i]]
  <2>1. f \in Surjection(1 .. n, T)  BY DEF Surjection
  <2> HIDE DEF f, T
  <2>2. IsFiniteSet(T)  BY <1>2, <2>1, FS_Surjection
  <2> QED BY <2>2 DEF T
<1> QED BY <1>1, <1>3 DEF ToSet

\* Names are ordered.
LEMMA NamesInOrder ==
  ASSUME NEW S, S \subseteq ToSet(NameOrder)
  PROVE  IsFiniteSet(S) /\ StrictOrder({p \in S \X S : Precedes(p[1], p[2])}, S)
<1> DEFINE R == {p \in S \X S : Precedes(p[1], p[2])}
<1>1. IsSequence(NameOrder)  BY NamesAreOrdered
<1>2. IsFiniteSet(S)
  <2>1. IsFiniteSet(ToSet(NameOrder))  BY <1>1, ListedIsFinite
  <2> QED BY <2>1, FS_Subset
<1>3. \A x, y \in S : <<x, y>> \in R <=> Place(NameOrder, x) < Place(NameOrder, y)
  BY DEF Precedes, Before
<1>4. \A x \in S : Place(NameOrder, x) \in Nat /\ NameOrder[Place(NameOrder, x)] = x
  BY <1>1, PlaceOfName
<1> HIDE DEF R
<1>5. \A x, y \in S : Place(NameOrder, x) = Place(NameOrder, y) => x = y  BY <1>4
<1>6. \A x \in S : <<x, x>> \notin R  BY <1>3, <1>4
<1>7. \A x, y, z \in S : <<x, y>> \in R /\ <<y, z>> \in R => <<x, z>> \in R  BY <1>3, <1>4
<1>8. \A x, y \in S : x # y => <<x, y>> \in R \/ <<y, x>> \in R  BY <1>3, <1>4, <1>5
<1> QED BY <1>2, <1>6, <1>7, <1>8 DEF StrictOrder, R

TypePlace(id) == Place(NameOrder, id.type)
TitlePlace(id) == Place(TitleOrder, id.title)

\* One identity is before the other by the places of what it consists of.
LEMMA PlacesOfIdentities ==
  /\ \A id : IsIdentity(id) => TypePlace(id) \in Nat /\ TitlePlace(id) \in Nat
  /\ \A x, y : IsIdentity(x) /\ IsIdentity(y) =>
       /\ TypePlace(x) = TypePlace(y) <=> x.type = y.type
       /\ TypePlace(x) = TypePlace(y) /\ TitlePlace(x) = TitlePlace(y) <=> x = y
       /\ IdentityPrecedes(x, y) <=>
            \/ TypePlace(x) < TypePlace(y)
            \/ TypePlace(x) = TypePlace(y) /\ TitlePlace(x) < TitlePlace(y)
<1>1. ASSUME NEW id, IsIdentity(id)
      PROVE  /\ TypePlace(id) \in Nat /\ NameOrder[TypePlace(id)] = id.type
             /\ TitlePlace(id) \in Nat /\ TitleOrder[TitlePlace(id)] = id.title
  BY <1>1, NamesAreOrdered, PlaceOfName DEF IsIdentity, TypePlace, TitlePlace
<1>2. ASSUME NEW x, NEW y, IsIdentity(x), IsIdentity(y)
      PROVE  /\ TypePlace(x) = TypePlace(y) <=> x.type = y.type
             /\ TypePlace(x) = TypePlace(y) /\ TitlePlace(x) = TitlePlace(y) <=> x = y
             /\ IdentityPrecedes(x, y) <=>
                  \/ TypePlace(x) < TypePlace(y)
                  \/ TypePlace(x) = TypePlace(y) /\ TitlePlace(x) < TitlePlace(y)
  <2>1. TypePlace(x) = TypePlace(y) <=> x.type = y.type  BY <1>1, <1>2 DEF TypePlace
  <2>2. TitlePlace(x) = TitlePlace(y) <=> x.title = y.title  BY <1>1, <1>2 DEF TitlePlace
  <2>3. x.type = y.type /\ x.title = y.title <=> x = y  BY <1>2 DEF IsIdentity
  <2>4. IdentityPrecedes(x, y) <=>
          TypePlace(x) < TypePlace(y) \/ (x.type = y.type /\ TitlePlace(x) < TitlePlace(y))
    BY DEF IdentityPrecedes, Precedes, Before, TypePlace, TitlePlace
  <2> QED BY <2>1, <2>2, <2>3, <2>4
<1> QED BY <1>1, <1>2

\* Identities are ordered.
LEMMA IdentitiesInOrder ==
  ASSUME NEW S, \A id \in S : IsIdentity(id)
  PROVE  StrictOrder({p \in S \X S : IdentityPrecedes(p[1], p[2])}, S)
<1> DEFINE R == {p \in S \X S : IdentityPrecedes(p[1], p[2])}
<1>1. \A x, y \in S : <<x, y>> \in R <=>
            \/ TypePlace(x) < TypePlace(y)
            \/ TypePlace(x) = TypePlace(y) /\ TitlePlace(x) < TitlePlace(y)
  BY PlacesOfIdentities
<1>2. \A x \in S : TypePlace(x) \in Nat /\ TitlePlace(x) \in Nat  BY PlacesOfIdentities
<1>3. \A x, y \in S : TypePlace(x) = TypePlace(y) /\ TitlePlace(x) = TitlePlace(y) => x = y
  BY PlacesOfIdentities
<1> HIDE DEF R
<1>6. \A x \in S : <<x, x>> \notin R  BY <1>1, <1>2
<1>7. ASSUME NEW x \in S, NEW y \in S, NEW z \in S, <<x, y>> \in R, <<y, z>> \in R
      PROVE  <<x, z>> \in R
  <2>1. /\ TypePlace(x) \in Nat /\ TitlePlace(x) \in Nat /\ TypePlace(y) \in Nat
        /\ TitlePlace(y) \in Nat /\ TypePlace(z) \in Nat /\ TitlePlace(z) \in Nat
    BY <1>2
  <2> QED BY <1>1, <1>7, <2>1
<1>8. ASSUME NEW x \in S, NEW y \in S, x # y  PROVE <<x, y>> \in R \/ <<y, x>> \in R
  <2>1. /\ TypePlace(x) \in Nat /\ TitlePlace(x) \in Nat /\ TypePlace(y) \in Nat
        /\ TitlePlace(y) \in Nat
    BY <1>2
  <2> QED BY <1>1, <1>3, <1>8, <2>1
<1> QED BY <1>6, <1>7, <1>8 DEF StrictOrder, R

\* What sorting leaves is a list of what was sorted.
LEMMA ArrangedIsAll ==
  ASSUME NEW S, IsFiniteSet(S), NEW R, StrictOrder(R, S)
  PROVE  /\ Cardinality(S) \in Nat /\ DOMAIN Arranged(S, R) = 1 .. Cardinality(S)
         /\ IsSequence(Arranged(S, R)) /\ ToSet(Arranged(S, R)) = S
         /\ \A k \in DOMAIN Arranged(S, R) : Arranged(S, R)[k] \in S
<1> DEFINE n == Cardinality(S)
           a == Arranged(S, R)
<1>1. /\ n \in Nat /\ a \in [1 .. n -> S] /\ {a[k] : k \in 1 .. n} = S
  BY ArrangedInOrder
<1> HIDE DEF n, a
<1>2. DOMAIN a = 1 .. n /\ \A k \in 1 .. n : a[k] \in S  BY <1>1
<1>3. a \in Seq(S)  BY <1>1
<1>4. IsSequence(a)  BY <1>3, ListsAreSequences
<1> QED BY <1>1, <1>2, <1>4 DEF ToSet, n, a

\* The rows of joined parts are those of each part.
LEMMA JoinedRows ==
  ASSUME NEW n \in Nat, NEW parts, DOMAIN parts = 1 .. n,
         \A i \in 1 .. n : IsSequence(parts[i].rows)
  PROVE  /\ IsSequence(Joined(parts).rows)
         /\ ToSet(Joined(parts).rows) = UNION {ToSet(parts[i].rows) : i \in 1 .. n}
<1> DEFINE seqs == [i \in 1 .. n |-> parts[i].rows]
<1>1. Joined(parts).rows = FlattenSeq(seqs)  BY DEF Joined
<1>2. ListOf(n, seqs)  BY DEF ListOf
<1>3. \A i \in 1 .. n : seqs[i] = parts[i].rows  OBVIOUS
<1> HIDE DEF seqs
<1>4. \A i \in 1 .. n : IsSequence(seqs[i])  BY <1>3
<1>5. /\ IsSequence(FlattenSeq(seqs))
      /\ ToSet(FlattenSeq(seqs)) = UNION {ToSet(seqs[i]) : i \in 1 .. n}
  BY <1>2, <1>4, FlattenedIsAll
<1>6. UNION {ToSet(seqs[i]) : i \in 1 .. n} = UNION {ToSet(parts[i].rows) : i \in 1 .. n}
  BY <1>3
<1> QED BY <1>1, <1>5, <1>6

\* A list of one has that in it.
LEMMA OneInList == \A x : IsSequence(<<x>>) /\ ToSet(<<x>>) = {x} /\ <<x>> # <<>>
<1> TAKE x
<1>1. <<x>> \in Seq({x})  OBVIOUS
<1>2. IsSequence(<<x>>)  BY <1>1, ListsAreSequences
<1>3. ToSet(<<x>>) = {x}  BY DEF ToSet
<1> QED BY <1>2, <1>3

\* An empty list has nothing in it.
LEMMA NoneInList == IsSequence(<<>>) /\ ToSet(<<>>) = {}
<1>1. <<>> \in Seq({})  OBVIOUS
<1>2. IsSequence(<<>>)  BY <1>1, ListsAreSequences
<1>3. ToSet(<<>>) = {}  BY DEF ToSet
<1> QED BY <1>2, <1>3

\* Nothing is in a list when it is empty.
LEMMA EmptyList ==
  ASSUME NEW s, IsSequence(s)
  PROVE  s = <<>> <=> ToSet(s) = {}
<1>1. Len(s) \in Nat /\ DOMAIN s = 1 .. Len(s)  BY ListsHaveLengths
<1>2. PICK S : s \in Seq(S)  BY DEF IsSequence
<1>3. ASSUME ToSet(s) = {}  PROVE s = <<>>
  <2>1. \A i \in 1 .. Len(s) : s[i] \in ToSet(s)  BY <1>1 DEF ToSet
  <2>2. 1 \notin 1 .. Len(s)  BY <1>3, <2>1
  <2>3. Len(s) = 0  BY <1>1, <2>2
  <2> QED BY <1>2, <2>3, EmptySeq
<1> QED BY <1>3, NoneInList

\* One parameter is no row, or one row.
LEMMA ParameterRow ==
  ASSUME NEW id, NEW name, NEW b, NEW a, NEW sb, NEW sa
  PROVE  LET rows == ParameterChange(id, name, b, a, sb, sa).rows
             row == Row("parameter_changed", id, name, ParameterOf(b, name), ParameterOf(a, name), <<>>)
             same == \/ ParameterOf(b, name) = ParameterOf(a, name)
                     \/ Fidelity(sb, sa, ParameterOf(b, name), ParameterOf(a, name)).equal
         IN  /\ IsSequence(rows) /\ ToSet(rows) \subseteq {row}
             /\ same => ToSet(rows) = {}
             /\ ~same => ToSet(rows) = {row}
<1> DEFINE rows == ParameterChange(id, name, b, a, sb, sa).rows
           row == Row("parameter_changed", id, name, ParameterOf(b, name), ParameterOf(a, name), <<>>)
           same == \/ ParameterOf(b, name) = ParameterOf(a, name)
                   \/ Fidelity(sb, sa, ParameterOf(b, name), ParameterOf(a, name)).equal
<1>1. (same => rows = <<>>) /\ (~same => rows = <<row>>)  BY DEF ParameterChange
<1> HIDE DEF rows, row, same
<1>2. CASE same  BY <1>1, <1>2, NoneInList DEF rows, row, same
<1>3. CASE ~same  BY <1>1, <1>3, OneInList DEF rows, row, same
<1> QED BY <1>2, <1>3

\* What two sides' evidence comes to, and whether it is a row.
ToldOf(id, before, after, retrieved, quiet) ==
  ComparedEvidence(SideOf(before, id), SideOf(after, id),
                   ResolvedSide(SideOf(before, id), retrieved),
                   ResolvedSide(SideOf(after, id), retrieved), quiet)

ContentIsRow(id, before, after, retrieved, quiet) ==
  /\ id.type = FileResourceType
  /\ \/ \E n \in FileContentBearingParameters :
          ParameterOf(before.resources[id], n) # ParameterOf(after.resources[id], n)
     \/ NeedsEvidence(SideOf(before, id).file) \/ NeedsEvidence(SideOf(after, id).file)
  /\ ReportsDifference(ToldOf(id, before, after, retrieved, quiet).evidence)

\* The content of a File is no row, or one.
LEMMA ContentRow ==
  ASSUME NEW id, NEW before, NEW after, NEW retrieved, NEW quiet
  PROVE  LET rows == ContentChange(id, before, after, retrieved, quiet).rows
             is == ContentIsRow(id, before, after, retrieved, quiet)
             row == Row("parameter_changed", id, "content", ContentParameters(before.resources[id]),
                        ContentParameters(after.resources[id]),
                        <<ToldOf(id, before, after, retrieved, quiet).evidence>>)
         IN  /\ IsSequence(rows) /\ ToSet(rows) \subseteq {row}
             /\ is => ToSet(rows) = {row} /\ rows # <<>>
             /\ ~is => ToSet(rows) = {} /\ rows = <<>>
<1> DEFINE rows == ContentChange(id, before, after, retrieved, quiet).rows
           is == ContentIsRow(id, before, after, retrieved, quiet)
           row == Row("parameter_changed", id, "content", ContentParameters(before.resources[id]),
                      ContentParameters(after.resources[id]),
                      <<ToldOf(id, before, after, retrieved, quiet).evidence>>)
<1>1. (is => rows = <<row>>) /\ (~is => rows = <<>>)
  BY DEF ContentChange, ContentIsRow, ToldOf
<1> HIDE DEF rows, is, row
<1>2. CASE is  BY <1>1, <1>2, OneInList DEF rows, is, row
<1>3. CASE ~is  BY <1>1, <1>3, NoneInList DEF rows, is, row
<1> QED BY <1>2, <1>3

NamesOf(before, after, id) ==
  DOMAIN before.resources[id].params \cup DOMAIN after.resources[id].params

ComparedNames(before, after, id) ==
  IF id.type = FileResourceType THEN NamesOf(before, after, id) \ FileContentBearingParameters
  ELSE NamesOf(before, after, id)

RowsOfName(id, name, before, after) ==
  ParameterChange(id, name, before.resources[id], after.resources[id],
                  before.stringified, after.stringified).rows

\* The rows of a resource of both catalogs: of each parameter, and its content.
LEMMA ParameterRows ==
  ASSUME NEW id, NEW before, NEW after, NEW retrieved, NEW quiet,
         NamesOf(before, after, id) \subseteq ToSet(NameOrder)
  PROVE  LET rows == DiffParameters(id, before, after, retrieved, quiet).rows
         IN  /\ IsSequence(rows)
             /\ \A row : row \in ToSet(rows) <=>
                  \/ \E name \in ComparedNames(before, after, id) :
                       row \in ToSet(RowsOfName(id, name, before, after))
                  \/ row \in ToSet(ContentChange(id, before, after, retrieved, quiet).rows)
<1> DEFINE names == ComparedNames(before, after, id)
           R == {p \in names \X names : Precedes(p[1], p[2])}
           a == Arranged(names, R)
           m == Cardinality(names)
           part(name) == ParameterChange(id, name, before.resources[id], after.resources[id],
                                         before.stringified, after.stringified)
           first == [i \in DOMAIN a |-> part(a[i])]
           content == ContentChange(id, before, after, retrieved, quiet)
           parts == first \o <<content>>
<1>1. DiffParameters(id, before, after, retrieved, quiet) = Joined(parts)
  BY DEF DiffParameters, ComparedNames, NamesOf
<1>2. IsFiniteSet(names) /\ StrictOrder(R, names)
  <2>1. names \subseteq ToSet(NameOrder)  BY DEF ComparedNames
  <2> HIDE DEF names
  <2> QED BY <2>1, NamesInOrder
<1> HIDE DEF names, R
<1>3. m \in Nat /\ DOMAIN a = 1 .. m /\ ToSet(a) = names  BY <1>2, ArrangedIsAll
<1> HIDE DEF a, m
<1>4. first = [i \in 1 .. m |-> part(a[i])]  BY <1>3
<1> DEFINE P == {part(a[i]) : i \in 1 .. m} \cup {content}
<1>5. \A i \in 1 .. m : part(a[i]) \in P  OBVIOUS
<1>6. content \in P  OBVIOUS
<1> HIDE DEF part, content, P, first
<1>7. first \in Seq(P) /\ Len(first) = m  BY <1>3, <1>4, <1>5
<1>8. <<content>> \in Seq(P) /\ Len(<<content>>) = 1 /\ <<content>>[1] = content  BY <1>6
<1>9. /\ parts \in Seq(P) /\ Len(parts) = m + 1
      /\ \A i \in 1 .. m + 1 : parts[i] = IF i <= m THEN part(a[i]) ELSE content
  <2> DEFINE last == <<content>>
  <2>1. last \in Seq(P) /\ Len(last) = 1 /\ last[1] = content  BY <1>8
  <2> HIDE DEF last
  <2>2. /\ first \o last \in Seq(P) /\ Len(first \o last) = m + 1
        /\ \A i \in 1 .. m + 1 : (first \o last)[i] = IF i <= m THEN first[i] ELSE last[i - m]
    <3>1. /\ first \o last \in Seq(P) /\ Len(first \o last) = Len(first) + Len(last)
          /\ \A i \in 1 .. Len(first) + Len(last) :
               (first \o last)[i] = IF i <= Len(first) THEN first[i] ELSE last[i - Len(first)]
      BY <1>7, <2>1, ConcatProperties
    <3> QED BY <1>7, <2>1, <3>1
  <2>3. ASSUME NEW i \in 1 .. m + 1
        PROVE  (first \o last)[i] = IF i <= m THEN part(a[i]) ELSE content
    <3>1. CASE i <= m
      <4>1. i \in 1 .. m  BY <3>1
      <4>2. first[i] = part(a[i])  BY <1>4, <4>1
      <4> QED BY <2>2, <3>1, <4>2
    <3>2. CASE ~(i <= m)
      <4>1. i - m = 1  BY <1>3, <3>2
      <4> QED BY <2>1, <2>2, <3>2, <4>1
    <3> QED BY <3>1, <3>2
  <2> QED BY <2>2, <2>3 DEF last
<1> HIDE DEF parts
<1>10. DOMAIN parts = 1 .. m + 1 /\ m + 1 \in Nat  BY <1>3, <1>9, LenProperties
<1>11. \A i \in 1 .. m + 1 : IsSequence(parts[i].rows)
  <2>1. \A name : IsSequence(part(name).rows)  BY ParameterRow DEF part
  <2>2. IsSequence(content.rows)  BY ContentRow DEF content
  <2> QED BY <1>9, <2>1, <2>2
<1>12. /\ IsSequence(Joined(parts).rows)
       /\ ToSet(Joined(parts).rows) = UNION {ToSet(parts[i].rows) : i \in 1 .. m + 1}
  BY <1>10, <1>11, JoinedRows
<1>13. \A row : row \in ToSet(Joined(parts).rows) <=>
         \/ \E name \in names : row \in ToSet(part(name).rows)
         \/ row \in ToSet(content.rows)
  <2>1. \A row : row \in ToSet(Joined(parts).rows) <=>
                   \E i \in 1 .. m + 1 : row \in ToSet(parts[i].rows)
    BY <1>12
  <2>2. \A row : (\E i \in 1 .. m + 1 : row \in ToSet(parts[i].rows)) <=>
                   (\E i \in 1 .. m : row \in ToSet(part(a[i]).rows)) \/ row \in ToSet(content.rows)
    <3>1. ASSUME NEW row, NEW i \in 1 .. m + 1, row \in ToSet(parts[i].rows)
          PROVE  (\E j \in 1 .. m : row \in ToSet(part(a[j]).rows)) \/ row \in ToSet(content.rows)
      <4>1. CASE i <= m
        <5>1. i \in 1 .. m /\ parts[i] = part(a[i])  BY <1>9, <4>1
        <5> QED BY <3>1, <5>1
      <4>2. CASE ~(i <= m)
        <5>1. parts[i] = content  BY <1>9, <4>2
        <5> QED BY <3>1, <5>1
      <4> QED BY <4>1, <4>2
    <3>2. ASSUME NEW row, NEW j \in 1 .. m, row \in ToSet(part(a[j]).rows)
          PROVE  \E i \in 1 .. m + 1 : row \in ToSet(parts[i].rows)
      <4>1. j \in 1 .. m + 1 /\ j <= m  BY <1>3
      <4>2. parts[j] = part(a[j])  BY <1>9, <4>1
      <4> QED BY <3>2, <4>1, <4>2
    <3>3. ASSUME NEW row, row \in ToSet(content.rows)
          PROVE  \E i \in 1 .. m + 1 : row \in ToSet(parts[i].rows)
      <4>1. m + 1 \in 1 .. m + 1 /\ ~(m + 1 <= m)  BY <1>3
      <4>2. parts[m + 1] = content  BY <1>9, <4>1
      <4> QED BY <3>3, <4>1, <4>2
    <3> QED BY <3>1, <3>2, <3>3
  <2>3. \A name : name \in names <=> \E i \in 1 .. m : a[i] = name  BY <1>3 DEF ToSet
  <2>4. \A row : (\E i \in 1 .. m : row \in ToSet(part(a[i]).rows)) <=>
                   \E name \in names : row \in ToSet(part(name).rows)
    BY <2>3
  <2> QED BY <2>1, <2>2, <2>4
<1> QED BY <1>1, <1>12, <1>13 DEF names, part, content, RowsOfName

\* The row of a resource that one catalog has and the other has not.
MemberRow(kind, id, catalog, retrieved, quiet) ==
  LET there == SideOf(catalog, id)
      held == Hash(catalog.resources[id].params)
      added == kind = "resource_added"
  IN  Row(kind, id, "", IF added THEN Undef ELSE held, IF added THEN held ELSE Undef,
          IF id.type = FileResourceType /\ NeedsEvidence(there.file)
          THEN <<MembershipEvidence(kind, there, ResolvedSide(there, retrieved), quiet).evidence>>
          ELSE <<>>)

\* That resource is one row.
LEMMA MembershipRows ==
  ASSUME NEW kind, NEW id, NEW catalog, NEW retrieved, NEW quiet
  PROVE  LET rows == MembershipChange(kind, id, catalog, retrieved, quiet).rows
         IN  IsSequence(rows) /\ ToSet(rows) = {MemberRow(kind, id, catalog, retrieved, quiet)}
<1> DEFINE row == MemberRow(kind, id, catalog, retrieved, quiet)
<1>1. MembershipChange(kind, id, catalog, retrieved, quiet).rows = <<row>>
  BY DEF MembershipChange, MemberRow
<1> HIDE DEF row
<1> QED BY <1>1, OneInList DEF row

\* What a normalized catalog has.
LEMMA NormalizedHas ==
  ASSUME NEW catalog, IsNormalized(catalog)
  PROVE  /\ IsFiniteSet(DOMAIN catalog.resources) /\ IsSequence(catalog.edges)
         /\ \A id \in DOMAIN catalog.resources :
              /\ IsIdentity(id)
              /\ DOMAIN catalog.resources[id].params \subseteq ToSet(NameOrder)
         /\ \A e \in ToSet(catalog.edges) : IsIdentity(e.source) /\ IsIdentity(e.target)
BY DEF IsNormalized

\* The fields of a row.
LEMMA RowFields ==
  ASSUME NEW kind, NEW id, NEW parameter, NEW before, NEW after, NEW content
  PROVE  LET row == Row(kind, id, parameter, before, after, content)
         IN  /\ row.kind = kind /\ row.id = id /\ row.parameter = parameter
             /\ row.before = before /\ row.after = after /\ row.content = content
BY DEF Row

\* The rows of one resource, by where it is.
LEMMA ResourceRows ==
  ASSUME NEW before, IsNormalized(before), NEW after, IsNormalized(after),
         NEW id \in Identities(before, after), NEW retrieved, NEW quiet
  PROVE  LET rows == ResourceDiff(id, before, after, retrieved, quiet).rows
         IN  /\ IsSequence(rows)
             /\ id \notin DOMAIN after.resources =>
                  /\ id \in DOMAIN before.resources
                  /\ ToSet(rows) = {MemberRow("resource_removed", id, before, retrieved, quiet)}
             /\ id \notin DOMAIN before.resources =>
                  /\ id \in DOMAIN after.resources
                  /\ ToSet(rows) = {MemberRow("resource_added", id, after, retrieved, quiet)}
             /\ id \in DOMAIN before.resources \cap DOMAIN after.resources =>
                  \A row : row \in ToSet(rows) <=>
                    \/ \E name \in ComparedNames(before, after, id) :
                         row \in ToSet(RowsOfName(id, name, before, after))
                    \/ row \in ToSet(ContentChange(id, before, after, retrieved, quiet).rows)
             /\ \A row \in ToSet(rows) : row.id = id /\ row.kind \in ResourceKinds
<1> DEFINE d == ResourceDiff(id, before, after, retrieved, quiet)
<1>1. CASE id \notin DOMAIN after.resources
  <2>1. d = MembershipChange("resource_removed", id, before, retrieved, quiet)
    BY <1>1 DEF ResourceDiff
  <2>2. id \in DOMAIN before.resources  BY <1>1 DEF Identities
  <2>3. IsSequence(d.rows) /\ ToSet(d.rows) = {MemberRow("resource_removed", id, before, retrieved, quiet)}
    BY <2>1, MembershipRows
  <2>4. /\ MemberRow("resource_removed", id, before, retrieved, quiet).id = id
        /\ MemberRow("resource_removed", id, before, retrieved, quiet).kind = "resource_removed"
    BY DEF MemberRow, Row
  <2> QED BY <1>1, <2>2, <2>3, <2>4 DEF ResourceKinds
<1>2. CASE id \in DOMAIN after.resources /\ id \notin DOMAIN before.resources
  <2>1. d = MembershipChange("resource_added", id, after, retrieved, quiet)
    BY <1>2 DEF ResourceDiff
  <2>3. IsSequence(d.rows) /\ ToSet(d.rows) = {MemberRow("resource_added", id, after, retrieved, quiet)}
    BY <2>1, MembershipRows
  <2>4. /\ MemberRow("resource_added", id, after, retrieved, quiet).id = id
        /\ MemberRow("resource_added", id, after, retrieved, quiet).kind = "resource_added"
    BY DEF MemberRow, Row
  <2> QED BY <1>2, <2>3, <2>4 DEF ResourceKinds
<1>3. CASE id \in DOMAIN after.resources /\ id \in DOMAIN before.resources
  <2>1. d = DiffParameters(id, before, after, retrieved, quiet)
    BY <1>3 DEF ResourceDiff
  <2>2. NamesOf(before, after, id) \subseteq ToSet(NameOrder)
    BY <1>3, NormalizedHas DEF NamesOf
  <2>3. /\ IsSequence(d.rows)
        /\ \A row : row \in ToSet(d.rows) <=>
             \/ \E name \in ComparedNames(before, after, id) :
                  row \in ToSet(RowsOfName(id, name, before, after))
             \/ row \in ToSet(ContentChange(id, before, after, retrieved, quiet).rows)
    BY <2>1, <2>2, ParameterRows
  <2>4. ASSUME NEW name, NEW row \in ToSet(RowsOfName(id, name, before, after))
        PROVE  row.id = id /\ row.kind \in ResourceKinds
    <3> DEFINE b == ParameterOf(before.resources[id], name)
               a == ParameterOf(after.resources[id], name)
    <3>1. row = Row("parameter_changed", id, name, b, a, <<>>)
      <4>1. ToSet(RowsOfName(id, name, before, after))
              \subseteq {Row("parameter_changed", id, name, b, a, <<>>)}
        BY ParameterRow DEF RowsOfName
      <4> QED BY <4>1
    <3> HIDE DEF a, b
    <3> QED BY <3>1, RowFields DEF ResourceKinds
  <2>5. ASSUME NEW row \in ToSet(ContentChange(id, before, after, retrieved, quiet).rows)
        PROVE  row.id = id /\ row.kind \in ResourceKinds
    <3> DEFINE e == <<ToldOf(id, before, after, retrieved, quiet).evidence>>
               b == ContentParameters(before.resources[id])
               a == ContentParameters(after.resources[id])
    <3>1. row = Row("parameter_changed", id, "content", b, a, e)
      <4>1. ToSet(ContentChange(id, before, after, retrieved, quiet).rows)
              \subseteq {Row("parameter_changed", id, "content", b, a, e)}
        BY ContentRow
      <4> QED BY <4>1
    <3> HIDE DEF a, b, e
    <3> QED BY <3>1, RowFields DEF ResourceKinds
  <2> QED BY <1>3, <2>3, <2>4, <2>5
<1> QED BY <1>1, <1>2, <1>3

\* The rows of a difference are those of each resource of either catalog.
LEMMA FullRows ==
  ASSUME NEW before, IsNormalized(before), NEW after, IsNormalized(after),
         NEW retrieved, NEW quiet
  PROVE  LET rows == DiffResources(before, after, retrieved, quiet).rows
         IN  /\ IsSequence(rows)
             /\ \A row : row \in ToSet(rows) <=>
                  \E id \in Identities(before, after) :
                    row \in ToSet(ResourceDiff(id, before, after, retrieved, quiet).rows)
             /\ \A j \in DOMAIN rows : rows[j].kind \in ResourceKinds
<1> DEFINE all == Identities(before, after)
           R == {p \in all \X all : IdentityPrecedes(p[1], p[2])}
           ids == Arranged(all, R)
           n == Cardinality(all)
           part(id) == ResourceDiff(id, before, after, retrieved, quiet)
           parts == [i \in DOMAIN ids |-> part(ids[i])]
<1>1. DiffResources(before, after, retrieved, quiet) = Joined(parts)  BY DEF DiffResources
<1>2. IsFiniteSet(all) /\ \A id \in all : IsIdentity(id)
  <2>1. IsFiniteSet(DOMAIN before.resources) /\ IsFiniteSet(DOMAIN after.resources)
    BY NormalizedHas
  <2>2. IsFiniteSet(all)  BY <2>1, FS_Union DEF Identities
  <2> QED BY <2>2, NormalizedHas DEF Identities
<1>3. /\ \A id \in all : IsSequence(part(id).rows)
      /\ \A id \in all : \A row \in ToSet(part(id).rows) : row.kind \in ResourceKinds
  BY ResourceRows
<1> HIDE DEF all
<1>4. StrictOrder(R, all)  BY <1>2, IdentitiesInOrder
<1> HIDE DEF R
<1>5. n \in Nat /\ DOMAIN ids = 1 .. n /\ ToSet(ids) = all  BY <1>2, <1>4, ArrangedIsAll
<1> HIDE DEF ids, n
<1>6. DOMAIN parts = 1 .. n /\ \A i \in 1 .. n : parts[i] = part(ids[i])  BY <1>5
<1>7. \A i \in 1 .. n : ids[i] \in all  BY <1>5 DEF ToSet
<1> HIDE DEF parts, part
<1>8. \A i \in 1 .. n : IsSequence(parts[i].rows)  BY <1>3, <1>6, <1>7
<1>9. /\ IsSequence(Joined(parts).rows)
      /\ ToSet(Joined(parts).rows) = UNION {ToSet(parts[i].rows) : i \in 1 .. n}
  BY <1>5, <1>6, <1>8, JoinedRows
<1>10. \A row : row \in ToSet(Joined(parts).rows) <=> \E id \in all : row \in ToSet(part(id).rows)
  <2>1. \A row : row \in ToSet(Joined(parts).rows) <=>
                   \E i \in 1 .. n : row \in ToSet(parts[i].rows)
    BY <1>9
  <2>2. \A id : id \in all <=> \E i \in 1 .. n : ids[i] = id  BY <1>5 DEF ToSet
  <2> QED BY <1>6, <2>1, <2>2
<1>11. \A row \in ToSet(Joined(parts).rows) : row.kind \in ResourceKinds  BY <1>3, <1>10
<1>12. \A j \in DOMAIN Joined(parts).rows : Joined(parts).rows[j] \in ToSet(Joined(parts).rows)
  BY DEF ToSet
<1> QED BY <1>1, <1>9, <1>10, <1>11, <1>12 DEF all, part

IsEdgeRow(row, kind, edges, others) ==
  \E i \in DOMAIN edges : edges[i] \notin ToSet(others) /\ row = [kind |-> kind, edge |-> edges[i], at |-> i]

\* The edges of a difference are those that one catalog has and the other has
\* not.
LEMMA EdgesOfDifference ==
  ASSUME NEW before, IsNormalized(before), NEW after, IsNormalized(after)
  PROVE  LET edges == DiffEdges(before, after)
         IN  /\ IsSequence(edges)
             /\ \A d : d \in ToSet(edges) <=>
                  \/ \E e \in ToSet(before.edges) \ ToSet(after.edges) :
                       d = [kind |-> "edge_removed", edge |-> e]
                  \/ \E e \in ToSet(after.edges) \ ToSet(before.edges) :
                       d = [kind |-> "edge_added", edge |-> e]
<1> DEFINE removed == EdgeRows("edge_removed", before.edges, after.edges)
           added == EdgeRows("edge_added", after.edges, before.edges)
           rows == removed \cup added
           precedes(x, y) == EdgeRowPrecedes(x, y) \/ (~EdgeRowPrecedes(y, x) /\ x.at < y.at)
           R == {p \in rows \X rows : precedes(p[1], p[2])}
           a == Arranged(rows, R)
           n == Cardinality(rows)
           kept(d) == [kind |-> d.kind, edge |-> d.edge]
           edges == [k \in DOMAIN a |-> kept(a[k])]
<1>1. DiffEdges(before, after) = edges  BY DEF DiffEdges
<1>2. /\ \A row : row \in removed <=> IsEdgeRow(row, "edge_removed", before.edges, after.edges)
      /\ \A row : row \in added <=> IsEdgeRow(row, "edge_added", after.edges, before.edges)
  BY DEF EdgeRows, IsEdgeRow
<1>3. /\ IsSequence(before.edges) /\ \A i \in DOMAIN before.edges :
           /\ i \in Nat /\ before.edges[i] \in ToSet(before.edges)
           /\ IsIdentity(before.edges[i].source) /\ IsIdentity(before.edges[i].target)
      /\ IsSequence(after.edges) /\ \A i \in DOMAIN after.edges :
           /\ i \in Nat /\ after.edges[i] \in ToSet(after.edges)
           /\ IsIdentity(after.edges[i].source) /\ IsIdentity(after.edges[i].target)
  BY NormalizedHas, ListsHaveLengths DEF ToSet
<1>4. IsFiniteSet(rows)
  <2>1. ASSUME NEW kind, NEW list, IsSequence(list), NEW others
        PROVE  IsFiniteSet(EdgeRows(kind, list, others))
    <3> DEFINE S == {j \in DOMAIN list : list[j] \notin ToSet(others)}
               f == [i \in S |-> [kind |-> kind, edge |-> list[i], at |-> i]]
               T == EdgeRows(kind, list, others)
    <3>1. IsFiniteSet(S)
      <4>1. S \subseteq DOMAIN list  OBVIOUS
      <4> HIDE DEF S
      <4> QED BY <2>1, <4>1, PlacesAreCounted
    <3>2. T = {f[i] : i \in S}  BY DEF EdgeRows
    <3> HIDE DEF T
    <3>3. f \in Surjection(S, T)  BY <3>2 DEF Surjection
    <3> HIDE DEF f, S
    <3>4. IsFiniteSet(T)  BY <3>1, <3>3, FS_Surjection
    <3> QED BY <3>4 DEF T
  <2>2. IsFiniteSet(removed) /\ IsFiniteSet(added)  BY <1>3, <2>1
  <2> HIDE DEF removed, added
  <2> QED BY <2>2, FS_Union
<1>5. ASSUME NEW row \in rows
      PROVE  /\ IsIdentity(row.edge.source) /\ IsIdentity(row.edge.target) /\ row.at \in Nat
             /\ row.kind \in {"edge_added", "edge_removed"}
             /\ row.kind = "edge_removed" => row = [kind |-> row.kind, edge |-> before.edges[row.at], at |-> row.at]
             /\ row.kind = "edge_added" => row = [kind |-> row.kind, edge |-> after.edges[row.at], at |-> row.at]
  <2>1. CASE row \in removed
    <3>1. PICK i \in DOMAIN before.edges : row = [kind |-> "edge_removed", edge |-> before.edges[i], at |-> i]
      BY <1>2, <2>1 DEF IsEdgeRow
    <3> QED BY <1>3, <3>1
  <2>2. CASE row \in added
    <3>1. PICK i \in DOMAIN after.edges : row = [kind |-> "edge_added", edge |-> after.edges[i], at |-> i]
      BY <1>2, <2>2 DEF IsEdgeRow
    <3> QED BY <1>3, <3>1
  <2> QED BY <2>1, <2>2
<1> HIDE DEF removed, added
<1> DEFINE K(x) == IF x.kind = "edge_added" THEN 0 ELSE 1
           sy(x) == TypePlace(x.edge.source)
           si(x) == TitlePlace(x.edge.source)
           ty(x) == TypePlace(x.edge.target)
           ti(x) == TitlePlace(x.edge.target)
           less(x, y) ==
             \/ sy(x) < sy(y)
             \/ sy(x) = sy(y) /\ si(x) < si(y)
             \/ sy(x) = sy(y) /\ si(x) = si(y) /\ ty(x) < ty(y)
             \/ sy(x) = sy(y) /\ si(x) = si(y) /\ ty(x) = ty(y) /\ ti(x) < ti(y)
             \/ sy(x) = sy(y) /\ si(x) = si(y) /\ ty(x) = ty(y) /\ ti(x) = ti(y) /\ K(x) < K(y)
<1>6. \A x \in rows : /\ sy(x) \in Nat /\ si(x) \in Nat /\ ty(x) \in Nat /\ ti(x) \in Nat
                      /\ K(x) \in Nat /\ x.at \in Nat
  BY <1>5, PlacesOfIdentities
<1>7. ASSUME NEW x \in rows, NEW y \in rows  PROVE EdgeRowPrecedes(x, y) <=> less(x, y)
  <2>1. /\ IdentityPrecedes(x.edge.source, y.edge.source) <=>
             sy(x) < sy(y) \/ (sy(x) = sy(y) /\ si(x) < si(y))
        /\ x.edge.source = y.edge.source <=> sy(x) = sy(y) /\ si(x) = si(y)
        /\ IdentityPrecedes(x.edge.target, y.edge.target) <=>
             ty(x) < ty(y) \/ (ty(x) = ty(y) /\ ti(x) < ti(y))
        /\ x.edge.target = y.edge.target <=> ty(x) = ty(y) /\ ti(x) = ti(y)
    BY <1>5, PlacesOfIdentities
  <2>2. <<x.kind, y.kind>> = <<"edge_added", "edge_removed">> <=> K(x) < K(y)  BY <1>5
  <2> HIDE DEF sy, si, ty, ti, K
  <2> QED BY <2>1, <2>2 DEF EdgeRowPrecedes
<1>8. ASSUME NEW x \in rows, NEW y \in rows, ~less(x, y), ~less(y, x), x.at = y.at  PROVE x = y
  <2>1. sy(x) = sy(y) /\ si(x) = si(y) /\ ty(x) = ty(y) /\ ti(x) = ti(y) /\ K(x) = K(y)
    <3>1. /\ sy(x) \in Nat /\ si(x) \in Nat /\ ty(x) \in Nat /\ ti(x) \in Nat /\ K(x) \in Nat
          /\ sy(y) \in Nat /\ si(y) \in Nat /\ ty(y) \in Nat /\ ti(y) \in Nat /\ K(y) \in Nat
      BY <1>6
    <3> HIDE DEF sy, si, ty, ti, K
    <3> QED BY <1>8, <3>1
  <2>2. x.kind = y.kind  BY <1>5, <2>1
  <2> QED BY <1>5, <1>8, <2>2
<1>9. StrictOrder(R, rows)
  <2>1. \A x, y \in rows : <<x, y>> \in R <=> less(x, y) \/ (~less(y, x) /\ x.at < y.at)
    BY <1>7
  <2> HIDE DEF R, rows, less, precedes
  <2>2. \A x \in rows : <<x, x>> \notin R  BY <1>6, <2>1 DEF less
  <2>3. ASSUME NEW x \in rows, NEW y \in rows, NEW z \in rows, <<x, y>> \in R, <<y, z>> \in R
        PROVE  <<x, z>> \in R
    <3>1. /\ sy(x) \in Nat /\ si(x) \in Nat /\ ty(x) \in Nat /\ ti(x) \in Nat /\ K(x) \in Nat /\ x.at \in Nat
          /\ sy(y) \in Nat /\ si(y) \in Nat /\ ty(y) \in Nat /\ ti(y) \in Nat /\ K(y) \in Nat /\ y.at \in Nat
          /\ sy(z) \in Nat /\ si(z) \in Nat /\ ty(z) \in Nat /\ ti(z) \in Nat /\ K(z) \in Nat /\ z.at \in Nat
      BY <1>6
    <3>2. less(x, y) \/ (~less(y, x) /\ x.at < y.at)  BY <2>1, <2>3
    <3>3. less(y, z) \/ (~less(z, y) /\ y.at < z.at)  BY <2>1, <2>3
    <3> HIDE DEF sy, si, ty, ti, K
    <3>4. less(x, z) \/ (~less(z, x) /\ x.at < z.at)  BY <3>1, <3>2, <3>3 DEF less
    <3> QED BY <2>1, <3>4
  <2>4. ASSUME NEW x \in rows, NEW y \in rows, x # y  PROVE <<x, y>> \in R \/ <<y, x>> \in R
    <3>1. less(x, y) \/ less(y, x) \/ x.at # y.at  BY <1>8, <2>4
    <3>2. x.at \in Nat /\ y.at \in Nat  BY <1>6
    <3> QED BY <2>1, <3>1, <3>2
  <2> QED BY <2>2, <2>3, <2>4 DEF StrictOrder
<1> HIDE DEF R
<1>10. n \in Nat /\ DOMAIN a = 1 .. n /\ ToSet(a) = rows /\ \A k \in DOMAIN a : a[k] \in rows
  <2> HIDE DEF rows
  <2> QED BY <1>4, <1>9, ArrangedIsAll
<1> HIDE DEF a, n
<1>11. IsSequence(edges)
  <2> DEFINE T == {edges[k] : k \in 1 .. n}
  <2>1. edges = [k \in 1 .. n |-> edges[k]] /\ \A k \in 1 .. n : edges[k] \in T  BY <1>10
  <2> HIDE DEF edges, T
  <2>2. edges \in Seq(T)  BY <1>10, <2>1
  <2> QED BY <2>2, ListsAreSequences
<1>12. \A d : d \in ToSet(edges) <=> \E row \in rows : d = kept(row)
  <2>1. \A k \in DOMAIN a : edges[k] = kept(a[k])  OBVIOUS
  <2>2. DOMAIN edges = DOMAIN a  OBVIOUS
  <2>3. \A row : row \in rows <=> \E k \in DOMAIN a : a[k] = row  BY <1>10 DEF ToSet
  <2> HIDE DEF edges, kept, rows
  <2> QED BY <2>1, <2>2, <2>3 DEF ToSet
<1>13. ASSUME NEW d
       PROVE  (\E row \in removed : d = kept(row)) <=>
                 \E e \in ToSet(before.edges) \ ToSet(after.edges) : d = [kind |-> "edge_removed", edge |-> e]
  <2>1. ASSUME NEW row \in removed, d = kept(row)
        PROVE  \E e \in ToSet(before.edges) \ ToSet(after.edges) : d = [kind |-> "edge_removed", edge |-> e]
    <3>1. PICK i \in DOMAIN before.edges :
            /\ before.edges[i] \notin ToSet(after.edges)
            /\ row = [kind |-> "edge_removed", edge |-> before.edges[i], at |-> i]
      BY <1>2 DEF IsEdgeRow
    <3>2. before.edges[i] \in ToSet(before.edges)  BY <1>3
    <3> QED BY <2>1, <3>1, <3>2
  <2>2. ASSUME NEW e \in ToSet(before.edges) \ ToSet(after.edges), d = [kind |-> "edge_removed", edge |-> e]
        PROVE  \E row \in removed : d = kept(row)
    <3>1. PICK i \in DOMAIN before.edges : before.edges[i] = e  BY DEF ToSet
    <3> DEFINE row == [kind |-> "edge_removed", edge |-> before.edges[i], at |-> i]
    <3>2. row \in removed  BY <1>2, <3>1 DEF IsEdgeRow
    <3>3. d = kept(row)  BY <2>2, <3>1
    <3> QED BY <3>2, <3>3
  <2> QED BY <2>1, <2>2
<1>14. ASSUME NEW d
       PROVE  (\E row \in added : d = kept(row)) <=>
                 \E e \in ToSet(after.edges) \ ToSet(before.edges) : d = [kind |-> "edge_added", edge |-> e]
  <2>1. ASSUME NEW row \in added, d = kept(row)
        PROVE  \E e \in ToSet(after.edges) \ ToSet(before.edges) : d = [kind |-> "edge_added", edge |-> e]
    <3>1. PICK i \in DOMAIN after.edges :
            /\ after.edges[i] \notin ToSet(before.edges)
            /\ row = [kind |-> "edge_added", edge |-> after.edges[i], at |-> i]
      BY <1>2 DEF IsEdgeRow
    <3>2. after.edges[i] \in ToSet(after.edges)  BY <1>3
    <3> QED BY <2>1, <3>1, <3>2
  <2>2. ASSUME NEW e \in ToSet(after.edges) \ ToSet(before.edges), d = [kind |-> "edge_added", edge |-> e]
        PROVE  \E row \in added : d = kept(row)
    <3>1. PICK i \in DOMAIN after.edges : after.edges[i] = e  BY DEF ToSet
    <3> DEFINE row == [kind |-> "edge_added", edge |-> after.edges[i], at |-> i]
    <3>2. row \in added  BY <1>2, <3>1 DEF IsEdgeRow
    <3>3. d = kept(row)  BY <2>2, <3>1
    <3> QED BY <3>2, <3>3
  <2> QED BY <2>1, <2>2
<1>15. ASSUME NEW d
       PROVE  (\E row \in rows : d = kept(row)) <=>
                (\E row \in removed : d = kept(row)) \/ (\E row \in added : d = kept(row))
  <2> HIDE DEF kept
  <2> QED OBVIOUS
<1> HIDE DEF edges, kept, rows
<1> QED BY <1>1, <1>11, <1>12, <1>13, <1>14, <1>15

----------------------------------------------------------------------------
(* What a compared target has of its difference.                           *)

KeptOf(i) ==
  ApplyExclusions(done[i].policy.exclude, Ids(i), Full(i), FullEdges(i))

\* The result of a target that has a difference is of its inputs.
LEMMA ComparedHas ==
  ASSUME ComparisonInv, NEW i \in Compared
  PROVE  /\ i \in Targets /\ i \in 1 .. Len(results) /\ done[i] \in Inputs[i]
         /\ IsNormalized(done[i].before) /\ IsNormalized(done[i].after)
         /\ IsSequence(done[i].policy.exclude)
         /\ results[i] = ResultOf(i, done[i], NodeDiffOf(i))
         /\ DiffOf(i) = Publish(i, done[i].policy.redact, done[i].before, done[i].after, KeptOf(i))
<1>1. i \in DOMAIN results /\ results[i].nodeDiff # <<>>  BY DEF Compared
<1>2. /\ Len(results) \in Nat /\ DOMAIN results = 1 .. Len(results)
      /\ Len(results) <= Cardinality(Targets)
  BY ListsHaveLengths DEF ComparisonInv, InTargetOrder
<1>3. i \in Targets
  BY <1>1, <1>2, TargetsAreNumbered, FS_CardinalityType
<1>4. ~HasFailed(i)
  <2>1. ASSUME NEW d  PROVE TargetResult(i, FALSE, <<>>, <<>>, <<d>>).nodeDiff = <<>>
    BY DEF TargetResult
  <2> QED BY <1>1, <2>1 DEF HasFailed
<1>5. WasCompared(i)  BY <1>1, <1>2, <1>4 DEF ComparisonInv, TargetsAreDone
<1>6. DiffOf(i) = NodeDiffOf(i).nodeDiff
  <2> DEFINE d == NodeDiffOf(i)
  <2>1. results[i] = ResultOf(i, done[i], d)  BY <1>5 DEF WasCompared
  <2> HIDE DEF d
  <2>2. results[i].nodeDiff = <<d.nodeDiff>>  BY <2>1 DEF ResultOf, TargetResult
  <2> QED BY <2>2 DEF DiffOf, d
<1>7. NodeDiffOf(i).nodeDiff
        = Publish(i, done[i].policy.redact, done[i].before, done[i].after, KeptOf(i))
  BY DEF NodeDiffOf, NodeDiff, DiffOfFull, KeptOf, Full, FullEdges, Ids
<1> QED BY <1>1, <1>2, <1>3, <1>5, <1>6, <1>7, InputsAreNormalized DEF WasCompared

\* The rows and the edges of its full difference are lists.
LEMMA FullOfCompared ==
  ASSUME ComparisonInv, NEW i \in Compared
  PROVE  /\ IsSequence(Full(i)) /\ \A j \in DOMAIN Full(i) : Full(i)[j].kind \in ResourceKinds
         /\ IsSequence(FullEdges(i))
<1>1. IsNormalized(done[i].before) /\ IsNormalized(done[i].after)  BY ComparedHas
<1>2. IsSequence(Full(i)) /\ \A j \in DOMAIN Full(i) : Full(i)[j].kind \in ResourceKinds
  BY <1>1, FullRows DEF Full
<1>3. IsSequence(FullEdges(i))  BY <1>1, EdgesOfDifference DEF FullEdges
<1> QED BY <1>2, <1>3

\* What is published of a kept row is what it is, and as many are.
LEMMA PublishedAreKept ==
  ASSUME NEW certname, NEW selectors, NEW before, NEW after, NEW kept, IsSequence(kept.changes)
  PROVE  LET d == Publish(certname, selectors, before, after, kept)
         IN  /\ IsSequence(d.resourceChanges)
             /\ Len(d.resourceChanges) = Len(kept.changes)
             /\ DOMAIN d.resourceChanges = DOMAIN kept.changes
             /\ \A j \in DOMAIN kept.changes :
                  d.resourceChanges[j] = PublishChange(selectors, kept.changes[j], before, after)
             /\ d.edgeChanges = kept.edgeChanges /\ d.exclusions = kept.exclusions
             /\ d.certname = certname
             /\ d.hasDifference <=> kept.changes # <<>> \/ kept.edgeChanges # <<>>
<1> DEFINE d == Publish(certname, selectors, before, after, kept)
           n == Len(kept.changes)
           public(j) == PublishChange(selectors, kept.changes[j], before, after)
           r == [j \in DOMAIN kept.changes |-> public(j)]
<1>1. /\ d.resourceChanges = r /\ d.edgeChanges = kept.edgeChanges
      /\ d.exclusions = kept.exclusions /\ d.certname = certname
      /\ d.hasDifference <=> kept.changes # <<>> \/ kept.edgeChanges # <<>>
  BY DEF Publish
<1>2. n \in Nat /\ DOMAIN kept.changes = 1 .. n  BY ListsHaveLengths
<1> HIDE DEF n, public, d
<1>3. r = [j \in 1 .. n |-> r[j]]  BY <1>2
<1>4. \A j \in 1 .. n : r[j] = public(j)  BY <1>2
<1> HIDE DEF r
<1>5. DOMAIN r = 1 .. n /\ Len(r) = n  BY <1>2, <1>3, OfLength
<1>6. IsSequence(r)
  <2> DEFINE T == {r[j] : j \in DOMAIN r}
  <2>1. \A j \in 1 .. n : r[j] \in T  BY <1>5
  <2> HIDE DEF T
  <2>2. r \in Seq(T)  BY <1>2, <1>3, <2>1
  <2> QED BY <2>2, ListsAreSequences
<1> QED BY <1>1, <1>2, <1>4, <1>5, <1>6 DEF d, n, public

\* Every row of the full difference is published or counted.
THEOREM ExclusionsAddUpHolds == ComparisonSpec => []ExclusionsAddUp
<1>1. ComparisonInv => ExclusionsAddUp
  <2> SUFFICES ASSUME ComparisonInv, NEW i \in Compared
               PROVE  AddsUp(done[i].policy.exclude, Ids(i), Full(i), FullEdges(i), DiffOf(i))
    BY DEF ExclusionsAddUp
  <2> DEFINE rules == done[i].policy.exclude
             kept == KeptOf(i)
             d == DiffOf(i)
  <2>1. IsSequence(rules) /\ d = Publish(i, done[i].policy.redact, done[i].before, done[i].after, kept)
    BY ComparedHas
  <2>2. /\ IsSequence(Full(i)) /\ \A j \in DOMAIN Full(i) : Full(i)[j].kind \in ResourceKinds
        /\ IsSequence(FullEdges(i))
    BY FullOfCompared
  <2>3. IsSequence(kept.changes)
    <3> DEFINE keep == {j \in DOMAIN Full(i) : RuleOf(rules, Full(i)[j].id) = 0}
    <3>1. kept.changes = Kept(Full(i), keep)  BY DEF KeptOf, ApplyExclusions
    <3>2. keep \subseteq DOMAIN Full(i)  OBVIOUS
    <3> HIDE DEF keep, kept
    <3> QED BY <2>2, <3>1, <3>2, KeptOfList
  <2> HIDE DEF d, kept
  <2>4. /\ IsSequence(d.resourceChanges) /\ Len(d.resourceChanges) = Len(kept.changes)
        /\ DOMAIN d.resourceChanges = DOMAIN kept.changes
        /\ \A j \in DOMAIN kept.changes :
             d.resourceChanges[j] = PublishChange(done[i].policy.redact, kept.changes[j],
                                                  done[i].before, done[i].after)
        /\ d.edgeChanges = kept.edgeChanges /\ d.exclusions = kept.exclusions
    BY <2>1, <2>3, PublishedAreKept
  <2>5. {What(row) : row \in ToSet(d.resourceChanges)} = {What(row) : row \in ToSet(kept.changes)}
    <3>1. \A selectors, row, before, after :
            What(PublishChange(selectors, row, before, after)) = What(row)
      BY DEF What, PublishChange
    <3>2. \A j \in DOMAIN kept.changes : What(d.resourceChanges[j]) = What(kept.changes[j])
      BY <2>4, <3>1
    <3>3. {What(row) : row \in ToSet(d.resourceChanges)}
            = {What(d.resourceChanges[j]) : j \in DOMAIN kept.changes}
      BY <2>4 DEF ToSet
    <3>4. {What(row) : row \in ToSet(kept.changes)}
            = {What(kept.changes[j]) : j \in DOMAIN kept.changes}
      BY DEF ToSet
    <3> QED BY <3>2, <3>3, <3>4
  <2>6. AddsUp(rules, Ids(i), Full(i), FullEdges(i), d)
    BY <2>1, <2>2, <2>4, <2>5, NothingIsLost DEF kept, KeptOf
  <2> QED BY <2>6 DEF d
<1> QED BY <1>1, ComparisonInvariant, PTL

----------------------------------------------------------------------------
(* Values: what holds of a value when it holds of those in it.             *)

\* Of some values there is one that has none of them in it.
LEMMA Innermost ==
  ASSUME NEW B, B \subseteq CatalogValues, B # {}
  PROVE  \E v \in B : Children(v) \cap B = {} /\ Children(v) \subseteq CatalogValues
<1> DEFINE T == {Depth(v) : v \in B}
<1>1. \A v \in B : /\ Depth(v) \in Nat
                   /\ \A c \in Children(v) : c \in CatalogValues /\ Depth(c) < Depth(v)
  BY ValuesAreTrees
<1>2. T \subseteq Nat /\ T # {}  BY <1>1
<1> HIDE DEF T
<1>3. PICK x \in T : \A y \in T : x <= y  BY <1>2, LeastNumber
<1>4. PICK v \in B : Depth(v) = x  BY DEF T
<1>5. ASSUME NEW c \in Children(v) \cap B  PROVE FALSE
  <2>1. Depth(c) \in T  BY DEF T
  <2>2. x <= Depth(c) /\ Depth(c) < x  BY <1>1, <1>3, <1>4, <2>1
  <2> QED BY <1>1, <1>2, <2>1, <2>2
<1> QED BY <1>1, <1>5

\* A container of the values of catalogs is one of its children's places.
LEMMA ShapeOfValue ==
  ASSUME NEW v \in CatalogValues
  PROVE  /\ IsHash(v) => /\ v = Hash([k \in DOMAIN v.at |-> v.at[k]])
                         /\ \A k \in DOMAIN v.at : v.at[k] \in Children(v) /\ v.at[k] \in CatalogValues
         /\ IsList(v) => /\ v = List(v.items) /\ IsSequence(v.items) /\ DOMAIN v.items = 1 .. Len(v.items)
                         /\ v.items = [k \in DOMAIN v.items |-> v.items[k]]
                         /\ \A k \in DOMAIN v.items :
                              v.items[k] \in Children(v) /\ v.items[k] \in CatalogValues
         /\ ~IsHash(v) /\ ~IsList(v) => Children(v) = {}
         /\ ~(IsHash(v) /\ IsList(v))
<1>1. /\ IsHash(v) => v = Hash([k \in DOMAIN v.at |-> v.at[k]])
      /\ IsList(v) => v = List(v.items) /\ IsSequence(v.items)
      /\ \A c \in Children(v) : c \in CatalogValues
  BY ValuesAreTrees DEF IsHash, IsList
<1>2. ~(IsHash(v) /\ IsList(v))  BY DEF IsHash, IsList
<1>3. IsHash(v) => \A k \in DOMAIN v.at : v.at[k] \in Children(v)
  <2>1. IsHash(v) => Children(v) = {v.at[k] : k \in DOMAIN v.at}  BY <1>2 DEF Children
  <2> QED BY <2>1
<1>4. IsList(v) => \A k \in DOMAIN v.items : v.items[k] \in Children(v)  BY <1>2 DEF Children
<1>5. ~IsHash(v) /\ ~IsList(v) => Children(v) = {}  BY DEF Children
<1>6. IsList(v) => /\ DOMAIN v.items = 1 .. Len(v.items)
                   /\ v.items = [k \in DOMAIN v.items |-> v.items[k]]
  <2> SUFFICES ASSUME IsList(v)
               PROVE  /\ DOMAIN v.items = 1 .. Len(v.items)
                      /\ v.items = [k \in DOMAIN v.items |-> v.items[k]]
    OBVIOUS
  <2> DEFINE s == v.items
  <2>1. IsSequence(s)  BY <1>1
  <2> HIDE DEF s
  <2>2. DOMAIN s = 1 .. Len(s) /\ s = [k \in DOMAIN s |-> s[k]]
    BY <2>1, ListsHaveLengths DEF IsSequence
  <2> QED BY <2>2 DEF s
<1> QED BY <1>1, <1>2, <1>3, <1>4, <1>5, <1>6

\* What was measured of PuppetDB is what PIACE computes: of every Regexp in a
\* catalog, the string that is stored for it, and of nothing else.
EscapesAsMeasured ==
  /\ \A v \in DOMAIN StoredAs : RichTypeName(v) = RegexpWrapperType /\ IsText(Under(v, "__pvalue"))
  /\ \A v \in CatalogValues :
       RichTypeName(v) = RegexpWrapperType /\ IsText(Under(v, "__pvalue")) =>
         v \in DOMAIN StoredAs /\ StoredAs[v] = StringifyRich(v.at["__pvalue"])

\* A value with nothing rich in it is stored as it is.
LEMMA PlainIsStored ==
  ASSUME EscapesAsMeasured, NEW v \in CatalogValues, ~ContainsRichData(v)
  PROVE  Stored(v) = v
<1> DEFINE B == {w \in CatalogValues : ~ContainsRichData(w) /\ Stored(w) # w}
<1> SUFFICES ASSUME B # {}  PROVE FALSE
  OBVIOUS
<1>1. PICK w \in B : Children(w) \cap B = {} /\ Children(w) \subseteq CatalogValues
  <2>1. B \subseteq CatalogValues  OBVIOUS
  <2> HIDE DEF B
  <2> QED BY <2>1, Innermost
<1>2. w \in CatalogValues /\ ~ContainsRichData(w) /\ Stored(w) # w  OBVIOUS
<1>3. RichTypeName(w) = "" /\ \A c \in Children(w) : ~ContainsRichData(c)
  BY <1>2, TreesAreRecursive DEF RichDataAt
<1>4. \A c \in Children(w) : Stored(c) = c  BY <1>1, <1>3
<1> HIDE DEF B
<1>5. w \notin DOMAIN StoredAs  BY <1>3 DEF EscapesAsMeasured, RegexpWrapperType
<1>6. Stored(w) = CASE IsHash(w) -> Hash([k \in DOMAIN w.at |-> Stored(w.at[k])])
                    [] IsList(w) -> List([j \in DOMAIN w.items |-> Stored(w.items[j])])
                    [] OTHER -> w
  BY <1>2, <1>5, TreesAreRecursive DEF StoredAt
<1>7. CASE IsHash(w)
  <2>0. ~IsList(w)  BY <1>2, <1>7, ShapeOfValue
  <2>1. Stored(w) = Hash([k \in DOMAIN w.at |-> Stored(w.at[k])])  BY <1>6, <1>7, <2>0
  <2>2. \A k \in DOMAIN w.at : Stored(w.at[k]) = w.at[k]  BY <1>2, <1>4, <1>7, ShapeOfValue
  <2>3. Stored(w) = Hash([k \in DOMAIN w.at |-> w.at[k]])  BY <2>1, <2>2
  <2> QED BY <1>2, <1>7, <2>3, ShapeOfValue
<1>8. CASE IsList(w)
  <2>1. Stored(w) = List([k \in DOMAIN w.items |-> Stored(w.items[k])])
    BY <1>2, <1>6, <1>8, ShapeOfValue
  <2>2. \A k \in DOMAIN w.items : Stored(w.items[k]) = w.items[k]  BY <1>2, <1>4, <1>8, ShapeOfValue
  <2>3. Stored(w) = List([k \in DOMAIN w.items |-> w.items[k]])  BY <2>1, <2>2
  <2> QED BY <1>2, <1>8, <2>3, ShapeOfValue
<1>9. CASE ~IsHash(w) /\ ~IsList(w)  BY <1>2, <1>6, <1>9
<1> QED BY <1>7, <1>8, <1>9

\* The rich types of a value without rich data at its top are those in it.
LEMMA UnmeasuredInside ==
  ASSUME NEW v \in CatalogValues
  PROVE  /\ RichTypeName(v) = "" => (Unmeasured(v) = {} <=> \A c \in Children(v) : Unmeasured(c) = {})
         /\ RichTypeName(v) # "" =>
              (Unmeasured(v) = {} <=> Measured(RichTypeName(v), Under(v, "__pvalue")))
<1>1. Unmeasured(v) = UnmeasuredAt(v, Unmeasured)  BY TreesAreRecursive
<1>2. RichTypeName(v) = "" => Unmeasured(v) = UNION {Unmeasured(c) : c \in Children(v)}
  BY <1>1 DEF UnmeasuredAt
<1>3. RichTypeName(v) # "" =>
        Unmeasured(v) = IF Measured(RichTypeName(v), Under(v, "__pvalue")) THEN {} ELSE {RichTypeName(v)}
  BY <1>1 DEF UnmeasuredAt
<1>4. ASSUME RichTypeName(v) = ""
      PROVE  Unmeasured(v) = {} <=> \A c \in Children(v) : Unmeasured(c) = {}
  <2>1. \A x : x \in Unmeasured(v) <=> \E c \in Children(v) : x \in Unmeasured(c)  BY <1>2, <1>4
  <2> QED BY <2>1
<1>5. ASSUME RichTypeName(v) # ""
      PROVE  Unmeasured(v) = {} <=> Measured(RichTypeName(v), Under(v, "__pvalue"))
  BY <1>3, <1>5
<1> QED BY <1>4, <1>5

\* When all of its rich types are measured, what PIACE projects a value to is
\* what is stored.
LEMMA ProjectedIsStored ==
  ASSUME EscapesAsMeasured, NEW v \in CatalogValues, Unmeasured(v) = {}
  PROVE  ProjectStringifiedRich(v) = Stored(v)
<1> DEFINE B == {w \in CatalogValues : Unmeasured(w) = {} /\ ProjectStringifiedRich(w) # Stored(w)}
<1> SUFFICES ASSUME B # {}  PROVE FALSE
  OBVIOUS
<1>1. PICK w \in B : Children(w) \cap B = {} /\ Children(w) \subseteq CatalogValues
  <2>1. B \subseteq CatalogValues  OBVIOUS
  <2> HIDE DEF B
  <2> QED BY <2>1, Innermost
<1>2. /\ w \in CatalogValues /\ Unmeasured(w) = {} /\ ProjectStringifiedRich(w) # Stored(w)
      /\ \A c \in Children(w) : Unmeasured(c) = {} => ProjectStringifiedRich(c) = Stored(c)
  BY <1>1
<1> HIDE DEF B
<1>3. /\ ProjectStringifiedRich(w) = StringifiedRichAt(w, ProjectStringifiedRich)
      /\ Stored(w) = StoredAt(w, Stored)
  BY <1>2, TreesAreRecursive
<1>4. CASE RichTypeName(w) # ""
  <2>1. Measured(RichTypeName(w), Under(w, "__pvalue"))  BY <1>2, <1>4, UnmeasuredInside
  <2>2. w \in DOMAIN StoredAs /\ StoredAs[w] = StringifyRich(w.at["__pvalue"])
    BY <1>2, <2>1 DEF EscapesAsMeasured, Measured
  <2>3. Stored(w) = StoredAs[w]  BY <1>3, <2>2 DEF StoredAt
  <2>5. IsHash(w)  BY <1>4 DEF RichTypeName
  <2>6. ~IsList(w)  BY <1>2, <2>5, ShapeOfValue
  <2>4. ProjectStringifiedRich(w) = StringifyRich(w.at["__pvalue"])
    BY <1>3, <1>4, <2>6 DEF StringifiedRichAt
  <2> QED BY <1>2, <2>2, <2>3, <2>4
<1>5. CASE RichTypeName(w) = ""
  <2>1. \A c \in Children(w) : ProjectStringifiedRich(c) = Stored(c)
    BY <1>2, <1>5, UnmeasuredInside
  <2>2. w \notin DOMAIN StoredAs  BY <1>5 DEF EscapesAsMeasured, RegexpWrapperType
  <2>3. CASE IsHash(w)
    <3>0. ~IsList(w)  BY <1>2, <2>3, ShapeOfValue
    <3>1. Stored(w) = Hash([k \in DOMAIN w.at |-> Stored(w.at[k])])
      BY <1>3, <2>2, <2>3, <3>0 DEF StoredAt
    <3>2. ProjectStringifiedRich(w) = Hash([k \in DOMAIN w.at |-> ProjectStringifiedRich(w.at[k])])
      BY <1>3, <1>5, <2>3, <3>0 DEF StringifiedRichAt
    <3>3. \A k \in DOMAIN w.at : ProjectStringifiedRich(w.at[k]) = Stored(w.at[k])
      BY <1>2, <2>1, <2>3, ShapeOfValue
    <3> QED BY <1>2, <3>1, <3>2, <3>3
  <2>4. CASE IsList(w)
    <3>0. ~IsHash(w)  BY <1>2, <2>4, ShapeOfValue
    <3>1. Stored(w) = List([k \in DOMAIN w.items |-> Stored(w.items[k])])
      BY <1>3, <2>2, <2>4, <3>0 DEF StoredAt
    <3>2. ProjectStringifiedRich(w) = List([k \in DOMAIN w.items |-> ProjectStringifiedRich(w.items[k])])
      BY <1>3, <1>5, <2>4, <3>0 DEF StringifiedRichAt
    <3>3. \A k \in DOMAIN w.items : ProjectStringifiedRich(w.items[k]) = Stored(w.items[k])
      BY <1>2, <2>1, <2>4, ShapeOfValue
    <3> QED BY <1>2, <3>1, <3>2, <3>3
  <2>5. CASE ~IsHash(w) /\ ~IsList(w)
    <3>1. Stored(w) = w  BY <1>3, <2>2, <2>5 DEF StoredAt
    <3>2. ProjectStringifiedRich(w) = w  BY <1>3, <1>5, <2>5 DEF StringifiedRichAt
    <3> QED BY <1>2, <3>1, <3>2
  <2> QED BY <2>3, <2>4, <2>5
<1> QED BY <1>4, <1>5

\* What is stored of a value with an unmeasured rich type in it has one too.
LEMMA StoredPlainIsMeasured ==
  ASSUME EscapesAsMeasured, NEW v \in CatalogValues,
         Stored(v) \in CatalogValues, ~ContainsRichData(Stored(v))
  PROVE  Unmeasured(v) = {}
<1> DEFINE B == {w \in CatalogValues : /\ Stored(w) \in CatalogValues /\ ~ContainsRichData(Stored(w))
                                       /\ Unmeasured(w) # {}}
<1> SUFFICES ASSUME B # {}  PROVE FALSE
  OBVIOUS
<1>1. PICK w \in B : Children(w) \cap B = {} /\ Children(w) \subseteq CatalogValues
  <2>1. B \subseteq CatalogValues  OBVIOUS
  <2> HIDE DEF B
  <2> QED BY <2>1, Innermost
<1>2. /\ w \in CatalogValues /\ Unmeasured(w) # {}
      /\ Stored(w) \in CatalogValues /\ ~ContainsRichData(Stored(w))
      /\ \A c \in Children(w) :
           Stored(c) \in CatalogValues /\ ~ContainsRichData(Stored(c)) => Unmeasured(c) = {}
  BY <1>1
<1> HIDE DEF B
<1>3. /\ RichTypeName(Stored(w)) = ""
      /\ \A c \in Children(Stored(w)) : c \in CatalogValues /\ ~ContainsRichData(c)
  BY <1>2, TreesAreRecursive, ValuesAreTrees DEF RichDataAt
<1>4. w \notin DOMAIN StoredAs
  <2> SUFFICES ASSUME w \in DOMAIN StoredAs  PROVE FALSE
    OBVIOUS
  <2>1. RichTypeName(w) = RegexpWrapperType /\ IsText(Under(w, "__pvalue"))
    BY DEF EscapesAsMeasured
  <2>2. Measured(RichTypeName(w), Under(w, "__pvalue")) /\ RichTypeName(w) # ""
    BY <2>1 DEF Measured, RegexpWrapperType
  <2> QED BY <1>2, <2>2, UnmeasuredInside
<1>5. Stored(w) = StoredAt(w, Stored)  BY <1>2, TreesAreRecursive
<1>6. CASE IsHash(w)
  <2>1. ~IsList(w)  BY <1>2, <1>6, ShapeOfValue
  <2>2. Stored(w) = Hash([k \in DOMAIN w.at |-> Stored(w.at[k])])
    BY <1>4, <1>5, <1>6, <2>1 DEF StoredAt
  <2>3. /\ IsHash(Stored(w)) /\ DOMAIN Stored(w).at = DOMAIN w.at
        /\ \A k \in DOMAIN w.at : Stored(w).at[k] = Stored(w.at[k])
    BY <2>2 DEF Hash, IsHash
  <2>4. \A k \in DOMAIN w.at : Stored(w.at[k]) \in Children(Stored(w))
    <3>1. \A k \in DOMAIN Stored(w).at : Stored(w).at[k] \in Children(Stored(w))
      BY <1>2, <2>3, ShapeOfValue
    <3> QED BY <2>3, <3>1
  <2>5. Children(w) = {w.at[k] : k \in DOMAIN w.at}  BY <1>6, <2>1 DEF Children
  <2>6. \A c \in Children(w) : Unmeasured(c) = {}  BY <1>2, <1>3, <2>4, <2>5
  <2>7. RichTypeName(w) # ""  BY <1>2, <2>6, UnmeasuredInside
  <2>8. /\ IsText(Under(w, "__ptype")) /\ Len(w.at["__ptype"].text) = 1
        /\ RichTypeName(w) = w.at["__ptype"].text[1]
    BY <2>7 DEF RichTypeName
  <2>9. "__ptype" \in DOMAIN w.at
    <3>1. ~IsText(Undef)  BY DEF IsText, Undef
    <3> QED BY <2>8, <3>1 DEF Under
  <2>10. w.at["__ptype"] \in CatalogValues /\ IsText(w.at["__ptype"])
    BY <1>2, <1>6, <2>8, <2>9, ShapeOfValue DEF Under
  <2>11. Stored(w.at["__ptype"]) = w.at["__ptype"]
    <3> DEFINE t == w.at["__ptype"]
    <3>1. t \in CatalogValues /\ IsText(t)  BY <2>10
    <3> HIDE DEF t
    <3>2. ~IsHash(t) /\ ~IsList(t)  BY <3>1 DEF IsText, IsHash, IsList
    <3>3. RichTypeName(t) = ""  BY <3>2 DEF RichTypeName
    <3>4. t \notin DOMAIN StoredAs  BY <3>3 DEF EscapesAsMeasured, RegexpWrapperType
    <3>5. Stored(t) = StoredAt(t, Stored)  BY <3>1, TreesAreRecursive
    <3> QED BY <3>2, <3>4, <3>5 DEF StoredAt, t
  <2>12. Under(Stored(w), "__ptype") = w.at["__ptype"] /\ Stored(w).at["__ptype"] = w.at["__ptype"]
    BY <2>3, <2>9, <2>11 DEF Under
  <2>13. RichTypeName(Stored(w)) = RichTypeName(w)
    BY <1>6, <2>3, <2>8, <2>10, <2>12 DEF RichTypeName
  <2> QED BY <1>3, <2>7, <2>13
<1>7. CASE IsList(w)
  <2>1. ~IsHash(w)  BY <1>2, <1>7, ShapeOfValue
  <2>2. Stored(w) = List([k \in DOMAIN w.items |-> Stored(w.items[k])])
    BY <1>4, <1>5, <1>7, <2>1 DEF StoredAt
  <2>3. /\ IsList(Stored(w)) /\ DOMAIN Stored(w).items = DOMAIN w.items
        /\ \A k \in DOMAIN w.items : Stored(w).items[k] = Stored(w.items[k])
    BY <2>2 DEF List, IsList
  <2>4. \A k \in DOMAIN w.items : Stored(w.items[k]) \in Children(Stored(w))
    <3>1. \A k \in DOMAIN Stored(w).items : Stored(w).items[k] \in Children(Stored(w))
      BY <1>2, <2>3, ShapeOfValue
    <3> QED BY <2>3, <3>1
  <2>5. Children(w) = {w.items[k] : k \in DOMAIN w.items}  BY <1>7, <2>1 DEF Children
  <2>6. \A c \in Children(w) : Unmeasured(c) = {}  BY <1>2, <1>3, <2>4, <2>5
  <2>7. RichTypeName(w) = ""  BY <2>1 DEF RichTypeName
  <2> QED BY <1>2, <2>6, <2>7, UnmeasuredInside
<1>8. CASE ~IsHash(w) /\ ~IsList(w)
  <2>1. RichTypeName(w) = ""  BY <1>8 DEF RichTypeName
  <2>2. Children(w) = {}  BY <1>2, <1>8, ShapeOfValue
  <2> QED BY <1>2, <2>1, <2>2, UnmeasuredInside
<1> QED BY <1>6, <1>7, <1>8

----------------------------------------------------------------------------
(* The verdict                                                             *)

\* Of two values, the second of which PuppetDB may have stored: they are the
\* same as they are, or one is what is stored of the other.
LEMMA StoredOrEqual ==
  ASSUME EscapesAsMeasured, NEW rich \in CatalogValues, NEW stored \in CatalogValues,
         ~ContainsRichData(stored)
  PROVE  Stored(rich) = stored <=>
           \/ rich = stored
           \/ /\ ContainsRichData(rich) /\ Unmeasured(rich) = {}
              /\ ProjectStringifiedRich(rich) = stored
<1>1. ASSUME Stored(rich) = stored, ~ContainsRichData(rich)  PROVE rich = stored
  BY <1>1, PlainIsStored
<1>2. ASSUME Stored(rich) = stored, ContainsRichData(rich)
      PROVE  Unmeasured(rich) = {} /\ ProjectStringifiedRich(rich) = stored
  <2>1. Unmeasured(rich) = {}  BY <1>2, StoredPlainIsMeasured
  <2> QED BY <1>2, <2>1, ProjectedIsStored
<1>3. ASSUME rich = stored  PROVE Stored(rich) = stored
  BY <1>3, PlainIsStored
<1>4. ASSUME Unmeasured(rich) = {}, ProjectStringifiedRich(rich) = stored
      PROVE  Stored(rich) = stored
  BY <1>4, ProjectedIsStored
<1> QED BY <1>1, <1>2, <1>3, <1>4

\* One parameter is no row when what is stored of it is the same.
LEMMA SameIsNoRow ==
  ASSUME EscapesAsMeasured, NEW b \in CatalogValues, NEW a \in CatalogValues,
         NEW sb \in BOOLEAN, NEW sa \in BOOLEAN,
         sb => ~ContainsRichData(b), sa => ~ContainsRichData(a)
  PROVE  (b = a \/ Fidelity(sb, sa, b, a).equal) <=>
           CASE sb = sa -> a = b
             [] sa /\ ~sb -> Stored(b) = a
             [] OTHER -> Stored(a) = b
<1>1. CASE sb = sa
  <2>1. ~Fidelity(sb, sa, b, a).equal  BY <1>1 DEF Fidelity
  <2> QED BY <1>1, <2>1
<1>2. CASE sa /\ ~sb
  <2>1. Fidelity(sb, sa, b, a).equal <=>
          /\ ContainsRichData(b) /\ Unmeasured(b) = {} /\ ProjectStringifiedRich(b) = a
    BY <1>2 DEF Fidelity
  <2>2. Stored(b) = a <=> b = a \/ Fidelity(sb, sa, b, a).equal  BY <1>2, <2>1, StoredOrEqual
  <2> QED BY <1>2, <2>2
<1>3. CASE sb /\ ~sa
  <2>1. Fidelity(sb, sa, b, a).equal <=>
          /\ ContainsRichData(a) /\ Unmeasured(a) = {} /\ ProjectStringifiedRich(a) = b
    BY <1>3 DEF Fidelity
  <2>2. Stored(a) = b <=> a = b \/ Fidelity(sb, sa, b, a).equal  BY <1>3, <2>1, StoredOrEqual
  <2> QED BY <1>3, <2>2
<1> QED BY <1>1, <1>2, <1>3

\* A parameter of a normalized catalog is one of the values in use, and not
\* rich when PuppetDB stored the catalog.
LEMMA ParameterIsValue ==
  ASSUME NEW catalog, IsNormalized(catalog), NEW id \in DOMAIN catalog.resources, NEW name
  PROVE  LET v == ParameterOf(catalog.resources[id], name)
         IN  v \in CatalogValues /\ (catalog.stringified => ~ContainsRichData(v))
<1> DEFINE held == Hash(catalog.resources[id].params)
           v == ParameterOf(catalog.resources[id], name)
<1>1. held \in CatalogValues /\ (catalog.stringified => ~ContainsRichData(held))
  BY DEF IsNormalized
<1>2. v = IF name \in DOMAIN held.at THEN held.at[name] ELSE Undef
  BY DEF ParameterOf, Under
<1>3. IsHash(held)  BY DEF IsHash, Hash
<1> HIDE DEF held, v
<1>4. CASE name \in DOMAIN held.at
  <2>1. v \in Children(held) /\ v \in CatalogValues  BY <1>1, <1>2, <1>3, <1>4, ShapeOfValue
  <2>2. ContainsRichData(held) <=> RichDataAt(held, ContainsRichData)  BY <1>1, TreesAreRecursive
  <2>3. ~ContainsRichData(held) => ~ContainsRichData(v)  BY <2>1, <2>2 DEF RichDataAt
  <2> QED BY <1>1, <2>1, <2>3 DEF v
<1>5. CASE name \notin DOMAIN held.at
  <2>1. v = Undef /\ Undef \in CatalogValues  BY <1>2, <1>5, ValuesAreTrees
  <2>2. ~IsHash(Undef) /\ ~IsList(Undef)  BY DEF Undef, IsHash, IsList
  <2>3. RichTypeName(Undef) = "" /\ Children(Undef) = {}
    BY <2>1, <2>2, ShapeOfValue DEF RichTypeName
  <2>4. ContainsRichData(Undef) <=> RichDataAt(Undef, ContainsRichData)
    BY <2>1, TreesAreRecursive
  <2>5. ~ContainsRichData(Undef)  BY <2>3, <2>4 DEF RichDataAt
  <2> QED BY <2>1, <2>5 DEF v
<1> QED BY <1>4, <1>5

\* What is known of two contents is known whatever a reader is told of it.
LEMMA SuppressHasNoPart ==
  ASSUME NEW before, NEW after, NEW b, NEW a, NEW s
  PROVE  ComparedEvidence(before, after, b, a, s).evidence
           = ComparedEvidence(before, after, b, a, FALSE).evidence
<1>1. \A t, severity, reason, evidence, sides : Told(t, severity, reason, evidence, sides).evidence = evidence
  BY DEF Told
<1>2. \A evidence : Untold(evidence).evidence = evidence  BY DEF Untold
<1> DEFINE sides == {before, after}
           referenceChanged == Under(before.file.p, "source") # Under(after.file.p, "source")
           unresolved == IF referenceChanged THEN "reference_changed" ELSE "content_indeterminate"
           known == [NoEvidence(unresolved) EXCEPT
                       !.before = <<Known(before, b)>>, !.after = <<Known(after, a)>>,
                       !.referenceChanged = referenceChanged]
           unknown == [known EXCEPT !.before = <<Unknown(before)>>, !.after = <<Unknown(after)>>]
           verified == [known EXCEPT !.state = StateFromDigests(b.digest, a.digest),
                                     !.source = IF b.source = a.source THEN b.source ELSE "mixed",
                                     !.algorithm = b.algorithm,
                                     !.beforeDigest = b.digest, !.afterDigest = a.digest]
           reason == ReportedFailure(b, a)
<1>3. ASSUME NEW t
      PROVE  ComparedEvidence(before, after, b, a, t) =
               IF \E x \in sides : ~Manages(x.file) THEN Untold(NoEvidence("not_managed"))
               ELSE IF \E x \in sides : NonByteComparable(x.file)
               THEN Told(t, "warning", "non_byte_comparable", unknown, sides)
               ELSE IF Comparable(b, a) THEN Untold(verified)
               ELSE IF b.ok /\ a.ok THEN Told(t, "warning", "different_algorithms", known, sides)
               ELSE Told(t, ClassifyEvidenceError(reason), reason, known, sides)
  BY DEF ComparedEvidence
<1> HIDE DEF sides, known, unknown, verified, reason
<1>4. ASSUME NEW t
      PROVE  ComparedEvidence(before, after, b, a, t).evidence =
               IF \E x \in sides : ~Manages(x.file) THEN NoEvidence("not_managed")
               ELSE IF \E x \in sides : NonByteComparable(x.file) THEN unknown
               ELSE IF Comparable(b, a) THEN verified
               ELSE known
  BY <1>1, <1>2, <1>3
<1> QED BY <1>4

\* Whether content is a row does not depend on what a reader is told.
LEMMA ContentIsRowAnyway ==
  ASSUME NEW id, NEW before, NEW after, NEW retrieved, NEW quiet
  PROVE  ContentIsRow(id, before, after, retrieved, quiet)
           <=> ContentIsRow(id, before, after, retrieved, FALSE)
<1>1. ToldOf(id, before, after, retrieved, quiet).evidence
        = ToldOf(id, before, after, retrieved, FALSE).evidence
  BY SuppressHasNoPart DEF ToldOf
<1> QED BY <1>1 DEF ContentIsRow

\* A resource of one side only has a row.
LEMMA MemberHasRow ==
  ASSUME NEW before, IsNormalized(before), NEW after, IsNormalized(after),
         NEW id \in Identities(before, after), NEW retrieved, NEW quiet,
         ~(id \in DOMAIN before.resources /\ id \in DOMAIN after.resources)
  PROVE  \E row : row \in ToSet(ResourceDiff(id, before, after, retrieved, quiet).rows)
<1>1. CASE id \notin DOMAIN after.resources
  <2>1. ToSet(ResourceDiff(id, before, after, retrieved, quiet).rows)
          = {MemberRow("resource_removed", id, before, retrieved, quiet)}
    BY <1>1, ResourceRows
  <2> QED BY <2>1
<1>2. CASE id \notin DOMAIN before.resources
  <2>1. ToSet(ResourceDiff(id, before, after, retrieved, quiet).rows)
          = {MemberRow("resource_added", id, after, retrieved, quiet)}
    BY <1>2, ResourceRows
  <2> QED BY <2>1
<1> QED BY <1>1, <1>2

\* A resource has a row when it is not the same resource on both sides.
LEMMA RowsOfResource ==
  ASSUME EscapesAsMeasured, ComparisonInv, NEW i \in Compared, NEW id \in Ids(i)
  PROVE  (\E row : row \in ToSet(ResourceDiff(id, done[i].before, done[i].after, done[i].retrieved,
                                              done[i].policy.suppress).rows))
           <=> ~SameResource(i, id)
<1> DEFINE before == done[i].before
           after == done[i].after
           retrieved == done[i].retrieved
           quiet == done[i].policy.suppress
           rows == ResourceDiff(id, before, after, retrieved, quiet).rows
           both == id \in DOMAIN before.resources /\ id \in DOMAIN after.resources
<1>1. IsNormalized(before) /\ IsNormalized(after)  BY ComparedHas
<1>2. id \in Identities(before, after)  BY DEF Ids
<1>3. CASE ~both
  <2>1. ~SameResource(i, id)  BY <1>3 DEF SameResource
  <2>2. \E row : row \in ToSet(rows)
    BY <1>1, <1>2, <1>3, MemberHasRow
  <2> QED BY <2>1, <2>2
<1>4. CASE both
  <2> DEFINE content == ContentChange(id, before, after, retrieved, quiet).rows
             without == ContentChange(id, before, after, retrieved, FALSE).rows
             names == ComparedNames(before, after, id)
  <2>1. \A row : row \in ToSet(rows) <=>
          (\E name \in names : row \in ToSet(RowsOfName(id, name, before, after))) \/ row \in ToSet(content)
    BY <1>1, <1>2, <1>4, ResourceRows
  <2>2. (\E row : row \in ToSet(content)) <=> without # <<>>
    <3>1. (\E row : row \in ToSet(content)) <=> ContentIsRow(id, before, after, retrieved, quiet)
      <4>1. CASE ContentIsRow(id, before, after, retrieved, quiet)
        <5> DEFINE row == Row("parameter_changed", id, "content",
                              ContentParameters(before.resources[id]),
                              ContentParameters(after.resources[id]),
                              <<ToldOf(id, before, after, retrieved, quiet).evidence>>)
        <5>1. ToSet(content) = {row}  BY <4>1, ContentRow
        <5> HIDE DEF row, content
        <5> QED BY <4>1, <5>1
      <4>2. CASE ~ContentIsRow(id, before, after, retrieved, quiet)
        <5>1. ToSet(content) = {}  BY <4>2, ContentRow
        <5> QED BY <4>2, <5>1
      <4> QED BY <4>1, <4>2
    <3>2. without # <<>> <=> ContentIsRow(id, before, after, retrieved, FALSE)
      <4>1. CASE ContentIsRow(id, before, after, retrieved, FALSE)
        <5> DEFINE row == Row("parameter_changed", id, "content",
                              ContentParameters(before.resources[id]),
                              ContentParameters(after.resources[id]),
                              <<ToldOf(id, before, after, retrieved, FALSE).evidence>>)
        <5>1. ToSet(without) = {row}  BY <4>1, ContentRow
        <5> HIDE DEF row, without
        <5>2. without # <<>>  BY <5>1, NoneInList
        <5> QED BY <4>1, <5>2
      <4>2. CASE ~ContentIsRow(id, before, after, retrieved, FALSE)
        <5>1. without = <<>>  BY <4>2, ContentRow
        <5> QED BY <4>2, <5>1
      <4> QED BY <4>1, <4>2
    <3> QED BY <3>1, <3>2, ContentIsRowAnyway
  <2>3. ASSUME NEW name
        PROVE  (\E row : row \in ToSet(RowsOfName(id, name, before, after))) <=> ~SameParameter(i, id, name)
    <3> DEFINE b == ParameterOf(before.resources[id], name)
               a == ParameterOf(after.resources[id], name)
               sb == before.stringified
               sa == after.stringified
               same == b = a \/ Fidelity(sb, sa, b, a).equal
    <3>1. /\ b \in CatalogValues /\ a \in CatalogValues
          /\ sb => ~ContainsRichData(b)
          /\ sa => ~ContainsRichData(a)
      BY <1>1, <1>4, ParameterIsValue
    <3>2. sb \in BOOLEAN /\ sa \in BOOLEAN  BY <1>1 DEF IsNormalized
    <3>3. same <=> SameParameter(i, id, name)
      <4>1. same <=> CASE sb = sa -> a = b [] sa /\ ~sb -> Stored(b) = a [] OTHER -> Stored(a) = b
        <5> HIDE DEF a, b, sa, sb
        <5> QED BY <3>1, <3>2, SameIsNoRow
      <4> QED BY <4>1 DEF SameParameter
    <3>4. (\E row : row \in ToSet(RowsOfName(id, name, before, after))) <=> ~same
      <4>1. CASE same
        <5>1. ToSet(RowsOfName(id, name, before, after)) = {}
          BY <4>1, ParameterRow DEF RowsOfName
        <5> QED BY <4>1, <5>1
      <4>2. CASE ~same
        <5> DEFINE row == Row("parameter_changed", id, name, b, a, <<>>)
                   those == RowsOfName(id, name, before, after)
        <5>1. ToSet(those) = {row}  BY <4>2, ParameterRow DEF RowsOfName
        <5> HIDE DEF row, those
        <5>2. \E x : x \in ToSet(those)  BY <5>1
        <5> QED BY <4>2, <5>2 DEF those
      <4> QED BY <4>1, <4>2
    <3> QED BY <3>3, <3>4
  <2>4. SameResource(i, id) <=> (\A name \in names : SameParameter(i, id, name)) /\ without = <<>>
    <3>1. SameResource(i, id) <=>
            /\ \A name \in NamesOf(before, after, id) :
                 \/ id.type = FileResourceType /\ name \in FileContentBearingParameters
                 \/ SameParameter(i, id, name)
            /\ without = <<>>
      BY <1>4 DEF SameResource, NamesOf
    <3>2. \A name : name \in names <=>
            /\ name \in NamesOf(before, after, id)
            /\ ~(id.type = FileResourceType /\ name \in FileContentBearingParameters)
      BY DEF ComparedNames
    <3> QED BY <3>1, <3>2
  <2> HIDE DEF content, without, names, rows
  <2> QED BY <2>1, <2>2, <2>3, <2>4 DEF rows
<1> QED BY <1>3, <1>4

\* No rule excludes identities that no rule touches.
LEMMA UntouchedIsKept ==
  ASSUME NEW i, IsSequence(done[i].policy.exclude), NEW ids
  PROVE  Covering(done[i].policy.exclude, ids) = {} <=> \A id \in ids : ~Excluded(i, id)
<1> DEFINE rules == done[i].policy.exclude
<1>1. Touching(rules, ids) = {} <=> Covering(rules, ids) = {}  BY CoveringIsFirst
<1>2. Touching(rules, ids) = {} <=> \A id \in ids : ~Excluded(i, id)
  BY DEF Touching, Excluded
<1> QED BY <1>1, <1>2

\* A difference is what no rule excludes, of its rows and of its edges.
LEMMA VerdictOfRows ==
  ASSUME ComparisonInv, NEW i \in Compared
  PROVE  DiffOf(i).hasDifference <=>
           \/ \E row \in ToSet(Full(i)) : ~Excluded(i, row.id)
           \/ \E d \in ToSet(FullEdges(i)) :
                \A id \in {d.edge.source, d.edge.target} \cap Ids(i) : ~Excluded(i, id)
<1> DEFINE rules == done[i].policy.exclude
           kept == KeptOf(i)
           keep == {j \in DOMAIN Full(i) : RuleOf(rules, Full(i)[j].id) = 0}
           keepEdges == {j \in DOMAIN FullEdges(i) : EdgeRule(rules, Ids(i), FullEdges(i)[j].edge) = 0}
<1>1. /\ IsSequence(rules)
      /\ DiffOf(i) = Publish(i, done[i].policy.redact, done[i].before, done[i].after, kept)
      /\ IsSequence(Full(i)) /\ IsSequence(FullEdges(i))
  BY ComparedHas, FullOfCompared
<1>2. kept.changes = Kept(Full(i), keep) /\ kept.edgeChanges = Kept(FullEdges(i), keepEdges)
  BY DEF KeptOf, ApplyExclusions
<1>3. keep \subseteq DOMAIN Full(i) /\ keepEdges \subseteq DOMAIN FullEdges(i)  OBVIOUS
<1>4. \A j \in DOMAIN Full(i) : j \in keep <=> ~Excluded(i, Full(i)[j].id)
  <2> TAKE j \in DOMAIN Full(i)
  <2> DEFINE id == Full(i)[j].id
  <2>1. Covering(rules, {id}) = {} <=> RuleOf(rules, id) = 0  BY <1>1, CoverOfOne
  <2>2. Covering(rules, {id}) = {} <=> ~Excluded(i, id)  BY <1>1, UntouchedIsKept
  <2> QED BY <2>1, <2>2
<1>5. \A j \in DOMAIN FullEdges(i) :
        LET e == FullEdges(i)[j].edge
        IN  j \in keepEdges <=> \A id \in {e.source, e.target} \cap Ids(i) : ~Excluded(i, id)
  <2> TAKE j \in DOMAIN FullEdges(i)
  <2> DEFINE e == FullEdges(i)[j].edge
             ends == {e.source, e.target} \cap Ids(i)
  <2>1. Covering(rules, ends) = {} <=> EdgeRule(rules, Ids(i), e) = 0  BY <1>1, CoverOfEdge
  <2>2. Covering(rules, ends) = {} <=> \A id \in ends : ~Excluded(i, id)
    BY <1>1, UntouchedIsKept
  <2> QED BY <2>1, <2>2
<1> HIDE DEF keep, keepEdges, kept
<1>6. /\ IsSequence(kept.changes) /\ (kept.changes # <<>> <=> keep # {})
      /\ kept.edgeChanges # <<>> <=> keepEdges # {}
  <2>1. /\ IsSequence(kept.changes) /\ ToSet(kept.changes) = {Full(i)[j] : j \in keep}
        /\ IsSequence(kept.edgeChanges)
        /\ ToSet(kept.edgeChanges) = {FullEdges(i)[j] : j \in keepEdges}
    BY <1>1, <1>2, <1>3, KeptOfList
  <2>2. kept.changes = <<>> <=> ToSet(kept.changes) = {}  BY <2>1, EmptyList
  <2>3. kept.edgeChanges = <<>> <=> ToSet(kept.edgeChanges) = {}  BY <2>1, EmptyList
  <2> QED BY <2>1, <2>2, <2>3
<1>7. DiffOf(i).hasDifference <=> keep # {} \/ keepEdges # {}
  BY <1>1, <1>6, PublishedAreKept
<1>8. \A row : row \in ToSet(Full(i)) <=> \E j \in DOMAIN Full(i) : Full(i)[j] = row
  BY DEF ToSet
<1>9. \A d : d \in ToSet(FullEdges(i)) <=> \E j \in DOMAIN FullEdges(i) : FullEdges(i)[j] = d
  BY DEF ToSet
<1>10. keep # {} <=> \E row \in ToSet(Full(i)) : ~Excluded(i, row.id)
  BY <1>3, <1>4, <1>8
<1>11. keepEdges # {} <=>
         \E d \in ToSet(FullEdges(i)) :
           \A id \in {d.edge.source, d.edge.target} \cap Ids(i) : ~Excluded(i, id)
  BY <1>3, <1>5, <1>9
<1> QED BY <1>7, <1>10, <1>11

\* When what was measured of PuppetDB is what PIACE computes, a target has a
\* difference exactly when something that no rule excludes is semantically
\* different.
THEOREM VerdictIsSemanticHolds ==
  ASSUME EscapesAsMeasured
  PROVE  ComparisonSpec => []VerdictIsSemantic
<1>1. ComparisonInv => VerdictIsSemantic
  <2> SUFFICES ASSUME ComparisonInv, NEW i \in Compared
               PROVE  DiffOf(i).hasDifference <=>
      \/ \E id \in Ids(i) : ~Excluded(i, id) /\ ~SameResource(i, id)
      \/ \E e \in (ToSet(done[i].before.edges) \cup ToSet(done[i].after.edges))
                    \ (ToSet(done[i].before.edges) \cap ToSet(done[i].after.edges)) :
           \A id \in {e.source, e.target} \cap Ids(i) : ~Excluded(i, id)
    BY DEF VerdictIsSemantic
  <2> DEFINE before == done[i].before
             after == done[i].after
             part(id) == ResourceDiff(id, before, after, done[i].retrieved, done[i].policy.suppress)
             free(e) == \A id \in {e.source, e.target} \cap Ids(i) : ~Excluded(i, id)
  <2>1. IsNormalized(before) /\ IsNormalized(after)  BY ComparedHas
  <2>2. (\E row \in ToSet(Full(i)) : ~Excluded(i, row.id))
          <=> \E id \in Ids(i) : ~Excluded(i, id) /\ ~SameResource(i, id)
    <3>1. \A row : row \in ToSet(Full(i)) <=> \E id \in Ids(i) : row \in ToSet(part(id).rows)
      BY <2>1, FullRows DEF Full, Ids
    <3>2. \A id \in Ids(i) : \A row \in ToSet(part(id).rows) : row.id = id
      BY <2>1, ResourceRows DEF Ids
    <3>3. \A id \in Ids(i) : (\E row : row \in ToSet(part(id).rows)) <=> ~SameResource(i, id)
      BY RowsOfResource
    <3> HIDE DEF part
    <3> QED BY <3>1, <3>2, <3>3
  <2>3. (\E d \in ToSet(FullEdges(i)) : free(d.edge))
          <=> \E e \in (ToSet(before.edges) \cup ToSet(after.edges))
                         \ (ToSet(before.edges) \cap ToSet(after.edges)) : free(e)
    <3> DEFINE B == ToSet(before.edges)
               A == ToSet(after.edges)
    <3>1. \A d : d \in ToSet(FullEdges(i)) <=>
            \/ \E e \in B \ A : d = [kind |-> "edge_removed", edge |-> e]
            \/ \E e \in A \ B : d = [kind |-> "edge_added", edge |-> e]
      BY <2>1, EdgesOfDifference DEF FullEdges
    <3> HIDE DEF free, A, B
    <3>2. ASSUME NEW d \in ToSet(FullEdges(i)), free(d.edge)
          PROVE  \E e \in (B \cup A) \ (B \cap A) : free(e)
      BY <3>1, <3>2
    <3>3. ASSUME NEW e \in B \ A, free(e)  PROVE \E d \in ToSet(FullEdges(i)) : free(d.edge)
      <4> DEFINE d == [kind |-> "edge_removed", edge |-> e]
      <4>1. d \in ToSet(FullEdges(i)) /\ d.edge = e  BY <3>1
      <4> QED BY <3>3, <4>1
    <3>4. ASSUME NEW e \in A \ B, free(e)  PROVE \E d \in ToSet(FullEdges(i)) : free(d.edge)
      <4> DEFINE d == [kind |-> "edge_added", edge |-> e]
      <4>1. d \in ToSet(FullEdges(i)) /\ d.edge = e  BY <3>1
      <4> QED BY <3>4, <4>1
    <3> QED BY <3>2, <3>3, <3>4 DEF A, B
  <2> QED BY <2>2, <2>3, VerdictOfRows
<1> QED BY <1>1, ComparisonInvariant, PTL

----------------------------------------------------------------------------
(* Masks, and what they leave to be seen.                                  *)

Behind(k, place) == <<k, place>>
Shape(kind, keys) == <<[kind |-> kind, keys |-> keys]>>

\* The masked forms of a value: the mask, and what has the masked forms of what
\* is in it in their places.
LEMMA MaskingsOf ==
  ASSUME NEW v \in CatalogValues
  PROVE  /\ RedactedValue \in Maskings(v)
         /\ IsHash(v) =>
              /\ \A f : (\A k \in DOMAIN v.at : f[k] \in Maskings(v.at[k])) =>
                          Hash([k \in DOMAIN v.at |-> f[k]]) \in Maskings(v)
              /\ \A x \in Maskings(v) : x # RedactedValue =>
                   /\ IsHash(x) /\ ~IsList(x) /\ DOMAIN x.at = DOMAIN v.at
                   /\ x = Hash([k \in DOMAIN v.at |-> x.at[k]])
                   /\ \A k \in DOMAIN v.at : x.at[k] \in Maskings(v.at[k])
         /\ IsList(v) =>
              /\ \A f : (\A k \in DOMAIN v.items : f[k] \in Maskings(v.items[k])) =>
                          List([k \in DOMAIN v.items |-> f[k]]) \in Maskings(v)
              /\ \A x \in Maskings(v) : x # RedactedValue =>
                   /\ IsList(x) /\ ~IsHash(x) /\ DOMAIN x.items = DOMAIN v.items
                   /\ x = List([k \in DOMAIN v.items |-> x.items[k]])
                   /\ \A k \in DOMAIN v.items : x.items[k] \in Maskings(v.items[k])
         /\ ~IsHash(v) /\ ~IsList(v) => Maskings(v) = {RedactedValue, v}
<1> DEFINE within(f) == {g \in [DOMAIN f -> UNION {Maskings(f[k]) : k \in DOMAIN f}] :
                           \A k \in DOMAIN f : g[k] \in Maskings(f[k])}
<1>1. Maskings(v) = {RedactedValue} \cup
        CASE IsHash(v) -> {Hash(g) : g \in within(v.at)}
          [] IsList(v) -> {List(g) : g \in within(v.items)}
          [] OTHER -> {v}
  BY TreesAreRecursive DEF MaskingsAt
<1>2. ~(IsHash(v) /\ IsList(v))  BY DEF IsHash, IsList
<1>3. ASSUME NEW f, NEW h, \A k \in DOMAIN f : h[k] \in Maskings(f[k])
      PROVE  [k \in DOMAIN f |-> h[k]] \in within(f)
  <2> DEFINE g == [k \in DOMAIN f |-> h[k]]
  <2>1. \A k \in DOMAIN f : g[k] \in Maskings(f[k])  BY <1>3
  <2>2. \A k \in DOMAIN f : g[k] \in UNION {Maskings(f[j]) : j \in DOMAIN f}  BY <2>1
  <2>3. g \in [DOMAIN f -> UNION {Maskings(f[k]) : k \in DOMAIN f}]  BY <2>2
  <2> QED BY <2>1, <2>3
<1>4. ASSUME NEW f, NEW g \in within(f)
      PROVE  /\ DOMAIN g = DOMAIN f /\ g = [k \in DOMAIN f |-> g[k]]
             /\ \A k \in DOMAIN f : g[k] \in Maskings(f[k])
  OBVIOUS
<1> HIDE DEF within
<1>5. ASSUME IsHash(v)
      PROVE  /\ \A f : (\A k \in DOMAIN v.at : f[k] \in Maskings(v.at[k])) =>
                         Hash([k \in DOMAIN v.at |-> f[k]]) \in Maskings(v)
             /\ \A x \in Maskings(v) : x # RedactedValue =>
                  /\ IsHash(x) /\ ~IsList(x) /\ DOMAIN x.at = DOMAIN v.at
                  /\ x = Hash([k \in DOMAIN v.at |-> x.at[k]])
                  /\ \A k \in DOMAIN v.at : x.at[k] \in Maskings(v.at[k])
  <2>1. \A x : x \in Maskings(v) <=> x = RedactedValue \/ \E g \in within(v.at) : x = Hash(g)
    BY <1>1, <1>2, <1>5
  <2>2. ASSUME NEW f, \A k \in DOMAIN v.at : f[k] \in Maskings(v.at[k])
        PROVE  Hash([k \in DOMAIN v.at |-> f[k]]) \in Maskings(v)
    <3>1. [k \in DOMAIN v.at |-> f[k]] \in within(v.at)  BY <1>3, <2>2
    <3> QED BY <2>1, <3>1
  <2>3. ASSUME NEW x \in Maskings(v), x # RedactedValue
        PROVE  /\ IsHash(x) /\ ~IsList(x) /\ DOMAIN x.at = DOMAIN v.at
               /\ x = Hash([k \in DOMAIN v.at |-> x.at[k]])
               /\ \A k \in DOMAIN v.at : x.at[k] \in Maskings(v.at[k])
    <3>1. PICK g \in within(v.at) : x = Hash(g)  BY <2>1, <2>3
    <3>2. x.at = g /\ IsHash(x) /\ ~IsList(x)  BY <3>1 DEF Hash, IsHash, IsList
    <3> QED BY <1>4, <3>1, <3>2
  <2> QED BY <2>2, <2>3
<1>6. ASSUME IsList(v)
      PROVE  /\ \A f : (\A k \in DOMAIN v.items : f[k] \in Maskings(v.items[k])) =>
                         List([k \in DOMAIN v.items |-> f[k]]) \in Maskings(v)
             /\ \A x \in Maskings(v) : x # RedactedValue =>
                  /\ IsList(x) /\ ~IsHash(x) /\ DOMAIN x.items = DOMAIN v.items
                  /\ x = List([k \in DOMAIN v.items |-> x.items[k]])
                  /\ \A k \in DOMAIN v.items : x.items[k] \in Maskings(v.items[k])
  <2>1. \A x : x \in Maskings(v) <=> x = RedactedValue \/ \E g \in within(v.items) : x = List(g)
    BY <1>1, <1>2, <1>6
  <2>2. ASSUME NEW f, \A k \in DOMAIN v.items : f[k] \in Maskings(v.items[k])
        PROVE  List([k \in DOMAIN v.items |-> f[k]]) \in Maskings(v)
    <3>1. [k \in DOMAIN v.items |-> f[k]] \in within(v.items)  BY <1>3, <2>2
    <3> QED BY <2>1, <3>1
  <2>3. ASSUME NEW x \in Maskings(v), x # RedactedValue
        PROVE  /\ IsList(x) /\ ~IsHash(x) /\ DOMAIN x.items = DOMAIN v.items
               /\ x = List([k \in DOMAIN v.items |-> x.items[k]])
               /\ \A k \in DOMAIN v.items : x.items[k] \in Maskings(v.items[k])
    <3>1. PICK g \in within(v.items) : x = List(g)  BY <2>1, <2>3
    <3>2. x.items = g /\ IsList(x) /\ ~IsHash(x)  BY <3>1 DEF List, IsHash, IsList
    <3> QED BY <1>4, <3>1, <3>2
  <2> QED BY <2>2, <2>3
<1>7. ~IsHash(v) /\ ~IsList(v) => Maskings(v) = {RedactedValue, v}  BY <1>1
<1>8. RedactedValue \in Maskings(v)  BY <1>1
<1> QED BY <1>5, <1>6, <1>7, <1>8

\* A value is one of its masked forms.
LEMMA ItselfIsMasking ==
  ASSUME NEW v \in CatalogValues
  PROVE  v \in Maskings(v)
<1> DEFINE B == {w \in CatalogValues : w \notin Maskings(w)}
<1> SUFFICES ASSUME B # {}  PROVE FALSE
  OBVIOUS
<1>1. PICK w \in B : Children(w) \cap B = {} /\ Children(w) \subseteq CatalogValues
  <2>1. B \subseteq CatalogValues  OBVIOUS
  <2> HIDE DEF B
  <2> QED BY <2>1, Innermost
<1>2. /\ w \in CatalogValues /\ w \notin Maskings(w)
      /\ \A c \in Children(w) : c \in Maskings(c)
  BY <1>1
<1> HIDE DEF B
<1>3. CASE IsHash(w)
  <2>1. /\ w = Hash([k \in DOMAIN w.at |-> w.at[k]])
        /\ \A k \in DOMAIN w.at : w.at[k] \in Maskings(w.at[k])
    BY <1>2, <1>3, ShapeOfValue
  <2>2. Hash([k \in DOMAIN w.at |-> w.at[k]]) \in Maskings(w)  BY <1>2, <1>3, <2>1, MaskingsOf
  <2> QED BY <1>2, <2>1, <2>2
<1>4. CASE IsList(w)
  <2>1. /\ w = List(w.items) /\ w.items = [k \in DOMAIN w.items |-> w.items[k]]
        /\ \A k \in DOMAIN w.items : w.items[k] \in Maskings(w.items[k])
    BY <1>2, <1>4, ShapeOfValue
  <2>2. List([k \in DOMAIN w.items |-> w.items[k]]) \in Maskings(w)
    BY <1>2, <1>4, <2>1, MaskingsOf
  <2> QED BY <1>2, <2>1, <2>2
<1>5. CASE ~IsHash(w) /\ ~IsList(w)  BY <1>2, <1>5, MaskingsOf
<1> QED BY <1>3, <1>4, <1>5

\* A reader sees the shape of a masked form that holds others, and behind its
\* keys what is seen there.
LEMMA PlacesBehind ==
  ASSUME NEW x \in ShownValues
  PROVE  /\ x = RedactedValue => Places(x) = {}
         /\ IsHash(x) => \A p : p \in Places(x) <=>
              \/ p = Shape("hash", DOMAIN x.at)
              \/ \E k \in DOMAIN x.at : \E place \in Places(x.at[k]) : p = Behind(k, place)
         /\ IsList(x) => \A p : p \in Places(x) <=>
              \/ p = Shape("list", DOMAIN x.items)
              \/ \E k \in DOMAIN x.items : \E place \in Places(x.items[k]) : p = Behind(k, place)
<1> DEFINE behind(f) == UNION {{Behind(k, place) : place \in Places(f[k])} : k \in DOMAIN f}
<1>1. Places(x) =
        CASE IsHash(x) -> {Shape(x.kind, DOMAIN x.at)} \cup behind(x.at)
          [] IsList(x) -> {Shape(x.kind, DOMAIN x.items)} \cup behind(x.items)
          [] OTHER -> IF x = RedactedValue THEN {} ELSE {<<x>>}
  BY TreesAreRecursive DEF PlacesAt, Behind, Shape
<1>2. ~(IsHash(x) /\ IsList(x)) /\ (IsHash(x) => x.kind = "hash") /\ (IsList(x) => x.kind = "list")
  BY DEF IsHash, IsList
<1>3. \A f, p : p \in behind(f) <=>
                  \E k \in DOMAIN f : \E place \in Places(f[k]) : p = Behind(k, place)
  OBVIOUS
<1> HIDE DEF behind
<1>4. x = RedactedValue => Places(x) = {}
  <2>1. x = RedactedValue => ~IsHash(x) /\ ~IsList(x)
    BY DEF RedactedValue, Text, IsHash, IsList
  <2> QED BY <1>1, <2>1
<1>5. ASSUME IsHash(x)
      PROVE  \A p : p \in Places(x) <=>
               \/ p = Shape("hash", DOMAIN x.at)
               \/ \E k \in DOMAIN x.at : \E place \in Places(x.at[k]) : p = Behind(k, place)
  <2>1. Places(x) = {Shape("hash", DOMAIN x.at)} \cup behind(x.at)  BY <1>1, <1>2, <1>5
  <2> QED BY <1>3, <2>1
<1>6. ASSUME IsList(x)
      PROVE  \A p : p \in Places(x) <=>
               \/ p = Shape("list", DOMAIN x.items)
               \/ \E k \in DOMAIN x.items : \E place \in Places(x.items[k]) : p = Behind(k, place)
  <2>1. Places(x) = {Shape("list", DOMAIN x.items)} \cup behind(x.items)  BY <1>1, <1>2, <1>6
  <2> QED BY <1>3, <2>1
<1> QED BY <1>4, <1>5, <1>6

\* What restricting one masked form of a value to another one leaves.
LEMMA RestrictedShape ==
  ASSUME NEW v \in CatalogValues, NEW x \in Maskings(v), NEW y \in Maskings(v)
  PROVE  /\ x = RedactedValue \/ y = RedactedValue => RestrictProjection(x, y) = RedactedValue
         /\ x # RedactedValue /\ y # RedactedValue =>
              /\ IsHash(v) => RestrictProjection(x, y)
                                = Hash([k \in DOMAIN v.at |-> RestrictProjection(x.at[k], y.at[k])])
              /\ IsList(v) => RestrictProjection(x, y)
                                = List([k \in DOMAIN v.items |-> RestrictProjection(x.items[k], y.items[k])])
              /\ ~IsHash(v) /\ ~IsList(v) => RestrictProjection(x, y) = v /\ x = v /\ y = v
<1>1. RestrictProjection(x, y) =
        IF x = RedactedValue \/ y = RedactedValue THEN RedactedValue
        ELSE CASE IsHash(x) -> Hash([k \in DOMAIN x.at |-> RestrictProjection(x.at[k], Under(y, k))])
          [] IsList(x) -> List([k \in DOMAIN x.items |-> RestrictProjection(x.items[k], y.items[k])])
          [] OTHER -> x
  BY TreesAreRecursive DEF RestrictedAt
<1>3. x = RedactedValue \/ y = RedactedValue => RestrictProjection(x, y) = RedactedValue
  BY <1>1
<1>4. ASSUME x # RedactedValue, y # RedactedValue, IsHash(v)
      PROVE  RestrictProjection(x, y)
               = Hash([k \in DOMAIN v.at |-> RestrictProjection(x.at[k], y.at[k])])
  <2>1. /\ IsHash(x) /\ ~IsList(x) /\ DOMAIN x.at = DOMAIN v.at /\ DOMAIN y.at = DOMAIN v.at
    BY <1>4, MaskingsOf
  <2>2. \A k \in DOMAIN x.at : Under(y, k) = y.at[k]  BY <2>1 DEF Under
  <2>3. RestrictProjection(x, y)
          = Hash([k \in DOMAIN x.at |-> RestrictProjection(x.at[k], Under(y, k))])
    BY <1>1, <1>4, <2>1
  <2> QED BY <2>1, <2>2, <2>3
<1>5. ASSUME x # RedactedValue, y # RedactedValue, IsList(v)
      PROVE  RestrictProjection(x, y)
               = List([k \in DOMAIN v.items |-> RestrictProjection(x.items[k], y.items[k])])
  <2>1. /\ IsList(x) /\ ~IsHash(x) /\ DOMAIN x.items = DOMAIN v.items
    BY <1>5, MaskingsOf
  <2>3. RestrictProjection(x, y)
          = List([k \in DOMAIN x.items |-> RestrictProjection(x.items[k], y.items[k])])
    BY <1>1, <1>5, <2>1
  <2> QED BY <2>1, <2>3
<1>6. ASSUME x # RedactedValue, y # RedactedValue, ~IsHash(v), ~IsList(v)
      PROVE  RestrictProjection(x, y) = v /\ x = v /\ y = v
  <2>1. x = v /\ y = v  BY <1>6, MaskingsOf
  <2> QED BY <1>1, <1>6, <2>1
<1> QED BY <1>3, <1>4, <1>5, <1>6

\* What a restriction leaves is a masked form, and shows what both show.
ShowsWhatBoth(v, x, y) ==
  /\ RestrictProjection(x, y) \in Maskings(v)
  /\ Places(RestrictProjection(x, y)) = Places(x) \cap Places(y)

\* Masked forms of values are shown.
LEMMA MaskingsAreShown ==
  ASSUME NEW v \in CatalogValues
  PROVE  \A x \in Maskings(v) : x \in ShownValues
BY DEF ShownValues

\* Restricting shows no more, and no less.
LEMMA RestrictedShowsBoth ==
  ASSUME NEW v \in CatalogValues, NEW x \in Maskings(v), NEW y \in Maskings(v)
  PROVE  ShowsWhatBoth(v, x, y)
<1> DEFINE B == {w \in CatalogValues : \E a, b \in Maskings(w) : ~ShowsWhatBoth(w, a, b)}
<1> SUFFICES ASSUME B # {}  PROVE FALSE
  OBVIOUS
<1>1. PICK w \in B : Children(w) \cap B = {} /\ Children(w) \subseteq CatalogValues
  <2>1. B \subseteq CatalogValues  OBVIOUS
  <2> HIDE DEF B
  <2> QED BY <2>1, Innermost
<1>2. PICK a, b \in Maskings(w) : ~ShowsWhatBoth(w, a, b)  BY <1>1
<1>3. /\ w \in CatalogValues
      /\ \A c \in Children(w) : \A d, e \in Maskings(c) : ShowsWhatBoth(c, d, e)
  BY <1>1
<1> HIDE DEF B
<1> DEFINE r == RestrictProjection(a, b)
<1>4. CASE a = RedactedValue \/ b = RedactedValue
  <2>1. r = RedactedValue  BY <1>3, <1>4, RestrictedShape
  <2>2. RedactedValue \in Maskings(w)  BY <1>3, MaskingsOf
  <2>3. Places(RedactedValue) = {}  BY <1>3, <2>2, MaskingsAreShown, PlacesBehind
  <2>4. Places(a) \cap Places(b) = {}
    <3>1. Places(a) = {} \/ Places(b) = {}  BY <1>4, <2>3
    <3> QED BY <3>1
  <2> QED BY <1>2, <2>1, <2>2, <2>3, <2>4 DEF ShowsWhatBoth
<1>5. CASE a # RedactedValue /\ b # RedactedValue /\ IsHash(w)
  <2> DEFINE at(k) == RestrictProjection(a.at[k], b.at[k])
             rest == [k \in DOMAIN w.at |-> at(k)]
  <2>1. /\ IsHash(a) /\ DOMAIN a.at = DOMAIN w.at /\ IsHash(b) /\ DOMAIN b.at = DOMAIN w.at
        /\ \A k \in DOMAIN w.at : a.at[k] \in Maskings(w.at[k]) /\ b.at[k] \in Maskings(w.at[k])
    BY <1>3, <1>5, MaskingsOf
  <2>2. \A k \in DOMAIN w.at : ShowsWhatBoth(w.at[k], a.at[k], b.at[k])
    BY <1>3, <1>5, <2>1, ShapeOfValue
  <2>3. \A k \in DOMAIN w.at : /\ at(k) \in Maskings(w.at[k])
                               /\ Places(at(k)) = Places(a.at[k]) \cap Places(b.at[k])
    BY <2>2 DEF ShowsWhatBoth
  <2>4. r = Hash(rest)  BY <1>3, <1>5, RestrictedShape
  <2> HIDE DEF at
  <2>5. r \in Maskings(w)
    <3>1. \A f : (\A k \in DOMAIN w.at : f[k] \in Maskings(w.at[k])) =>
                   Hash([k \in DOMAIN w.at |-> f[k]]) \in Maskings(w)
      BY <1>3, <1>5, MaskingsOf
    <3>2. \A k \in DOMAIN w.at : rest[k] \in Maskings(w.at[k])  BY <2>3
    <3>3. rest = [k \in DOMAIN w.at |-> rest[k]]  OBVIOUS
    <3> HIDE DEF rest, r
    <3>4. Hash([k \in DOMAIN w.at |-> rest[k]]) \in Maskings(w)  BY <3>1, <3>2
    <3> QED BY <2>4, <3>3, <3>4
  <2>6. IsHash(r) /\ r.at = rest  BY <2>4 DEF Hash, IsHash
  <2>7. DOMAIN r.at = DOMAIN w.at /\ \A k \in DOMAIN w.at : r.at[k] = at(k)  BY <2>6
  <2> HIDE DEF rest, r
  <2>8. a \in ShownValues /\ b \in ShownValues /\ r \in ShownValues
    BY <1>2, <1>3, <2>5, MaskingsAreShown
  <2> DEFINE seen(f, p) == \E k \in DOMAIN w.at : \E place \in Places(f[k]) : p = Behind(k, place)
             shape == Shape("hash", DOMAIN w.at)
  <2>9. \A p : /\ p \in Places(a) <=> p = shape \/ seen(a.at, p)
               /\ p \in Places(b) <=> p = shape \/ seen(b.at, p)
               /\ p \in Places(r) <=> p = shape \/ seen(r.at, p)
    BY <2>1, <2>6, <2>7, <2>8, PlacesBehind
  <2>10. \A p : seen(r.at, p) <=> seen(a.at, p) /\ seen(b.at, p)
    <3> TAKE p
    <3>1. ASSUME seen(r.at, p)  PROVE seen(a.at, p) /\ seen(b.at, p)
      BY <2>3, <2>7, <3>1
    <3>2. ASSUME seen(a.at, p), seen(b.at, p)  PROVE seen(r.at, p)
      <4>1. PICK k \in DOMAIN w.at : \E place \in Places(a.at[k]) : p = Behind(k, place)  BY <3>2
      <4>2. PICK s \in Places(a.at[k]) : p = Behind(k, s)  BY <4>1
      <4>3. PICK l \in DOMAIN w.at : \E place \in Places(b.at[l]) : p = Behind(l, place)  BY <3>2
      <4>4. PICK t \in Places(b.at[l]) : p = Behind(l, t)  BY <4>3
      <4>5. k = l /\ s = t
        <5>1. /\ <<k, s>>[1] = k /\ <<k, s>>[2] = s
              /\ <<l, t>>[1] = l /\ <<l, t>>[2] = t
          OBVIOUS
        <5>2. p = <<k, s>> /\ p = <<l, t>>  BY <4>2, <4>4 DEF Behind
        <5> QED BY ONLY <5>1, <5>2
      <4>6. s \in Places(r.at[k])  BY <2>3, <2>7, <4>5
      <4> QED BY <4>2, <4>6
    <3> QED BY <3>1, <3>2
  <2> HIDE DEF seen, shape
  <2>11. Places(r) = Places(a) \cap Places(b)  BY <2>9, <2>10
  <2> QED BY <1>2, <2>5, <2>11 DEF ShowsWhatBoth, r
<1>6. CASE a # RedactedValue /\ b # RedactedValue /\ IsList(w)
  <2> DEFINE at(k) == RestrictProjection(a.items[k], b.items[k])
             rest == [k \in DOMAIN w.items |-> at(k)]
  <2>1. /\ IsList(a) /\ DOMAIN a.items = DOMAIN w.items
        /\ IsList(b) /\ DOMAIN b.items = DOMAIN w.items
        /\ \A k \in DOMAIN w.items :
             a.items[k] \in Maskings(w.items[k]) /\ b.items[k] \in Maskings(w.items[k])
    BY <1>3, <1>6, MaskingsOf
  <2>2. \A k \in DOMAIN w.items : ShowsWhatBoth(w.items[k], a.items[k], b.items[k])
    BY <1>3, <1>6, <2>1, ShapeOfValue
  <2>3. \A k \in DOMAIN w.items : /\ at(k) \in Maskings(w.items[k])
                                  /\ Places(at(k)) = Places(a.items[k]) \cap Places(b.items[k])
    BY <2>2 DEF ShowsWhatBoth
  <2>4. r = List(rest)  BY <1>3, <1>6, RestrictedShape
  <2> HIDE DEF at
  <2>5. r \in Maskings(w)
    <3>1. \A f : (\A k \in DOMAIN w.items : f[k] \in Maskings(w.items[k])) =>
                   List([k \in DOMAIN w.items |-> f[k]]) \in Maskings(w)
      BY <1>3, <1>6, MaskingsOf
    <3>2. \A k \in DOMAIN w.items : rest[k] \in Maskings(w.items[k])  BY <2>3
    <3>3. rest = [k \in DOMAIN w.items |-> rest[k]]  OBVIOUS
    <3> HIDE DEF rest, r
    <3>4. List([k \in DOMAIN w.items |-> rest[k]]) \in Maskings(w)  BY <3>1, <3>2
    <3> QED BY <2>4, <3>3, <3>4
  <2>6. IsList(r) /\ r.items = rest  BY <2>4 DEF List, IsList
  <2>7. DOMAIN r.items = DOMAIN w.items /\ \A k \in DOMAIN w.items : r.items[k] = at(k)  BY <2>6
  <2> HIDE DEF rest, r
  <2>8. a \in ShownValues /\ b \in ShownValues /\ r \in ShownValues
    BY <1>2, <1>3, <2>5, MaskingsAreShown
  <2> DEFINE seen(f, p) == \E k \in DOMAIN w.items : \E place \in Places(f[k]) : p = Behind(k, place)
             shape == Shape("list", DOMAIN w.items)
  <2>9. \A p : /\ p \in Places(a) <=> p = shape \/ seen(a.items, p)
               /\ p \in Places(b) <=> p = shape \/ seen(b.items, p)
               /\ p \in Places(r) <=> p = shape \/ seen(r.items, p)
    BY <2>1, <2>6, <2>7, <2>8, PlacesBehind
  <2>10. \A p : seen(r.items, p) <=> seen(a.items, p) /\ seen(b.items, p)
    <3> TAKE p
    <3>1. ASSUME seen(r.items, p)  PROVE seen(a.items, p) /\ seen(b.items, p)
      BY <2>3, <2>7, <3>1
    <3>2. ASSUME seen(a.items, p), seen(b.items, p)  PROVE seen(r.items, p)
      <4>1. PICK k \in DOMAIN w.items : \E place \in Places(a.items[k]) : p = Behind(k, place)  BY <3>2
      <4>2. PICK s \in Places(a.items[k]) : p = Behind(k, s)  BY <4>1
      <4>3. PICK l \in DOMAIN w.items : \E place \in Places(b.items[l]) : p = Behind(l, place)  BY <3>2
      <4>4. PICK t \in Places(b.items[l]) : p = Behind(l, t)  BY <4>3
      <4>5. k = l /\ s = t
        <5>1. /\ <<k, s>>[1] = k /\ <<k, s>>[2] = s
              /\ <<l, t>>[1] = l /\ <<l, t>>[2] = t
          OBVIOUS
        <5>2. p = <<k, s>> /\ p = <<l, t>>  BY <4>2, <4>4 DEF Behind
        <5> QED BY ONLY <5>1, <5>2
      <4>6. s \in Places(r.items[k])  BY <2>3, <2>7, <4>5
      <4> QED BY <4>2, <4>6
    <3> QED BY <3>1, <3>2
  <2> HIDE DEF seen, shape
  <2>11. Places(r) = Places(a) \cap Places(b)  BY <2>9, <2>10
  <2> QED BY <1>2, <2>5, <2>11 DEF ShowsWhatBoth, r
<1>7. CASE a # RedactedValue /\ b # RedactedValue /\ ~IsHash(w) /\ ~IsList(w)
  <2>1. r = w /\ a = w /\ b = w  BY <1>3, <1>7, RestrictedShape
  <2> QED BY <1>2, <2>1 DEF ShowsWhatBoth
<1> QED BY <1>4, <1>5, <1>6, <1>7

\* What of two values may be published are masked forms of them.
AreMasked(before, after) ==
  /\ RedactSensitivePair(before, after)[1] \in Maskings(before)
  /\ RedactSensitivePair(before, after)[2] \in Maskings(after)

\* What a redaction comes to, by its cases.
LEMMA RedactedShape ==
  ASSUME NEW b \in CatalogValues, NEW a \in CatalogValues
  PROVE  LET r == RedactSensitivePair(b, a)
             at(k) == RedactSensitivePair(b.at[k], a.at[k])
             item(k) == RedactSensitivePair(b.items[k], a.items[k])
         IN  \/ r[1] = RedactedValue /\ r[2] = RedactedValue
             \/ r[1] = b /\ r[2] = a /\ ~ContainsSensitive(b) /\ ~ContainsSensitive(a)
             \/ /\ ~IsSensitiveWrapper(b) /\ ~IsSensitiveWrapper(a)
                /\ IsHash(b) /\ IsHash(a) /\ DOMAIN b.at = DOMAIN a.at
                /\ r[1] = Hash([k \in DOMAIN b.at |-> at(k)[1]])
                /\ r[2] = Hash([k \in DOMAIN a.at |-> at(k)[2]])
             \/ /\ ~IsSensitiveWrapper(b) /\ ~IsSensitiveWrapper(a)
                /\ IsList(b) /\ IsList(a) /\ DOMAIN b.items = DOMAIN a.items
                /\ r[1] = List([k \in DOMAIN b.items |-> item(k)[1]])
                /\ r[2] = List([k \in DOMAIN a.items |-> item(k)[2]])
<1> DEFINE r == RedactSensitivePair(b, a)
           at(k) == RedactSensitivePair(b.at[k], a.at[k])
           item(k) == RedactSensitivePair(b.items[k], a.items[k])
           h1 == Hash([k \in DOMAIN b.at |-> at(k)[1]])
           h2 == Hash([k \in DOMAIN a.at |-> at(k)[2]])
           l1 == List([k \in DOMAIN b.items |-> item(k)[1]])
           l2 == List([k \in DOMAIN a.items |-> item(k)[2]])
<1>1. r = IF IsSensitiveWrapper(b) \/ IsSensitiveWrapper(a) THEN MaskedPair
          ELSE IF ~(ContainsSensitive(b) \/ ContainsSensitive(a)) THEN <<b, a>>
          ELSE CASE IsHash(b) /\ IsHash(a) /\ DOMAIN b.at = DOMAIN a.at -> <<h1, h2>>
                 [] IsList(b) /\ IsList(a) /\ Len(b.items) = Len(a.items) -> <<l1, l2>>
                 [] OTHER -> MaskedPair
  BY TreesAreRecursive DEF RedactedPairAt
<1>2. ~(IsHash(b) /\ IsList(b))  BY DEF IsHash, IsList
<1>3. IsList(b) /\ IsList(a) /\ Len(b.items) = Len(a.items) => DOMAIN b.items = DOMAIN a.items
  BY ShapeOfValue
<1> HIDE DEF r, h1, h2, l1, l2
<1>4. MaskedPair[1] = RedactedValue /\ MaskedPair[2] = RedactedValue  BY DEF MaskedPair
<1>5. CASE IsSensitiveWrapper(b) \/ IsSensitiveWrapper(a)  BY <1>1, <1>4, <1>5 DEF r
<1>6. CASE /\ ~(IsSensitiveWrapper(b) \/ IsSensitiveWrapper(a))
           /\ ~(ContainsSensitive(b) \/ ContainsSensitive(a))
  <2>1. r = <<b, a>>  BY <1>1, <1>6
  <2> QED BY <1>6, <2>1 DEF r
<1>7. CASE /\ ~(IsSensitiveWrapper(b) \/ IsSensitiveWrapper(a))
           /\ ContainsSensitive(b) \/ ContainsSensitive(a)
  <2>1. r = CASE IsHash(b) /\ IsHash(a) /\ DOMAIN b.at = DOMAIN a.at -> <<h1, h2>>
              [] IsList(b) /\ IsList(a) /\ Len(b.items) = Len(a.items) -> <<l1, l2>>
              [] OTHER -> MaskedPair
    BY <1>1, <1>7
  <2>2. CASE IsHash(b) /\ IsHash(a) /\ DOMAIN b.at = DOMAIN a.at
    <3>1. r = <<h1, h2>>  BY <1>2, <2>1, <2>2
    <3>2. r[1] = h1 /\ r[2] = h2  BY <3>1
    <3> QED BY <1>7, <2>2, <3>2 DEF r, h1, h2
  <2>3. CASE IsList(b) /\ IsList(a) /\ Len(b.items) = Len(a.items)
    <3>1. r = <<l1, l2>>  BY <1>2, <2>1, <2>3
    <3>2. r[1] = l1 /\ r[2] = l2  BY <3>1
    <3> QED BY <1>3, <1>7, <2>3, <3>2 DEF r, l1, l2
  <2>4. CASE /\ ~(IsHash(b) /\ IsHash(a) /\ DOMAIN b.at = DOMAIN a.at)
             /\ ~(IsList(b) /\ IsList(a) /\ Len(b.items) = Len(a.items))
    <3>1. r = MaskedPair  BY <2>1, <2>4
    <3> QED BY <1>4, <3>1 DEF r
  <2> QED BY <2>2, <2>3, <2>4
<1> QED BY <1>5, <1>6, <1>7

\* A redaction leaves masked forms of both values.
LEMMA RedactedIsMasked ==
  ASSUME NEW b \in CatalogValues, NEW a \in CatalogValues
  PROVE  AreMasked(b, a)
<1> DEFINE B == {w \in CatalogValues : \E u \in CatalogValues : ~AreMasked(w, u)}
<1> SUFFICES ASSUME B # {}  PROVE FALSE
  OBVIOUS
<1>1. PICK w \in B : Children(w) \cap B = {} /\ Children(w) \subseteq CatalogValues
  <2>1. B \subseteq CatalogValues  OBVIOUS
  <2> HIDE DEF B
  <2> QED BY <2>1, Innermost
<1>2. PICK u \in CatalogValues : ~AreMasked(w, u)  BY <1>1
<1>3. /\ w \in CatalogValues
      /\ \A c \in Children(w) : \A d \in CatalogValues : AreMasked(c, d)
  BY <1>1
<1> HIDE DEF B
<1>0. LET r == RedactSensitivePair(w, u)
          at(k) == RedactSensitivePair(w.at[k], u.at[k])
          item(k) == RedactSensitivePair(w.items[k], u.items[k])
      IN  \/ r[1] = RedactedValue /\ r[2] = RedactedValue
          \/ r[1] = w /\ r[2] = u /\ ~ContainsSensitive(w) /\ ~ContainsSensitive(u)
          \/ /\ ~IsSensitiveWrapper(w) /\ ~IsSensitiveWrapper(u)
             /\ IsHash(w) /\ IsHash(u) /\ DOMAIN w.at = DOMAIN u.at
             /\ r[1] = Hash([k \in DOMAIN w.at |-> at(k)[1]])
             /\ r[2] = Hash([k \in DOMAIN u.at |-> at(k)[2]])
          \/ /\ ~IsSensitiveWrapper(w) /\ ~IsSensitiveWrapper(u)
             /\ IsList(w) /\ IsList(u) /\ DOMAIN w.items = DOMAIN u.items
             /\ r[1] = List([k \in DOMAIN w.items |-> item(k)[1]])
             /\ r[2] = List([k \in DOMAIN u.items |-> item(k)[2]])
  BY <1>3, RedactedShape
<1> DEFINE r == RedactSensitivePair(w, u)
           at(k) == RedactSensitivePair(w.at[k], u.at[k])
           item(k) == RedactSensitivePair(w.items[k], u.items[k])
<1>4. /\ RedactedValue \in Maskings(w) /\ RedactedValue \in Maskings(u)
      /\ w \in Maskings(w) /\ u \in Maskings(u)
  BY <1>3, MaskingsOf, ItselfIsMasking
<1>5. \/ r[1] = RedactedValue /\ r[2] = RedactedValue
      \/ r[1] = w /\ r[2] = u
      \/ /\ IsHash(w) /\ IsHash(u) /\ DOMAIN w.at = DOMAIN u.at
         /\ r[1] = Hash([k \in DOMAIN w.at |-> at(k)[1]])
         /\ r[2] = Hash([k \in DOMAIN u.at |-> at(k)[2]])
      \/ /\ IsList(w) /\ IsList(u) /\ DOMAIN w.items = DOMAIN u.items
         /\ r[1] = List([k \in DOMAIN w.items |-> item(k)[1]])
         /\ r[2] = List([k \in DOMAIN u.items |-> item(k)[2]])
  BY <1>0
<1>6. CASE /\ IsHash(w) /\ IsHash(u) /\ DOMAIN w.at = DOMAIN u.at
           /\ r[1] = Hash([k \in DOMAIN w.at |-> at(k)[1]])
           /\ r[2] = Hash([k \in DOMAIN u.at |-> at(k)[2]])
  <2>1. \A k \in DOMAIN w.at : AreMasked(w.at[k], u.at[k])  BY <1>3, <1>6, ShapeOfValue
  <2> DEFINE f == [k \in DOMAIN w.at |-> at(k)[1]]
             g == [k \in DOMAIN u.at |-> at(k)[2]]
  <2>2. /\ \A k \in DOMAIN w.at : f[k] \in Maskings(w.at[k])
        /\ \A k \in DOMAIN u.at : g[k] \in Maskings(u.at[k])
    BY <1>6, <2>1 DEF AreMasked
  <2>3. f = [k \in DOMAIN w.at |-> f[k]] /\ g = [k \in DOMAIN u.at |-> g[k]]  OBVIOUS
  <2>4. r[1] = Hash(f) /\ r[2] = Hash(g)  BY <1>6
  <2> HIDE DEF f, g, r
  <2>5. Hash([k \in DOMAIN w.at |-> f[k]]) \in Maskings(w)  BY <1>3, <1>6, <2>2, MaskingsOf
  <2>6. Hash([k \in DOMAIN u.at |-> g[k]]) \in Maskings(u)  BY <1>6, <2>2, MaskingsOf
  <2>7. r[1] \in Maskings(w) /\ r[2] \in Maskings(u)  BY <2>3, <2>4, <2>5, <2>6
  <2> QED BY <1>2, <2>7 DEF AreMasked, r
<1>7. CASE /\ IsList(w) /\ IsList(u) /\ DOMAIN w.items = DOMAIN u.items
           /\ r[1] = List([k \in DOMAIN w.items |-> item(k)[1]])
           /\ r[2] = List([k \in DOMAIN u.items |-> item(k)[2]])
  <2>1. \A k \in DOMAIN w.items : AreMasked(w.items[k], u.items[k])
    BY <1>3, <1>7, ShapeOfValue
  <2> DEFINE f == [k \in DOMAIN w.items |-> item(k)[1]]
             g == [k \in DOMAIN u.items |-> item(k)[2]]
  <2>2. /\ \A k \in DOMAIN w.items : f[k] \in Maskings(w.items[k])
        /\ \A k \in DOMAIN u.items : g[k] \in Maskings(u.items[k])
    BY <1>7, <2>1 DEF AreMasked
  <2>3. f = [k \in DOMAIN w.items |-> f[k]] /\ g = [k \in DOMAIN u.items |-> g[k]]  OBVIOUS
  <2>4. r[1] = List(f) /\ r[2] = List(g)  BY <1>7
  <2> HIDE DEF f, g, r
  <2>5. List([k \in DOMAIN w.items |-> f[k]]) \in Maskings(w)  BY <1>3, <1>7, <2>2, MaskingsOf
  <2>6. List([k \in DOMAIN u.items |-> g[k]]) \in Maskings(u)  BY <1>7, <2>2, MaskingsOf
  <2>7. r[1] \in Maskings(w) /\ r[2] \in Maskings(u)  BY <2>3, <2>4, <2>5, <2>6
  <2> QED BY <1>2, <2>7 DEF AreMasked, r
<1> QED BY <1>2, <1>4, <1>5, <1>6, <1>7 DEF AreMasked

----------------------------------------------------------------------------
(* What a group shows                                                      *)

GoesRound(V, v0, n, round) ==
  \E f \in [0 .. n -> V] : f[0] = v0 /\ \A i \in 1 .. n : f[i] = round[i][f[i - 1]]

\* A loop goes once for each of its rounds.
LEMMA LoopGoesRound ==
  ASSUME NEW V, NEW v0 \in V, NEW n \in Nat, NEW round \in [1 .. n -> [V -> V]]
  PROVE  GoesRound(V, v0, n, round)
BY Loop DEF GoesRound

\* Restricting values of a set to one another leads to no others.
IsClosed(V) == \A x, y \in V : RestrictProjection(x, y) \in V

IsProjected(values, n, V) ==
  \E shown \in [1 .. n -> V] :
    /\ shown[1] = values[1] /\ Projection(values) = shown[n]
    /\ \A i \in 1 .. n - 1 : shown[i + 1] = RestrictProjection(shown[i], values[i + 1])

\* A projection restricts the first value to each other one, and stays among
\* values that restricting leads to no others from.
LEMMA ProjectedStepwise ==
  ASSUME NEW V, NEW n \in Nat, n # 0, NEW values, ListOf(n, values),
         \A i \in 1 .. n : values[i] \in V,
         n = 1 \/ IsClosed(V)
  PROVE  IsProjected(values, n, V)
<1>0. n \in Nat /\ n # 0 /\ Len(values) = n  BY OfLength DEF ListOf
<1> DEFINE Result(f) == [i \in 1 .. n |->
             IF i = 1 THEN values[1] ELSE RestrictProjection(f[i - 1], values[i])]
           result == CHOOSE f : f = Result(f)
           Once(i, x) == IF i = 1 THEN values[1] ELSE RestrictProjection(x, values[i])
           round == [i \in 1 .. n |-> [x \in V |-> Once(i, x)]]
<1>1. Projection(values) = result[n]  BY <1>0, Zenon DEF Projection
<1>2. values[1] \in V  BY <1>0
<1>3. \A i \in 1 .. n, x \in V : Once(i, x) \in V
  <2> TAKE i \in 1 .. n, x \in V
  <2>1. CASE i = 1  BY <1>2, <2>1
  <2>2. CASE i # 1
    <3>1. n # 1  BY <2>2
    <3>2. RestrictProjection(x, values[i]) \in V  BY <1>0, <3>1 DEF IsClosed
    <3> QED BY <2>2, <3>2
  <2> QED BY <2>1, <2>2
<1> HIDE DEF Once
<1>4. round \in [1 .. n -> [V -> V]]  BY <1>3
<1>5. PICK f \in [0 .. n -> V] : f[0] = values[1] /\ \A i \in 1 .. n : f[i] = round[i][f[i - 1]]
  <2> HIDE DEF round, Result, result
  <2>1. GoesRound(V, values[1], n, round)  BY <1>0, <1>2, <1>4, LoopGoesRound
  <2> QED BY <2>1 DEF GoesRound
<1>6. ASSUME NEW i \in 1 .. n  PROVE f[i] \in V /\ f[i] = Once(i, f[i - 1])
  <2>1. i \in 0 .. n /\ i - 1 \in 0 .. n  OBVIOUS
  <2>2. f[i] \in V /\ f[i - 1] \in V  BY <2>1
  <2> QED BY <1>5, <2>2
<1> HIDE DEF round
<1> DEFINE h == [i \in 1 .. n |-> f[i]]
<1>7. h = Result(h)
  <2>1. ASSUME NEW i \in 1 .. n
        PROVE  f[i] = IF i = 1 THEN values[1] ELSE RestrictProjection(h[i - 1], values[i])
    <3>1. CASE i = 1  BY <1>6, <3>1 DEF Once
    <3>2. CASE i # 1
      <4>1. i - 1 \in 1 .. n  BY <3>2
      <4> QED BY <1>6, <3>2, <4>1 DEF Once
    <3> QED BY <3>1, <3>2
  <2> QED BY <2>1
<1>8. result = Result(result)
  <2> HIDE DEF h, Result
  <2> QED BY <1>7
<1> HIDE DEF result
<1>9. \A i \in 1 .. n : result[i] = IF i = 1 THEN values[1] ELSE RestrictProjection(result[i - 1], values[i])
  BY <1>8
<1>10. DOMAIN result = 1 .. n /\ result = [i \in 1 .. n |-> result[i]]
  BY <1>8
<1> HIDE DEF Result, h
<1>11. \A i \in 1 .. n : result[i] \in V
  <2> DEFINE T == {k \in Nat : k + 1 <= n => result[k + 1] \in V}
  <2>1. 0 \in T  BY <1>0, <1>2, <1>9
  <2>2. ASSUME NEW k \in T  PROVE k + 1 \in T
    <3> SUFFICES ASSUME (k + 1) + 1 <= n  PROVE result[(k + 1) + 1] \in V
      OBVIOUS
    <3> DEFINE l == k + 1
    <3>1. l \in Nat /\ l + 1 \in 1 .. n /\ l + 1 # 1 /\ (l + 1) - 1 = l  BY <1>0
    <3>2. result[l] \in V  BY <1>0
    <3> HIDE DEF l, T
    <3>3. n # 1  BY <1>0, <3>1
    <3>4. values[l + 1] \in V /\ RestrictProjection(result[l], values[l + 1]) \in V
      BY <3>1, <3>2, <3>3 DEF IsClosed
    <3>5. result[l + 1] \in V  BY <1>9, <3>1, <3>4
    <3> QED BY <3>5 DEF l
  <2>3. T = Nat
    <3>1. T \subseteq Nat  OBVIOUS
    <3> HIDE DEF T
    <3> QED BY <2>1, <2>2, <3>1, CountingUp
  <2> TAKE i \in 1 .. n
  <2>4. i - 1 \in Nat /\ (i - 1) + 1 = i /\ i <= n  BY <1>0
  <2>5. i - 1 \in T  BY <2>3, <2>4
  <2> QED BY <2>4, <2>5
<1>12. result \in [1 .. n -> V]  BY <1>10, <1>11
<1>13. result[1] = values[1]  BY <1>0, <1>9
<1>14. ASSUME NEW i \in 1 .. n - 1
       PROVE  result[i + 1] = RestrictProjection(result[i], values[i + 1])
  <2>1. i + 1 \in 1 .. n /\ i + 1 # 1 /\ (i + 1) - 1 = i  BY <1>0
  <2> QED BY <1>9, <2>1
<1> QED BY <1>1, <1>12, <1>13, <1>14 DEF IsProjected

\* A projection is among the values it is of.
LEMMA ProjectedWithin ==
  ASSUME NEW V, NEW n \in Nat, n # 0, NEW values, ListOf(n, values),
         \A i \in 1 .. n : values[i] \in V,
         n = 1 \/ IsClosed(V)
  PROVE  Projection(values) \in V /\ (n = 1 => Projection(values) = values[1])
<1>1. IsProjected(values, n, V)  BY ProjectedStepwise
<1>2. PICK shown \in [1 .. n -> V] : shown[1] = values[1] /\ Projection(values) = shown[n]
  BY <1>1 DEF IsProjected
<1>3. n \in 1 .. n  OBVIOUS
<1> QED BY <1>2, <1>3

\* A projection of masked forms of one value shows what all of them show.
LEMMA ProjectionShowsLeast ==
  ASSUME NEW v \in CatalogValues, NEW n \in Nat, n # 0, NEW values, ListOf(n, values),
         \A i \in 1 .. n : values[i] \in Maskings(v)
  PROVE  \A p : p \in Places(Projection(values)) <=> \A i \in 1 .. n : p \in Places(values[i])
<1>1. \A x, y \in Maskings(v) :
        /\ RestrictProjection(x, y) \in Maskings(v)
        /\ Places(RestrictProjection(x, y)) = Places(x) \cap Places(y)
  BY RestrictedShowsBoth DEF ShowsWhatBoth
<1>2. IsProjected(values, n, Maskings(v))  BY <1>1, ProjectedStepwise DEF IsClosed
<1>3. PICK shown \in [1 .. n -> Maskings(v)] :
        /\ shown[1] = values[1] /\ Projection(values) = shown[n]
        /\ \A i \in 1 .. n - 1 : shown[i + 1] = RestrictProjection(shown[i], values[i + 1])
  BY <1>2 DEF IsProjected
<1> DEFINE Least(k) == \A p : p \in Places(shown[k]) <=> \A i \in 1 .. k : p \in Places(values[i])
           T == {k \in Nat : k + 1 <= n => Least(k + 1)}
<1>4. 0 \in T
  <2>1. \A i : i \in 1 .. 1 <=> i = 1  OBVIOUS
  <2>2. Least(1)  BY <1>3, <2>1
  <2> QED BY <2>2
<1>5. ASSUME NEW k \in T  PROVE k + 1 \in T
  <2> SUFFICES ASSUME (k + 1) + 1 <= n  PROVE Least((k + 1) + 1)
    OBVIOUS
  <2> DEFINE l == k + 1
  <2>1. l \in Nat /\ l \in 1 .. n - 1 /\ l \in 1 .. n /\ l + 1 \in 1 .. n  OBVIOUS
  <2>2. \A p : p \in Places(shown[l]) <=> \A i \in 1 .. l : p \in Places(values[i])  BY <2>1
  <2> HIDE DEF l, T
  <2>3. shown[l + 1] = RestrictProjection(shown[l], values[l + 1])  BY <1>3, <2>1
  <2>4. Places(shown[l + 1]) = Places(shown[l]) \cap Places(values[l + 1])  BY <1>1, <2>1, <2>3
  <2>5. \A i : i \in 1 .. l + 1 <=> i \in 1 .. l \/ i = l + 1  BY <2>1
  <2>6. Least(l + 1)  BY <2>2, <2>4, <2>5
  <2> QED BY <2>6 DEF l
<1>6. T = Nat
  <2>1. T \subseteq Nat  OBVIOUS
  <2> HIDE DEF T
  <2> QED BY <1>4, <1>5, <2>1, CountingUp
<1>7. Least(n)
  <2>1. n - 1 \in Nat /\ (n - 1) + 1 = n /\ n <= n  OBVIOUS
  <2>2. n - 1 \in T  BY <1>6, <2>1
  <2> HIDE DEF Least
  <2>3. (n - 1) + 1 <= n => Least((n - 1) + 1)  BY <2>2
  <2> QED BY <2>1, <2>3
<1> QED BY <1>3, <1>7

\* A row is of a resource on one side, of a parameter of both, or of content;
\* it has at most one piece of evidence.
RowIsOf(row, before, after) ==
  /\ row.content = <<>> \/ \E e : row.content = <<e>>
  /\ \/ /\ row.kind = "resource_removed" /\ row.id \in DOMAIN before.resources
        /\ row.before = Hash(before.resources[row.id].params) /\ row.after = Undef
     \/ /\ row.kind = "resource_added" /\ row.id \in DOMAIN after.resources
        /\ row.before = Undef /\ row.after = Hash(after.resources[row.id].params)
     \/ /\ row.kind = "parameter_changed" /\ row.content = <<>>
        /\ row.before \in CatalogValues /\ row.after \in CatalogValues
     \/ row.kind = "parameter_changed" /\ row.content # <<>>

\* Every row of one resource is one of these.
LEMMA RowsAreOf ==
  ASSUME NEW before, IsNormalized(before), NEW after, IsNormalized(after),
         NEW id \in Identities(before, after), NEW retrieved, NEW quiet,
         NEW row \in ToSet(ResourceDiff(id, before, after, retrieved, quiet).rows)
  PROVE  RowIsOf(row, before, after)
<1> DEFINE rows == ResourceDiff(id, before, after, retrieved, quiet).rows
<1>1. /\ id \notin DOMAIN after.resources =>
           /\ id \in DOMAIN before.resources
           /\ ToSet(rows) = {MemberRow("resource_removed", id, before, retrieved, quiet)}
      /\ id \notin DOMAIN before.resources =>
           /\ id \in DOMAIN after.resources
           /\ ToSet(rows) = {MemberRow("resource_added", id, after, retrieved, quiet)}
      /\ id \in DOMAIN before.resources \cap DOMAIN after.resources =>
           \/ \E name \in ComparedNames(before, after, id) :
                row \in ToSet(RowsOfName(id, name, before, after))
           \/ row \in ToSet(ContentChange(id, before, after, retrieved, quiet).rows)
  BY ResourceRows
<1>2. \A x : <<x>> # <<>>  BY OneInList
<1>3. \A kind, catalog :
        LET member == MemberRow(kind, id, catalog, retrieved, quiet)
            held == Hash(catalog.resources[id].params)
        IN  /\ member.kind = kind /\ member.id = id
            /\ member.content = <<>> \/ \E e : member.content = <<e>>
            /\ kind = "resource_added" => member.before = Undef /\ member.after = held
            /\ kind = "resource_removed" => member.before = held /\ member.after = Undef
  BY DEF MemberRow, Row
<1> HIDE DEF rows
<1>4. CASE id \notin DOMAIN after.resources
  <2>1. row = MemberRow("resource_removed", id, before, retrieved, quiet) /\ id \in DOMAIN before.resources
    BY <1>1, <1>4 DEF rows
  <2> QED BY <1>3, <2>1 DEF RowIsOf
<1>5. CASE id \notin DOMAIN before.resources
  <2>1. row = MemberRow("resource_added", id, after, retrieved, quiet) /\ id \in DOMAIN after.resources
    BY <1>1, <1>5 DEF rows
  <2> QED BY <1>3, <2>1 DEF RowIsOf
<1>6. ASSUME id \in DOMAIN before.resources, id \in DOMAIN after.resources,
             NEW name \in ComparedNames(before, after, id),
             row \in ToSet(RowsOfName(id, name, before, after))
      PROVE  RowIsOf(row, before, after)
  <2> DEFINE b == ParameterOf(before.resources[id], name)
             a == ParameterOf(after.resources[id], name)
  <2>1. row = Row("parameter_changed", id, name, b, a, <<>>)
    BY <1>6, ParameterRow DEF RowsOfName
  <2>2. b \in CatalogValues /\ a \in CatalogValues  BY <1>6, ParameterIsValue
  <2> HIDE DEF b, a
  <2>3. row.kind = "parameter_changed" /\ row.before = b /\ row.after = a /\ row.content = <<>>
    BY <2>1, RowFields
  <2> QED BY <2>2, <2>3 DEF RowIsOf
<1>7. ASSUME id \in DOMAIN before.resources, id \in DOMAIN after.resources,
             row \in ToSet(ContentChange(id, before, after, retrieved, quiet).rows)
      PROVE  RowIsOf(row, before, after)
  <2> DEFINE b == ContentParameters(before.resources[id])
             a == ContentParameters(after.resources[id])
             e == ToldOf(id, before, after, retrieved, quiet).evidence
  <2> DEFINE these == ContentChange(id, before, after, retrieved, quiet).rows
  <2>1. ToSet(these) \subseteq {Row("parameter_changed", id, "content", b, a, <<e>>)}
    BY ContentRow
  <2>2. row \in ToSet(these)  BY <1>7
  <2> HIDE DEF b, a, e, these
  <2>3. row.kind = "parameter_changed" /\ row.content = <<e>>  BY <2>1, <2>2, RowFields
  <2> QED BY <1>2, <2>3 DEF RowIsOf
<1> QED BY <1>1, <1>4, <1>5, <1>6, <1>7

\* The values a change is a projection of, from its fingerprint.
BaseOf(p) ==
  IF p.kind = "parameter_changed" /\ p.content # <<>> THEN <<Undef, Undef>>
  ELSE <<p.before, p.after>>

IsProjectionOf(change, p) ==
  /\ BaseOf(p)[1] \in CatalogValues /\ BaseOf(p)[2] \in CatalogValues
  /\ change.before \in Maskings(BaseOf(p)[1]) /\ change.after \in Maskings(BaseOf(p)[2])

ChangeIsOf(change) ==
  /\ change.content = <<>> \/ \E e : change.content = <<e>>
  /\ change.kind \in ResourceKinds
  /\ change.fingerprint = <<>> \/ \E p : change.fingerprint = <<p>> /\ IsProjectionOf(change, p)

\* The parameters of a resource are published as a masked form of them.
LEMMA PublishedParametersAreMasked ==
  ASSUME NEW selectors, NEW id, NEW resource, Hash(resource.params) \in CatalogValues
  PROVE  PublishParameters(selectors, id, resource) \in Maskings(Hash(resource.params))
<1> DEFINE v == Hash(resource.params)
           f == [n \in DOMAIN resource.params |->
                   IF n \in Undisclosed(selectors, id, resource) THEN RedactedValue
                   ELSE RedactSensitivePair(resource.params[n], resource.params[n])[1]]
<1>1. IsHash(v) /\ v.at = resource.params  BY DEF Hash, IsHash
<1>2. \A n \in DOMAIN v.at : f[n] \in Maskings(v.at[n])
  <2> TAKE n \in DOMAIN v.at
  <2>1. v.at[n] \in CatalogValues  BY <1>1, ShapeOfValue
  <2>2. RedactedValue \in Maskings(v.at[n])  BY <2>1, MaskingsOf
  <2>3. RedactSensitivePair(v.at[n], v.at[n])[1] \in Maskings(v.at[n])
    BY <2>1, RedactedIsMasked DEF AreMasked
  <2> QED BY <1>1, <2>2, <2>3
<1>3. f = [n \in DOMAIN v.at |-> f[n]]  BY <1>1
<1>4. PublishParameters(selectors, id, resource) = Hash(f)  BY DEF PublishParameters
<1> HIDE DEF f, v
<1>5. Hash([n \in DOMAIN v.at |-> f[n]]) \in Maskings(v)  BY <1>1, <1>2, MaskingsOf DEF v
<1> QED BY <1>3, <1>4, <1>5 DEF v

\* What is published of a row, and its fingerprint, say what it is of.
LEMMA PublishedIsOf ==
  ASSUME NEW before, IsNormalized(before), NEW after, IsNormalized(after),
         NEW selectors, NEW row, RowIsOf(row, before, after)
  PROVE  ChangeIsOf(PublishChange(selectors, row, before, after))
<1> DEFINE b == ResourceAt(before, row.id)
           a == ResourceAt(after, row.id)
           values == PublishedValues(selectors, row, b, a)
           change == PublishChange(selectors, row, before, after)
           selected == ContentSelected(selectors, row, b, a)
<1>1. /\ change.kind = row.kind /\ change.before = values[1] /\ change.after = values[2]
      /\ change.content = [i \in DOMAIN row.content |-> PublishEvidence(selected, row.content[i])]
      /\ change.fingerprint = Fingerprint(row)
  BY DEF PublishChange
<1> HIDE DEF change, selected
<1>2. Undef \in CatalogValues /\ Undef \in Maskings(Undef)
  BY ValuesAreTrees, ItselfIsMasking
<1>3. change.kind \in ResourceKinds  BY <1>1 DEF RowIsOf, ResourceKinds
<1>4. \A f : DOMAIN row.content = {} => [i \in DOMAIN row.content |-> f[i]] = <<>>
  <2> TAKE f
  <2> DEFINE s == [i \in DOMAIN row.content |-> f[i]]
  <2>1. DOMAIN row.content = {} => s = [i \in 1 .. 0 |-> s[i]]  OBVIOUS
  <2> HIDE DEF s
  <2>2. DOMAIN row.content = {} => s = <<>>  BY <2>1, OfLength
  <2> QED BY <2>2 DEF s
<1>5. /\ row.content = <<>> => DOMAIN row.content = {}
      /\ \A e : row.content = <<e>> => DOMAIN row.content = {1}
  OBVIOUS
<1>6. change.content = <<>> \/ \E e : change.content = <<e>>
  <2>1. CASE row.content = <<>>
    <3> DEFINE f == [i \in DOMAIN row.content |-> PublishEvidence(selected, row.content[i])]
    <3>1. f = [i \in DOMAIN row.content |-> f[i]]  OBVIOUS
    <3> HIDE DEF f
    <3>2. f = <<>>  BY <1>4, <1>5, <2>1, <3>1
    <3> QED BY <1>1, <3>2 DEF f
  <2>2. CASE \E e : row.content = <<e>>
    <3>1. DOMAIN row.content = {1}  BY <1>5, <2>2
    <3>2. change.content = <<PublishEvidence(selected, row.content[1])>>
      BY <1>1, <3>1
    <3> QED BY <3>2
  <2> QED BY <2>1, <2>2 DEF RowIsOf
<1>7. ASSUME change.fingerprint # <<>>
      PROVE  \E p : change.fingerprint = <<p>> /\ IsProjectionOf(change, p)
  <2> DEFINE content == [i \in DOMAIN row.content |->
                           [state |-> row.content[i].state, source |-> row.content[i].source,
                            algorithm |-> row.content[i].algorithm,
                            digests |-> <<row.content[i].beforeDigest, row.content[i].afterDigest>>]]
             p == [kind |-> row.kind, id |-> row.id, parameter |-> row.parameter,
                   before |-> row.before, after |-> row.after, content |-> content]
  <2>1. Fingerprint(row) = IF ~Encodable(row.before) \/ ~Encodable(row.after) THEN <<>> ELSE <<p>>
    BY DEF Fingerprint
  <2>2. /\ content = [i \in DOMAIN row.content |-> content[i]] /\ DOMAIN content = DOMAIN row.content
        /\ p.kind = row.kind /\ p.before = row.before /\ p.after = row.after /\ p.content = content
    OBVIOUS
  <2> HIDE DEF content, p
  <2>3. change.fingerprint = <<p>>  BY <1>1, <1>7, <2>1
  <2>4. p.content = <<>> <=> row.content = <<>>
    <3>1. row.content = <<>> => content = <<>>  BY <1>4, <1>5, <2>2
    <3>2. row.content # <<>> => DOMAIN content = {1}  BY <1>5, <2>2 DEF RowIsOf
    <3>3. DOMAIN content = {1} => content # <<>>  OBVIOUS
    <3> QED BY <2>2, <3>1, <3>2, <3>3
  <2>5. CASE row.kind = "resource_removed"
    <3>1. /\ row.id \in DOMAIN before.resources /\ row.after = Undef
          /\ row.before = Hash(before.resources[row.id].params)
      BY <2>5 DEF RowIsOf
    <3>2. Hash(before.resources[row.id].params) \in CatalogValues  BY <3>1 DEF IsNormalized
    <3>3. values = <<PublishParameters(selectors, row.id, b), Undef>> /\ b = before.resources[row.id]
      BY <2>5, <3>1 DEF PublishedValues, ResourceAt
    <3>4. PublishParameters(selectors, row.id, b) \in Maskings(row.before)
      BY <3>1, <3>2, <3>3, PublishedParametersAreMasked
    <3>5. BaseOf(p)[1] = row.before /\ BaseOf(p)[2] = Undef  BY <2>2, <2>5, <3>1 DEF BaseOf
    <3>6. change.before \in Maskings(row.before) /\ change.after = Undef
      BY <1>1, <3>3, <3>4
    <3>7. IsProjectionOf(change, p)  BY <1>2, <3>1, <3>2, <3>5, <3>6 DEF IsProjectionOf
    <3> QED BY <2>3, <3>7
  <2>6. CASE row.kind = "resource_added"
    <3>1. /\ row.id \in DOMAIN after.resources /\ row.before = Undef
          /\ row.after = Hash(after.resources[row.id].params)
      BY <2>6 DEF RowIsOf
    <3>2. Hash(after.resources[row.id].params) \in CatalogValues  BY <3>1 DEF IsNormalized
    <3>3. values = <<Undef, PublishParameters(selectors, row.id, a)>> /\ a = after.resources[row.id]
      BY <2>6, <3>1 DEF PublishedValues, ResourceAt
    <3>4. PublishParameters(selectors, row.id, a) \in Maskings(row.after)
      BY <3>1, <3>2, <3>3, PublishedParametersAreMasked
    <3>5. BaseOf(p)[1] = Undef /\ BaseOf(p)[2] = row.after  BY <2>2, <2>6, <3>1 DEF BaseOf
    <3>6. change.after \in Maskings(row.after) /\ change.before = Undef
      BY <1>1, <3>3, <3>4
    <3>7. IsProjectionOf(change, p)  BY <1>2, <3>1, <3>2, <3>5, <3>6 DEF IsProjectionOf
    <3> QED BY <2>3, <3>7
  <2>7. CASE /\ row.kind = "parameter_changed" /\ row.content = <<>>
             /\ row.before \in CatalogValues /\ row.after \in CatalogValues
    <3>1. values = IF Selected(selectors, row, b, a) THEN MaskedPair
                   ELSE RedactSensitivePair(row.before, row.after)
      BY <2>7 DEF PublishedValues
    <3>2. MaskedPair[1] = RedactedValue /\ MaskedPair[2] = RedactedValue  BY DEF MaskedPair
    <3>3. values[1] \in Maskings(row.before) /\ values[2] \in Maskings(row.after)
      BY <2>7, <3>1, <3>2, MaskingsOf, RedactedIsMasked DEF AreMasked
    <3>4. BaseOf(p)[1] = row.before /\ BaseOf(p)[2] = row.after  BY <2>2, <2>4, <2>7 DEF BaseOf
    <3>5. IsProjectionOf(change, p)  BY <1>1, <2>7, <3>3, <3>4 DEF IsProjectionOf
    <3> QED BY <2>3, <3>5
  <2>8. CASE row.kind = "parameter_changed" /\ row.content # <<>>
    <3>1. values = <<Undef, Undef>>  BY <2>8 DEF PublishedValues
    <3>2. BaseOf(p)[1] = Undef /\ BaseOf(p)[2] = Undef  BY <2>2, <2>4, <2>8 DEF BaseOf
    <3>3. IsProjectionOf(change, p)  BY <1>1, <1>2, <3>1, <3>2 DEF IsProjectionOf
    <3> QED BY <2>3, <3>3
  <2> QED BY <2>5, <2>6, <2>7, <2>8 DEF RowIsOf
<1> QED BY <1>3, <1>6, <1>7 DEF ChangeIsOf, change

\* What the exclusions keep is of the full difference.
LEMMA KeptIsOfFull ==
  ASSUME ComparisonInv, NEW i \in Compared
  PROVE  /\ IsSequence(KeptOf(i).changes) /\ ToSet(KeptOf(i).changes) \subseteq ToSet(Full(i))
         /\ IsSequence(KeptOf(i).edgeChanges)
         /\ ToSet(KeptOf(i).edgeChanges) \subseteq ToSet(FullEdges(i))
<1> DEFINE rules == done[i].policy.exclude
           kept == KeptOf(i)
           keep == {j \in DOMAIN Full(i) : RuleOf(rules, Full(i)[j].id) = 0}
           keepEdges == {j \in DOMAIN FullEdges(i) : EdgeRule(rules, Ids(i), FullEdges(i)[j].edge) = 0}
<1>1. IsSequence(Full(i)) /\ IsSequence(FullEdges(i))  BY FullOfCompared
<1>2. kept.changes = Kept(Full(i), keep) /\ kept.edgeChanges = Kept(FullEdges(i), keepEdges)
  BY DEF KeptOf, ApplyExclusions
<1>3. keep \subseteq DOMAIN Full(i) /\ keepEdges \subseteq DOMAIN FullEdges(i)  OBVIOUS
<1> HIDE DEF keep, keepEdges, kept
<1>4. /\ IsSequence(kept.changes) /\ ToSet(kept.changes) = {Full(i)[j] : j \in keep}
      /\ IsSequence(kept.edgeChanges) /\ ToSet(kept.edgeChanges) = {FullEdges(i)[j] : j \in keepEdges}
  BY <1>1, <1>2, <1>3, KeptOfList
<1>5. /\ {Full(i)[j] : j \in keep} \subseteq ToSet(Full(i))
      /\ {FullEdges(i)[j] : j \in keepEdges} \subseteq ToSet(FullEdges(i))
  BY <1>3 DEF ToSet
<1> QED BY <1>4, <1>5 DEF kept

\* What the aggregate is made of: what is published of each target.
LEMMA PublishedChanges ==
  ASSUME ComparisonInv, NEW i \in Compared
  PROVE  /\ DiffOf(i).certname = i /\ i \in Nat
         /\ IsSequence(DiffOf(i).resourceChanges) /\ IsSequence(DiffOf(i).edgeChanges)
         /\ \A j \in DOMAIN DiffOf(i).resourceChanges : ChangeIsOf(DiffOf(i).resourceChanges[j])
         /\ \A j \in DOMAIN DiffOf(i).edgeChanges : IsEdgeKind(DiffOf(i).edgeChanges[j].kind)
<1> DEFINE rules == done[i].policy.exclude
           before == done[i].before
           after == done[i].after
           selectors == done[i].policy.redact
           kept == KeptOf(i)
           d == DiffOf(i)
<1>1. /\ i \in 1 .. Len(results) /\ IsNormalized(before) /\ IsNormalized(after)
      /\ IsSequence(rules) /\ d = Publish(i, selectors, before, after, kept)
  BY ComparedHas
<1>3. IsSequence(kept.changes) /\ ToSet(kept.changes) \subseteq ToSet(Full(i))
  BY KeptIsOfFull
<1>4. IsSequence(kept.edgeChanges) /\ ToSet(kept.edgeChanges) \subseteq ToSet(FullEdges(i))
  BY KeptIsOfFull
<1>5. \A row \in ToSet(Full(i)) : RowIsOf(row, before, after)
  <2> TAKE row \in ToSet(Full(i))
  <2>1. PICK id \in Identities(before, after) :
          row \in ToSet(ResourceDiff(id, before, after, done[i].retrieved, done[i].policy.suppress).rows)
    BY <1>1, FullRows DEF Full
  <2> QED BY <1>1, <2>1, RowsAreOf
<1>6. \A row \in ToSet(FullEdges(i)) : IsEdgeKind(row.kind)
  BY <1>1, EdgesOfDifference DEF FullEdges, IsEdgeKind
<1> HIDE DEF d, kept, before, after, selectors
<1>7. /\ IsSequence(d.resourceChanges) /\ DOMAIN d.resourceChanges = DOMAIN kept.changes
      /\ \A j \in DOMAIN kept.changes :
           d.resourceChanges[j] = PublishChange(selectors, kept.changes[j], before, after)
      /\ d.edgeChanges = kept.edgeChanges /\ d.certname = i
  BY <1>1, <1>3, PublishedAreKept
<1>8. \A j \in DOMAIN kept.changes : RowIsOf(kept.changes[j], before, after)
  BY <1>3, <1>5 DEF ToSet
<1>9. \A j \in DOMAIN d.resourceChanges : ChangeIsOf(d.resourceChanges[j])
  BY <1>1, <1>7, <1>8, PublishedIsOf
<1>10. \A j \in DOMAIN d.edgeChanges : IsEdgeKind(d.edgeChanges[j].kind)
  BY <1>4, <1>6, <1>7 DEF ToSet
<1>11. i \in Nat
  <2>1. Len(results) \in Nat  BY ListsHaveLengths DEF ComparisonInv, InTargetOrder
  <2> QED BY <1>1, <2>1
<1> QED BY <1>4, <1>7, <1>9, <1>10, <1>11 DEF d

\* What is indexed by a finite set is finitely many.
LEMMA IndexedIsFinite ==
  ASSUME NEW S, IsFiniteSet(S), NEW f, DOMAIN f = S
  PROVE  IsFiniteSet({f[x] : x \in S})
<1> DEFINE T == {f[x] : x \in S}
           g == [x \in S |-> f[x]]
<1>1. g \in Surjection(S, T)  BY DEF Surjection
<1> HIDE DEF g, T
<1>2. IsFiniteSet(T)  BY <1>1, FS_Surjection
<1> QED BY <1>2 DEF T

\* What is in a set is in it once, when it has one element.
LEMMA OnlyOne ==
  ASSUME NEW m
  PROVE  Cardinality({m}) = 1
BY FS_Singleton

AllMembers == UNION {Members(d) : d \in Diffs}
Mine(key) == {m \in AllMembers : m.key = key}

\* The change a member stands for.
ChangeOf(m) == DiffOf(m.certname).resourceChanges[m.index]

IsMember(m) ==
  /\ m.certname \in Compared /\ m.certname \in Nat /\ m.index \in Nat
  /\ m.index \in DOMAIN DiffOf(m.certname).resourceChanges
  /\ m = ResourceMember(DiffOf(m.certname), m.index)

\* The members are finitely many.
LEMMA MembersAreFinite ==
  ASSUME ComparisonInv
  PROVE  IsFiniteSet(AllMembers)
<1>1. ASSUME NEW i \in Compared  PROVE IsFiniteSet(Members(DiffOf(i)))
  <2> DEFINE d == DiffOf(i)
  <2>1. IsSequence(d.resourceChanges) /\ IsSequence(d.edgeChanges)  BY PublishedChanges
  <2> HIDE DEF d
  <2>2. IsFiniteSet(DOMAIN d.resourceChanges) /\ IsFiniteSet(DOMAIN d.edgeChanges)
    <3>1. \A s : IsSequence(s) => IsFiniteSet(DOMAIN s)
      <4> SUFFICES ASSUME NEW s, IsSequence(s)  PROVE IsFiniteSet(DOMAIN s)
        OBVIOUS
      <4>1. Len(s) \in Nat /\ DOMAIN s = 1 .. Len(s)  BY ListsHaveLengths
      <4>2. IsFiniteSet(1 .. Len(s))  BY <4>1, FS_Interval
      <4> QED BY <4>1, <4>2
    <3> QED BY <2>1, <3>1
  <2> DEFINE f == [j \in DOMAIN d.resourceChanges |-> ResourceMember(d, j)]
             h == [j \in DOMAIN d.edgeChanges |-> EdgeMember(d, j)]
             A == {f[j] : j \in DOMAIN d.resourceChanges}
             B == {h[j] : j \in DOMAIN d.edgeChanges}
  <2>3. Members(d) = A \cup B  BY DEF Members
  <2>4. DOMAIN f = DOMAIN d.resourceChanges /\ DOMAIN h = DOMAIN d.edgeChanges  OBVIOUS
  <2> HIDE DEF f, h
  <2>5. IsFiniteSet(A) /\ IsFiniteSet(B)  BY <2>2, <2>4, IndexedIsFinite
  <2> HIDE DEF A, B
  <2>6. IsFiniteSet(A \cup B)  BY <2>5, FS_Union
  <2> QED BY <2>3, <2>6 DEF d
<1>2. IsFiniteSet(Compared)
  <2>1. Len(results) \in Nat /\ DOMAIN results = 1 .. Len(results)
    BY ListsHaveLengths DEF ComparisonInv, InTargetOrder
  <2>2. Compared \subseteq 1 .. Len(results)  BY <2>1 DEF Compared
  <2>3. IsFiniteSet(1 .. Len(results))  BY <2>1, FS_Interval
  <2> QED BY <2>2, <2>3, FS_Subset
<1> DEFINE f == [i \in Compared |-> Members(DiffOf(i))]
           all == {f[i] : i \in Compared}
<1>3. AllMembers = UNION all  BY DEF AllMembers, Diffs, DiffOf, Compared
<1>4. DOMAIN f = Compared /\ \A i \in Compared : IsFiniteSet(f[i])  BY <1>1
<1> HIDE DEF f
<1>5. IsFiniteSet(all)  BY <1>2, <1>4, IndexedIsFinite
<1>6. \A T \in all : IsFiniteSet(T)  BY <1>4
<1> HIDE DEF all
<1> QED BY <1>3, <1>5, <1>6, FS_UNION

\* The rows of a target among which a change of a kind is.
RowsOfKind(kind, certname) ==
  IF IsEdgeKind(kind) THEN DiffOf(certname).edgeChanges ELSE DiffOf(certname).resourceChanges

\* Every member of the aggregate is a published row of a compared target.
LEMMA MembersAreRows ==
  ASSUME ComparisonInv, NEW m \in AllMembers
  PROVE  /\ m.certname \in Compared /\ m.certname \in Nat /\ m.index \in Nat
         /\ m.index \in DOMAIN RowsOfKind(m.key.kind, m.certname)
         /\ RowsOfKind(m.key.kind, m.certname)[m.index].kind = m.key.kind
         /\ IsEdgeKind(m.key.kind) => m = EdgeMember(DiffOf(m.certname), m.index)
         /\ ~IsEdgeKind(m.key.kind) => m = ResourceMember(DiffOf(m.certname), m.index)
<1>1. PICK i \in Compared : m \in Members(DiffOf(i))
  BY DEF AllMembers, Diffs, DiffOf, Compared
<1> DEFINE d == DiffOf(i)
<1>2. /\ d.certname = i /\ i \in Nat
      /\ IsSequence(d.resourceChanges) /\ IsSequence(d.edgeChanges)
      /\ \A j \in DOMAIN d.resourceChanges : ChangeIsOf(d.resourceChanges[j])
      /\ \A j \in DOMAIN d.edgeChanges : IsEdgeKind(d.edgeChanges[j].kind)
  BY PublishedChanges
<1> HIDE DEF d
<1>3. DOMAIN d.resourceChanges \subseteq Nat /\ DOMAIN d.edgeChanges \subseteq Nat
  <2>1. \A s : IsSequence(s) => DOMAIN s \subseteq Nat
    <3> SUFFICES ASSUME NEW s, IsSequence(s)  PROVE DOMAIN s \subseteq Nat
      OBVIOUS
    <3>1. DOMAIN s = 1 .. Len(s) /\ Len(s) \in Nat  BY ListsHaveLengths
    <3> QED BY <3>1
  <2> QED BY <1>2, <2>1
<1>4. CASE \E j \in DOMAIN d.resourceChanges : m = ResourceMember(d, j)
  <2>1. PICK j \in DOMAIN d.resourceChanges : m = ResourceMember(d, j)  BY <1>4
  <2>2. m.certname = i /\ m.index = j /\ m.key = ResourceKey(d, j)
    BY <1>2, <2>1 DEF ResourceMember
  <2>3. m.key.kind = d.resourceChanges[j].kind  BY <2>2 DEF ResourceKey
  <2>4. ~IsEdgeKind(m.key.kind)
    BY <1>2, <2>3 DEF ChangeIsOf, ResourceKinds, IsEdgeKind
  <2> QED BY <1>2, <1>3, <2>1, <2>2, <2>3, <2>4 DEF RowsOfKind, d
<1>5. CASE \E j \in DOMAIN d.edgeChanges : m = EdgeMember(d, j)
  <2>1. PICK j \in DOMAIN d.edgeChanges : m = EdgeMember(d, j)  BY <1>5
  <2>2. m.certname = i /\ m.index = j /\ m.key = d.edgeChanges[j]
    BY <1>2, <2>1 DEF EdgeMember
  <2>3. IsEdgeKind(m.key.kind)  BY <1>2, <2>2
  <2> QED BY <1>2, <1>3, <2>1, <2>2, <2>3 DEF RowsOfKind, d
<1> QED BY <1>1, <1>4, <1>5 DEF Members, d

\* The members of a key that is not of an edge are published changes.
LEMMA MembersAreChanges ==
  ASSUME ComparisonInv, NEW key, ~IsEdgeKind(key.kind), NEW m \in Mine(key)
  PROVE  /\ IsMember(m) /\ m.key = key /\ ChangeIsOf(ChangeOf(m))
         /\ m.before = ChangeOf(m).before /\ m.after = ChangeOf(m).after
         /\ m.content = ChangeOf(m).content
         /\ key.fingerprint = ChangeOf(m).fingerprint
         /\ key.fingerprint = <<>> => key.alone = <<m.certname, m.index>>
<1> DEFINE d == DiffOf(m.certname)
           j == m.index
           change == d.resourceChanges[j]
<1>1. m \in AllMembers /\ m.key = key  BY DEF Mine
<1>2. /\ m.certname \in Compared /\ m.certname \in Nat /\ j \in Nat
      /\ m = ResourceMember(d, j) /\ j \in DOMAIN d.resourceChanges
  BY <1>1, MembersAreRows DEF RowsOfKind
<1>3. IsMember(m)  BY <1>2 DEF IsMember
<1>4. d.certname = m.certname /\ ChangeIsOf(change)  BY <1>2, PublishedChanges
<1> HIDE DEF d, j
<1>5. /\ m.key = ResourceKey(d, j)
      /\ m.before = change.before /\ m.after = change.after /\ m.content = change.content
  BY <1>2 DEF ResourceMember
<1>6. /\ key.fingerprint = change.fingerprint
      /\ key.fingerprint = <<>> => key.alone = <<d.certname, j>>
  BY <1>1, <1>5 DEF ResourceKey
<1> QED BY <1>1, <1>3, <1>4, <1>5, <1>6 DEF ChangeOf, d, j

\* The members of a key stand in an order.
LEMMA MembersInOrder ==
  ASSUME ComparisonInv, NEW key
  PROVE  LET mine == Mine(key)
         IN  /\ IsFiniteSet(mine)
             /\ StrictOrder({p \in mine \X mine : MemberPrecedes(p[1], p[2])}, mine)
<1> DEFINE mine == Mine(key)
           R == {p \in mine \X mine : MemberPrecedes(p[1], p[2])}
<1>1. IsFiniteSet(mine)
  <2>1. mine \subseteq AllMembers  BY DEF Mine
  <2> QED BY <2>1, MembersAreFinite, FS_Subset
<1>2. \A m \in mine : /\ m.certname \in Nat /\ m.index \in Nat /\ m.key = key
                      /\ IsEdgeKind(key.kind) => m = EdgeMember(DiffOf(m.certname), m.index)
                      /\ ~IsEdgeKind(key.kind) => m = ResourceMember(DiffOf(m.certname), m.index)
  <2> TAKE m \in mine
  <2>1. m \in AllMembers /\ m.key = key  BY DEF Mine
  <2> QED BY <2>1, MembersAreRows
<1> HIDE DEF mine
<1>3. \A x, y \in mine : <<x, y>> \in R <=>
        x.certname < y.certname \/ (x.certname = y.certname /\ x.index < y.index)
  BY DEF MemberPrecedes
<1> HIDE DEF R
<1>4. \A x \in mine : <<x, x>> \notin R  BY <1>2, <1>3
<1>5. \A x, y, z \in mine : <<x, y>> \in R /\ <<y, z>> \in R => <<x, z>> \in R
  BY <1>2, <1>3
<1>6. \A x, y \in mine : x # y => <<x, y>> \in R \/ <<y, x>> \in R
  <2> TAKE x, y \in mine
  <2>1. x.certname = y.certname /\ x.index = y.index => x = y  BY <1>2
  <2> QED BY <1>2, <1>3, <2>1
<1>7. StrictOrder(R, mine)  BY <1>4, <1>5, <1>6 DEF StrictOrder
<1> QED BY <1>1, <1>7 DEF mine, R

\* A key of the aggregate has its members, one by one.
LEMMA MembersOfAnyKey ==
  ASSUME ComparisonInv, NEW key, Mine(key) # {}
  PROVE  LET ms == MembersOf(key, AllMembers)
             n == Cardinality(Mine(key))
         IN  /\ n \in Nat /\ n # 0 /\ DOMAIN ms = 1 .. n /\ Len(ms) = n /\ IsSequence(ms)
             /\ \A k \in 1 .. n : ms[k] \in Mine(key)
<1> DEFINE mine == Mine(key)
           R == {p \in mine \X mine : MemberPrecedes(p[1], p[2])}
           ms == MembersOf(key, AllMembers)
           n == Cardinality(mine)
<1>1. ms = Arranged(mine, R)  BY DEF MembersOf, Mine
<1>2. IsFiniteSet(mine) /\ StrictOrder(R, mine)  BY MembersInOrder
<1> HIDE DEF R, ms, mine
<1>3. /\ n \in Nat /\ DOMAIN ms = 1 .. n /\ IsSequence(ms)
      /\ \A k \in DOMAIN ms : ms[k] \in mine
  BY <1>1, <1>2, ArrangedIsAll
<1>4. n # 0  BY <1>2, FS_EmptySet DEF mine
<1>5. Len(ms) = n
  <2>1. Len(ms) \in Nat /\ DOMAIN ms = 1 .. Len(ms)  BY <1>3, ListsHaveLengths
  <2> QED BY <1>3, <2>1
<1> QED BY <1>3, <1>4, <1>5 DEF ms, mine

\* What the members of a group are, one by one.
AreMembers(ms, n, key) ==
  /\ n \in Nat /\ n # 0 /\ DOMAIN ms = 1 .. n /\ Len(ms) = n /\ IsSequence(ms)
  /\ \A k \in 1 .. n : ms[k] \in Mine(key)
  /\ key.fingerprint = <<>> => n = 1

\* A key has its members, and only one when its change has no fingerprint.
LEMMA MembersOfKey ==
  ASSUME ComparisonInv, NEW key, ~IsEdgeKind(key.kind), Mine(key) # {}
  PROVE  AreMembers(MembersOf(key, AllMembers), Cardinality(Mine(key)), key)
<1> DEFINE mine == Mine(key)
           ms == MembersOf(key, AllMembers)
           n == Cardinality(mine)
<1>1. /\ n \in Nat /\ n # 0 /\ DOMAIN ms = 1 .. n /\ Len(ms) = n /\ IsSequence(ms)
      /\ \A k \in 1 .. n : ms[k] \in mine
  BY MembersOfAnyKey
<1> HIDE DEF ms, mine
<1>2. ASSUME key.fingerprint = <<>>  PROVE n = 1
  <2>1. PICK m : m \in mine  BY DEF mine
  <2>2. ASSUME NEW x \in mine, NEW y \in mine  PROVE x = y
    <3>1. /\ key.alone = <<x.certname, x.index>> /\ key.alone = <<y.certname, y.index>>
          /\ IsMember(x) /\ IsMember(y)
      BY <1>2, MembersAreChanges DEF mine
    <3>2. x.certname = y.certname /\ x.index = y.index  BY <3>1
    <3> QED BY <3>1, <3>2 DEF IsMember
  <2>3. mine = {m}  BY <2>1, <2>2
  <2> QED BY <2>3, OnlyOne
<1> QED BY <1>1, <1>2 DEF AreMembers, ms, mine

\* A group shows what all of its members show.
LEMMA GroupShowsLeast ==
  ASSUME ComparisonInv, NEW key, ~IsEdgeKind(key.kind), NEW n, NEW ms, AreMembers(ms, n, key),
         NEW befores, befores = [k \in DOMAIN ms |-> ms[k].before],
         NEW afters, afters = [k \in DOMAIN ms |-> ms[k].after]
  PROVE  \A p : /\ p \in Places(Projection(befores)) <=> \A k \in 1 .. n : p \in Places(ms[k].before)
                /\ p \in Places(Projection(afters)) <=> \A k \in 1 .. n : p \in Places(ms[k].after)
<1>1. /\ n \in Nat /\ n # 0 /\ DOMAIN ms = 1 .. n
      /\ \A k \in 1 .. n : ms[k] \in Mine(key)
      /\ key.fingerprint = <<>> => n = 1
  BY DEF AreMembers
<1>2. ListOf(n, befores) /\ ListOf(n, afters)  BY <1>1 DEF ListOf
<1>3. \A k \in 1 .. n : befores[k] = ms[k].before /\ afters[k] = ms[k].after  BY <1>1
<1>4. CASE key.fingerprint = <<>>
  <2>1. n = 1 /\ 1 \in Nat /\ 1 # 0  BY <1>1, <1>4
  <2>2. ASSUME NEW values, ListOf(1, values)  PROVE Projection(values) = values[1]
    <3>1. \A i \in 1 .. 1 : values[i] \in {values[1]}  OBVIOUS
    <3> QED BY <2>1, <2>2, <3>1, ProjectedWithin
  <2>3. Projection(befores) = ms[1].before /\ Projection(afters) = ms[1].after
    BY <1>2, <1>3, <2>1, <2>2
  <2>4. \A k : k \in 1 .. n <=> k = 1  BY <2>1
  <2> QED BY <2>3, <2>4
<1>5. CASE key.fingerprint # <<>>
  <2>1. \A k \in 1 .. n : /\ ms[k].before = ChangeOf(ms[k]).before
                          /\ ms[k].after = ChangeOf(ms[k]).after
                          /\ key.fingerprint = ChangeOf(ms[k]).fingerprint
                          /\ ChangeIsOf(ChangeOf(ms[k]))
    BY <1>1, MembersAreChanges
  <2>2. PICK p : key.fingerprint = <<p>>  BY <1>1, <1>5, <2>1 DEF ChangeIsOf
  <2>3. \A q : <<q>> = <<p>> => q = p  OBVIOUS
  <2>4. \A k \in 1 .. n : IsProjectionOf(ChangeOf(ms[k]), p)
    BY <1>5, <2>1, <2>2, <2>3 DEF ChangeIsOf
  <2>5. /\ BaseOf(p)[1] \in CatalogValues /\ BaseOf(p)[2] \in CatalogValues
        /\ \A k \in 1 .. n : befores[k] \in Maskings(BaseOf(p)[1]) /\ afters[k] \in Maskings(BaseOf(p)[2])
    BY <1>1, <1>3, <2>1, <2>4 DEF IsProjectionOf
  <2>6. \A x : x \in Places(Projection(befores)) <=> \A k \in 1 .. n : x \in Places(befores[k])
    BY <1>1, <1>2, <2>5, ProjectionShowsLeast
  <2>7. \A x : x \in Places(Projection(afters)) <=> \A k \in 1 .. n : x \in Places(afters[k])
    BY <1>1, <1>2, <2>5, ProjectionShowsLeast
  <2> QED BY <1>3, <2>6, <2>7
<1> QED BY <1>4, <1>5

\* A group says that digests are masked when those of some member are.
LEMMA GroupSaysRedacted ==
  ASSUME NEW n \in Nat, NEW ms, IsSequence(ms), DOMAIN ms = 1 .. n,
         \A k \in 1 .. n : ms[k].content = <<>> \/ \E e : ms[k].content = <<e>>
  PROVE  \A k \in DOMAIN CombinedContent(ms) :
           CombinedContent(ms)[k].redacted <=>
             \E j \in 1 .. n : \E c \in ToSet(ms[j].content) : c.redacted
<1> DEFINE keep == {i \in DOMAIN ms : ms[i].content # <<>>}
           with == Kept(ms, keep)
           all == {with[i].content[1] : i \in DOMAIN with}
           rest == [state |-> with[1].content[1].state,
                    source |-> CombinedSource({e.source : e \in all}),
                    redacted |-> \E e \in all : e.redacted,
                    referenceChanged |-> \E e \in all : e.referenceChanged,
                    before |-> CombinedSide({e.before : e \in all}),
                    after |-> CombinedSide({e.after : e \in all})]
<1>1. CombinedContent(ms) = IF with = <<>> THEN <<>> ELSE <<rest>>
  BY DEF CombinedContent
<1>2. rest.redacted <=> \E e \in all : e.redacted  OBVIOUS
<1> HIDE DEF rest
<1>3. \A k \in DOMAIN CombinedContent(ms) : CombinedContent(ms)[k] = rest
  <2>1. DOMAIN <<>> = {} /\ DOMAIN <<rest>> = {1} /\ <<rest>>[1] = rest  OBVIOUS
  <2> HIDE DEF with
  <2> QED BY <1>1, <2>1
<1>4. ToSet(with) = {ms[j] : j \in keep}
  <2>1. keep \subseteq DOMAIN ms  OBVIOUS
  <2> HIDE DEF keep
  <2> QED BY <2>1, KeptOfList
<1> HIDE DEF with
<1>5. all = {ms[j].content[1] : j \in keep}
  <2>1. \A e : e \in all <=> \E m \in ToSet(with) : e = m.content[1]  BY DEF ToSet
  <2> HIDE DEF all
  <2>2. \A e : e \in all <=> \E j \in keep : e = ms[j].content[1]  BY <1>4, <2>1
  <2> QED BY <2>2
<1>6. \A j \in 1 .. n : /\ j \in keep => ToSet(ms[j].content) = {ms[j].content[1]}
                        /\ j \notin keep => ToSet(ms[j].content) = {}
  <2> TAKE j \in 1 .. n
  <2>1. \A e : <<e>>[1] = e  OBVIOUS
  <2>2. CASE j \in keep
    <3>1. PICK e : ms[j].content = <<e>>  BY <2>2
    <3> QED BY <2>1, <2>2, <3>1, OneInList
  <2>3. CASE j \notin keep  BY <2>3, NoneInList
  <2> QED BY <2>2, <2>3
<1>7. keep \subseteq 1 .. n  OBVIOUS
<1> HIDE DEF all, keep
<1>8. (\E e \in all : e.redacted)
        <=> \E j \in 1 .. n : \E c \in ToSet(ms[j].content) : c.redacted
  BY <1>5, <1>6, <1>7
<1> QED BY <1>2, <1>3, <1>8

\* A group shows exactly what every one of its members shows.
THEOREM GroupsDiscloseLeastHolds == ComparisonSpec => []GroupsDiscloseLeast
<1>1. ComparisonInv => GroupsDiscloseLeast
  <2> SUFFICES ASSUME ComparisonInv, groups # <<>>, NEW g \in groups[1], ~IsEdgeKind(g.key.kind)
               PROVE  LET member(k) == DiffOf(g.refs[k].certname).resourceChanges[g.refs[k].index]
                          inAll(shown) == {p \in shown[1] : \A k \in DOMAIN shown : p \in shown[k]}
                      IN  /\ Places(g.before) = inAll([k \in DOMAIN g.refs |-> Places(member(k).before)])
                          /\ Places(g.after) = inAll([k \in DOMAIN g.refs |-> Places(member(k).after)])
                          /\ \A k \in DOMAIN g.content : g.content[k].redacted <=>
                               \E j \in DOMAIN g.refs : \E c \in ToSet(member(j).content) : c.redacted
    BY DEF GroupsDiscloseLeast
  <2> DEFINE member(k) == DiffOf(g.refs[k].certname).resourceChanges[g.refs[k].index]
  <2>1. groups = <<Build(Diffs)>>  BY DEF ComparisonInv, ThenAggregated
  <2>2. g \in Build(Diffs)  BY <2>1
  <2>3. PICK x \in AllMembers : g = Group(x.key, MembersOf(x.key, AllMembers))
    BY <2>2 DEF Build, AllMembers
  <2> DEFINE key == x.key
             ms == MembersOf(key, AllMembers)
             n == Cardinality(Mine(key))
             befores == [k \in DOMAIN ms |-> ms[k].before]
             afters == [k \in DOMAIN ms |-> ms[k].after]
  <2>4. /\ g.key = PublicKey(key)
        /\ g.refs = [k \in DOMAIN ms |-> [certname |-> ms[k].certname, index |-> ms[k].index]]
        /\ g.before = Projection(befores) /\ g.after = Projection(afters)
        /\ g.content = CombinedContent(ms)
    BY <2>3 DEF Group
  <2>5. ~IsEdgeKind(key.kind)  BY <2>4 DEF PublicKey
  <2>6. Mine(key) # {}  BY DEF Mine
  <2>7. AreMembers(ms, n, key)  BY <2>5, <2>6, MembersOfKey
  <2> HIDE DEF key, ms, n
  <2>8. /\ n \in Nat /\ DOMAIN ms = 1 .. n /\ IsSequence(ms)
        /\ \A k \in 1 .. n : ms[k] \in Mine(key)
    BY <2>7 DEF AreMembers
  <2>9. /\ DOMAIN g.refs = 1 .. n
        /\ \A k \in 1 .. n : member(k) = ChangeOf(ms[k])
    BY <2>4, <2>8 DEF ChangeOf
  <2>10. \A k \in 1 .. n : /\ ms[k].before = member(k).before /\ ms[k].after = member(k).after
                           /\ ms[k].content = member(k).content
                           /\ ms[k].content = <<>> \/ \E e : ms[k].content = <<e>>
    BY <2>5, <2>8, <2>9, MembersAreChanges DEF ChangeIsOf
  <2> HIDE DEF member, befores, afters
  <2>11. \A p : /\ p \in Places(g.before) <=> \A k \in 1 .. n : p \in Places(ms[k].before)
                /\ p \in Places(g.after) <=> \A k \in 1 .. n : p \in Places(ms[k].after)
    <3>1. /\ befores = [k \in DOMAIN ms |-> ms[k].before]
          /\ afters = [k \in DOMAIN ms |-> ms[k].after]
      BY DEF befores, afters
    <3>2. \A p : /\ p \in Places(Projection(befores)) <=> \A k \in 1 .. n : p \in Places(ms[k].before)
                 /\ p \in Places(Projection(afters)) <=> \A k \in 1 .. n : p \in Places(ms[k].after)
      BY <2>5, <2>7, <3>1, GroupShowsLeast
    <3> QED BY <2>4, <3>2
  <2>12. \A k \in DOMAIN g.content : g.content[k].redacted <=>
           \E j \in 1 .. n : \E c \in ToSet(ms[j].content) : c.redacted
    BY <2>4, <2>8, <2>10, GroupSaysRedacted
  <2> DEFINE inAll(shown) == {p \in shown[1] : \A k \in DOMAIN shown : p \in shown[k]}
             befored == [k \in DOMAIN g.refs |-> Places(member(k).before)]
             aftered == [k \in DOMAIN g.refs |-> Places(member(k).after)]
  <2>13. Places(g.before) = inAll(befored) /\ Places(g.after) = inAll(aftered)
    <3>1. 1 \in 1 .. n  BY <2>7 DEF AreMembers
    <3>2. /\ DOMAIN befored = 1 .. n /\ \A k \in 1 .. n : befored[k] = Places(ms[k].before)
          /\ DOMAIN aftered = 1 .. n /\ \A k \in 1 .. n : aftered[k] = Places(ms[k].after)
      BY <2>9, <2>10
    <3> HIDE DEF befored, aftered
    <3>3. \A p : p \in Places(g.before) <=> p \in inAll(befored)  BY <2>11, <3>1, <3>2
    <3>4. \A p : p \in Places(g.after) <=> p \in inAll(aftered)  BY <2>11, <3>1, <3>2
    <3> HIDE DEF inAll
    <3> QED BY <3>3, <3>4
  <2>14. \A k \in DOMAIN g.content : g.content[k].redacted <=>
           \E j \in DOMAIN g.refs : \E c \in ToSet(member(j).content) : c.redacted
    BY <2>9, <2>10, <2>12
  <2> QED BY <2>13, <2>14 DEF member, befored, aftered, inAll
<1> QED BY <1>1, ComparisonInvariant, PTL

----------------------------------------------------------------------------
(* What evidence of content a document may carry.                          *)

\* What a side resolves to is known, whoever is asked.
LEMMA ResolvedIsKnown ==
  ASSUME NEW given, WellFormed(given.file), NEW retrieved, IsAnswer(retrieved)
  PROVE  IsKnown(ResolvedSide(given, retrieved))
<1> DEFINE local == LocalEvidence(given, TRUE)
<1>1. IsKnown(local.evidence)  BY LocalAnswers
<1>2. IsKnown(retrieved)
  <2>1. CASE retrieved.ok  BY <2>1 DEF IsAnswer, IsKnown, KnownEvidenceSources
  <2>2. CASE ~retrieved.ok
    <3>1. retrieved = Unverified("", retrieved.reason)  BY <2>2 DEF IsAnswer
    <3> DEFINE e == Unverified("", retrieved.reason)
    <3>2. e.source = "" /\ ~e.ok /\ e.digest = <<>> /\ e.algorithm = ""  BY DEF Unverified
    <3>3. IsKnown(e)  BY <3>2 DEF IsKnown, KnownEvidenceSources
    <3> QED BY <3>1, <3>3
  <2> QED BY <2>1, <2>2
<1>3. ResolvedSide(given, retrieved) \in {local.evidence, retrieved}  BY DEF ResolvedSide
<1> HIDE DEF local
<1> QED BY <1>1, <1>2, <1>3

Marker == RedactedValue.text

\* No digest is the marker, and none has no algorithm.
LEMMA KnownDigests ==
  ASSUME NEW r, IsKnown(r)
  PROVE  /\ r.digest # Marker
         /\ r.digest # <<>> => r.algorithm # ""
<1>1. Marker # <<>> /\ Marker[1] = "<redacted>"  BY DEF Marker, RedactedValue, Text
<1>2. CASE r.ok
  <2>1. IsDigest(r)  BY <1>2 DEF IsKnown
  <2>2. r.algorithm \in DOMAIN HexLength /\ r.digest[1] = HexLength[r.algorithm]
    BY <2>1 DEF IsDigest
  <2>3. \A a \in DOMAIN HexLength : a # "" /\ HexLength[a] # "<redacted>"
    <3>1. DOMAIN HexLength = {"md5", "sha224", "sha256", "sha384", "sha512"}  BY DEF HexLength
    <3>2. /\ HexLength["md5"] = "hex32" /\ HexLength["sha224"] = "hex56"
          /\ HexLength["sha256"] = "hex64" /\ HexLength["sha384"] = "hex96"
          /\ HexLength["sha512"] = "hex128"
      BY DEF HexLength
    <3> QED BY <3>1, <3>2
  <2> QED BY <1>1, <2>2, <2>3
<1>3. CASE ~r.ok  BY <1>1, <1>3 DEF IsKnown
<1> QED BY <1>2, <1>3

EvidenceFields ==
  {"state", "source", "algorithm", "beforeDigest", "afterDigest", "redacted", "before", "after",
   "referenceChanged"}

\* Evidence as it is before anything is masked.
IsEvidence(e) ==
  /\ DOMAIN e = EvidenceFields /\ e.redacted = FALSE
  /\ e.state \in KnownFileContentStates /\ e.source \in KnownEvidenceSources
  /\ Marker \notin {e.beforeDigest, e.afterDigest}
  /\ {e.beforeDigest, e.afterDigest} # {<<>>} => e.algorithm # ""
  /\ e.before = <<>> => e.beforeDigest = <<>>
  /\ e.after = <<>> => e.afterDigest = <<>>

\* Evidence of nothing.
LEMMA NoEvidenceIsEvidence ==
  ASSUME NEW state \in KnownFileContentStates
  PROVE  IsEvidence(NoEvidence(state))
<1> DEFINE e == NoEvidence(state)
<1>1. e = [state |-> state, source |-> "", algorithm |-> "", beforeDigest |-> <<>>,
           afterDigest |-> <<>>, redacted |-> FALSE, before |-> <<>>, after |-> <<>>,
           referenceChanged |-> FALSE]
  BY DEF NoEvidence
<1> HIDE DEF e
<1>2. Marker # <<>>  BY DEF Marker, RedactedValue, Text
<1>3. IsEvidence(e)  BY <1>1, <1>2 DEF IsEvidence, EvidenceFields, KnownEvidenceSources
<1> QED BY <1>3 DEF e

\* The evidence of a resource that one catalog has is evidence.
LEMMA MembershipIsEvidence ==
  ASSUME NEW kind \in {"resource_added", "resource_removed"}, NEW given, NEW r, IsKnown(r), NEW quiet
  PROVE  IsEvidence(MembershipEvidence(kind, given, r, quiet).evidence)
<1> DEFINE e == MembershipEvidence(kind, given, r, quiet).evidence
           added == kind = "resource_added"
           known == [state |-> IF r.ok THEN kind ELSE "content_indeterminate",
                     source |-> r.source, algorithm |-> r.algorithm,
                     beforeDigest |-> IF added THEN <<>> ELSE r.digest,
                     afterDigest |-> IF added THEN r.digest ELSE <<>>,
                     redacted |-> FALSE,
                     before |-> IF added THEN <<>> ELSE <<Known(given, r)>>,
                     after |-> IF added THEN <<Known(given, r)>> ELSE <<>>,
                     referenceChanged |-> FALSE]
<1>1. e = NoEvidence("not_managed") \/ e = known
  BY DEF MembershipEvidence, Told, Untold, NoEvidence
<1>2. IsEvidence(NoEvidence("not_managed"))  BY NoEvidenceIsEvidence DEF KnownFileContentStates
<1>3. /\ r.digest # Marker /\ (r.digest # <<>> => r.algorithm # "")
      /\ r.source \in KnownEvidenceSources
  BY KnownDigests DEF IsKnown
<1>4. Marker # <<>>  BY DEF Marker, RedactedValue, Text
<1>5. IsEvidence(known)  BY <1>3, <1>4 DEF IsEvidence, EvidenceFields, KnownFileContentStates
<1> QED BY <1>1, <1>2, <1>5

\* The evidence of a resource that both have is evidence.
LEMMA ComparedIsEvidence ==
  ASSUME NEW before, NEW after, NEW b, IsKnown(b), NEW a, IsKnown(a), NEW quiet
  PROVE  IsEvidence(ComparedEvidence(before, after, b, a, quiet).evidence)
<1> DEFINE t == ComparedEvidence(before, after, b, a, quiet)
           sides == {before, after}
           reason == ReportedFailure(b, a)
           changed == Under(before.file.p, "source") # Under(after.file.p, "source")
           unresolved == IF changed THEN "reference_changed" ELSE "content_indeterminate"
           state == StateFromDigests(b.digest, a.digest)
           from_ == IF b.source = a.source THEN b.source ELSE "mixed"
           known == [NoEvidence(unresolved) EXCEPT
                       !.before = <<Known(before, b)>>, !.after = <<Known(after, a)>>,
                       !.referenceChanged = changed]
           unknown == [known EXCEPT !.before = <<Unknown(before)>>, !.after = <<Unknown(after)>>]
           compared == [known EXCEPT !.state = state, !.source = from_,
                                     !.algorithm = b.algorithm,
                                     !.beforeDigest = b.digest, !.afterDigest = a.digest]
<1>1. \/ t = Untold(NoEvidence("not_managed"))
      \/ t = Told(quiet, "warning", "non_byte_comparable", unknown, sides)
      \/ Comparable(b, a) /\ t = Untold(compared)
      \/ t = Told(quiet, "warning", "different_algorithms", known, sides)
      \/ t = Told(quiet, ClassifyEvidenceError(reason), reason, known, sides)
  BY DEF ComparedEvidence
<1>2. /\ DOMAIN known = EvidenceFields /\ known.redacted = FALSE
      /\ known.state = unresolved /\ known.source = "" /\ known.algorithm = ""
      /\ known.beforeDigest = <<>> /\ known.afterDigest = <<>>
      /\ known.before # <<>> /\ known.after # <<>>
  BY DEF NoEvidence, EvidenceFields
<1>3. unresolved \in KnownFileContentStates  BY DEF KnownFileContentStates
<1>4. Marker # <<>>  BY DEF Marker, RedactedValue, Text
<1> HIDE DEF t, known, reason, sides, unresolved
<1>5. /\ DOMAIN unknown = EvidenceFields /\ unknown.redacted = FALSE
      /\ unknown.state = unresolved /\ unknown.source = "" /\ unknown.algorithm = ""
      /\ unknown.beforeDigest = <<>> /\ unknown.afterDigest = <<>>
      /\ unknown.before # <<>> /\ unknown.after # <<>>
  BY <1>2 DEF EvidenceFields
<1>6. state \in KnownFileContentStates  BY DEF StateFromDigests, KnownFileContentStates
<1>7. from_ \in KnownEvidenceSources  BY DEF IsKnown, KnownEvidenceSources
<1> HIDE DEF state, from_
<1>8. /\ DOMAIN compared = EvidenceFields /\ compared.redacted = FALSE
      /\ compared.state = state /\ compared.source = from_ /\ compared.algorithm = b.algorithm
      /\ compared.beforeDigest = b.digest /\ compared.afterDigest = a.digest
      /\ compared.before # <<>> /\ compared.after # <<>>
  BY <1>2 DEF EvidenceFields
<1> HIDE DEF unknown, compared
<1>9. IsEvidence(known) /\ IsEvidence(unknown)
  BY <1>2, <1>3, <1>4, <1>5 DEF IsEvidence, KnownEvidenceSources
<1>10. ASSUME Comparable(b, a)  PROVE IsEvidence(compared)
  <2>1. /\ b.digest # Marker /\ (b.digest # <<>> => b.algorithm # "")
        /\ a.digest # Marker /\ (a.digest # <<>> => a.algorithm # "")
    BY KnownDigests
  <2>2. a.algorithm = b.algorithm  BY <1>10 DEF Comparable
  <2> QED BY <1>6, <1>7, <1>8, <2>1, <2>2 DEF IsEvidence
<1>11. IsEvidence(NoEvidence("not_managed"))  BY NoEvidenceIsEvidence DEF KnownFileContentStates
<1>12. \A x : Untold(x).evidence = x  BY DEF Untold
<1>13. \A severity, why, x : Told(quiet, severity, why, x, sides).evidence = x  BY DEF Told
<1>14. IsEvidence(t.evidence)  BY <1>1, <1>9, <1>10, <1>11, <1>12, <1>13
<1> QED BY <1>14 DEF t

\* Evidence is valid as it is published, masked or not, and as a part of a group.
LEMMA PublishedEvidenceIsValid ==
  ASSUME NEW e, IsEvidence(e), NEW selected
  PROVE  LET p == PublishEvidence(selected, e)
         IN  ValidContent(p) /\ p.state = e.state /\ p.source = e.source
<1> DEFINE p == PublishEvidence(selected, e)
<1>1. CASE ~selected
  <2>1. p = e  BY <1>1 DEF PublishEvidence
  <2>2. ValidContent(e)  BY DEF IsEvidence, ValidContent, Marker
  <2> QED BY <2>1, <2>2
<1>2. CASE selected
  <2>1. /\ p.state = e.state /\ p.source = e.source /\ p.algorithm = "" /\ p.redacted = TRUE
        /\ p.beforeDigest = IF e.before = <<>> THEN e.beforeDigest ELSE Marker
        /\ p.afterDigest = IF e.after = <<>> THEN e.afterDigest ELSE Marker
    BY <1>2 DEF PublishEvidence, IsEvidence, EvidenceFields, Marker
  <2>2. {p.beforeDigest, p.afterDigest} \subseteq {<<>>, Marker}  BY <2>1 DEF IsEvidence
  <2> HIDE DEF p
  <2>3. ValidContent(p)  BY <2>1, <2>2 DEF IsEvidence, ValidContent, Marker
  <2> QED BY <2>1, <2>3 DEF p
<1> QED BY <1>1, <1>2
----------------------------------------------------------------------------
(* What a row of a full difference says.                                   *)

\* A row is of a resource; it has a parameter when it is of one, and what
\* evidence it has is evidence.  Of a File's content-bearing parameters there
\* are no rows but the one with evidence.
RowSays(row) ==
  /\ IsIdentity(row.id) /\ row.kind \in ResourceKinds
  /\ row.parameter # "" <=> row.kind = "parameter_changed"
  /\ row.content = <<>> \/ \E e : row.content = <<e>> /\ IsEvidence(e)
  /\ row.kind = "parameter_changed" /\ row.content = <<>> /\ row.id.type = FileResourceType =>
       row.parameter \notin FileContentBearingParameters

\* What a normalized catalog's side resolves to is known.
LEMMA SideIsKnown ==
  ASSUME NEW catalog, IsNormalized(catalog), NEW id \in DOMAIN catalog.resources,
         NEW retrieved, IsAnswer(retrieved)
  PROVE  IsKnown(ResolvedSide(SideOf(catalog, id), retrieved))
<1> DEFINE given == SideOf(catalog, id)
<1>1. given.file = FileOf(catalog.resources[id])  BY DEF SideOf
<1>2. WellFormed(FileOf(catalog.resources[id]))  BY DEF IsNormalized
<1> HIDE DEF given
<1>3. IsKnown(ResolvedSide(given, retrieved))  BY <1>1, <1>2, ResolvedIsKnown
<1> QED BY <1>3 DEF given

\* The row of a resource that one catalog has.
LEMMA MemberRowSays ==
  ASSUME NEW catalog, IsNormalized(catalog), NEW id \in DOMAIN catalog.resources,
         NEW retrieved, IsAnswer(retrieved), NEW quiet,
         NEW kind \in {"resource_added", "resource_removed"}
  PROVE  RowSays(MemberRow(kind, id, catalog, retrieved, quiet))
<1> DEFINE row == MemberRow(kind, id, catalog, retrieved, quiet)
           given == SideOf(catalog, id)
           e == MembershipEvidence(kind, given, ResolvedSide(given, retrieved), quiet).evidence
<1>1. IsKnown(ResolvedSide(given, retrieved))  BY SideIsKnown
<1>2. row.kind = kind /\ row.id = id /\ row.parameter = "" /\ (row.content = <<>> \/ row.content = <<e>>)
  BY DEF MemberRow, Row
<1> HIDE DEF row, given
<1>3. IsEvidence(e)  BY <1>1, MembershipIsEvidence
<1> HIDE DEF e
<1>4. IsIdentity(id)  BY NormalizedHas
<1>5. RowSays(row)  BY <1>2, <1>3, <1>4 DEF RowSays, ResourceKinds
<1> QED BY <1>5 DEF row

\* Every row of one resource.
LEMMA RowsSay ==
  ASSUME NEW before, IsNormalized(before), NEW after, IsNormalized(after),
         NEW id \in Identities(before, after), NEW retrieved, IsAnswer(retrieved), NEW quiet,
         NEW row \in ToSet(ResourceDiff(id, before, after, retrieved, quiet).rows)
  PROVE  RowSays(row)
<1> DEFINE rows == ResourceDiff(id, before, after, retrieved, quiet).rows
<1>1. /\ id \notin DOMAIN after.resources =>
           /\ id \in DOMAIN before.resources
           /\ ToSet(rows) = {MemberRow("resource_removed", id, before, retrieved, quiet)}
      /\ id \notin DOMAIN before.resources =>
           /\ id \in DOMAIN after.resources
           /\ ToSet(rows) = {MemberRow("resource_added", id, after, retrieved, quiet)}
      /\ id \in DOMAIN before.resources \cap DOMAIN after.resources =>
           \/ \E name \in ComparedNames(before, after, id) :
                row \in ToSet(RowsOfName(id, name, before, after))
           \/ row \in ToSet(ContentChange(id, before, after, retrieved, quiet).rows)
  BY ResourceRows
<1> HIDE DEF rows
<1>2. CASE id \notin DOMAIN after.resources
  <2>1. row = MemberRow("resource_removed", id, before, retrieved, quiet) /\ id \in DOMAIN before.resources
    BY <1>1, <1>2 DEF rows
  <2> QED BY <2>1, MemberRowSays
<1>3. CASE id \notin DOMAIN before.resources
  <2>1. row = MemberRow("resource_added", id, after, retrieved, quiet) /\ id \in DOMAIN after.resources
    BY <1>1, <1>3 DEF rows
  <2> QED BY <2>1, MemberRowSays
<1>4. ASSUME id \in DOMAIN before.resources, id \in DOMAIN after.resources,
             NEW name \in ComparedNames(before, after, id),
             row \in ToSet(RowsOfName(id, name, before, after))
      PROVE  RowSays(row)
  <2> DEFINE b == ParameterOf(before.resources[id], name)
             a == ParameterOf(after.resources[id], name)
  <2>1. row = Row("parameter_changed", id, name, b, a, <<>>)
    BY <1>4, ParameterRow DEF RowsOfName
  <2> HIDE DEF b, a
  <2>2. row.kind = "parameter_changed" /\ row.id = id /\ row.parameter = name /\ row.content = <<>>
    BY <2>1, RowFields
  <2>3. IsIdentity(id)  BY <1>4, NormalizedHas
  <2>4. name \in ToSet(NameOrder)
    BY <1>4, NormalizedHas DEF ComparedNames, NamesOf
  <2>5. name # ""  BY <2>4, NamesAreOrdered
  <2>6. id.type = FileResourceType => name \notin FileContentBearingParameters
    BY <1>4 DEF ComparedNames
  <2> QED BY <2>2, <2>3, <2>5, <2>6 DEF RowSays, ResourceKinds
<1>5. ASSUME id \in DOMAIN before.resources, id \in DOMAIN after.resources,
             row \in ToSet(ContentChange(id, before, after, retrieved, quiet).rows)
      PROVE  RowSays(row)
  <2> DEFINE b == ContentParameters(before.resources[id])
             a == ContentParameters(after.resources[id])
             e == ToldOf(id, before, after, retrieved, quiet).evidence
             these == ContentChange(id, before, after, retrieved, quiet).rows
  <2>1. ToSet(these) \subseteq {Row("parameter_changed", id, "content", b, a, <<e>>)}
    BY ContentRow
  <2>2. row \in ToSet(these)  BY <1>5
  <2>3. IsEvidence(e)
    <3> DEFINE bs == SideOf(before, id)
               as == SideOf(after, id)
               br == ResolvedSide(bs, retrieved)
               ar == ResolvedSide(as, retrieved)
    <3>1. IsKnown(br) /\ IsKnown(ar)  BY <1>5, SideIsKnown
    <3>2. e = ComparedEvidence(bs, as, br, ar, quiet).evidence  BY DEF ToldOf
    <3> HIDE DEF e, bs, as, br, ar
    <3> QED BY <3>1, <3>2, ComparedIsEvidence
  <2> HIDE DEF b, a, e, these
  <2>4. /\ row.kind = "parameter_changed" /\ row.id = id /\ row.parameter = "content"
        /\ row.content = <<e>>
    BY <2>1, <2>2, RowFields
  <2>5. IsIdentity(id)  BY <1>5, NormalizedHas
  <2>6. <<e>> # <<>>  BY OneInList
  <2> QED BY <2>3, <2>4, <2>5, <2>6 DEF RowSays, ResourceKinds
<1> QED BY <1>1, <1>2, <1>3, <1>4, <1>5
----------------------------------------------------------------------------
(* What is published holds nothing that is wrapped as sensitive.           *)

IsClean(x) == ~ContainsSensitive(x)
IsWrapperName(x) == IsText(x) /\ Len(x.text) = 1 /\ x.text[1] = SensitiveWrapperType

\* The mask is a text, and no wrapper's name.
LEMMA MaskIsText ==
  /\ IsText(RedactedValue) /\ ~IsHash(RedactedValue) /\ ~IsList(RedactedValue)
  /\ ~IsWrapperName(RedactedValue) /\ RedactedValue # Undef
  /\ ~IsHash(Undef) /\ ~IsList(Undef) /\ ~IsText(Undef)
BY DEF RedactedValue, Text, IsText, IsHash, IsList, IsWrapperName, SensitiveWrapperType, Undef

\* A wrapper is a hash with a wrapper's name.
LEMMA WrapperHas ==
  ASSUME NEW x
  PROVE  IsSensitiveWrapper(x)
           <=> IsHash(x) /\ "__ptype" \in DOMAIN x.at /\ IsWrapperName(x.at["__ptype"])
<1>1. ~IsText(Undef)  BY MaskIsText
<1>2. SensitiveWrapperType # ""  BY DEF SensitiveWrapperType
<1> QED BY <1>1, <1>2 DEF IsSensitiveWrapper, RichTypeName, Under, IsWrapperName

\* What is clean, of what a reader may be shown.
LEMMA CleanAt ==
  ASSUME NEW x \in ShownValues
  PROVE  IsClean(x) <=> ~IsSensitiveWrapper(x) /\ \A c \in Children(x) : IsClean(c)
<1>1. ContainsSensitive(x) <=> IsSensitiveWrapper(x) \/ \E c \in Children(x) : ContainsSensitive(c)
  BY TreesAreRecursive DEF SensitiveAt
<1> QED BY <1>1 DEF IsClean

\* The mask and what is not there are clean.
LEMMA MaskIsClean == IsClean(RedactedValue) /\ IsClean(Undef)
<1>1. Undef \in CatalogValues  BY ValuesAreTrees
<1>2. RedactedValue \in Maskings(Undef) /\ Undef \in Maskings(Undef)
  BY <1>1, MaskingsOf, ItselfIsMasking
<1>3. RedactedValue \in ShownValues /\ Undef \in ShownValues  BY <1>1, <1>2, MaskingsAreShown
<1>4. /\ ~IsSensitiveWrapper(RedactedValue) /\ ~IsSensitiveWrapper(Undef)
  BY MaskIsText, WrapperHas
<1>5. Children(RedactedValue) = {} /\ Children(Undef) = {}  BY MaskIsText DEF Children
<1> QED BY <1>3, <1>4, <1>5, CleanAt

\* A masked form that is a text and no mask is the value itself.
LEMMA TextIsItself ==
  ASSUME NEW v \in CatalogValues, NEW x \in Maskings(v), IsText(x), x # RedactedValue
  PROVE  x = v /\ Maskings(v) = {RedactedValue, v}
<1>1. ~IsHash(x) /\ ~IsList(x)  BY DEF IsText, IsHash, IsList
<1>2. ~IsHash(v) /\ ~IsList(v)  BY <1>1, MaskingsOf
<1>3. Maskings(v) = {RedactedValue, v}  BY <1>2, MaskingsOf
<1> QED BY <1>3

\* A masked form that is a wrapper is one of a wrapper.
LEMMA WrapperStays ==
  ASSUME NEW v \in CatalogValues, NEW x \in Maskings(v), IsSensitiveWrapper(x)
  PROVE  IsSensitiveWrapper(v)
<1>1. IsHash(x) /\ "__ptype" \in DOMAIN x.at /\ IsWrapperName(x.at["__ptype"])  BY WrapperHas
<1>2. x # RedactedValue /\ ~IsList(x)  BY <1>1, MaskIsText DEF IsHash, IsList
<1>3. CASE IsHash(v)
  <2>1. "__ptype" \in DOMAIN v.at /\ x.at["__ptype"] \in Maskings(v.at["__ptype"])
    BY <1>1, <1>2, <1>3, MaskingsOf
  <2>2. v.at["__ptype"] \in CatalogValues  BY <1>3, <2>1, ShapeOfValue
  <2>3. x.at["__ptype"] # RedactedValue /\ IsText(x.at["__ptype"])
    BY <1>1, MaskIsText DEF IsWrapperName
  <2>4. x.at["__ptype"] = v.at["__ptype"]  BY <2>1, <2>2, <2>3, TextIsItself
  <2> QED BY <1>1, <1>3, <2>1, <2>4, WrapperHas
<1>4. CASE ~IsHash(v)
  <2>1. ~IsList(v)  BY <1>2, MaskingsOf
  <2>2. x = v  BY <1>2, <1>4, <2>1, MaskingsOf
  <2> QED BY <2>2
<1> QED BY <1>3, <1>4

\* A masked hash or list is clean when its parts are and it is no wrapper.
LEMMA CleanWhenPartsAre ==
  ASSUME NEW x \in ShownValues, ~IsSensitiveWrapper(x)
  PROVE  /\ IsHash(x) /\ (\A k \in DOMAIN x.at : IsClean(x.at[k])) => IsClean(x)
         /\ IsList(x) /\ (\A k \in DOMAIN x.items : IsClean(x.items[k])) => IsClean(x)
         /\ ~IsHash(x) /\ ~IsList(x) => IsClean(x)
<1>1. ~(IsHash(x) /\ IsList(x))  BY DEF IsHash, IsList
<1>2. IsHash(x) => Children(x) = {x.at[k] : k \in DOMAIN x.at}  BY <1>1 DEF Children
<1>3. IsList(x) => Children(x) = {x.items[k] : k \in DOMAIN x.items}  BY <1>1 DEF Children
<1>4. ~IsHash(x) /\ ~IsList(x) => Children(x) = {}  BY DEF Children
<1> QED BY <1>2, <1>3, <1>4, CleanAt

\* The parts of what is clean are.
LEMMA PartsOfClean ==
  ASSUME NEW x \in ShownValues, IsClean(x)
  PROVE  /\ ~IsSensitiveWrapper(x)
         /\ IsHash(x) => \A k \in DOMAIN x.at : IsClean(x.at[k])
         /\ IsList(x) => \A k \in DOMAIN x.items : IsClean(x.items[k])
<1>1. ~(IsHash(x) /\ IsList(x))  BY DEF IsHash, IsList
<1>2. IsHash(x) => Children(x) = {x.at[k] : k \in DOMAIN x.at}  BY <1>1 DEF Children
<1>3. IsList(x) => Children(x) = {x.items[k] : k \in DOMAIN x.items}  BY <1>1 DEF Children
<1> QED BY <1>2, <1>3, CleanAt

AreClean(before, after) ==
  /\ IsClean(RedactSensitivePair(before, after)[1])
  /\ IsClean(RedactSensitivePair(before, after)[2])

\* A redaction leaves nothing sensitive on either side.
LEMMA RedactedIsClean ==
  ASSUME NEW b \in CatalogValues, NEW a \in CatalogValues
  PROVE  AreClean(b, a)
<1> DEFINE B == {w \in CatalogValues : \E u \in CatalogValues : ~AreClean(w, u)}
<1> SUFFICES ASSUME B # {}  PROVE FALSE
  OBVIOUS
<1>1. PICK w \in B : Children(w) \cap B = {} /\ Children(w) \subseteq CatalogValues
  <2>1. B \subseteq CatalogValues  OBVIOUS
  <2> HIDE DEF B
  <2> QED BY <2>1, Innermost
<1>2. PICK u \in CatalogValues : ~AreClean(w, u)  BY <1>1
<1>3. /\ w \in CatalogValues
      /\ \A c \in Children(w) : \A d \in CatalogValues : AreClean(c, d)
  BY <1>1
<1> HIDE DEF B
<1>0. LET r == RedactSensitivePair(w, u)
          at(k) == RedactSensitivePair(w.at[k], u.at[k])
          item(k) == RedactSensitivePair(w.items[k], u.items[k])
      IN  \/ r[1] = RedactedValue /\ r[2] = RedactedValue
          \/ r[1] = w /\ r[2] = u /\ ~ContainsSensitive(w) /\ ~ContainsSensitive(u)
          \/ /\ ~IsSensitiveWrapper(w) /\ ~IsSensitiveWrapper(u)
             /\ IsHash(w) /\ IsHash(u) /\ DOMAIN w.at = DOMAIN u.at
             /\ r[1] = Hash([k \in DOMAIN w.at |-> at(k)[1]])
             /\ r[2] = Hash([k \in DOMAIN u.at |-> at(k)[2]])
          \/ /\ ~IsSensitiveWrapper(w) /\ ~IsSensitiveWrapper(u)
             /\ IsList(w) /\ IsList(u) /\ DOMAIN w.items = DOMAIN u.items
             /\ r[1] = List([k \in DOMAIN w.items |-> item(k)[1]])
             /\ r[2] = List([k \in DOMAIN u.items |-> item(k)[2]])
  BY <1>3, RedactedShape
<1> DEFINE r == RedactSensitivePair(w, u)
           at(k) == RedactSensitivePair(w.at[k], u.at[k])
           item(k) == RedactSensitivePair(w.items[k], u.items[k])
<1>4. r[1] \in Maskings(w) /\ r[2] \in Maskings(u)
  BY <1>3, RedactedIsMasked DEF AreMasked
<1>5. r[1] \in ShownValues /\ r[2] \in ShownValues  BY <1>3, <1>4, MaskingsAreShown
<1>6. /\ ~IsSensitiveWrapper(w) => ~IsSensitiveWrapper(r[1])
      /\ ~IsSensitiveWrapper(u) => ~IsSensitiveWrapper(r[2])
  BY <1>3, <1>4, WrapperStays
<1>7. ASSUME ~IsSensitiveWrapper(w), ~IsSensitiveWrapper(u),
             IsHash(w), IsHash(u), DOMAIN w.at = DOMAIN u.at,
             r[1] = Hash([k \in DOMAIN w.at |-> at(k)[1]]),
             r[2] = Hash([k \in DOMAIN u.at |-> at(k)[2]])
      PROVE  FALSE
  <2>1. \A k \in DOMAIN w.at : AreClean(w.at[k], u.at[k])  BY <1>3, <1>7, ShapeOfValue
  <2>2. \A k \in DOMAIN w.at : IsClean(at(k)[1]) /\ IsClean(at(k)[2])  BY <2>1 DEF AreClean
  <2>3. /\ IsHash(r[1]) /\ DOMAIN r[1].at = DOMAIN w.at /\ \A k \in DOMAIN w.at : r[1].at[k] = at(k)[1]
        /\ IsHash(r[2]) /\ DOMAIN r[2].at = DOMAIN w.at /\ \A k \in DOMAIN w.at : r[2].at[k] = at(k)[2]
    <3> HIDE DEF at, r
    <3> QED BY <1>7 DEF Hash, IsHash
  <2> HIDE DEF at
  <2>4. IsClean(r[1]) /\ IsClean(r[2])
    <3> HIDE DEF r
    <3> QED BY <1>5, <1>6, <1>7, <2>2, <2>3, CleanWhenPartsAre
  <2> QED BY <1>2, <2>4 DEF AreClean
<1>8. ASSUME ~IsSensitiveWrapper(w), ~IsSensitiveWrapper(u),
             IsList(w), IsList(u), DOMAIN w.items = DOMAIN u.items,
             r[1] = List([k \in DOMAIN w.items |-> item(k)[1]]),
             r[2] = List([k \in DOMAIN u.items |-> item(k)[2]])
      PROVE  FALSE
  <2>1. \A k \in DOMAIN w.items : AreClean(w.items[k], u.items[k])  BY <1>3, <1>8, ShapeOfValue
  <2>2. \A k \in DOMAIN w.items : IsClean(item(k)[1]) /\ IsClean(item(k)[2])  BY <2>1 DEF AreClean
  <2>3. /\ IsList(r[1]) /\ DOMAIN r[1].items = DOMAIN w.items
        /\ \A k \in DOMAIN w.items : r[1].items[k] = item(k)[1]
        /\ IsList(r[2]) /\ DOMAIN r[2].items = DOMAIN w.items
        /\ \A k \in DOMAIN w.items : r[2].items[k] = item(k)[2]
    <3> HIDE DEF item, r
    <3> QED BY <1>8 DEF List, IsList
  <2> HIDE DEF item
  <2>4. IsClean(r[1]) /\ IsClean(r[2])
    <3> HIDE DEF r
    <3> QED BY <1>5, <1>6, <1>8, <2>2, <2>3, CleanWhenPartsAre
  <2> QED BY <1>2, <2>4 DEF AreClean
<1>9. CASE r[1] = RedactedValue /\ r[2] = RedactedValue  BY <1>2, <1>9, MaskIsClean DEF AreClean
<1>10. CASE r[1] = w /\ r[2] = u /\ ~ContainsSensitive(w) /\ ~ContainsSensitive(u)
  BY <1>2, <1>10 DEF AreClean, IsClean
<1> QED BY <1>0, <1>7, <1>8, <1>9, <1>10
----------------------------------------------------------------------------
(* What is published of a row is what a reader accepts.                    *)

\* The parameters of a resource are published without what is sensitive, and a
\* File's without what bears content.
LEMMA PublishedParametersAreClean ==
  ASSUME NEW selectors, NEW id, NEW resource, Hash(resource.params) \in CatalogValues,
         DOMAIN resource.params \subseteq ToSet(NameOrder)
  PROVE  Publishable(id.type, "", PublishParameters(selectors, id, resource))
<1> DEFINE v == Hash(resource.params)
           hidden == Undisclosed(selectors, id, resource)
           f == [n \in DOMAIN resource.params |->
                   IF n \in hidden THEN RedactedValue
                   ELSE RedactSensitivePair(resource.params[n], resource.params[n])[1]]
           x == PublishParameters(selectors, id, resource)
<1>1. IsHash(v) /\ v.at = resource.params  BY DEF Hash, IsHash
<1>2. x \in Maskings(v)  BY PublishedParametersAreMasked
<1>3. x \in ShownValues  BY <1>2, MaskingsAreShown
<1>4. x = Hash(f)  BY DEF PublishParameters
<1>5. IsHash(x) /\ x.at = f /\ DOMAIN x.at = DOMAIN resource.params  BY <1>4 DEF Hash, IsHash
<1>6. \A n \in DOMAIN resource.params : IsClean(f[n])
  <2> TAKE n \in DOMAIN resource.params
  <2>1. resource.params[n] \in CatalogValues  BY <1>1, ShapeOfValue
  <2>2. IsClean(RedactSensitivePair(resource.params[n], resource.params[n])[1])
    BY <2>1, RedactedIsClean DEF AreClean
  <2> QED BY <2>2, MaskIsClean
<1>7. id.type = FileResourceType =>
        \A n \in FileContentBearingParameters \cap DOMAIN resource.params : f[n] = RedactedValue
  BY DEF Undisclosed
<1> HIDE DEF f, v, x, hidden
<1>8. "__ptype" \notin DOMAIN x.at  BY <1>5, NamesAreOrdered
<1>9. ~IsSensitiveWrapper(x)  BY <1>8, WrapperHas
<1>10. IsClean(x)  BY <1>3, <1>5, <1>6, <1>9, CleanWhenPartsAre
<1>11. "" \notin FileContentBearingParameters  BY DEF FileContentBearingParameters
<1>12. Publishable(id.type, "", x)  BY <1>5, <1>7, <1>10, <1>11 DEF Publishable, IsClean
<1> QED BY <1>12 DEF x

\* What is published of a row has the form, the evidence and the values that a
\* reader accepts.
Acceptable(change) ==
  /\ ValidResourceChange(change) /\ IsIdentity(change.id)
  /\ Publishable(change.id.type, change.parameter, change.before)
  /\ Publishable(change.id.type, change.parameter, change.after)
  /\ change.kind \in ResourceKinds \ {"parameter_changed"} => change.parameter = ""

\* A value that is no File's content may be published when it is clean.
LEMMA CleanIsPublishable ==
  ASSUME NEW type, NEW parameter, NEW x, IsClean(x),
         \/ x = Undef
         \/ parameter # "" /\ (type = FileResourceType => parameter \notin FileContentBearingParameters)
  PROVE  Publishable(type, parameter, x)
BY DEF Publishable, IsClean

\* Every row is published as what a reader accepts.
LEMMA PublishedIsAcceptable ==
  ASSUME NEW before, IsNormalized(before), NEW after, IsNormalized(after),
         NEW selectors, NEW row, RowIsOf(row, before, after), RowSays(row)
  PROVE  Acceptable(PublishChange(selectors, row, before, after))
<1> DEFINE b == ResourceAt(before, row.id)
           a == ResourceAt(after, row.id)
           values == PublishedValues(selectors, row, b, a)
           change == PublishChange(selectors, row, before, after)
           selected == ContentSelected(selectors, row, b, a)
<1>1. /\ change.kind = row.kind /\ change.id = row.id /\ change.parameter = row.parameter
      /\ change.before = values[1] /\ change.after = values[2]
      /\ change.content = [i \in DOMAIN row.content |-> PublishEvidence(selected, row.content[i])]
  BY DEF PublishChange
<1> HIDE DEF change, selected
<1>2. \A i \in DOMAIN change.content : ValidContent(change.content[i])
  <2> TAKE i \in DOMAIN change.content
  <2>1. i \in DOMAIN row.content /\ change.content[i] = PublishEvidence(selected, row.content[i])
    BY <1>1
  <2>2. IsEvidence(row.content[i])
    <3>1. row.content # <<>>  BY <2>1
    <3>2. PICK e : row.content = <<e>> /\ IsEvidence(e)  BY <3>1 DEF RowSays
    <3>3. i = 1 /\ row.content[i] = e  BY <2>1, <3>2
    <3> QED BY <3>2, <3>3
  <2> QED BY <2>1, <2>2, PublishedEvidenceIsValid
<1>3. ValidResourceChange(change) /\ IsIdentity(change.id)
  <2>1. row.id.type # "" /\ row.id.title # ""  BY NamesAreOrdered DEF RowSays, IsIdentity
  <2> QED BY <1>1, <1>2, <2>1 DEF RowSays, ValidResourceChange
<1>4. row.kind \in ResourceKinds \ {"parameter_changed"} => row.parameter = ""
  BY DEF RowSays
<1>5. /\ Publishable(row.id.type, row.parameter, values[1])
      /\ Publishable(row.id.type, row.parameter, values[2])
  <2>1. IsClean(Undef) /\ IsClean(RedactedValue)  BY MaskIsClean
  <2>2. Publishable(row.id.type, row.parameter, Undef)  BY <2>1, CleanIsPublishable
  <2>3. CASE row.kind = "resource_removed"
    <3>1. row.id \in DOMAIN before.resources /\ row.parameter = ""
      BY <1>4, <2>3 DEF RowIsOf, ResourceKinds
    <3>2. /\ Hash(before.resources[row.id].params) \in CatalogValues
          /\ DOMAIN before.resources[row.id].params \subseteq ToSet(NameOrder)
      BY <3>1 DEF IsNormalized
    <3>3. values = <<PublishParameters(selectors, row.id, b), Undef>> /\ b = before.resources[row.id]
      BY <2>3, <3>1 DEF PublishedValues, ResourceAt
    <3>4. Publishable(row.id.type, "", PublishParameters(selectors, row.id, b))
      BY <3>2, <3>3, PublishedParametersAreClean
    <3> HIDE DEF values
    <3> QED BY <2>2, <3>1, <3>3, <3>4
  <2>4. CASE row.kind = "resource_added"
    <3>1. row.id \in DOMAIN after.resources /\ row.parameter = ""
      BY <1>4, <2>4 DEF RowIsOf, ResourceKinds
    <3>2. /\ Hash(after.resources[row.id].params) \in CatalogValues
          /\ DOMAIN after.resources[row.id].params \subseteq ToSet(NameOrder)
      BY <3>1 DEF IsNormalized
    <3>3. values = <<Undef, PublishParameters(selectors, row.id, a)>> /\ a = after.resources[row.id]
      BY <2>4, <3>1 DEF PublishedValues, ResourceAt
    <3>4. Publishable(row.id.type, "", PublishParameters(selectors, row.id, a))
      BY <3>2, <3>3, PublishedParametersAreClean
    <3> HIDE DEF values
    <3> QED BY <2>2, <3>1, <3>3, <3>4
  <2>5. CASE /\ row.kind = "parameter_changed" /\ row.content = <<>>
             /\ row.before \in CatalogValues /\ row.after \in CatalogValues
    <3>1. values = IF Selected(selectors, row, b, a) THEN MaskedPair
                   ELSE RedactSensitivePair(row.before, row.after)
      BY <2>5 DEF PublishedValues
    <3>2. MaskedPair[1] = RedactedValue /\ MaskedPair[2] = RedactedValue  BY DEF MaskedPair
    <3>3. AreClean(row.before, row.after)  BY <2>5, RedactedIsClean
    <3> HIDE DEF values
    <3>4. IsClean(values[1]) /\ IsClean(values[2])  BY <2>1, <3>1, <3>2, <3>3 DEF AreClean
    <3>5. /\ row.parameter # ""
          /\ row.id.type = FileResourceType => row.parameter \notin FileContentBearingParameters
      BY <2>5 DEF RowSays
    <3> QED BY <3>4, <3>5, CleanIsPublishable
  <2>6. CASE row.kind = "parameter_changed" /\ row.content # <<>>
    <3>1. values = <<Undef, Undef>>  BY <2>6 DEF PublishedValues
    <3> HIDE DEF values
    <3> QED BY <2>2, <3>1
  <2> QED BY <2>3, <2>4, <2>5, <2>6 DEF RowIsOf
<1> HIDE DEF values
<1>6. Acceptable(change)  BY <1>1, <1>3, <1>4, <1>5 DEF Acceptable
<1> QED BY <1>6 DEF change
----------------------------------------------------------------------------
(* What a group shows is what a reader accepts.                            *)

StaysClean(v, x, y) == IsClean(x) => IsClean(RestrictProjection(x, y))

\* Restricting makes no wrapper of what is none.
LEMMA RestrictedIsNoWrapper ==
  ASSUME NEW v \in CatalogValues, NEW x \in Maskings(v), NEW y \in Maskings(v),
         IsSensitiveWrapper(RestrictProjection(x, y))
  PROVE  IsSensitiveWrapper(x)
<1> DEFINE z == RestrictProjection(x, y)
<1>1. z \in Maskings(v)  BY RestrictedShowsBoth DEF ShowsWhatBoth
<1>2. IsHash(z) /\ "__ptype" \in DOMAIN z.at /\ IsWrapperName(z.at["__ptype"])  BY WrapperHas
<1>3. x # RedactedValue /\ y # RedactedValue
  <2>1. x = RedactedValue \/ y = RedactedValue => z = RedactedValue  BY RestrictedShape
  <2> HIDE DEF z
  <2> QED BY <1>2, <2>1, MaskIsText
<1>4. CASE IsHash(v)
  <2> DEFINE vt == v.at["__ptype"]
             xt == x.at["__ptype"]
             yt == y.at["__ptype"]
  <2>1. z = Hash([k \in DOMAIN v.at |-> RestrictProjection(x.at[k], y.at[k])])
    BY <1>3, <1>4, RestrictedShape
  <2>2. DOMAIN z.at = DOMAIN v.at /\ "__ptype" \in DOMAIN v.at
        /\ z.at["__ptype"] = RestrictProjection(xt, yt)
    BY <1>2, <2>1 DEF Hash
  <2>3. vt \in CatalogValues  BY <1>4, <2>2, ShapeOfValue
  <2>4. /\ IsHash(x) /\ DOMAIN x.at = DOMAIN v.at /\ xt \in Maskings(vt) /\ yt \in Maskings(vt)
    BY <1>3, <1>4, <2>2, MaskingsOf
  <2> HIDE DEF z, vt, xt, yt
  <2> DEFINE zt == RestrictProjection(xt, yt)
  <2>5. zt \in Maskings(vt)  BY <2>3, <2>4, RestrictedShowsBoth DEF ShowsWhatBoth
  <2>6. IsText(zt) /\ zt # RedactedValue /\ IsWrapperName(zt)
    BY <1>2, <2>2, MaskIsText DEF IsWrapperName
  <2>7. xt # RedactedValue  BY <2>3, <2>4, <2>6, RestrictedShape
  <2> HIDE DEF zt
  <2>8. zt = vt /\ Maskings(vt) = {RedactedValue, vt}  BY <2>3, <2>5, <2>6, TextIsItself
  <2>9. xt = zt  BY <2>4, <2>7, <2>8
  <2> QED BY <2>2, <2>4, <2>6, <2>9, WrapperHas DEF xt
<1>5. CASE ~IsHash(v)
  <2>1. z # RedactedValue /\ ~IsList(z)  BY <1>2, MaskIsText DEF IsHash, IsList
  <2>2. ~IsList(v)  BY <1>1, <2>1, MaskingsOf
  <2>3. z = v /\ x = v  BY <1>3, <1>5, <2>2, RestrictedShape
  <2> QED BY <2>3
<1> QED BY <1>4, <1>5

\* Restricting what is clean leaves it clean.
LEMMA RestrictedStaysClean ==
  ASSUME NEW v \in CatalogValues, NEW x \in Maskings(v), NEW y \in Maskings(v)
  PROVE  StaysClean(v, x, y)
<1> DEFINE B == {w \in CatalogValues : \E a, b \in Maskings(w) : ~StaysClean(w, a, b)}
<1> SUFFICES ASSUME B # {}  PROVE FALSE
  OBVIOUS
<1>1. PICK w \in B : Children(w) \cap B = {} /\ Children(w) \subseteq CatalogValues
  <2>1. B \subseteq CatalogValues  OBVIOUS
  <2> HIDE DEF B
  <2> QED BY <2>1, Innermost
<1>2. PICK a \in Maskings(w), b \in Maskings(w) : ~StaysClean(w, a, b)  BY <1>1
<1>3. /\ w \in CatalogValues
      /\ \A c \in Children(w) : \A p, q \in Maskings(c) : StaysClean(c, p, q)
  BY <1>1
<1> HIDE DEF B
<1> DEFINE z == RestrictProjection(a, b)
<1>4. IsClean(a) /\ ~IsClean(z)  BY <1>2 DEF StaysClean
<1>5. z \in Maskings(w)  BY <1>2, <1>3, RestrictedShowsBoth DEF ShowsWhatBoth
<1>6. a \in ShownValues /\ z \in ShownValues  BY <1>2, <1>3, <1>5, MaskingsAreShown
<1>7. ~IsSensitiveWrapper(z)
  BY <1>2, <1>3, <1>4, <1>6, PartsOfClean, RestrictedIsNoWrapper
<1>8. CASE a = RedactedValue \/ b = RedactedValue
  <2>1. z = RedactedValue  BY <1>2, <1>3, <1>8, RestrictedShape
  <2> QED BY <1>4, <2>1, MaskIsClean
<1>9. ASSUME a # RedactedValue, b # RedactedValue, IsHash(w)  PROVE FALSE
  <2>1. z = Hash([k \in DOMAIN w.at |-> RestrictProjection(a.at[k], b.at[k])])
    BY <1>2, <1>3, <1>9, RestrictedShape
  <2>2. /\ IsHash(z) /\ DOMAIN z.at = DOMAIN w.at
        /\ \A k \in DOMAIN w.at : z.at[k] = RestrictProjection(a.at[k], b.at[k])
    BY <2>1 DEF Hash, IsHash
  <2>3. /\ IsHash(a) /\ DOMAIN a.at = DOMAIN w.at
        /\ \A k \in DOMAIN w.at : a.at[k] \in Maskings(w.at[k]) /\ b.at[k] \in Maskings(w.at[k])
    BY <1>2, <1>3, <1>9, MaskingsOf
  <2> HIDE DEF z
  <2>4. \A k \in DOMAIN w.at : IsClean(a.at[k])  BY <1>4, <1>6, <2>3, PartsOfClean
  <2>5. \A k \in DOMAIN w.at : IsClean(z.at[k])
    <3> TAKE k \in DOMAIN w.at
    <3>1. w.at[k] \in Children(w)  BY <1>3, <1>9, ShapeOfValue
    <3>2. StaysClean(w.at[k], a.at[k], b.at[k])  BY <1>3, <2>3, <3>1
    <3>3. IsClean(RestrictProjection(a.at[k], b.at[k]))  BY <2>4, <3>2 DEF StaysClean
    <3> QED BY <2>2, <3>3
  <2> QED BY <1>4, <1>6, <1>7, <2>2, <2>5, CleanWhenPartsAre
<1>10. ASSUME a # RedactedValue, b # RedactedValue, IsList(w)  PROVE FALSE
  <2>1. z = List([k \in DOMAIN w.items |-> RestrictProjection(a.items[k], b.items[k])])
    BY <1>2, <1>3, <1>10, RestrictedShape
  <2>2. /\ IsList(z) /\ DOMAIN z.items = DOMAIN w.items
        /\ \A k \in DOMAIN w.items : z.items[k] = RestrictProjection(a.items[k], b.items[k])
    BY <2>1 DEF List, IsList
  <2>3. /\ IsList(a) /\ DOMAIN a.items = DOMAIN w.items
        /\ \A k \in DOMAIN w.items : a.items[k] \in Maskings(w.items[k]) /\ b.items[k] \in Maskings(w.items[k])
    BY <1>2, <1>3, <1>10, MaskingsOf
  <2> HIDE DEF z
  <2>4. \A k \in DOMAIN w.items : IsClean(a.items[k])  BY <1>4, <1>6, <2>3, PartsOfClean
  <2>5. \A k \in DOMAIN w.items : IsClean(z.items[k])
    <3> TAKE k \in DOMAIN w.items
    <3>1. w.items[k] \in Children(w)  BY <1>3, <1>10, ShapeOfValue
    <3>2. StaysClean(w.items[k], a.items[k], b.items[k])  BY <1>3, <2>3, <3>1
    <3>3. IsClean(RestrictProjection(a.items[k], b.items[k]))  BY <2>4, <3>2 DEF StaysClean
    <3> QED BY <2>2, <3>3
  <2> QED BY <1>4, <1>6, <1>7, <2>2, <2>5, CleanWhenPartsAre
<1>11. ASSUME a # RedactedValue, b # RedactedValue, ~IsHash(w), ~IsList(w)  PROVE FALSE
  <2>1. z = w /\ a = w  BY <1>2, <1>3, <1>11, RestrictedShape
  <2> QED BY <1>4, <2>1
<1> QED BY <1>8, <1>9, <1>10, <1>11

\* The masked forms of a value that may be published lead to no others.
LEMMA PublishableIsClosed ==
  ASSUME NEW v \in CatalogValues, NEW type, NEW parameter
  PROVE  IsClosed({x \in Maskings(v) : Publishable(type, parameter, x)})
<1> SUFFICES ASSUME NEW x \in Maskings(v), Publishable(type, parameter, x),
                    NEW y \in Maskings(v), Publishable(type, parameter, y)
             PROVE  /\ RestrictProjection(x, y) \in Maskings(v)
                    /\ Publishable(type, parameter, RestrictProjection(x, y))
  BY DEF IsClosed
<1> DEFINE z == RestrictProjection(x, y)
<1>1. z \in Maskings(v)  BY RestrictedShowsBoth DEF ShowsWhatBoth
<1>2. IsClean(x)  BY DEF Publishable, IsClean
<1>3. IsClean(z)  BY <1>2, RestrictedStaysClean DEF StaysClean
<1>4. ASSUME type = FileResourceType, z # Undef, parameter \in FileContentBearingParameters
      PROVE  z = RedactedValue
  <2>1. CASE x = RedactedValue  BY <2>1, RestrictedShape
  <2>2. CASE x # RedactedValue
    <3>1. x = Undef  BY <1>4, <2>2 DEF Publishable
    <3>2. ~IsHash(v) /\ ~IsList(v)  BY <2>2, <3>1, MaskingsOf, MaskIsText
    <3>3. x = v  BY <2>2, <3>2, MaskingsOf
    <3>4. z \in {RedactedValue, v}  BY <1>1, <3>2, MaskingsOf
    <3> QED BY <1>4, <3>1, <3>3, <3>4
  <2> QED BY <2>1, <2>2
<1>5. ASSUME type = FileResourceType, parameter = "", IsHash(z),
             NEW n \in FileContentBearingParameters \cap DOMAIN z.at
      PROVE  z.at[n] = RedactedValue
  <2>1. x # RedactedValue /\ y # RedactedValue
    <3>1. x = RedactedValue \/ y = RedactedValue => z = RedactedValue  BY RestrictedShape
    <3> HIDE DEF z
    <3> QED BY <1>5, <3>1, MaskIsText
  <2>2. CASE IsHash(v)
    <3>1. z = Hash([k \in DOMAIN v.at |-> RestrictProjection(x.at[k], y.at[k])])
      BY <2>1, <2>2, RestrictedShape
    <3> HIDE DEF z
    <3>2. DOMAIN z.at = DOMAIN v.at /\ n \in DOMAIN v.at
          /\ z.at[n] = RestrictProjection(x.at[n], y.at[n])
      <4>1. /\ DOMAIN z.at = DOMAIN v.at
            /\ \A k \in DOMAIN v.at : z.at[k] = RestrictProjection(x.at[k], y.at[k])
        BY <3>1 DEF Hash
      <4> QED BY <1>5, <4>1
    <3>3. /\ IsHash(x) /\ DOMAIN x.at = DOMAIN v.at
          /\ x.at[n] \in Maskings(v.at[n]) /\ y.at[n] \in Maskings(v.at[n])
      BY <2>1, <2>2, <3>2, MaskingsOf
    <3>4. x # Undef  BY <3>3, MaskIsText
    <3>5. x.at[n] = RedactedValue  BY <1>5, <3>2, <3>3, <3>4 DEF Publishable
    <3>6. v.at[n] \in CatalogValues  BY <2>2, <3>2, ShapeOfValue
    <3> QED BY <3>2, <3>3, <3>5, <3>6, RestrictedShape
  <2>3. CASE ~IsHash(v)
    <3>1. ~IsList(z) /\ z # RedactedValue  BY <1>5, MaskIsText DEF IsHash, IsList
    <3>2. ~IsList(v)  BY <1>1, <3>1, MaskingsOf
    <3>3. z = v  BY <1>1, <2>3, <3>1, <3>2, MaskingsOf
    <3> QED BY <1>5, <2>3, <3>3
  <2> QED BY <2>2, <2>3
<1> HIDE DEF z
<1>6. Publishable(type, parameter, z)  BY <1>3, <1>4, <1>5 DEF Publishable, IsClean
<1> QED BY <1>1, <1>6 DEF z

\* A group shows of its members what a reader accepts, when its members do.
LEMMA GroupIsPublishable ==
  ASSUME ComparisonInv, NEW key, ~IsEdgeKind(key.kind), NEW n, NEW ms, AreMembers(ms, n, key),
         NEW type, NEW parameter,
         \A k \in 1 .. n : /\ Publishable(type, parameter, ms[k].before)
                           /\ Publishable(type, parameter, ms[k].after),
         NEW befores, befores = [k \in DOMAIN ms |-> ms[k].before],
         NEW afters, afters = [k \in DOMAIN ms |-> ms[k].after]
  PROVE  /\ Publishable(type, parameter, Projection(befores))
         /\ Publishable(type, parameter, Projection(afters))
<1>1. /\ n \in Nat /\ n # 0 /\ DOMAIN ms = 1 .. n
      /\ \A k \in 1 .. n : ms[k] \in Mine(key)
      /\ key.fingerprint = <<>> => n = 1
  BY DEF AreMembers
<1>2. ListOf(n, befores) /\ ListOf(n, afters)  BY <1>1 DEF ListOf
<1>3. \A k \in 1 .. n : befores[k] = ms[k].before /\ afters[k] = ms[k].after  BY <1>1
<1>4. CASE key.fingerprint = <<>>
  <2>1. n = 1 /\ 1 \in Nat /\ 1 # 0 /\ 1 \in 1 .. 1  BY <1>1, <1>4
  <2>2. ASSUME NEW values, ListOf(1, values)  PROVE Projection(values) = values[1]
    <3>1. \A i \in 1 .. 1 : values[i] \in {values[1]}  OBVIOUS
    <3> QED BY <2>1, <2>2, <3>1, ProjectedWithin
  <2> QED BY <1>2, <1>3, <2>1, <2>2
<1>5. CASE key.fingerprint # <<>>
  <2>1. \A k \in 1 .. n : /\ ms[k].before = ChangeOf(ms[k]).before
                          /\ ms[k].after = ChangeOf(ms[k]).after
                          /\ key.fingerprint = ChangeOf(ms[k]).fingerprint
                          /\ ChangeIsOf(ChangeOf(ms[k]))
    BY <1>1, MembersAreChanges
  <2>2. PICK p : key.fingerprint = <<p>>  BY <1>1, <1>5, <2>1 DEF ChangeIsOf
  <2>3. \A q : <<q>> = <<p>> => q = p  OBVIOUS
  <2>4. \A k \in 1 .. n : IsProjectionOf(ChangeOf(ms[k]), p)
    BY <1>5, <2>1, <2>2, <2>3 DEF ChangeIsOf
  <2> DEFINE V(w) == {x \in Maskings(w) : Publishable(type, parameter, x)}
             b == BaseOf(p)[1]
             a == BaseOf(p)[2]
  <2>5. /\ b \in CatalogValues /\ a \in CatalogValues
        /\ \A k \in 1 .. n : befores[k] \in V(b) /\ afters[k] \in V(a)
    BY <1>1, <1>3, <2>1, <2>4 DEF IsProjectionOf
  <2>6. IsClosed(V(b)) /\ IsClosed(V(a))  BY <2>5, PublishableIsClosed
  <2>7. \A w : \A x \in V(w) : Publishable(type, parameter, x)
    OBVIOUS
  <2> HIDE DEF V, b, a
  <2>8. Projection(befores) \in V(b) /\ Projection(afters) \in V(a)
    BY <1>1, <1>2, <2>5, <2>6, ProjectedWithin
  <2> QED BY <2>7, <2>8
<1> QED BY <1>4, <1>5
----------------------------------------------------------------------------
(* The diagnostics of a difference are a list, and the outcome is of it.   *)

\* What has a list's places is a list.
LEMMA MappedIsList ==
  ASSUME NEW s, IsSequence(s), NEW f, f = [i \in DOMAIN s |-> f[i]]
  PROVE  IsSequence(f) /\ Len(f) = Len(s)
<1>1. Len(s) \in Nat /\ DOMAIN s = 1 .. Len(s)  BY ListsHaveLengths
<1>2. f = [i \in 1 .. Len(s) |-> f[i]]  BY <1>1
<1>3. DOMAIN f = 1 .. Len(s) /\ Len(f) = Len(s)  BY <1>1, <1>2, OfLength
<1> DEFINE T == {f[i] : i \in DOMAIN f}
<1>4. \A i \in 1 .. Len(s) : f[i] \in T  BY <1>3
<1> HIDE DEF T
<1>5. f \in Seq(T)  BY <1>1, <1>2, <1>4
<1> QED BY <1>3, <1>5, ListsAreSequences

\* The diagnostics of joined parts are a list when those of each part are.
LEMMA JoinedDiagnostics ==
  ASSUME NEW n \in Nat, NEW parts, DOMAIN parts = 1 .. n,
         \A i \in 1 .. n : IsSequence(parts[i].diagnostics)
  PROVE  IsSequence(Joined(parts).diagnostics)
<1> DEFINE seqs == [i \in 1 .. n |-> parts[i].diagnostics]
<1>1. Joined(parts).diagnostics = FlattenSeq(seqs)  BY DEF Joined
<1>2. ListOf(n, seqs)  BY DEF ListOf
<1>3. \A i \in 1 .. n : seqs[i] = parts[i].diagnostics  OBVIOUS
<1> HIDE DEF seqs
<1>4. \A i \in 1 .. n : IsSequence(seqs[i])  BY <1>3
<1> QED BY <1>1, <1>2, <1>4, NothingFlattened

\* What is told of evidence is told in a list.
LEMMA ToldInList ==
  /\ \A kind, given, r, quiet : IsSequence(MembershipEvidence(kind, given, r, quiet).diagnostics)
  /\ \A before, after, b, a, quiet :
       IsSequence(ComparedEvidence(before, after, b, a, quiet).diagnostics)
<1>1. \A e : IsSequence(Untold(e).diagnostics)  BY NoneInList DEF Untold
<1>2. \A quiet, severity, reason, e, sides : IsSequence(Told(quiet, severity, reason, e, sides).diagnostics)
  <2> TAKE quiet, severity, reason, e, sides
  <2>1. IsSequence(VerifyContent(severity, reason))  BY OneInList DEF VerifyContent
  <2> QED BY <2>1, NoneInList DEF Told
<1>3. \A kind, given, r, quiet :
        LET t == MembershipEvidence(kind, given, r, quiet)
        IN  \/ \E e : t = Untold(e)
            \/ \E severity, reason, e, sides : t = Told(quiet, severity, reason, e, sides)
  BY DEF MembershipEvidence
<1>4. \A before, after, b, a, quiet :
        LET t == ComparedEvidence(before, after, b, a, quiet)
        IN  \/ \E e : t = Untold(e)
            \/ \E severity, reason, e, sides : t = Told(quiet, severity, reason, e, sides)
  BY DEF ComparedEvidence
<1> QED BY <1>1, <1>2, <1>3, <1>4

\* And so are the diagnostics that are made of it.
LEMMA DiagnosedInList ==
  ASSUME NEW said, IsSequence(said)
  PROVE  IsSequence(Diagnosed(said))
<1> DEFINE f == Diagnosed(said)
<1>1. f = [i \in DOMAIN said |-> f[i]]  BY DEF Diagnosed
<1> HIDE DEF f
<1>2. IsSequence(f)  BY <1>1, MappedIsList
<1> QED BY <1>2 DEF f

\* The diagnostics of one resource are a list.
LEMMA ResourceDiagnostics ==
  ASSUME NEW before, IsNormalized(before), NEW after, IsNormalized(after),
         NEW id \in Identities(before, after), NEW retrieved, NEW quiet
  PROVE  IsSequence(ResourceDiff(id, before, after, retrieved, quiet).diagnostics)
<1> DEFINE d == ResourceDiff(id, before, after, retrieved, quiet)
<1>1. \A kind, catalog : IsSequence(MembershipChange(kind, id, catalog, retrieved, quiet).diagnostics)
  <2> TAKE kind, catalog
  <2> DEFINE given == SideOf(catalog, id)
             said == MembershipEvidence(kind, given, ResolvedSide(given, retrieved), quiet).diagnostics
             m == MembershipChange(kind, id, catalog, retrieved, quiet).diagnostics
  <2>1. m = <<>> \/ m = Diagnosed(said)  BY DEF MembershipChange
  <2>2. IsSequence(said)  BY ToldInList
  <2> HIDE DEF m, said
  <2>3. IsSequence(m)  BY <2>1, <2>2, DiagnosedInList, NoneInList
  <2> QED BY <2>3 DEF m
<1>2. ASSUME id \in DOMAIN before.resources, id \in DOMAIN after.resources
      PROVE  IsSequence(DiffParameters(id, before, after, retrieved, quiet).diagnostics)
  <2> DEFINE names == ComparedNames(before, after, id)
             R == {p \in names \X names : Precedes(p[1], p[2])}
             arr == Arranged(names, R)
             m == Cardinality(names)
             part(name) == ParameterChange(id, name, before.resources[id], after.resources[id],
                                           before.stringified, after.stringified)
             first == [i \in DOMAIN arr |-> part(arr[i])]
             content == ContentChange(id, before, after, retrieved, quiet)
             parts == first \o <<content>>
  <2>1. DiffParameters(id, before, after, retrieved, quiet) = Joined(parts)
    BY DEF DiffParameters, ComparedNames, NamesOf
  <2>2. IsFiniteSet(names) /\ StrictOrder(R, names)
    <3>1. names \subseteq ToSet(NameOrder)  BY <1>2, NormalizedHas DEF ComparedNames, NamesOf
    <3> HIDE DEF names
    <3> QED BY <3>1, NamesInOrder
  <2> HIDE DEF names, R
  <2>3. m \in Nat /\ DOMAIN arr = 1 .. m  BY <2>2, ArrangedIsAll
  <2> HIDE DEF arr, m
  <2>4. \A name : IsSequence(part(name).diagnostics)
    <3> TAKE name
    <3> DEFINE s == part(name).diagnostics
    <3>1. s = <<>> \/ s = <<FidelityDiagnostic>>  BY DEF ParameterChange
    <3> HIDE DEF s
    <3>2. IsSequence(s)  BY <3>1, NoneInList, OneInList
    <3> QED BY <3>2 DEF s
  <2>5. IsSequence(content.diagnostics)
    <3> DEFINE said == ToldOf(id, before, after, retrieved, quiet).diagnostics
               s == content.diagnostics
    <3>1. s = <<>> \/ s = Diagnosed(said)  BY DEF ContentChange, ToldOf
    <3>2. IsSequence(said)  BY ToldInList DEF ToldOf
    <3> HIDE DEF s, said
    <3>3. IsSequence(s)  BY <3>1, <3>2, DiagnosedInList, NoneInList
    <3> QED BY <3>3 DEF s
  <2> DEFINE P == {part(arr[i]) : i \in 1 .. m} \cup {content}
  <2>6. first = [i \in 1 .. m |-> part(arr[i])]  BY <2>3
  <2>7. /\ \A i \in 1 .. m : part(arr[i]) \in P
        /\ content \in P /\ \A x \in P : IsSequence(x.diagnostics)
    BY <2>4, <2>5
  <2> HIDE DEF part, content, P, first
  <2>8. first \in Seq(P) /\ <<content>> \in Seq(P)  BY <2>3, <2>6, <2>7
  <2>9. parts \in Seq(P)  BY <2>8, ConcatProperties
  <2> HIDE DEF parts
  <2>10. Len(parts) \in Nat /\ DOMAIN parts = 1 .. Len(parts) /\ \A i \in 1 .. Len(parts) : parts[i] \in P
    BY <2>9, LenProperties
  <2>11. IsSequence(Joined(parts).diagnostics)  BY <2>7, <2>10, JoinedDiagnostics
  <2> QED BY <2>1, <2>11
<1>3. CASE id \notin DOMAIN after.resources
  <2>1. d = MembershipChange("resource_removed", id, before, retrieved, quiet)
    BY <1>3 DEF ResourceDiff
  <2> QED BY <1>1, <2>1
<1>4. CASE id \in DOMAIN after.resources /\ id \notin DOMAIN before.resources
  <2>1. d = MembershipChange("resource_added", id, after, retrieved, quiet)
    BY <1>4 DEF ResourceDiff
  <2> QED BY <1>1, <2>1
<1>5. CASE id \in DOMAIN after.resources /\ id \in DOMAIN before.resources
  <2>1. d = DiffParameters(id, before, after, retrieved, quiet)  BY <1>5 DEF ResourceDiff
  <2> QED BY <1>2, <1>5, <2>1
<1> QED BY <1>3, <1>4, <1>5

\* The diagnostics of a difference are a list.
LEMMA DiffDiagnostics ==
  ASSUME ComparisonInv, NEW i \in Compared
  PROVE  IsSequence(NodeDiffOf(i).diagnostics)
<1> DEFINE before == done[i].before
           after == done[i].after
           quiet == done[i].policy.suppress
           retrieved == done[i].retrieved
           full == DiffResources(before, after, retrieved, quiet)
<1>1. IsNormalized(before) /\ IsNormalized(after)  BY ComparedHas
<1>2. NodeDiffOf(i).diagnostics = full.diagnostics \o UnencodableDiagnostics(full.rows)
  BY DEF NodeDiffOf, NodeDiff, DiffOfFull
<1>3. IsSequence(full.rows)  BY <1>1, FullRows
<1> HIDE DEF before, after, quiet, retrieved
<1>4. IsSequence(full.diagnostics)
  <2> DEFINE all == Identities(before, after)
             R == {p \in all \X all : IdentityPrecedes(p[1], p[2])}
             ids == Arranged(all, R)
             n == Cardinality(all)
             part(id) == ResourceDiff(id, before, after, retrieved, quiet)
             parts == [k \in DOMAIN ids |-> part(ids[k])]
  <2>1. full = Joined(parts)  BY DEF DiffResources
  <2>2. IsFiniteSet(all) /\ \A id \in all : IsIdentity(id)
    <3>1. IsFiniteSet(DOMAIN before.resources) /\ IsFiniteSet(DOMAIN after.resources)
      BY <1>1, NormalizedHas
    <3>2. IsFiniteSet(all)  BY <3>1, FS_Union DEF Identities
    <3> QED BY <1>1, <3>2, NormalizedHas DEF Identities
  <2>3. \A id \in all : IsSequence(part(id).diagnostics)  BY <1>1, ResourceDiagnostics
  <2> HIDE DEF all
  <2>4. StrictOrder(R, all)  BY <2>2, IdentitiesInOrder
  <2> HIDE DEF R
  <2>5. n \in Nat /\ DOMAIN ids = 1 .. n /\ \A k \in 1 .. n : ids[k] \in all
    BY <2>2, <2>4, ArrangedIsAll
  <2> HIDE DEF ids, n
  <2>6. DOMAIN parts = 1 .. n /\ \A k \in 1 .. n : parts[k] = part(ids[k])  BY <2>5
  <2> HIDE DEF parts, part, full
  <2>7. \A k \in 1 .. n : IsSequence(parts[k].diagnostics)  BY <2>3, <2>5, <2>6
  <2> QED BY <2>1, <2>5, <2>6, <2>7, JoinedDiagnostics
<1> HIDE DEF full
<1>5. IsSequence(UnencodableDiagnostics(full.rows))
  <2> DEFINE rows == full.rows
             keep == {j \in DOMAIN rows : Fingerprint(rows[j]) = <<>>}
             without == Kept(rows, keep)
             f == UnencodableDiagnostics(rows)
  <2>1. f = [j \in DOMAIN without |-> f[j]]  BY DEF UnencodableDiagnostics
  <2>2. keep \subseteq DOMAIN rows  OBVIOUS
  <2> HIDE DEF keep
  <2>3. IsSequence(without)  BY <1>3, <2>2, KeptOfList
  <2> HIDE DEF without, f
  <2>4. IsSequence(f)  BY <2>1, <2>3, MappedIsList
  <2> QED BY <2>4 DEF f
<1> QED BY <1>2, <1>4, <1>5, Together
----------------------------------------------------------------------------
(* The targets of a document are what a reader accepts.                    *)

\* Everything published of a target is what a reader accepts.
LEMMA PublishedIsAccepted ==
  ASSUME ComparisonInv, NEW i \in Compared
  PROVE  LET d == DiffOf(i)
         IN  /\ \A j \in DOMAIN d.resourceChanges : Acceptable(d.resourceChanges[j])
             /\ \A j \in DOMAIN d.edgeChanges :
                  /\ d.edgeChanges[j].kind \in EdgeKinds
                  /\ "" \notin {d.edgeChanges[j].edge.source.title, d.edgeChanges[j].edge.target.title}
                  /\ d.edgeChanges[j] = [kind |-> d.edgeChanges[j].kind, edge |-> d.edgeChanges[j].edge]
             /\ d.hasDifference <=> d.resourceChanges # <<>> \/ d.edgeChanges # <<>>
<1> DEFINE before == done[i].before
           after == done[i].after
           selectors == done[i].policy.redact
           retrieved == done[i].retrieved
           quiet == done[i].policy.suppress
           kept == KeptOf(i)
           d == DiffOf(i)
<1>1. /\ IsNormalized(before) /\ IsNormalized(after) /\ d = Publish(i, selectors, before, after, kept)
  BY ComparedHas
<1>2. IsAnswer(retrieved)  BY ComparedHas, InputsAreNormalized
<1>3. /\ IsSequence(kept.changes) /\ ToSet(kept.changes) \subseteq ToSet(Full(i))
      /\ IsSequence(kept.edgeChanges) /\ ToSet(kept.edgeChanges) \subseteq ToSet(FullEdges(i))
  BY KeptIsOfFull
<1>4. \A row \in ToSet(Full(i)) : RowIsOf(row, before, after) /\ RowSays(row)
  <2> TAKE row \in ToSet(Full(i))
  <2>1. PICK id \in Identities(before, after) :
          row \in ToSet(ResourceDiff(id, before, after, retrieved, quiet).rows)
    BY <1>1, FullRows DEF Full
  <2> QED BY <1>1, <1>2, <2>1, RowsAreOf, RowsSay
<1>5. \A row \in ToSet(FullEdges(i)) :
        /\ row.kind \in EdgeKinds /\ row = [kind |-> row.kind, edge |-> row.edge]
        /\ "" \notin {row.edge.source.title, row.edge.target.title}
  <2> TAKE row \in ToSet(FullEdges(i))
  <2>1. PICK e \in ToSet(before.edges) \cup ToSet(after.edges) :
          \/ row = [kind |-> "edge_removed", edge |-> e]
          \/ row = [kind |-> "edge_added", edge |-> e]
    BY <1>1, EdgesOfDifference DEF FullEdges
  <2>2. IsIdentity(e.source) /\ IsIdentity(e.target)  BY <1>1, <2>1, NormalizedHas
  <2>3. e.source.title # "" /\ e.target.title # ""  BY <2>2, NamesAreOrdered DEF IsIdentity
  <2>4. row.kind \in EdgeKinds /\ row.edge = e /\ row = [kind |-> row.kind, edge |-> row.edge]
    BY <2>1 DEF EdgeKinds
  <2> QED BY <2>3, <2>4
<1> HIDE DEF d, kept, before, after, selectors
<1>6. /\ IsSequence(d.resourceChanges) /\ DOMAIN d.resourceChanges = DOMAIN kept.changes
      /\ Len(d.resourceChanges) = Len(kept.changes)
      /\ \A j \in DOMAIN kept.changes :
           d.resourceChanges[j] = PublishChange(selectors, kept.changes[j], before, after)
      /\ d.edgeChanges = kept.edgeChanges
      /\ d.hasDifference <=> kept.changes # <<>> \/ kept.edgeChanges # <<>>
  BY <1>1, <1>3, PublishedAreKept
<1>7. \A j \in DOMAIN kept.changes : RowIsOf(kept.changes[j], before, after) /\ RowSays(kept.changes[j])
  BY <1>3, <1>4 DEF ToSet
<1>8. \A j \in DOMAIN d.resourceChanges : Acceptable(d.resourceChanges[j])
  BY <1>1, <1>6, <1>7, PublishedIsAcceptable
<1>9. \A j \in DOMAIN d.edgeChanges : d.edgeChanges[j] \in ToSet(FullEdges(i))
  BY <1>3, <1>6 DEF ToSet
<1>10. d.resourceChanges = <<>> <=> kept.changes = <<>>
  <2>1. ToSet(d.resourceChanges) = {} <=> DOMAIN d.resourceChanges = {}  BY DEF ToSet
  <2>2. ToSet(kept.changes) = {} <=> DOMAIN kept.changes = {}  BY DEF ToSet
  <2> QED BY <1>3, <1>6, <2>1, <2>2, EmptyList
<1> QED BY <1>5, <1>6, <1>8, <1>9, <1>10 DEF d

\* A target's outcome is what its diagnostics and its difference make of it.
LEMMA ResultIsClassified ==
  ASSUME NEW certname, NEW failOnDiff, NEW baseline, NEW nodeDiff, NEW diagnostics, IsSequence(diagnostics)
  PROVE  LET r == TargetResult(certname, failOnDiff, baseline, nodeDiff, diagnostics)
         IN  /\ r.certname = certname /\ r.baseline = baseline /\ r.nodeDiff = nodeDiff
             /\ r.diagnostics = diagnostics /\ r.outcome \in Outcomes
             /\ HasErrorDiagnostic(diagnostics) => r.outcome \in Failures
             /\ ~HasErrorDiagnostic(diagnostics) /\ nodeDiff # <<>> =>
                  /\ r.outcome \in {"clean", "differences_allowed", "policy_disallowed_difference"}
                  /\ r.outcome = "clean" <=> ~nodeDiff[1].hasDifference
<1> DEFINE r == TargetResult(certname, failOnDiff, baseline, nodeDiff, diagnostics)
           t == [diagnostics |-> diagnostics, nodeDiff |-> Verdict(nodeDiff), failOnDiff |-> failOnDiff]
<1>1. /\ r.certname = certname /\ r.baseline = baseline /\ r.nodeDiff = nodeDiff
      /\ r.diagnostics = diagnostics /\ r.outcome = ClassifyOutcome(t)
  BY DEF TargetResult
<1>2. Len(diagnostics) \in Nat /\ DOMAIN diagnostics = 1 .. Len(diagnostics)  BY ListsHaveLengths
<1>3. HasErrorDiagnostic(diagnostics) <=> AnyError(diagnostics)
  BY <1>2 DEF HasErrorDiagnostic, AnyError
<1>4. /\ Verdict(nodeDiff) \in NodeDiffs
      /\ nodeDiff # <<>> => Verdict(nodeDiff) = IF nodeDiff[1].hasDifference THEN "different" ELSE "same"
  BY DEF Verdict, NodeDiffs
<1>5. t.diagnostics = diagnostics /\ t.nodeDiff = Verdict(nodeDiff)  OBVIOUS
<1> HIDE DEF t, r
<1>6. r.outcome \in Outcomes  BY <1>1, <1>2, <1>4, <1>5, AllowedTargets
<1>7. /\ AnyError(t.diagnostics) => ClassifyOutcome(t) \in Failures
      /\ ~AnyError(t.diagnostics) =>
           ClassifyOutcome(t) = CASE t.nodeDiff = "nil" -> "operational_error"
                                  [] t.nodeDiff = "same" -> "clean"
                                  [] t.nodeDiff = "different" ->
                                       IF t.failOnDiff THEN "policy_disallowed_difference"
                                       ELSE "differences_allowed"
  BY <1>2, <1>4, <1>5, ClassifiedByErrorsFirst
<1>8. ASSUME ~HasErrorDiagnostic(diagnostics), nodeDiff # <<>>
      PROVE  /\ r.outcome \in {"clean", "differences_allowed", "policy_disallowed_difference"}
             /\ r.outcome = "clean" <=> ~nodeDiff[1].hasDifference
  <2>1. CASE nodeDiff[1].hasDifference
    <3>1. t.nodeDiff = "different"  BY <1>4, <1>5, <1>8, <2>1
    <3>2. r.outcome \in {"differences_allowed", "policy_disallowed_difference"}
      BY <1>1, <1>3, <1>5, <1>7, <1>8, <3>1
    <3> QED BY <2>1, <3>2
  <2>2. CASE ~nodeDiff[1].hasDifference
    <3>1. t.nodeDiff = "same"  BY <1>4, <1>5, <1>8, <2>2
    <3>2. r.outcome = "clean"  BY <1>1, <1>3, <1>5, <1>7, <1>8, <3>1
    <3> QED BY <2>2, <3>2
  <2> QED BY <2>1, <2>2
<1> QED BY <1>1, <1>3, <1>5, <1>6, <1>7, <1>8 DEF r

\* What a baseline says of its capture, a reader accepts.
LEMMA BaselineIsValid ==
  ASSUME NEW baseline, IsBaseline(baseline)
  PROVE  ValidCapture(baseline)
<1> SUFFICES ASSUME baseline.capture # <<>>
             PROVE  LET c == baseline.capture[1] IN
                    /\ baseline.kind = "file"
                    /\ {c.requested, c.effective} \subseteq {"v3", "v4"}
                    /\ c.fellBack => c.requested = "v4" /\ c.effective = "v3"
                    /\ ~c.fellBack => c.requested = c.effective
                    /\ c.warned <=> c.effective = "v3"
                    /\ c.effective = "v3" => c.trusted = "none"
  BY DEF ValidCapture
<1>1. PICK p \in Provenances :
         /\ ValidProvenance(p) /\ baseline.kind = "file"
         /\ baseline.capture = <<[requested |-> p.requested, effective |-> p.effective,
                                  fellBack |-> p.fellBack, trusted |-> p.trusted,
                                  warned |-> p.effective = "v3"]>>
  BY DEF IsBaseline
<1> DEFINE c == baseline.capture[1]
<1>2. /\ c.requested = p.requested /\ c.effective = p.effective /\ c.fellBack = p.fellBack
      /\ c.trusted = p.trusted /\ c.warned = (p.effective = "v3")
  BY <1>1
<1>3. p.requested \in {"v3", "v4"} /\ p.effective \in {"v3", "v4"}  BY DEF Provenances
<1> HIDE DEF c
<1>4. /\ {c.requested, c.effective} \subseteq {"v3", "v4"}
      /\ c.fellBack => c.requested = "v4" /\ c.effective = "v3"
      /\ ~c.fellBack => c.requested = c.effective
      /\ c.warned <=> c.effective = "v3"
      /\ c.effective = "v3" => c.trusted = "none"
  BY <1>1, <1>2, <1>3 DEF ValidProvenance
<1> QED BY <1>1, <1>4 DEF c

\* A target that ended before it had a difference states its error.
LEMMA FailedIsValid ==
  ASSUME NEW i, NEW failOnDiff, NEW nothing, DOMAIN nothing = {}, NEW said, IsSequence(said),
         HasErrorDiagnostic(said), NEW r, r = TargetResult(i, failOnDiff, nothing, nothing, said)
  PROVE  r.certname = i /\ r.nodeDiff = nothing /\ ValidTarget(r)
<1>1. /\ r.certname = i /\ r.baseline = nothing /\ r.nodeDiff = nothing /\ r.diagnostics = said
      /\ r.outcome \in Failures /\ r.outcome \in Outcomes
  BY ResultIsClassified
<1>2. ValidTarget(r)  BY <1>1 DEF ValidTarget, Failures
<1> QED BY <1>1, <1>2

\* Every target is what a reader accepts, compared or failed.
LEMMA TargetsAreValid ==
  ASSUME ComparisonInv, NEW i \in 1 .. Len(results)
  PROVE  /\ ValidTarget(results[i]) /\ results[i].certname = i
         /\ \/ results[i].nodeDiff = <<>>
            \/ i \in Compared /\ results[i].nodeDiff = <<DiffOf(i)>>
<1>1. DOMAIN results = 1 .. Len(results)  BY ListsHaveLengths DEF ComparisonInv, InTargetOrder
<1>2. WasCompared(i) \/ HasFailed(i)  BY DEF ComparisonInv, TargetsAreDone
<1>3. CASE HasFailed(i)
  <2> DEFINE no == FALSE
             nothing == <<>>
  <2>1. PICK d \in TargetFailures : results[i] = TargetResult(i, no, nothing, nothing, <<d>>)
    BY <1>3 DEF HasFailed
  <2>2. IsSequence(<<d>>) /\ HasErrorDiagnostic(<<d>>)
    <3>1. Contributes(d)  BY FailuresAreErrors
    <3>2. DOMAIN <<d>> = {1} /\ <<d>>[1] = d  OBVIOUS
    <3> QED BY <3>1, <3>2, OneInList DEF HasErrorDiagnostic
  <2>3. DOMAIN nothing = {}  OBVIOUS
  <2> DEFINE said == <<d>>
             r == results[i]
  <2>5. r = TargetResult(i, no, nothing, nothing, said)  BY <2>1
  <2>6. IsSequence(said) /\ HasErrorDiagnostic(said)  BY <2>2
  <2> HIDE DEF no, nothing, said, r
  <2>7. r.certname = i /\ r.nodeDiff = nothing /\ ValidTarget(r)
    BY <2>3, <2>5, <2>6, FailedIsValid
  <2> QED BY <2>7 DEF r, nothing
<1>4. CASE WasCompared(i)
  <2> DEFINE input == done[i]
             both == NodeDiffOf(i)
             d == both.nodeDiff
             r == results[i]
             given == <<input.baseline>>
             found == <<d>>
  <2>1. r = TargetResult(i, input.policy.failOnDiff, given, found, both.diagnostics)
    BY <1>4 DEF WasCompared, ResultOf
  <2>2. input \in Inputs[i]  BY <1>4 DEF WasCompared
  <2> HIDE DEF both, r
  <2>3. r.nodeDiff = found  BY <2>1 DEF TargetResult
  <2>4. i \in Compared  BY <1>1, <2>3, OneInList DEF Compared, r
  <2>5. IsSequence(both.diagnostics)  BY <2>4, DiffDiagnostics DEF both
  <2>6. found[1] = d /\ found # <<>> /\ DOMAIN given = {1} /\ given[1] = input.baseline
    OBVIOUS
  <2> HIDE DEF found, given
  <2>7. /\ r.certname = i /\ r.baseline = given /\ r.diagnostics = both.diagnostics
        /\ r.outcome \in Outcomes
        /\ HasErrorDiagnostic(both.diagnostics) => r.outcome \in Failures
        /\ ~HasErrorDiagnostic(both.diagnostics) =>
             /\ r.outcome \in {"clean", "differences_allowed", "policy_disallowed_difference"}
             /\ r.outcome = "clean" <=> ~d.hasDifference
    BY <2>1, <2>5, <2>6, ResultIsClassified
  <2>8. DiffOf(i) = d  BY <2>3, <2>6 DEF DiffOf, r
  <2>9. d.certname = i  BY <2>4, <2>8, PublishedChanges
  <2>10. /\ \A j \in DOMAIN d.resourceChanges : Acceptable(d.resourceChanges[j])
         /\ \A j \in DOMAIN d.edgeChanges :
              /\ d.edgeChanges[j].kind \in EdgeKinds
              /\ "" \notin {d.edgeChanges[j].edge.source.title, d.edgeChanges[j].edge.target.title}
         /\ d.hasDifference <=> d.resourceChanges # <<>> \/ d.edgeChanges # <<>>
    BY <2>4, <2>8, PublishedIsAccepted
  <2> HIDE DEF d
  <2>11. \A j \in DOMAIN d.resourceChanges : ValidResourceChange(d.resourceChanges[j])
    BY <2>10 DEF Acceptable
  <2>12. i \in Targets  BY <2>4, ComparedHas
  <2>13. \A j \in DOMAIN r.baseline : ValidCapture(r.baseline[j])
    <3>1. IsBaseline(input.baseline)  BY <2>2, <2>12, InputsAreNormalized
    <3> QED BY <2>6, <2>7, <3>1, BaselineIsValid
  <2>14. ~HasErrorDiagnostic(both.diagnostics) => ValidNodeDiff(r)
    BY <2>3, <2>6, <2>7, <2>9, <2>10, <2>11 DEF ValidNodeDiff
  <2>15. ValidTarget(r)  BY <2>3, <2>6, <2>7, <2>13, <2>14 DEF ValidTarget, Failures
  <2>16. r.nodeDiff = <<DiffOf(i)>>  BY <2>3, <2>8 DEF found
  <2> QED BY <2>4, <2>7, <2>15, <2>16 DEF r
<1> QED BY <1>2, <1>3, <1>4
----------------------------------------------------------------------------
(* The groups of a document are what a reader accepts.                     *)

\* What a group says of its members' content is of what they say.
LEMMA CombinedIsKnown ==
  ASSUME NEW n \in Nat, NEW ms, IsSequence(ms), DOMAIN ms = 1 .. n,
         \A k \in 1 .. n :
           \/ ms[k].content = <<>>
           \/ \E e : /\ ms[k].content = <<e>>
                     /\ e.state \in KnownFileContentStates /\ e.source \in KnownEvidenceSources
  PROVE  \A k \in DOMAIN CombinedContent(ms) :
           /\ CombinedContent(ms)[k].state \in KnownFileContentStates
           /\ CombinedContent(ms)[k].source \in KnownEvidenceSources
<1> DEFINE keep == {i \in DOMAIN ms : ms[i].content # <<>>}
           with == Kept(ms, keep)
           all == {with[i].content[1] : i \in DOMAIN with}
           sources == {e.source : e \in all}
           rest == [state |-> with[1].content[1].state,
                    source |-> CombinedSource(sources),
                    redacted |-> \E e \in all : e.redacted,
                    referenceChanged |-> \E e \in all : e.referenceChanged,
                    before |-> CombinedSide({e.before : e \in all}),
                    after |-> CombinedSide({e.after : e \in all})]
<1>1. CombinedContent(ms) = IF with = <<>> THEN <<>> ELSE <<rest>>
  BY DEF CombinedContent
<1>2. rest.state = with[1].content[1].state /\ rest.source = CombinedSource(sources)  OBVIOUS
<1> HIDE DEF rest
<1>3. \A k \in DOMAIN CombinedContent(ms) : with # <<>> /\ CombinedContent(ms)[k] = rest
  <2>1. DOMAIN <<>> = {} /\ DOMAIN <<rest>> = {1} /\ <<rest>>[1] = rest  OBVIOUS
  <2> HIDE DEF with
  <2> QED BY <1>1, <2>1
<1>4. IsSequence(with) /\ ToSet(with) = {ms[j] : j \in keep}
  <2>1. keep \subseteq DOMAIN ms  OBVIOUS
  <2> HIDE DEF keep
  <2> QED BY <2>1, KeptOfList
<1> HIDE DEF with
<1>5. \A j \in keep : /\ ms[j].content[1].state \in KnownFileContentStates
                      /\ ms[j].content[1].source \in KnownEvidenceSources
  <2> TAKE j \in keep
  <2>1. PICK e : /\ ms[j].content = <<e>>
                 /\ e.state \in KnownFileContentStates /\ e.source \in KnownEvidenceSources
    OBVIOUS
  <2>2. <<e>>[1] = e  OBVIOUS
  <2> QED BY <2>1, <2>2
<1> HIDE DEF keep
<1>6. \A i \in DOMAIN with : /\ with[i].content[1].state \in KnownFileContentStates
                             /\ with[i].content[1].source \in KnownEvidenceSources
  <2> TAKE i \in DOMAIN with
  <2>1. with[i] \in ToSet(with)  BY DEF ToSet
  <2>2. PICK j \in keep : with[i] = ms[j]  BY <1>4, <2>1
  <2> QED BY <1>5, <2>2
<1>7. sources \subseteq KnownEvidenceSources  BY <1>6
<1>8. CombinedSource(sources) \in KnownEvidenceSources
  <2>1. \A S : S \subseteq KnownEvidenceSources => CombinedSource(S) \in KnownEvidenceSources
    BY DEF CombinedSource, KnownEvidenceSources
  <2> HIDE DEF sources
  <2> QED BY <1>7, <2>1
<1>9. with # <<>> => 1 \in DOMAIN with
  <2>1. Len(with) \in Nat /\ DOMAIN with = 1 .. Len(with)  BY <1>4, ListsHaveLengths
  <2>2. with = <<>> <=> ToSet(with) = {}  BY <1>4, EmptyList
  <2> QED BY <2>1, <2>2 DEF ToSet
<1> HIDE DEF sources
<1> QED BY <1>2, <1>3, <1>6, <1>8, <1>9
\* What a change says is what the key of its group says.
LEMMA KeyOfMember ==
  ASSUME ComparisonInv, NEW key, ~IsEdgeKind(key.kind), NEW m \in Mine(key)
  PROVE  LET change == ChangeOf(m)
         IN  /\ key.kind = change.kind /\ key.id = change.id /\ key.parameter = change.parameter
             /\ Acceptable(change)
<1>1. IsMember(m) /\ m.key = key  BY MembersAreChanges
<1> DEFINE d == DiffOf(m.certname)
           j == m.index
           change == d.resourceChanges[j]
<1>2. m = ResourceMember(d, j) /\ j \in DOMAIN d.resourceChanges /\ m.certname \in Compared
  BY <1>1 DEF IsMember
<1>3. Acceptable(change)  BY <1>2, PublishedIsAccepted
<1> HIDE DEF d, j
<1>4. m.key = ResourceKey(d, j)  BY <1>2 DEF ResourceMember
<1>5. key.kind = change.kind /\ key.id = change.id /\ key.parameter = change.parameter
  BY <1>1, <1>4 DEF ResourceKey
<1> QED BY <1>3, <1>5 DEF ChangeOf, d, j

\* A reference of a group leads to the row it was made of.
LEMMA RefLeadsToRow ==
  ASSUME ComparisonInv, NEW m \in AllMembers, NEW doc, doc.targets = results,
         NEW group, group.key.kind = m.key.kind,
         NEW ref, ref.certname = m.certname, ref.index = m.index
  PROVE  ValidRef(doc, group, ref)
<1> DEFINE i == m.certname
           d == DiffOf(i)
           rows == IF group.key.kind \in EdgeKinds THEN d.edgeChanges ELSE d.resourceChanges
<1>1. /\ i \in Compared /\ m.index \in DOMAIN RowsOfKind(m.key.kind, i)
      /\ RowsOfKind(m.key.kind, i)[m.index].kind = m.key.kind
  BY MembersAreRows
<1>2. RowsOfKind(m.key.kind, i) = rows  BY DEF RowsOfKind, IsEdgeKind, EdgeKinds
<1>3. i \in 1 .. Len(results)  BY <1>1, ComparedHas
<1>4. results[i].certname = i /\ results[i].nodeDiff = <<d>>
  BY <1>1, <1>3, TargetsAreValid DEF Compared
<1>5. i \in DOMAIN results  BY <1>1 DEF Compared
<1>6. d \in ToSet(<<d>>)  BY OneInList
<1> HIDE DEF d, i
<1>7. d \in ToSet(doc.targets[i].nodeDiff)  BY <1>4, <1>6
<1>8. i \in TargetsNamed(doc, ref.certname)  BY <1>4, <1>5 DEF TargetsNamed, i
<1>9. ref.index \in DOMAIN rows /\ rows[ref.index].kind = group.key.kind  BY <1>1, <1>2
<1> QED BY <1>7, <1>8, <1>9 DEF ValidRef

\* A group of the aggregate is one that a reader accepts.
LEMMA GroupIsAccepted ==
  ASSUME ComparisonInv, NEW x \in AllMembers,
         NEW g, g = Group(x.key, MembersOf(x.key, AllMembers)),
         NEW doc, doc.targets = results
  PROVE  /\ ValidGroup(doc, g)
         /\ g.key.kind \in ResourceKinds =>
              /\ Publishable(g.key.id.type, g.key.parameter, g.before)
              /\ Publishable(g.key.id.type, g.key.parameter, g.after)
<1> DEFINE key == x.key
           ms == MembersOf(key, AllMembers)
           n == Cardinality(Mine(key))
           befores == [k \in DOMAIN ms |-> ms[k].before]
           afters == [k \in DOMAIN ms |-> ms[k].after]
<1>1. /\ g.key = PublicKey(key)
      /\ g.certnames = {ms[k].certname : k \in DOMAIN ms}
      /\ g.refs = [k \in DOMAIN ms |-> [certname |-> ms[k].certname, index |-> ms[k].index]]
      /\ g.before = Projection(befores) /\ g.after = Projection(afters)
      /\ g.content = CombinedContent(ms)
  BY DEF Group
<1>2. Mine(key) # {}  BY DEF Mine
<1>3. /\ n \in Nat /\ n # 0 /\ DOMAIN ms = 1 .. n /\ IsSequence(ms)
      /\ \A k \in 1 .. n : ms[k] \in Mine(key)
  BY <1>2, MembersOfAnyKey
<1>4. /\ g.key.kind = key.kind
      /\ ~IsEdgeKind(key.kind) => g.key.id = key.id /\ g.key.parameter = key.parameter
  BY <1>1 DEF PublicKey
<1>5. befores = [k \in DOMAIN ms |-> ms[k].before] /\ afters = [k \in DOMAIN ms |-> ms[k].after]
  OBVIOUS
<1>6. ~IsEdgeKind(key.kind) => AreMembers(ms, n, key)  BY <1>2, MembersOfKey
<1> HIDE DEF key, ms, n, befores, afters
<1>7. \A k \in 1 .. n : ms[k] \in AllMembers /\ ms[k].key = key  BY <1>3 DEF Mine
<1>8. /\ DOMAIN g.refs = 1 .. n
      /\ \A k \in 1 .. n : g.refs[k].certname = ms[k].certname /\ g.refs[k].index = ms[k].index
  BY <1>1, <1>3
<1>9. \A k \in DOMAIN g.refs : ValidRef(doc, g, g.refs[k])
  <2> TAKE k \in DOMAIN g.refs
  <2>1. ms[k] \in AllMembers /\ g.key.kind = ms[k].key.kind  BY <1>4, <1>7, <1>8
  <2>2. g.refs[k].certname = ms[k].certname /\ g.refs[k].index = ms[k].index  BY <1>8
  <2> QED BY <2>1, <2>2, RefLeadsToRow
<1>10. g.refs # <<>>  BY <1>3, <1>8
<1>11. g.certnames = {g.refs[k].certname : k \in DOMAIN g.refs}
  BY <1>1, <1>3, <1>8
<1>12. CASE IsEdgeKind(key.kind)
  <2>1. \A k \in 1 .. n : ms[k].content = <<>>
    <3> TAKE k \in 1 .. n
    <3>1. ms[k] = EdgeMember(DiffOf(ms[k].certname), ms[k].index)  BY <1>7, <1>12, MembersAreRows
    <3> QED BY <3>1 DEF EdgeMember
  <2>2. \A k \in DOMAIN g.content : /\ g.content[k].state \in KnownFileContentStates
                                    /\ g.content[k].source \in KnownEvidenceSources
    BY <1>1, <1>3, <2>1, CombinedIsKnown
  <2>3. g.key.kind \in EdgeKinds /\ g.key.kind \notin ResourceKinds
    BY <1>4, <1>12 DEF IsEdgeKind, EdgeKinds, ResourceKinds
  <2> QED BY <1>9, <1>10, <1>11, <2>2, <2>3 DEF ValidGroup
<1>13. CASE ~IsEdgeKind(key.kind)
  <2>1. \A k \in 1 .. n :
          LET change == ChangeOf(ms[k])
          IN  /\ key.kind = change.kind /\ key.id = change.id /\ key.parameter = change.parameter
              /\ Acceptable(change)
    BY <1>3, <1>13, KeyOfMember
  <2>2. \A k \in 1 .. n : /\ ms[k].before = ChangeOf(ms[k]).before
                          /\ ms[k].after = ChangeOf(ms[k]).after
                          /\ ms[k].content = ChangeOf(ms[k]).content
                          /\ ChangeIsOf(ChangeOf(ms[k]))
    BY <1>3, <1>13, MembersAreChanges
  <2>3. \A k \in 1 .. n :
          \/ ms[k].content = <<>>
          \/ \E e : /\ ms[k].content = <<e>>
                    /\ e.state \in KnownFileContentStates /\ e.source \in KnownEvidenceSources
    <3> TAKE k \in 1 .. n
    <3>1. ASSUME NEW e, ms[k].content = <<e>>
          PROVE  e.state \in KnownFileContentStates /\ e.source \in KnownEvidenceSources
      <4>1. \A j \in DOMAIN ms[k].content : ValidContent(ms[k].content[j])
        BY <2>1, <2>2 DEF Acceptable, ValidResourceChange
      <4>2. DOMAIN <<e>> = {1} /\ <<e>>[1] = e  OBVIOUS
      <4>3. ValidContent(e)  BY <3>1, <4>1, <4>2
      <4> QED BY <4>3 DEF ValidContent
    <3> QED BY <2>2, <3>1 DEF ChangeIsOf
  <2>4. \A k \in DOMAIN g.content : /\ g.content[k].state \in KnownFileContentStates
                                    /\ g.content[k].source \in KnownEvidenceSources
    BY <1>1, <1>3, <2>3, CombinedIsKnown
  <2>5. 1 \in 1 .. n  BY <1>3
  <2>6. key.kind \in ResourceKinds
    BY <2>1, <2>5 DEF Acceptable, ValidResourceChange
  <2>7. key.kind \in ResourceKinds \ {"parameter_changed"} => key.parameter = ""
    BY <2>1, <2>5 DEF Acceptable
  <2>8. ValidGroup(doc, g)
    BY <1>4, <1>9, <1>10, <1>11, <1>13, <2>4, <2>6, <2>7 DEF ValidGroup
  <2>9. \A k \in 1 .. n : /\ Publishable(key.id.type, key.parameter, ms[k].before)
                          /\ Publishable(key.id.type, key.parameter, ms[k].after)
    BY <2>1, <2>2 DEF Acceptable
  <2>10. /\ Publishable(key.id.type, key.parameter, Projection(befores))
         /\ Publishable(key.id.type, key.parameter, Projection(afters))
    BY <1>5, <1>6, <1>13, <2>9, GroupIsPublishable
  <2> QED BY <1>1, <1>4, <1>13, <2>8, <2>10
<1> QED BY <1>12, <1>13

\* The document of a comparison, whatever its catalogs held, its targets'
\* policies were and its targets failed with, is one that its readers accept.
THEOREM ProducedIsAcceptedHolds == ComparisonSpec => []ProducedIsAccepted
<1>1. ComparisonInv => ProducedIsAccepted
  <2> SUFFICES ASSUME ComparisonInv, document # <<>>
               PROVE  Valid(document[1])
    BY DEF ProducedIsAccepted
  <2> DEFINE doc == document[1]
  <2>1. PICK diagnostics \in RunDiagnostics : document = <<Document(diagnostics)>>
    BY DEF ComparisonInv, ThenFinished
  <2>2. doc = Document(diagnostics)  BY <2>1
  <2>3. groups = <<Build(Diffs)>> /\ Len(results) = Cardinality(Targets)
    BY DEF ComparisonInv, ThenAggregated, ThenFinished
  <2> HIDE DEF doc
  <2>4. doc.targets = results /\ doc.groups = groups[1] /\ doc.diagnostics = diagnostics
    BY <2>2 DEF Document
  <2>5. ValidOutcome(doc)
    BY <2>2 DEF Document, ValidOutcome
  <2>6. DOMAIN results = 1 .. Len(results) /\ Len(results) \in Nat
    BY ListsHaveLengths DEF ComparisonInv, InTargetOrder
  <2>7. \A i \in DOMAIN doc.targets :
          /\ ValidTarget(doc.targets[i]) /\ doc.targets[i].certname = i
          /\ \/ doc.targets[i].nodeDiff = <<>>
             \/ i \in Compared /\ doc.targets[i].nodeDiff = <<DiffOf(i)>>
    BY <2>4, <2>6, TargetsAreValid
  <2>8. doc.targets # <<>>
    <3>1. Len(results) # 0  BY <2>3, TargetsAreNumbered, FS_EmptySet
    <3> QED BY <2>4, <2>6, <3>1
  <2>9. \A g \in doc.groups :
          /\ ValidGroup(doc, g)
          /\ g.key.kind \in ResourceKinds =>
               /\ Publishable(g.key.id.type, g.key.parameter, g.before)
               /\ Publishable(g.key.id.type, g.key.parameter, g.after)
    <3> TAKE g \in doc.groups
    <3>1. g \in Build(Diffs)  BY <2>3, <2>4
    <3>2. PICK x \in AllMembers : g = Group(x.key, MembersOf(x.key, AllMembers))
      BY <3>1 DEF Build, AllMembers
    <3> QED BY <2>4, <3>2, GroupIsAccepted
  <2>10. ASSUME NEW i \in DOMAIN doc.targets, NEW d \in ToSet(doc.targets[i].nodeDiff),
                NEW j \in DOMAIN d.resourceChanges
         PROVE  LET c == d.resourceChanges[j]
                IN  /\ Publishable(c.id.type, c.parameter, c.before)
                    /\ Publishable(c.id.type, c.parameter, c.after)
    <3>1. doc.targets[i].nodeDiff # <<>>  BY <2>10, NoneInList
    <3>2. i \in Compared /\ doc.targets[i].nodeDiff = <<DiffOf(i)>>  BY <2>7, <3>1
    <3>3. d = DiffOf(i)  BY <3>2, OneInList
    <3>4. Acceptable(d.resourceChanges[j])  BY <3>2, <3>3, PublishedIsAccepted
    <3> QED BY <3>4 DEF Acceptable
  <2>11. Disclosed(doc)  BY <2>9, <2>10 DEF Disclosed
  <2> QED BY <2>5, <2>7, <2>8, <2>9, <2>11 DEF Valid, doc
<1> QED BY <1>1, ComparisonInvariant, PTL
=============================================================================
