---------------------------- MODULE FileContent ----------------------------
(***************************************************************************)
(* internal/filecontent: what is known of the bytes that a File resource   *)
(* manages, and what two catalogs' evidence says of them.  These are pure  *)
(* operators; asking the compiler for a source is the caller's step.       *)
(*                                                                         *)
(* A file is a record of its parameters without their Sensitive wrappers   *)
(* ("p", a hash), its static metadata and captured digest (sequences of at *)
(* most one), and whether it has recursive metadata.  A side is a file and *)
(* the context of its catalog.  The bytes of a file, a source reference    *)
(* and a digest are texts, that is, sequences of tokens: a digest is the   *)
(* token of its length and the bytes it was made of.                       *)
(***************************************************************************)
EXTENDS Values, Naturals

\* The digest of bytes is as long as its algorithm makes it, and no two
\* different contents have the same.
HexLength ==
  [md5 |-> "hex32", sha224 |-> "hex56", sha256 |-> "hex64",
   sha384 |-> "hex96", sha512 |-> "hex128"]
HashOf(algorithm, bytes) == <<HexLength[algorithm]>> \o bytes

\* Puppet may write the algorithm in front of the digest.
AlgorithmPrefix ==
  [md5 |-> "{md5}", sha224 |-> "{sha224}", sha256 |-> "{sha256}",
   sha384 |-> "{sha384}", sha512 |-> "{sha512}"]

\* A digest is that of its algorithm.
IsDigest(e) ==
  /\ IsSequence(e.digest) /\ e.digest # <<>>
  /\ e.algorithm \in DOMAIN HexLength /\ e.digest[1] = HexLength[e.algorithm]

IsTokens(v) == IsText(v) => IsSequence(v.text)
AreDigests(s) == s # <<>> => IsSequence(s[1].digest)

\* What a catalog can say of a file: texts are sequences of tokens, digests
\* among them, and a list is a sequence of values.
WellFormed(file) ==
  /\ file = [p |-> file.p, static |-> file.static, captured |-> file.captured,
             recursive |-> file.recursive]
  /\ \A name \in FileContentBearingParameters : IsTokens(Under(file.p, name))
  /\ LET source == Under(file.p, "source") IN
     IsList(source) =>
       /\ IsSequence(source.items)
       /\ \A i \in DOMAIN source.items : IsTokens(source.items[i])
  /\ AreDigests(file.static) /\ AreDigests(file.captured)

-----------------------------------------------------------------------------
(* What one side knows                                                      *)

Verified(source, algorithm, digest) ==
  [ok |-> TRUE, source |-> source, algorithm |-> algorithm, digest |-> digest, reason |-> ""]
Unverified(source, reason) ==
  [ok |-> FALSE, source |-> source, algorithm |-> "", digest |-> <<>>, reason |-> reason]

Manages(file) == Under(file.p, "ensure") \notin {Text(<<"absent">>), Text(<<"link">>)}

IsDirectoryOrRecursive(file) ==
  \/ Under(file.p, "ensure") = Text(<<"directory">>)
  \/ LET recurse == Under(file.p, "recurse") IN
     \/ IsText(recurse) /\ recurse.text \notin {<<>>, <<"false">>, <<"0">>}
     \/ IsBoolean(recurse) /\ recurse.boolean
     \/ IsNumber(recurse) /\ (recurse.number.int # <<0>> \/ recurse.number.frac # <<>>)

NonByteComparable(file) ==
  \/ file.recursive
  \/ IsDirectoryOrRecursive(file)
  \/ \E i \in DOMAIN file.static : file.static[i].type # "file"

NeedsEvidence(file) ==
  \/ \E name \in {"content", "source", "checksum_value"} : Under(file.p, name) # Undef
  \/ file.static # <<>> \/ file.captured # <<>> \/ file.recursive

\* A supported algorithm and a digest of its length, perhaps behind its prefix.
ValidateDigest(source, algorithm, text) ==
  LET prefixed == text # <<>> /\ text[1] \in {AlgorithmPrefix[a] : a \in DOMAIN AlgorithmPrefix}
      digest == IF prefixed THEN Tail(text) ELSE text
      valid == /\ algorithm \in DOMAIN HexLength
               /\ prefixed => text[1] = AlgorithmPrefix[algorithm]
               /\ digest # <<>> /\ digest[1] = HexLength[algorithm]
  IN  IF valid THEN Verified(source, algorithm, digest)
      ELSE Unverified(source, "invalid_checksum")

\* Without an algorithm a checksum_value is a SHA-256 digest; one that is
\* there and null names none.
CompiledChecksum(p) ==
  LET value == Under(p, "checksum_value")
      algorithm == IF "checksum" \in DOMAIN p.at THEN p.at["checksum"] ELSE Text(<<"sha256">>)
  IN  IF ~IsText(algorithm) \/ ~IsText(value)
      THEN Unverified("", "invalid_checksum")
      ELSE ValidateDigest("compiled_checksum",
             IF Len(algorithm.text) = 1 THEN algorithm.text[1] ELSE "", value.text)

\* The references of a source parameter, none when it names no source or
\* holds something else than names.
References(value) ==
  LET names == CASE IsText(value) -> <<value>>
                 [] IsList(value) -> value.items
                 [] OTHER -> <<>>
  IN  IF \A i \in DOMAIN names : IsText(names[i]) /\ names[i].text # <<>>
      THEN [i \in DOMAIN names |-> names[i].text]
      ELSE <<>>

\* What the catalog itself says, and the references to ask for when it says
\* nothing: the catalogs PIACE compares with are historical, and for those
\* no one is asked.
LocalEvidence(side, retriever) ==
  LET p == side.file.p
      content == Under(p, "content")
      answer(evidence) == [evidence |-> evidence, ask |-> <<>>]
  IN
  IF NonByteComparable(side.file) THEN answer(Unverified("", "non_byte_comparable"))
  ELSE IF IsText(content)
  THEN answer(Verified("inline_content", "sha256", HashOf("sha256", content.text)))
  ELSE IF Under(p, "checksum_value") # Undef THEN answer(CompiledChecksum(p))
  ELSE IF side.file.static # <<>>
  THEN answer(ValidateDigest("static_metadata", side.file.static[1].algorithm,
                             side.file.static[1].digest))
  ELSE IF side.file.captured # <<>>
  THEN answer(ValidateDigest("captured_digest", side.file.captured[1].algorithm,
                             side.file.captured[1].digest))
  ELSE IF side.context.historical THEN answer(Unverified("", "historical"))
  ELSE IF References(Under(p, "source")) = <<>> THEN answer(Unverified("", "no_content_or_source"))
  ELSE IF ~retriever THEN answer(Unverified("", "no_retriever"))
  ELSE IF side.context.environment = "" THEN answer(Unverified("", "no_environment"))
  ELSE [evidence |-> Unverified("", "not_found"), ask |-> References(Under(p, "source"))]

-----------------------------------------------------------------------------
(* Asking the compiler for one reference                                    *)

\* The tokens of a path that are refused, as they are or once unescaped.
UnsafeTokens == {".", "..", "%2e%2e", "%25", "?", "#", "\\", "NUL"}

\* The reason a reference is refused, "" for one that can be asked for:
\* puppet:// and a path, with no authority between them.
ParsePuppetSourceURI(ref) ==
  LET rest == Tail(ref)
      slashes == {i \in DOMAIN rest : rest[i] = "/"}
      path == SubSeq(rest, 2, Len(rest))
  IN
  IF ref[1] # "puppet://" \/ slashes = {} THEN "unsupported_scheme"
  ELSE IF rest[1] # "/" THEN "unsupported_authority"
  ELSE IF path = <<>> THEN "unsupported_scheme"
  ELSE IF \/ \E i \in DOMAIN path : path[i] \in UnsafeTokens
          \/ path[1] = "/"
          \/ \E i \in 1 .. Len(path) - 1 : path[i] = "/" /\ path[i + 1] = "/"
  THEN "unsafe_path"
  ELSE ""

\* Mutant: any 404 will do.
AnyNotFound(response) == response.status = 404

\* A router's plain 404 does not say that the source is absent.
SourceAbsent(response) ==
  response.status = 404 /\ response.body \in {"RESOURCE_NOT_FOUND", "could_not_find_file_content"}

\* What an answer for one reference amounts to; only "not_found" lets the
\* next reference be asked for.
Digest(ref, response) ==
  IF ParsePuppetSourceURI(ref) # "" THEN Unverified("", ParsePuppetSourceURI(ref))
  ELSE IF SourceAbsent(response) THEN Unverified("", "not_found")
  ELSE IF response.status # 200 THEN Unverified("", "failed")
  ELSE Verified("compiler_retrieval", "sha256", HashOf("sha256", response.bytes))

-----------------------------------------------------------------------------
(* What a reader is told                                                    *)

\* Evidence that never existed is a warning, an attempt that failed an error.
ClassifyEvidenceError(reason) ==
  IF reason \in {"non_byte_comparable", "historical", "unsupported_scheme", "no_content_or_source"}
  THEN "warning" ELSE "error"

VerifyContent(severity, reason) == <<[severity |-> severity, reason |-> reason]>>

NoEvidence(state) ==
  [state |-> state, source |-> "", algorithm |-> "", beforeDigest |-> <<>>, afterDigest |-> <<>>,
   redacted |-> FALSE, before |-> <<>>, after |-> <<>>, referenceChanged |-> FALSE]

Unknown(side) == [context |-> side.context, source |-> "", verified |-> FALSE]
Known(side, resolved) == [context |-> side.context, source |-> resolved.source, verified |-> resolved.ok]

\* Mutant: the severity is not looked at.
SuppressAll(suppress, severity, evidence, sides) ==
  /\ suppress
  /\ \E side \in sides : Under(side.file.p, "source") # Undef

\* Options.suppressSourceWarning: warnings about a resource with a source are
\* left out on request, but not that of two verified digests.
SuppressSourceWarning(suppress, severity, evidence, sides) ==
  /\ suppress /\ severity = "warning"
  /\ \E s \in {evidence.before, evidence.after} : s # <<>> /\ ~s[1].verified
  /\ \E side \in sides : Under(side.file.p, "source") # Undef

Told(suppress, severity, reason, evidence, sides) ==
  [evidence |-> evidence,
   diagnostics |-> IF SuppressSourceWarning(suppress, severity, evidence, sides)
                   THEN <<>> ELSE VerifyContent(severity, reason)]

Untold(evidence) == [evidence |-> evidence, diagnostics |-> <<>>]

\* ResolveMembershipEvidence, with what the one side resolved to.
MembershipEvidence(kind, side, resolved, suppress) ==
  LET added == kind = "resource_added"
      known == [NoEvidence(IF resolved.ok THEN kind ELSE "content_indeterminate") EXCEPT
                  !.source = resolved.source,
                  !.algorithm = resolved.algorithm,
                  !.beforeDigest = IF added THEN <<>> ELSE resolved.digest,
                  !.afterDigest = IF added THEN resolved.digest ELSE <<>>,
                  !.before = IF added THEN <<>> ELSE <<Known(side, resolved)>>,
                  !.after = IF added THEN <<Known(side, resolved)>> ELSE <<>>]
  IN
  IF ~Manages(side.file) THEN Untold(NoEvidence("not_managed"))
  ELSE IF resolved.ok THEN Untold(known)
  ELSE Told(suppress, ClassifyEvidenceError(resolved.reason), resolved.reason, known, {side})

StateFromDigests(b, a) == IF b = a THEN "unchanged" ELSE "changed"

\* Mutant: two digests are compared whatever they are digests of.
BothVerified(b, a) == b.ok /\ a.ok

Comparable(b, a) == b.ok /\ a.ok /\ b.algorithm = a.algorithm

\* The more severe of two failures is the one reported, the baseline's among
\* two that are equally severe.
ReportedFailure(b, a) ==
  CASE a.ok -> b.reason
    [] b.ok -> a.reason
    [] OTHER -> IF ClassifyEvidenceError(a.reason) = "error" /\ ClassifyEvidenceError(b.reason) = "warning"
                THEN a.reason ELSE b.reason

\* ResolveFileContentEvidence, with what the two sides resolved to.
ComparedEvidence(before, after, b, a, suppress) ==
  LET sides == {before, after}
      referenceChanged == Under(before.file.p, "source") # Under(after.file.p, "source")
      unresolved == IF referenceChanged THEN "reference_changed" ELSE "content_indeterminate"
      known == [NoEvidence(unresolved) EXCEPT
                  !.before = <<Known(before, b)>>, !.after = <<Known(after, a)>>,
                  !.referenceChanged = referenceChanged]
      unknown == [known EXCEPT !.before = <<Unknown(before)>>, !.after = <<Unknown(after)>>]
  IN
  IF \E side \in sides : ~Manages(side.file) THEN Untold(NoEvidence("not_managed"))
  ELSE IF \E side \in sides : NonByteComparable(side.file)
  THEN Told(suppress, "warning", "non_byte_comparable", unknown, sides)
  ELSE IF Comparable(b, a)
  THEN Untold([known EXCEPT !.state = StateFromDigests(b.digest, a.digest),
                            !.source = IF b.source = a.source THEN b.source ELSE "mixed",
                            !.algorithm = b.algorithm,
                            !.beforeDigest = b.digest, !.afterDigest = a.digest])
  ELSE IF b.ok /\ a.ok THEN Told(suppress, "warning", "different_algorithms", known, sides)
  ELSE LET reason == ReportedFailure(b, a)
       IN  Told(suppress, ClassifyEvidenceError(reason), reason, known, sides)

\* States that are nothing to report: the first two are answers, the third
\* is a comparison that could not be made.
ReportsDifference(evidence) ==
  evidence.state \notin {"unchanged", "not_managed", "content_indeterminate"}
=============================================================================
