-------------------------- MODULE CandidateRequest --------------------------
(***************************************************************************)
(* internal/compiler: what RequestCandidate decides, apart from when it    *)
(* sends. A policy is the target's resolved candidate block; facts is the  *)
(* factset it was given; an answer is what the compiler sends back:        *)
(*                                                                         *)
(*   unreachable   no HTTP response (TLS, connect, timeout, too large)     *)
(*   generic404    404 with an empty or literal "Not Found" body           *)
(*   refused       any other status outside 2xx                            *)
(*   rejected      2xx with an "error" member                              *)
(*   malformed     2xx, not the JSON document the endpoint returns         *)
(*   catalog       2xx with a catalog for some name and environment        *)
(***************************************************************************)

\* What an answer that carries a catalog may say: anyone's, from anywhere.
CatalogAnswers(names, environments) ==
  [kind : {"catalog"}, name : names, env : environments]

OtherAnswers ==
  [kind : {"unreachable", "generic404", "refused", "rejected", "malformed"}]

\* decideTrustedFacts: supplied facts are preferred to the compiler's lookup.
TrustedFactsSource(policy, facts) ==
  CASE facts.trusted -> "provided"
    [] ~facts.trusted /\ policy.lookup -> "compiler_lookup"
    [] OTHER -> "none"

\* Mutant: the fallback needs no policy.
FallbackAlways(policy, answer) == answer.kind = "generic404"

\* isFallbackEligibleV4, under the target's explicit policy.
FallsBack(policy, answer) == policy.allowFallback /\ answer.kind = "generic404"

\* processResponse: "accepted", or the operation of the error it reports. A
\* catalog counts only for the very target and environment it was asked for.
ProcessResponse(answer, certname, environment) ==
  CASE answer.kind \in {"unreachable", "malformed"} -> "request_candidate_transport"
    [] answer.kind = "catalog" /\ answer.name = certname /\ answer.env = environment ->
         "accepted"
    [] OTHER -> "request_candidate"

-----------------------------------------------------------------------------
(* Provenance: which API was asked for and which one answered.             *)

ProvenanceV4(policy, facts) ==
  [requested |-> "v4", effective |-> "v4", fellBack |-> FALSE,
   trusted |-> TrustedFactsSource(policy, facts), factSource |-> policy.factSource]

\* A v3 attempt, direct or after a permitted fallback.
ProvenanceV3(policy, fellBack) ==
  [requested |-> policy.api, effective |-> "v3", fellBack |-> fellBack,
   trusted |-> "none", factSource |-> policy.factSource]

Provenances ==
  [requested : {"v3", "v4"}, effective : {"v3", "v4"}, fellBack : BOOLEAN,
   trusted : {"none", "provided", "compiler_lookup"},
   factSource : {"puppetdb", "file"}]

\* snapshot.validateCaptureProvenance: the sequences of requests that can
\* have happened.
ValidProvenance(p) ==
  /\ IF p.fellBack THEN p.requested = "v4" /\ p.effective = "v3"
     ELSE p.requested = p.effective
  /\ p.effective = "v4" <=> p.trusted # "none"
=============================================================================
