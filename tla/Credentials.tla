----------------------------- MODULE Credentials -----------------------------
(***************************************************************************)
(* What the envelope modules of the three contract majors share: symbolic  *)
(* credentials, arithmetic on i64, the bounds and the facts.               *)
(*                                                                         *)
(* A compact JWS is a record: the claims, a form, and the key whose        *)
(* private half signed exactly these bytes (NoKey: nobody did).  The form  *)
(* stands for every byte that may differ between two compacts with the     *)
(* same claims: member order, JSON whitespace, the proof jti, a second     *)
(* signature by the same key.  SHA-256 of a compact is the compact, the    *)
(* thumbprint of a key is the key, the digest of a request is the triple   *)
(* of domain, operation and arguments: equal exactly when the inputs are.  *)
(***************************************************************************)
EXTENDS Integers, Signatures

CONSTANTS
  KeyId, Issuer, GrantId, Audience, Operation, Args, Method, Invocation,
  HttpsUri,       \* targets that uri_normalize leaves as they are
  LoopbackUri,    \* targets that local_loopback_http_uri_normalize leaves as they are
  Nonce, NoNonce,
  Form,
  I64Min, I64Max, \* the ends of i64
  MaxClockSkew,   \* Bounds::MAX_CLOCK_SKEW
  MaxProofAge     \* Bounds::MAX_PROOF_MAX_AGE

ASSUME NonceAssumption == NoNonce \notin Nonce
ASSUME UriAssumption == HttpsUri \cap LoopbackUri = {}
ASSUME BoundAssumption ==
  /\ MaxClockSkew \in Nat /\ MaxProofAge \in Nat
  /\ I64Min \in Int /\ I64Max \in Int /\ I64Min < 0 /\ 0 < I64Max

Majors == {1, 2, 3}
AllProfiles == {"standard", "local_loopback_http"}
I64 == I64Min .. I64Max

(***************************************************************************)
(* Types.                                                                  *)
(***************************************************************************)

SigningKind ==
  {"Grant", "Proof", "LocalLoopbackHttpProof", "RoleAttestation",
   "ContentAssertion", "ChainAnchor", "KeyTransition"}

Typ == {"ba+cap", "dpop+jwt", "ba+loopback-proof"}
Alg == {"EdDSA", "ES256"}

\* a selector is the set of arguments it admits, an operation lists selectors
Operations == UNION {[names -> SUBSET SUBSET Args] : names \in SUBSET Operation}

GrantClaims ==
  [alg : Alg, typ : Typ, kid : KeyId, v : Majors, iss : Issuer, jti : GrantId,
   aud : SUBSET Audience, iat : I64, nbf : I64, exp : I64, cnf : Key,
   operations : Operations]

GrantCompact ==
  [claims : GrantClaims, form : Form, scalar : Scalar, signer : Key \cup {NoKey}]

\* the domain prefixes of the request digest
RequestDomain == {"BAP1-REQUEST", "BAP2-REQUEST", "BAP3-REQUEST"}

ProofClaims ==
  [alg : Alg, typ : Typ, jwk : Key, v : Majors,
   htm : Method, htu : HttpsUri \cup LoopbackUri, iat : I64,
   nonce : Nonce \cup {NoNonce}, ba_inv : Invocation, ba_op : Operation,
   ath : GrantCompact, ba_req : RequestDomain \X Operation \X Args]

ProofCompact ==
  [claims : ProofClaims, form : Form, scalar : Scalar, signer : Key \cup {NoKey}]

\* what a grant producer and a proof producer are given; a proof is asked for a
\* request, and the loopback producer takes a nonce as well
GrantInput ==
  [kid : KeyId, iss : Issuer, jti : GrantId, aud : SUBSET Audience, iat : I64,
   nbf : I64, exp : I64, cnf : Key, operations : Operations]

ProofInput ==
  [htm : Method, htu : HttpsUri \cup LoopbackUri, ba_inv : Invocation,
   ba_op : Operation, args : Args, grant : GrantCompact, jwk : Key, iat : I64,
   nonce : Nonce \cup {NoNonce}]

\* a Bounds value can only come from its constructors, which tighten the maxima
Bounds == [clock_skew : 1 .. MaxClockSkew, proof_max_age : 1 .. MaxProofAge]

TrustedIssuer == [kid : KeyId, key : Key]

\* the host's context: everything a caller must supply to check_envelope; major
\* and profile say which entry point it calls, NoNonce is NonceMode::NotRequired
ExpectedRequest ==
  [major : Majors, profile : AllProfiles, trusted : TrustedIssuer,
   issuer : Issuer, audience : Audience, method : Method,
   uri : HttpsUri \cup LoopbackUri, inv : Invocation, operation : Operation,
   args : Args, now : I64, skew : Nat, max_age : Nat,
   nonce : Nonce \cup {NoNonce}, bounds : Bounds]

(***************************************************************************)
(* Arithmetic on i64, selectors and digests.                               *)
(***************************************************************************)

\* variant: two's complement
wrapping_add(a, b) == I64Min + ((a + b - I64Min) % (I64Max - I64Min + 1))

\* checked_add(b).unwrap_or(i64::MAX) and checked_sub(b).unwrap_or(i64::MIN), b >= 0
saturating_add(a, b) == IF a + b > I64Max THEN I64Max ELSE a + b

saturating_sub(a, b) == IF a - b < I64Min THEN I64Min ELSE a - b

evaluate(selector, args) == args \in selector

\* the domain prefix keeps the digests of the majors apart
request_digest_with(domain, operation, args) == <<domain, operation, args>>
request_digest(operation, args) == request_digest_with("BAP1-REQUEST", operation, args)

request_digest_successor(operation, args) ==
  request_digest_with("BAP2-REQUEST", operation, args)

request_digest_v3(operation, args) == request_digest_with("BAP3-REQUEST", operation, args)

(***************************************************************************)
(* The facts a successful call returns.                                    *)
(***************************************************************************)

grant_facts(g, e) ==
  [version |-> g.claims.v, issuer |-> g.claims.iss, grant_id |-> g.claims.jti,
   issuer_key |-> e.trusted.key, holder |-> g.claims.cnf,
   matched_audience |-> e.audience, issued_at |-> g.claims.iat,
   not_before |-> g.claims.nbf, expires_at |-> g.claims.exp]

\* variant: two fields swapped
envelope_facts_swapped(g, p, e) ==
  [grant |-> grant_facts(g, e), proof_id |-> p.form,
   invocation_id |-> p.claims.ba_op, operation |-> p.claims.ba_inv,
   normalized_uri |-> p.claims.htu, grant_hash |-> p.claims.ath,
   request_hash |-> p.claims.ba_req, proof_iat |-> p.claims.iat]

envelope_facts(g, p, e) ==
  [grant |-> grant_facts(g, e), proof_id |-> p.form,
   invocation_id |-> p.claims.ba_inv, operation |-> p.claims.ba_op,
   normalized_uri |-> p.claims.htu, grant_hash |-> p.claims.ath,
   request_hash |-> p.claims.ba_req, proof_iat |-> p.claims.iat]

\* what the decoders show before anything is verified
GrantDecoded(g) ==
  [key_id |-> g.claims.kid, version |-> g.claims.v, issuer |-> g.claims.iss,
   grant_id |-> g.claims.jti, audiences |-> g.claims.aud,
   holder |-> g.claims.cnf, issued_at |-> g.claims.iat,
   not_before |-> g.claims.nbf, expires_at |-> g.claims.exp]

ProofDecoded(p) ==
  [proof_id |-> p.form, method |-> p.claims.htm, target_uri |-> p.claims.htu,
   invocation_id |-> p.claims.ba_inv, operation |-> p.claims.ba_op,
   grant_hash |-> p.claims.ath, request_hash |-> p.claims.ba_req,
   issued_at |-> p.claims.iat, holder |-> p.claims.jwk, nonce |-> p.claims.nonce]
=============================================================================
