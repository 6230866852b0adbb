----------------------------- MODULE EnvelopeV1 -----------------------------
(***************************************************************************)
(* Grants, proofs and envelopes of major 1, as src/sdks/rust/src/v1.rs has *)
(* them.  v1.rs, v2.rs and v3.rs are separate copies of one algorithm, and *)
(* are kept apart here: a check lost or swapped in one copy is not lost in *)
(* the others.  An operator that stands for a function returning Result<T> *)
(* is true where the function returns Ok; the syntax of identifiers is in  *)
(* module Identifiers, framing in CompactJws.                              *)
(***************************************************************************)
EXTENDS Credentials

(***************************************************************************)
(* Decoding: what a compact must be before anything is verified.           *)
(***************************************************************************)

proof_typ(profile) ==
  IF profile = "standard" THEN "dpop+jwt" ELSE "ba+loopback-proof"

\* the targets that the profile's normalisation leaves as they are
normal_uris_v1(profile) == IF profile = "standard" THEN HttpsUri ELSE LoopbackUri

validate_grant_header_v1(c) == c.alg = "EdDSA" /\ c.typ = "ba+cap"

take_audiences_v1(aud) == aud # {}

validate_operations_v1(operations) ==
  /\ DOMAIN operations # {}
  /\ \A name \in DOMAIN operations : operations[name] # {}

validate_grant_payload_v1(c) ==
  /\ c.v = 1
  /\ take_audiences_v1(c.aud)
  /\ validate_operations_v1(c.operations)
  /\ c.iat < c.exp /\ c.nbf < c.exp

decode_grant_parts_v1(g) ==
  validate_grant_header_v1(g.claims) /\ validate_grant_payload_v1(g.claims)

\* the jwk is decoded as an acceptable Ed25519 key
validate_proof_header_for_v1(c, profile) ==
  /\ c.alg = "EdDSA"
  /\ c.typ = proof_typ(profile)
  /\ jwk_decode_public(c.jwk)

validate_proof_payload_for_v1(c, profile) ==
  /\ c.v = 1
  /\ profile = "local_loopback_http" => c.nonce # NoNonce
  /\ c.htu \in normal_uris_v1(profile)

decode_proof_parts_for_v1(p, profile) ==
  /\ validate_proof_header_for_v1(p.claims, profile)
  /\ validate_proof_payload_for_v1(p.claims, profile)

\* the views: the locator reads the header alone
untrusted_key_locator_v1(g) == validate_grant_header_v1(g.claims)
decode_grant_v1(g) == decode_grant_parts_v1(g)
decode_proof_for_v1(p, profile) == decode_proof_parts_for_v1(p, profile)

(***************************************************************************)
(* Producing: signing inputs, and assembly once a signature is there.      *)
(***************************************************************************)

grant_signing_input_ok_v1(input) ==
  /\ input.aud # {}
  /\ DOMAIN input.operations # {}
  /\ \A name \in DOMAIN input.operations : input.operations[name] # {}

grant_signing_input_v1(input) ==
  [alg |-> "EdDSA", typ |-> "ba+cap", kid |-> input.kid, v |-> 1,
   iss |-> input.iss, jti |-> input.jti, aud |-> input.aud, iat |-> input.iat,
   nbf |-> input.nbf, exp |-> input.exp, cnf |-> input.cnf,
   operations |-> input.operations]

proof_signing_input_ok_v1(input, profile) ==
  /\ input.htu \in normal_uris_v1(profile)
  /\ acceptable_public_key(input.jwk)
  /\ profile = "local_loopback_http" => input.nonce # NoNonce

\* the standard producer has no nonce to give
proof_signing_input_for_v1(input, profile) ==
  [alg |-> "EdDSA", typ |-> proof_typ(profile), jwk |-> input.jwk, v |-> 1,
   htm |-> input.htm, htu |-> input.htu, iat |-> input.iat,
   nonce |-> IF profile = "standard" THEN NoNonce ELSE input.nonce,
   ba_inv |-> input.ba_inv, ba_op |-> input.ba_op, ath |-> input.grant,
   ba_req |-> request_digest(input.ba_op, input.args)]

\* the credentials among what assemble_compact takes; module EvidenceV1 has the rest
assemble_compact_for_v1(kind, compact, profile) ==
  /\ signature_gate(compact.scalar)
  /\ \/ /\ kind = "Grant" /\ profile = "standard"
        /\ decode_grant_parts_v1(compact)
     \/ /\ kind = "Proof" /\ profile = "standard"
        /\ decode_proof_parts_for_v1(compact, "standard")
     \/ /\ kind = "LocalLoopbackHttpProof" /\ profile = "local_loopback_http"
        /\ decode_proof_parts_for_v1(compact, "local_loopback_http")

(***************************************************************************)
(* Verifying.                                                              *)
(***************************************************************************)

\* variant: the skew makes the expiry inclusive
grant_in_force_v1_inclusive(g, e) ==
  /\ g.claims.iat <= saturating_add(e.now, e.skew)
  /\ g.claims.nbf <= saturating_add(e.now, e.skew)
  /\ g.claims.exp >= saturating_sub(e.now, e.skew)

grant_in_force_v1(g, e) ==
  /\ g.claims.iat <= saturating_add(e.now, e.skew)
  /\ g.claims.nbf <= saturating_add(e.now, e.skew)
  /\ g.claims.exp > saturating_sub(e.now, e.skew)

verify_grant_v1(g, e) ==
  /\ e.skew <= e.bounds.clock_skew
  /\ decode_grant_parts_v1(g)
  /\ g.claims.kid = e.trusted.kid
  /\ g.claims.iss = e.issuer
  /\ e.audience \in g.claims.aud
  /\ ed25519_verify(e.trusted.key, g)
  /\ grant_in_force_v1(g, e)

\* variant: the proof is not held against this grant's bytes
holder_bound_v1_any_grant(g, p) ==
  /\ p.claims.jwk = g.claims.cnf
  /\ ed25519_verify(p.claims.jwk, p)

holder_bound_v1(g, p) ==
  /\ p.claims.jwk = g.claims.cnf
  /\ ed25519_verify(p.claims.jwk, p)
  /\ p.claims.ath = g

request_bound_v1(p, e, profile) ==
  /\ p.claims.ba_req = request_digest(e.operation, e.args)
  /\ p.claims.htm = e.method
  /\ e.uri \in normal_uris_v1(profile) /\ p.claims.htu = e.uri
  /\ p.claims.ba_inv = e.inv
  /\ p.claims.ba_op = e.operation

\* variant: one selector that admits the arguments is enough
operation_authorised_v1_any(g, e) ==
  /\ e.operation \in DOMAIN g.claims.operations
  /\ \E s \in g.claims.operations[e.operation] : evaluate(s, e.args)

operation_authorised_v1(g, e) ==
  /\ e.operation \in DOMAIN g.claims.operations
  /\ \A s \in g.claims.operations[e.operation] : evaluate(s, e.args)

\* variant: the skew counted twice
proof_timely_v1_double_skew(p, e) ==
  /\ p.claims.iat >= saturating_sub(saturating_sub(e.now, e.max_age), 2 * e.skew)
  /\ p.claims.iat <= saturating_add(e.now, e.skew)

proof_timely_v1(p, e) ==
  /\ p.claims.iat >= saturating_sub(saturating_sub(e.now, e.max_age), e.skew)
  /\ p.claims.iat <= saturating_add(e.now, e.skew)

\* variant: a required nonce is compared only if the proof carries one
nonce_mode_v1_if_present(p, e) == p.claims.nonce \in {NoNonce, e.nonce}

nonce_mode_v1(p, e) == p.claims.nonce = e.nonce

check_envelope_for_v1(g, p, e, profile) ==
  /\ 1 <= e.max_age /\ e.max_age <= e.bounds.proof_max_age
  /\ profile = "local_loopback_http" => e.nonce # NoNonce
  /\ verify_grant_v1(g, e)
  /\ decode_proof_parts_for_v1(p, profile)
  /\ holder_bound_v1(g, p)
  /\ request_bound_v1(p, e, profile)
  /\ operation_authorised_v1(g, e)
  /\ proof_timely_v1(p, e)
  /\ nonce_mode_v1(p, e)

check_envelope_v1(g, p, e) == check_envelope_for_v1(g, p, e, "standard")

check_local_loopback_http_envelope_v1(g, p, e) ==
  check_envelope_for_v1(g, p, e, "local_loopback_http")
=============================================================================
