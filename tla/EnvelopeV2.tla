----------------------------- MODULE EnvelopeV2 -----------------------------
(***************************************************************************)
(* Grants, proofs and envelopes of major 2, as src/sdks/rust/src/v2.rs has *)
(* them.  Next to major 1: v = 2, the successor digest and selectors, and  *)
(* no loopback profile.                                                    *)
(***************************************************************************)
EXTENDS Credentials

(***************************************************************************)
(* Decoding: what a compact must be before anything is verified.           *)
(***************************************************************************)

validate_grant_header_v2(c) == c.alg = "EdDSA" /\ c.typ = "ba+cap"

take_audiences_v2(aud) == aud # {}

validate_operations_v2(operations) ==
  /\ DOMAIN operations # {}
  /\ \A name \in DOMAIN operations : operations[name] # {}

validate_grant_payload_v2(c) ==
  /\ c.v = 2
  /\ take_audiences_v2(c.aud)
  /\ validate_operations_v2(c.operations)
  /\ c.iat < c.exp /\ c.nbf < c.exp

decode_grant_parts_v2(g) ==
  validate_grant_header_v2(g.claims) /\ validate_grant_payload_v2(g.claims)

\* the jwk is decoded as an acceptable Ed25519 key
validate_proof_header_v2(c) ==
  /\ c.alg = "EdDSA"
  /\ c.typ = "dpop+jwt"
  /\ jwk_decode_public(c.jwk)

validate_proof_payload_v2(c) ==
  /\ c.v = 2
  /\ c.htu \in HttpsUri

decode_proof_parts_v2(p) ==
  /\ validate_proof_header_v2(p.claims)
  /\ validate_proof_payload_v2(p.claims)

\* the views: the locator reads the header alone
untrusted_key_locator_v2(g) == validate_grant_header_v2(g.claims)
decode_grant_v2(g) == decode_grant_parts_v2(g)
decode_proof_v2(p) == decode_proof_parts_v2(p)

(***************************************************************************)
(* Producing: signing inputs, and assembly once a signature is there.      *)
(***************************************************************************)

grant_signing_input_ok_v2(input) ==
  /\ input.aud # {}
  /\ DOMAIN input.operations # {}
  /\ \A name \in DOMAIN input.operations : input.operations[name] # {}

grant_signing_input_v2(input) ==
  [alg |-> "EdDSA", typ |-> "ba+cap", kid |-> input.kid, v |-> 2,
   iss |-> input.iss, jti |-> input.jti, aud |-> input.aud, iat |-> input.iat,
   nbf |-> input.nbf, exp |-> input.exp, cnf |-> input.cnf,
   operations |-> input.operations]

proof_signing_input_ok_v2(input) ==
  /\ input.htu \in HttpsUri
  /\ acceptable_public_key(input.jwk)

\* the producer has no nonce to give
proof_signing_input_v2(input) ==
  [alg |-> "EdDSA", typ |-> "dpop+jwt", jwk |-> input.jwk, v |-> 2,
   htm |-> input.htm, htu |-> input.htu, iat |-> input.iat,
   nonce |-> NoNonce, ba_inv |-> input.ba_inv, ba_op |-> input.ba_op,
   ath |-> input.grant,
   ba_req |-> request_digest_successor(input.ba_op, input.args)]

\* the credentials among what assemble_compact takes; module EvidenceV2 has the rest
assemble_compact_v2(kind, compact) ==
  /\ signature_gate(compact.scalar)
  /\ \/ kind = "Grant" /\ decode_grant_parts_v2(compact)
     \/ kind = "Proof" /\ decode_proof_parts_v2(compact)

(***************************************************************************)
(* Verifying.                                                              *)
(***************************************************************************)

grant_in_force_v2(g, e) ==
  /\ g.claims.iat <= saturating_add(e.now, e.skew)
  /\ g.claims.nbf <= saturating_add(e.now, e.skew)
  /\ g.claims.exp > saturating_sub(e.now, e.skew)

verify_grant_v2(g, e) ==
  /\ e.skew <= e.bounds.clock_skew
  /\ decode_grant_parts_v2(g)
  /\ g.claims.kid = e.trusted.kid
  /\ g.claims.iss = e.issuer
  /\ e.audience \in g.claims.aud
  /\ ed25519_verify(e.trusted.key, g)
  /\ grant_in_force_v2(g, e)

holder_bound_v2(g, p) ==
  /\ p.claims.jwk = g.claims.cnf
  /\ ed25519_verify(p.claims.jwk, p)
  /\ p.claims.ath = g

request_bound_v2(p, e) ==
  /\ p.claims.ba_req = request_digest_successor(e.operation, e.args)
  /\ p.claims.htm = e.method
  /\ e.uri \in HttpsUri /\ p.claims.htu = e.uri
  /\ p.claims.ba_inv = e.inv
  /\ p.claims.ba_op = e.operation

operation_authorised_v2(g, e) ==
  /\ e.operation \in DOMAIN g.claims.operations
  /\ \A s \in g.claims.operations[e.operation] : evaluate(s, e.args)

proof_timely_v2(p, e) ==
  /\ p.claims.iat >= saturating_sub(saturating_sub(e.now, e.max_age), e.skew)
  /\ p.claims.iat <= saturating_add(e.now, e.skew)

nonce_mode_v2(p, e) == p.claims.nonce = e.nonce

check_envelope_v2(g, p, e) ==
  /\ 1 <= e.max_age /\ e.max_age <= e.bounds.proof_max_age
  /\ verify_grant_v2(g, e)
  /\ decode_proof_parts_v2(p)
  /\ holder_bound_v2(g, p)
  /\ request_bound_v2(p, e)
  /\ operation_authorised_v2(g, e)
  /\ proof_timely_v2(p, e)
  /\ nonce_mode_v2(p, e)
=============================================================================
