----------------------------- MODULE EnvelopeV3 -----------------------------
(***************************************************************************)
(* Grants, proofs and envelopes of major 3, as src/sdks/rust/src/v3.rs has *)
(* them: v = 3, ECDSA on P-256 with the scalar in the lower half, its own  *)
(* request digest, no loopback profile.                                    *)
(***************************************************************************)
EXTENDS Credentials

(***************************************************************************)
(* Decoding: what a compact must be before anything is verified.           *)
(***************************************************************************)

validate_grant_header_v3(c) == c.alg = "ES256" /\ c.typ = "ba+cap"

take_audiences_v3(aud) == aud # {}

validate_operations_v3(operations) ==
  /\ DOMAIN operations # {}
  /\ \A name \in DOMAIN operations : operations[name] # {}

validate_grant_payload_v3(c) ==
  /\ c.v = 3
  /\ take_audiences_v3(c.aud)
  /\ validate_operations_v3(c.operations)
  /\ c.iat < c.exp /\ c.nbf < c.exp

decode_grant_parts_v3(g) ==
  validate_grant_header_v3(g.claims) /\ validate_grant_payload_v3(g.claims)

\* the jwk is decoded as a point on P-256
validate_proof_header_v3(c) ==
  /\ c.alg = "ES256"
  /\ c.typ = "dpop+jwt"
  /\ jwk_decode_public_v3(c.jwk)

validate_proof_payload_v3(c) ==
  /\ c.v = 3
  /\ c.htu \in HttpsUri

decode_proof_parts_v3(p) ==
  /\ validate_proof_header_v3(p.claims)
  /\ validate_proof_payload_v3(p.claims)

\* the views: the locator reads the header alone
untrusted_key_locator_v3(g) == validate_grant_header_v3(g.claims)
decode_grant_v3(g) == decode_grant_parts_v3(g)
decode_proof_v3(p) == decode_proof_parts_v3(p)

(***************************************************************************)
(* Producing: signing inputs, and assembly once a signature is there.      *)
(***************************************************************************)

grant_signing_input_ok_v3(input) ==
  /\ input.aud # {}
  /\ DOMAIN input.operations # {}
  /\ \A name \in DOMAIN input.operations : input.operations[name] # {}

grant_signing_input_v3(input) ==
  [alg |-> "ES256", typ |-> "ba+cap", kid |-> input.kid, v |-> 3,
   iss |-> input.iss, jti |-> input.jti, aud |-> input.aud, iat |-> input.iat,
   nbf |-> input.nbf, exp |-> input.exp, cnf |-> input.cnf,
   operations |-> input.operations]

proof_signing_input_ok_v3(input) ==
  /\ input.htu \in HttpsUri
  /\ validate_point(input.jwk)

\* the producer has no nonce to give
proof_signing_input_v3(input) ==
  [alg |-> "ES256", typ |-> "dpop+jwt", jwk |-> input.jwk, v |-> 3,
   htm |-> input.htm, htu |-> input.htu, iat |-> input.iat,
   nonce |-> NoNonce, ba_inv |-> input.ba_inv, ba_op |-> input.ba_op,
   ath |-> input.grant,
   ba_req |-> request_digest_v3(input.ba_op, input.args)]

\* the credentials among what assemble_compact takes; module EvidenceV3 has the rest
assemble_compact_v3(kind, compact) ==
  /\ validate_rs_range(compact.scalar)
  /\ \/ kind = "Grant" /\ decode_grant_parts_v3(compact)
     \/ kind = "Proof" /\ decode_proof_parts_v3(compact)

(***************************************************************************)
(* Verifying.                                                              *)
(***************************************************************************)

grant_in_force_v3(g, e) ==
  /\ g.claims.iat <= saturating_add(e.now, e.skew)
  /\ g.claims.nbf <= saturating_add(e.now, e.skew)
  /\ g.claims.exp > saturating_sub(e.now, e.skew)

verify_grant_v3(g, e) ==
  /\ e.skew <= e.bounds.clock_skew
  /\ decode_grant_parts_v3(g)
  /\ g.claims.kid = e.trusted.kid
  /\ g.claims.iss = e.issuer
  /\ e.audience \in g.claims.aud
  /\ es256_verify(e.trusted.key, g)
  /\ grant_in_force_v3(g, e)

holder_bound_v3(g, p) ==
  /\ p.claims.jwk = g.claims.cnf
  /\ es256_verify(p.claims.jwk, p)
  /\ p.claims.ath = g

\* variant: the invocation is not compared
request_bound_v3_any_invocation(p, e) ==
  /\ p.claims.ba_req = request_digest_v3(e.operation, e.args)
  /\ p.claims.htm = e.method
  /\ e.uri \in HttpsUri /\ p.claims.htu = e.uri
  /\ p.claims.ba_op = e.operation

request_bound_v3(p, e) ==
  /\ p.claims.ba_req = request_digest_v3(e.operation, e.args)
  /\ p.claims.htm = e.method
  /\ e.uri \in HttpsUri /\ p.claims.htu = e.uri
  /\ p.claims.ba_inv = e.inv
  /\ p.claims.ba_op = e.operation

operation_authorised_v3(g, e) ==
  /\ e.operation \in DOMAIN g.claims.operations
  /\ \A s \in g.claims.operations[e.operation] : evaluate(s, e.args)

proof_timely_v3(p, e) ==
  /\ p.claims.iat >= saturating_sub(saturating_sub(e.now, e.max_age), e.skew)
  /\ p.claims.iat <= saturating_add(e.now, e.skew)

nonce_mode_v3(p, e) == p.claims.nonce = e.nonce

check_envelope_v3(g, p, e) ==
  /\ 1 <= e.max_age /\ e.max_age <= e.bounds.proof_max_age
  /\ verify_grant_v3(g, e)
  /\ decode_proof_parts_v3(p)
  /\ holder_bound_v3(g, p)
  /\ request_bound_v3(p, e)
  /\ operation_authorised_v3(g, e)
  /\ proof_timely_v3(p, e)
  /\ nonce_mode_v3(p, e)
=============================================================================
