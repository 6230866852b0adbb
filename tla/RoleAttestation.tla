---------------------------- MODULE RoleAttestation ----------------------------
(***************************************************************************)
(* Role attestations: src/sdks/rust/src/role_attestation.rs.               *)
(*                                                                         *)
(* A compact is its claims, a form ("canonical" for the JCS encoding,      *)
(* "other" for different bytes that decode to the same), a scalar and a    *)
(* signer.  The fingerprint of a key is the key.                           *)
(***************************************************************************)
EXTENDS HistoricalKeys

CONSTANTS
  KeyId, AttestationId

Role == {"issuer", "holder"}

\* the claims that the signing input of an attestation carries
attestation_signing_input(input) ==
  [alg |-> "EdDSA", typ |-> "ba+role-attestation", v |-> 1,
   kid |-> input.attestor_key_id, jti |-> input.jti, key_id |-> input.key_id,
   public_key |-> input.public_key, role |-> input.role, nbf |-> input.nbf,
   exp |-> input.exp]

\* what it refuses; neither it nor the decoder asks whether the subject is the
\* attestor
producible(input) ==
  /\ input.attestor_key_id \in KeyId /\ input.key_id \in KeyId
  /\ input.jti \in AttestationId
  /\ input.nbf < input.exp
  /\ acceptable_public_key(input.public_key)
  /\ validate_magnitude(input.nbf) /\ validate_magnitude(input.exp)

validate_attestation_header(a) ==
  /\ a.claims.alg = "EdDSA" /\ a.claims.typ = "ba+role-attestation"
  /\ a.claims.kid \in KeyId
  /\ a.form = "canonical"

take_public_key(key) == acceptable_public_key(key)

validate_attestation_payload(a) ==
  LET c == a.claims
  IN  /\ c.v = 1
      /\ c.jti \in AttestationId
      /\ c.key_id \in KeyId
      /\ take_public_key(c.public_key)
      /\ c.role \in Role
      /\ validate_magnitude(c.nbf) /\ validate_magnitude(c.exp)
      /\ c.nbf < c.exp
      /\ a.form = "canonical"

decode_attestation(a) ==
  validate_attestation_header(a) /\ validate_attestation_payload(a)

assemble_attestation_compact(a) == signature_gate(a.scalar) /\ decode_attestation(a)

subject_matches(c, e) ==
  c.key_id = e.subject_key_id /\ c.public_key = e.subject_public_key

distinct(c, attestor) ==
  c.public_key # attestor.public_key /\ c.key_id # attestor.key_id

\* variant: the end of the key is exclusive
contained_strictly(c, attestor) ==
  /\ c.nbf >= attestor.valid_from
  /\ attestor.valid_before # Unbounded => c.exp < attestor.valid_before

contained(c, attestor) ==
  /\ c.nbf >= attestor.valid_from
  /\ attestor.valid_before # Unbounded => c.exp <= attestor.valid_before

in_force(c, now) == c.nbf <= now /\ now < c.exp

\* variants: the subject is the host's word for it; the end of the attestor's
\* key is asked of the host's clock and not of the attestation
verify_any_subject(a, e) ==
  /\ historical_key(e.attestor)
  /\ decode_attestation(a)
  /\ a.claims.kid = e.attestor.key_id
  /\ ed25519_verify(e.attestor.public_key, a)
  /\ a.claims.key_id = e.subject_key_id
  /\ distinct(a.claims, e.attestor)
  /\ contained(a.claims, e.attestor)
  /\ in_force(a.claims, e.now)

verify_attestor_in_force(a, e) ==
  /\ historical_key(e.attestor)
  /\ decode_attestation(a)
  /\ a.claims.kid = e.attestor.key_id
  /\ ed25519_verify(e.attestor.public_key, a)
  /\ subject_matches(a.claims, e)
  /\ distinct(a.claims, e.attestor)
  /\ inside_window(e.now, e.attestor)
  /\ in_force(a.claims, e.now)

verify_attestation(a, e) ==
  /\ historical_key(e.attestor)
  /\ decode_attestation(a)
  /\ a.claims.kid = e.attestor.key_id
  /\ ed25519_verify(e.attestor.public_key, a)
  /\ subject_matches(a.claims, e)
  /\ distinct(a.claims, e.attestor)
  /\ contained(a.claims, e.attestor)
  /\ in_force(a.claims, e.now)

\* variant: two members change places
AttestationFacts_swapped(c, e) ==
  [attestor_key_id |-> c.kid, attestor_key_fingerprint |-> e.attestor.public_key,
   subject_key_id |-> c.key_id, subject_key_fingerprint |-> c.public_key,
   role |-> c.jti, jti |-> c.role, nbf |-> c.nbf, exp |-> c.exp]

AttestationFacts(c, e) ==
  [attestor_key_id |-> c.kid, attestor_key_fingerprint |-> e.attestor.public_key,
   subject_key_id |-> c.key_id, subject_key_fingerprint |-> c.public_key,
   role |-> c.role, jti |-> c.jti, nbf |-> c.nbf, exp |-> c.exp]
=============================================================================
