--------------------------- MODULE ContentAssertion ---------------------------
(***************************************************************************)
(* Content assertions and the check of a successor:                        *)
(* src/sdks/rust/src/content_assertion.rs.                                 *)
(*                                                                         *)
(* A context stands for the five members that stay the same through a      *)
(* lineage: issuer, audience, subject, profile and profile digest.  A      *)
(* compact is its claims, a form ("canonical" for the JCS encoding,        *)
(* "other" for different bytes that decode to the same), a scalar and a    *)
(* signer.  An operator that stands for a function returning Result<T> is  *)
(* true where the function returns Ok.                                     *)
(***************************************************************************)
EXTENDS HistoricalKeys

CONSTANTS
  AssertionId, Context, Content,
  ZeroDigest    \* prev of a first assertion: no compact hashes to it

content_digest(content) == [prefix |-> "BAP1-CONTENT", content |-> content]

\* variant: lineages do not end
validate_numbers_unbounded(c) ==
  /\ validate_magnitude(c.iat) /\ validate_magnitude(c.nbf) /\ validate_magnitude(c.exp)
  /\ c.gen >= 1
  /\ c.iat <= c.nbf /\ c.nbf < c.exp
  /\ c.gen = 1 <=> c.prev = ZeroDigest

\* the rule for a producer's input, for what decode_parts reads and for facts
validate_numbers(c) ==
  /\ validate_magnitude(c.iat) /\ validate_magnitude(c.nbf) /\ validate_magnitude(c.exp)
  /\ c.gen \in 1 .. IntegerMagnitude
  /\ c.iat <= c.nbf /\ c.nbf < c.exp
  /\ c.gen = 1 <=> c.prev = ZeroDigest

\* the claims that the signing input of an assertion carries
assertion_signing_input(input) ==
  [alg |-> "EdDSA", typ |-> "ba+content-assertion", v |-> 1,
   kid |-> input.attestor_key_id, context |-> input.context,
   content |-> input.content_digest, gen |-> input.generation,
   prev |-> input.previous, jti |-> input.jti, iat |-> input.issued_at,
   nbf |-> input.not_before, exp |-> input.expires_at]

validate_header(a) ==
  /\ a.claims.alg = "EdDSA" /\ a.claims.typ = "ba+content-assertion"
  /\ a.form = "canonical"

validate_payload(a) ==
  /\ a.claims.v = 1
  /\ validate_numbers(a.claims)
  /\ a.form = "canonical"

decode_parts(a) == validate_header(a) /\ validate_payload(a)

assemble_content_assertion_compact(a) == signature_gate(a.scalar) /\ decode_parts(a)

assertion_digest(a) == [sha256 |-> a]

validate_expected(e) ==
  /\ validate_magnitude(e.now)
  /\ historical_key(e.attestor)

expected_matches(c, e) ==
  /\ c.kid = e.attestor.key_id
  /\ c.context = e.context
  /\ c.content = e.content

\* variants: the end of the key is not looked at; it is exclusive
contained_from(c, key) == c.iat >= key.valid_from /\ c.nbf >= key.valid_from

contained_strictly(c, key) ==
  /\ c.iat >= key.valid_from /\ c.nbf >= key.valid_from
  /\ key.valid_before # Unbounded => c.exp < key.valid_before

contained(c, key) ==
  /\ c.iat >= key.valid_from /\ c.nbf >= key.valid_from
  /\ key.valid_before # Unbounded => c.exp <= key.valid_before

verify_content_assertion(a, e) ==
  /\ validate_expected(e)
  /\ decode_parts(a)
  /\ expected_matches(a.claims, e)
  /\ contained(a.claims, e.attestor)
  /\ a.claims.nbf <= e.now /\ e.now < a.claims.exp
  /\ ed25519_verify(e.attestor.public_key, a)

ContentAssertionFacts(a, attestor_key) ==
  [claims |-> a.claims, attestor_key_fingerprint |-> attestor_key,
   digest |-> assertion_digest(a)]

validate_facts(facts) == facts.claims.v = 1 /\ validate_numbers(facts.claims)

\* variants: the predecessor is not named; it must still be in force
verify_successor_by_generation(previous, next) ==
  /\ validate_facts(previous) /\ validate_facts(next)
  /\ next.claims.context = previous.claims.context
  /\ next.claims.gen = previous.claims.gen + 1
  /\ next.claims.iat >= previous.claims.iat
  /\ next.claims.jti # previous.claims.jti

verify_successor_in_force(previous, next) ==
  /\ validate_facts(previous) /\ validate_facts(next)
  /\ next.claims.context = previous.claims.context
  /\ next.claims.gen = previous.claims.gen + 1
  /\ next.claims.prev = previous.digest
  /\ next.claims.iat \in previous.claims.iat .. previous.claims.exp - 1
  /\ next.claims.jti # previous.claims.jti

verify_content_assertion_successor(previous, next) ==
  /\ validate_facts(previous) /\ validate_facts(next)
  /\ next.claims.context = previous.claims.context
  /\ previous.claims.gen < IntegerMagnitude
  /\ next.claims.gen = previous.claims.gen + 1
  /\ next.claims.prev = previous.digest
  /\ next.claims.iat >= previous.claims.iat
  /\ next.claims.jti # previous.claims.jti
=============================================================================
