----------------------------- MODULE Signatures -----------------------------
(***************************************************************************)
(* Keys, signatures and the two suites: src/sdks/rust/src/ed25519.rs and   *)
(* src/sdks/rust/src/es256.rs.                                             *)
(*                                                                         *)
(* A signed thing is a record with the key whose private half signed       *)
(* exactly these bytes ("signer"; NoKey: nobody did) and a scalar.  A      *)
(* signature scalar has a second value that satisfies the same equation    *)
(* (S + L in Ed25519, n - s in ECDSA) and that needs no private key to     *)
(* compute; "scalar" tells the two apart.  Module SignatureScalars has the *)
(* numbers, this one what the modules above it rely on.                    *)
(***************************************************************************)
CONSTANTS
  Key,            \* public keys
  NoKey,          \* the signer of bytes that no key signed
  P256Key,        \* the keys on P-256; every other key is an Ed25519 key
  SmallOrderKey   \* Ed25519 keys of small order: anybody can satisfy the equation

ASSUME KeyAssumption ==
  NoKey \notin Key /\ P256Key \subseteq Key /\ SmallOrderKey \subseteq Key \ P256Key

Scalar == {"canonical", "shifted"}

\* what anybody can make of a compact without a private key
shifted(compact) == [compact EXCEPT !.scalar = "shifted"]

\* the curve equation alone: a small-order key fits bytes that nobody signed
equation(key, compact) == compact.signer = key \/ key \in SmallOrderKey

acceptable_public_key(key) == key \in Key \ (P256Key \cup SmallOrderKey)

validate_point(key) == key \in P256Key

\* src/sdks/rust/src/jwk.rs, and v3.rs for P-256: a key is read from a JWK, and its
\* thumbprint is taken, if the suite can use it
jwk_decode_public(key) == acceptable_public_key(key)
thumbprint_raw(key) == acceptable_public_key(key)
jwk_decode_public_v3(key) == validate_point(key)
thumbprint_raw_v3(key) == validate_point(key)

\* S < L, and R canonical and not of small order
signature_gate(scalar) == scalar = "canonical"

\* 0 < r, s < n, and s in the lower half
validate_rs_range(scalar) == scalar = "canonical"

\* variants: the equation without the gate, without the key's part of the gate,
\* and the gate without the equation
ed25519_verify_any_scalar(key, compact) ==
  acceptable_public_key(key) /\ equation(key, compact)

ed25519_verify_any_key(key, compact) ==
  signature_gate(compact.scalar) /\ equation(key, compact)

ed25519_verify_gate_only(key, compact) ==
  acceptable_public_key(key) /\ signature_gate(compact.scalar)

ed25519_verify(key, compact) ==
  /\ acceptable_public_key(key)
  /\ signature_gate(compact.scalar)
  /\ equation(key, compact)

es256_verify(key, compact) ==
  /\ validate_point(key)
  /\ validate_rs_range(compact.scalar)
  /\ equation(key, compact)
=============================================================================
