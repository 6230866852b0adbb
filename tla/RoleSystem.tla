------------------------------ MODULE RoleSystem ------------------------------
(***************************************************************************)
(* Role attestations in the system they are written for: attestors that    *)
(* bind keys to roles for a time, hosts that verify what they are handed   *)
(* and keep the facts, and an adversary that has keys of its own and comes *)
(* by the attestors' keys once their windows have ended.                   *)
(***************************************************************************)
EXTENDS RoleAttestation, FiniteSets

CONSTANTS
  AttestorKeys,    \* records of the attestors' keys
  AdversaryKeys,   \* records of keys that are not theirs, which hosts may admit
  Subject,         \* [key_id, public_key] of those an attestation is asked for
  Validity,        \* [nbf, exp] that are asked for
  \* bounds of the model
  MaxTime, MaxAttested, MaxVerified

AdmittedKeys == AttestorKeys \cup AdversaryKeys
AttestorKey == {k.public_key : k \in AttestorKeys}

ASSUME AttestorAssumption == \A k \in AdversaryKeys : k.public_key \notin AttestorKey
ASSUME SoundAssumption == AttestorKey \cap SmallOrderKey = {}
ASSUME TimeAssumption ==
  /\ \A k \in AdmittedKeys : k.valid_from \in Int
                             /\ (k.valid_before # Unbounded => k.valid_before \in Int)
  /\ \A v \in Validity : v.nbf \in Int /\ v.exp \in Int
  /\ MaxTime \in Nat

VARIABLES
  now,        \* the clock of attestors and hosts
  attested,   \* the attestations the attestors signed
  leaked,     \* keys of the attestors that the adversary has come by
  verified    \* [facts, e]: what verify returned, and for which call

vars == <<now, attested, leaked, verified>>

Init ==
  /\ now = 0
  /\ attested = {}
  /\ leaked = {}
  /\ verified = {}

Tick ==
  /\ now < MaxTime
  /\ now' = now + 1
  /\ UNCHANGED <<attested, leaked, verified>>

Input(kid, id, s, role, v) ==
  [attestor_key_id |-> kid, jti |-> id, key_id |-> s.key_id, public_key |-> s.public_key,
   role |-> role, nbf |-> v.nbf, exp |-> v.exp]

\* what a signer makes of a signing input
Signed(input, scalar, key) ==
  [claims |-> attestation_signing_input(input), form |-> "canonical", scalar |-> scalar,
   signer |-> key]

\* attestation_signing_input, the attestor's signature, assembly
Attest ==
  /\ Cardinality(attested) < MaxAttested
  /\ \E k \in AttestorKeys, id \in AttestationId, s \in Subject, role \in Role,
        v \in Validity, scalar \in Scalar :
       LET input == Input(k.key_id, id, s, role, v)
           a == Signed(input, scalar, k.public_key)
       IN  /\ producible(input)
           /\ assemble_attestation_compact(a)
           /\ attested' = attested \cup {a}
  /\ UNCHANGED <<now, leaked, verified>>

ended(key) ==
  \A k \in AttestorKeys : k.public_key = key =>
    k.valid_before # Unbounded /\ k.valid_before <= now

\* a key is guarded until its window ends, and no longer
Leak ==
  /\ \E key \in AttestorKey \ leaked :
       /\ ended(key)
       /\ leaked' = leaked \cup {key}
  /\ UNCHANGED <<now, attested, verified>>

-----------------------------------------------------------------------------
\* what the adversary can sign, under whatever key id and with whatever dates
Forged ==
  {Signed(Input(kid, id, s, role, v), "canonical", key) :
     kid \in KeyId, id \in AttestationId, s \in Subject, role \in Role, v \in Validity,
     key \in leaked \cup {k.public_key : k \in AdversaryKeys}}

AttestationsOnWire == attested \cup {shifted(a) : a \in attested} \cup Forged

\* verify_attestation
VerifyAttestation ==
  /\ Cardinality(verified) < MaxVerified
  /\ \E a \in AttestationsOnWire, k \in AdmittedKeys, s \in Subject :
       LET e == [attestor |-> k, subject_key_id |-> s.key_id,
                 subject_public_key |-> s.public_key, now |-> now]
       IN  /\ verify_attestation(a, e)
           /\ verified' = verified \cup {[facts |-> AttestationFacts(a.claims, e), e |-> e]}
  /\ UNCHANGED <<now, attested, leaked>>

Next ==
  \/ Tick
  \/ Attest
  \/ Leak
  \/ VerifyAttestation

Spec == Init /\ [][Next]_vars

-----------------------------------------------------------------------------
\* the signing input of an attestation, which its claims give back
InputOf(c) ==
  Input(c.kid, c.jti, [key_id |-> c.key_id, public_key |-> c.public_key], c.role,
        [nbf |-> c.nbf, exp |-> c.exp])

IsCompact(a) == a = Signed(InputOf(a.claims), "canonical", a.signer)

IsAttestation(a) ==
  /\ IsCompact(a)
  /\ a.signer \in AttestorKey
  /\ decode_attestation(a)
  /\ a.claims.nbf \in Int /\ a.claims.exp \in Int

TypeOK ==
  /\ now \in 0 .. MaxTime
  /\ \A a \in attested : IsAttestation(a)
  /\ leaked \subseteq AttestorKey
  /\ \A x \in verified :
       /\ x.e.attestor \in AdmittedKeys
       /\ x.e.now \in 0 .. now
       /\ x.facts.role \in Role /\ x.facts.jti \in AttestationId
       /\ x.facts.nbf \in Int /\ x.facts.exp \in Int

ByAttestor(x) == x.facts.attestor_key_fingerprint \in AttestorKey

\* the attestation of which x is the facts
Attested(x) ==
  Signed(Input(x.facts.attestor_key_id, x.facts.jti,
               [key_id |-> x.facts.subject_key_id,
                public_key |-> x.facts.subject_key_fingerprint],
               x.facts.role, [nbf |-> x.facts.nbf, exp |-> x.facts.exp]),
         "canonical", x.facts.attestor_key_fingerprint)

\* verify_attestation: facts under an attestor's key are, member by member, an
\* attestation that attestor signed for the subject the host asked about, and that
\* subject is somebody else, though keys leak the moment they end, key ids are
\* anybody's, and the attestor signs for itself if asked to.
AttestationsAuthentic ==
  \A x \in verified : ByAttestor(x) =>
    /\ Attested(x) \in attested
    /\ x.facts.subject_key_id = x.e.subject_key_id
    /\ x.facts.subject_key_fingerprint = x.e.subject_public_key
    /\ x.facts.subject_key_id # x.facts.attestor_key_id
    /\ x.facts.subject_key_fingerprint # x.facts.attestor_key_fingerprint

\* a host that keeps facts and goes by their dates alone never goes by a key
\* that may have leaked: facts expire with the key that vouched for them.
RelianceSound ==
  \A x \in verified :
    (ByAttestor(x) /\ now \in x.facts.nbf .. x.facts.exp - 1)
      => x.facts.attestor_key_fingerprint \notin leaked

\* what an attestor signed within the window of its key, for another, is accepted
\* to the last moment of both.
AttestedAccepted ==
  \A a \in attested, k \in AttestorKeys :
    LET c == a.claims
    IN  (/\ k.public_key = a.signer /\ k.key_id = c.kid /\ historical_key(k)
         /\ acceptable_public_key(k.public_key)
         /\ c.key_id # k.key_id /\ c.public_key # k.public_key
         /\ inside_window(c.nbf, k) /\ inside_window(c.exp - 1, k)
         /\ now \in c.nbf .. c.exp - 1)
        => verify_attestation(a, [attestor |-> k, subject_key_id |-> c.key_id,
                                  subject_public_key |-> c.public_key, now |-> now])

(***************************************************************************)
(* What makes them inductive.                                              *)
(***************************************************************************)

\* only keys that have ended have leaked
LeakedHaveEnded == \A key \in leaked : ended(key)

\* facts lie inside the window of the key that vouched for them
FactsInWindow ==
  \A x \in verified :
    /\ x.facts.attestor_key_fingerprint = x.e.attestor.public_key
    /\ x.e.attestor.valid_before # Unbounded => x.facts.exp <= x.e.attestor.valid_before
=============================================================================
