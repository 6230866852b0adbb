--------------------------- MODULE RoleSystem_proofs ---------------------------
(***************************************************************************)
(* What RoleSystem promises for all keys, subjects and dates.              *)
(***************************************************************************)
EXTENDS RoleSystem, TLAPS

IInv == TypeOK /\ LeakedHaveEnded /\ FactsInWindow /\ AttestationsAuthentic

\* A key id names no key, but a record with an attestor's key is the attestor's.
LEMMA RecordOfAttestor ==
  ASSUME NEW k \in AdmittedKeys, k.public_key \in AttestorKey
  PROVE  k \in AttestorKeys
BY AttestorAssumption DEF AdmittedKeys

\* A key that has ended stays so.
LEMMA EndedStays ==
  ASSUME TypeOK, NEW key, ended(key), now' \in Int, now' >= now
  PROVE  ended(key)'
<1>1. SUFFICES ASSUME NEW k \in AttestorKeys, k.public_key = key
               PROVE  k.valid_before # Unbounded /\ k.valid_before <= now'
  BY DEF ended
<1>2. k.valid_before # Unbounded /\ k.valid_before <= now
  BY <1>1 DEF ended
<1>3. k.valid_before \in Int
  BY <1>2, TimeAssumption DEF AdmittedKeys
<1> QED BY <1>2, <1>3 DEF TypeOK

\* What is on the wire is made by assemble, but for shifted copies; and what is
\* signed by an attestor's key was signed by the attestor, or the key has leaked.
LEMMA Wire ==
  ASSUME TypeOK, NEW a \in AttestationsOnWire, a.scalar = "canonical"
  PROVE  /\ IsCompact(a)
         /\ a.claims.nbf \in Int /\ a.claims.exp \in Int
         /\ a.signer \in AttestorKey => a \in attested \/ a.signer \in leaked
<1>1. CASE a \in attested
  BY <1>1 DEF TypeOK, IsAttestation
<1>2. CASE a \in {shifted(b) : b \in attested}
  <2>1. PICK b \in attested : a = shifted(b)
    BY <1>2
  <2>2. b = Signed(InputOf(b.claims), "canonical", b.signer)
    BY DEF TypeOK, IsAttestation, IsCompact
  <2>3. a.scalar = "shifted"
    BY <2>1, <2>2 DEF shifted, Signed
  <2> QED BY <2>3
<1>3. CASE a \in Forged
  <2>1. PICK kid \in KeyId, id \in AttestationId, s \in Subject, role \in Role, v \in Validity,
             key \in leaked \cup {k.public_key : k \in AdversaryKeys} :
               a = Signed(Input(kid, id, s, role, v), "canonical", key)
    BY <1>3 DEF Forged
  <2>2. a.signer = key /\ a.claims = attestation_signing_input(Input(kid, id, s, role, v))
    BY <2>1 DEF Signed
  <2>3. InputOf(a.claims) = Input(kid, id, s, role, v)
    BY <2>2 DEF InputOf, Input, attestation_signing_input
  <2>4. IsCompact(a)
    BY <2>1, <2>2, <2>3 DEF IsCompact
  <2>5. a.claims.nbf \in Int /\ a.claims.exp \in Int
    BY <2>2, TimeAssumption DEF attestation_signing_input, Input
  <2>6. a.signer \in AttestorKey => a.signer \in leaked
    BY <2>2, AttestorAssumption
  <2> QED BY <2>4, <2>5, <2>6
<1> QED BY <1>1, <1>2, <1>3 DEF AttestationsOnWire

\* the record that verify_attestation makes of an attestation
RecordOf(a, k, s) ==
  LET e == [attestor |-> k, subject_key_id |-> s.key_id,
            subject_public_key |-> s.public_key, now |-> now]
  IN  [facts |-> AttestationFacts(a.claims, e), e |-> e]

\* A step of verify_attestation adds one record, whose facts are those of an
\* attestation on the wire.
LEMMA Verified ==
  ASSUME TypeOK, VerifyAttestation
  PROVE  \E a \in AttestationsOnWire, k \in AdmittedKeys, s \in Subject :
           LET x == RecordOf(a, k, s)
           IN  /\ verified' = verified \cup {x}
               /\ x.e.attestor = k /\ x.e.now = now
               /\ x.e.subject_key_id = s.key_id /\ x.e.subject_public_key = s.public_key
               /\ x.facts.role \in Role /\ x.facts.jti \in AttestationId
               /\ x.facts.nbf \in Int /\ x.facts.exp \in Int
               /\ x.facts.attestor_key_id = k.key_id
               /\ x.facts.attestor_key_fingerprint = k.public_key
               /\ k.valid_before # Unbounded => x.facts.exp <= k.valid_before
               /\ x.facts.exp > now
               /\ x.facts.subject_key_id = s.key_id
               /\ x.facts.subject_key_id # k.key_id
               /\ x.facts.subject_key_fingerprint = s.public_key
               /\ x.facts.subject_key_fingerprint # k.public_key
               /\ Attested(x) = a
               /\ k.public_key \in AttestorKey => a \in attested \/ k.public_key \in leaked
<1>1. PICK a \in AttestationsOnWire, k \in AdmittedKeys, s \in Subject :
        LET e == [attestor |-> k, subject_key_id |-> s.key_id,
                  subject_public_key |-> s.public_key, now |-> now]
        IN  /\ verify_attestation(a, e)
            /\ verified' = verified \cup {[facts |-> AttestationFacts(a.claims, e), e |-> e]}
  BY Zenon DEF VerifyAttestation
<1> DEFINE e == [attestor |-> k, subject_key_id |-> s.key_id,
                 subject_public_key |-> s.public_key, now |-> now]
           f == AttestationFacts(a.claims, e)
           x == [facts |-> f, e |-> e]
<1>2. a.scalar = "canonical" /\ a.signer = k.public_key
  BY <1>1 DEF verify_attestation, ed25519_verify, signature_gate, equation,
              acceptable_public_key
<1>3. /\ decode_attestation(a)
      /\ a.claims.kid = k.key_id
      /\ a.claims.key_id = s.key_id /\ a.claims.public_key = s.public_key
      /\ a.claims.key_id # k.key_id /\ a.claims.public_key # k.public_key
      /\ k.valid_before # Unbounded => a.claims.exp <= k.valid_before
      /\ now < a.claims.exp
  BY <1>1 DEF verify_attestation, subject_matches, distinct, contained, in_force
<1>4. /\ f.role = a.claims.role /\ f.jti = a.claims.jti
      /\ f.nbf = a.claims.nbf /\ f.exp = a.claims.exp
      /\ f.attestor_key_id = k.key_id /\ f.attestor_key_fingerprint = k.public_key
      /\ f.subject_key_id = a.claims.key_id /\ f.subject_key_fingerprint = s.public_key
  BY <1>3 DEF AttestationFacts
<1>5. /\ IsCompact(a)
      /\ a.claims.nbf \in Int /\ a.claims.exp \in Int
      /\ a.signer \in AttestorKey => a \in attested \/ a.signer \in leaked
  BY <1>2, Wire, Zenon
<1>6. Attested(x) = a
  <2>1. x.facts = f
    OBVIOUS
  <2>2. InputOf(a.claims)
          = Input(f.attestor_key_id, f.jti,
                  [key_id |-> f.subject_key_id, public_key |-> f.subject_key_fingerprint],
                  f.role, [nbf |-> f.nbf, exp |-> f.exp])
    BY <1>3, <1>4 DEF InputOf
  <2>3. a.signer = f.attestor_key_fingerprint
    BY <1>2, <1>4
  <2> HIDE DEF f, x
  <2> QED BY <2>1, <2>2, <2>3, <1>5 DEF Attested, IsCompact
<1>7. now < f.exp /\ now \in Int => f.exp > now
  BY <1>4, <1>5
<1>8. a.claims.role \in Role /\ a.claims.jti \in AttestationId
  BY <1>3 DEF decode_attestation, validate_attestation_payload
<1>9. f.exp > now
  BY <1>3, <1>4, <1>7 DEF TypeOK
<1>10. RecordOf(a, k, s) = x /\ x.facts = f /\ x.e = e
  BY DEF RecordOf
<1>11. /\ e.attestor = k /\ e.now = now
       /\ e.subject_key_id = s.key_id /\ e.subject_public_key = s.public_key
  OBVIOUS
<1> QED
  <2> HIDE DEF f, x, e
  <2> WITNESS a \in AttestationsOnWire, k \in AdmittedKeys, s \in Subject
  <2> QED BY <1>1, <1>2, <1>3, <1>4, <1>5, <1>6, <1>8, <1>9, <1>10, <1>11 DEF f, x, e

-----------------------------------------------------------------------------
LEMMA InitInv == Init => IInv
BY TimeAssumption DEF Init, IInv, TypeOK, LeakedHaveEnded, FactsInWindow, AttestationsAuthentic

LEMMA TypeStep == IInv /\ [Next]_vars => TypeOK'
<1> SUFFICES ASSUME IInv, [Next]_vars PROVE TypeOK'
  OBVIOUS
<1> USE DEF IInv
<1>1. CASE Tick
  BY <1>1, TimeAssumption DEF Tick, TypeOK, IsAttestation
<1>2. CASE Attest
  <2>1. PICK k \in AttestorKeys, id \in AttestationId, s \in Subject, role \in Role,
             v \in Validity, scalar \in Scalar :
          LET a == Signed(Input(k.key_id, id, s, role, v), scalar, k.public_key)
          IN  /\ assemble_attestation_compact(a)
              /\ attested' = attested \cup {a}
    BY <1>2, ZenonT(40) DEF Attest
  <2> DEFINE input == Input(k.key_id, id, s, role, v)
             a == Signed(input, scalar, k.public_key)
  <2>2. IsAttestation(a)
    <3>1. scalar = "canonical" /\ decode_attestation(a)
      BY <2>1 DEF assemble_attestation_compact, signature_gate, Signed
    <3>2. a.claims = attestation_signing_input(input) /\ a.signer = k.public_key
      BY DEF Signed
    <3>3. InputOf(a.claims) = input
      BY <3>2 DEF InputOf, Input, attestation_signing_input
    <3>4. a.claims.nbf \in Int /\ a.claims.exp \in Int
      BY <3>2, TimeAssumption DEF attestation_signing_input, Input
    <3>5. IsCompact(a)
      BY <3>1, <3>2, <3>3 DEF IsCompact
    <3> HIDE DEF a
    <3> QED BY <3>1, <3>2, <3>4, <3>5 DEF IsAttestation, AttestorKey
  <2>3. \A b \in attested' : IsAttestation(b)
    BY <2>1, <2>2 DEF TypeOK
  <2> QED BY <1>2, <2>3 DEF Attest, TypeOK, IsAttestation
<1>3. CASE Leak
  BY <1>3 DEF Leak, TypeOK, IsAttestation
<1>4. CASE VerifyAttestation
  <2>1. PICK a \in AttestationsOnWire, k \in AdmittedKeys, s \in Subject :
          LET x == RecordOf(a, k, s)
          IN  /\ verified' = verified \cup {x}
              /\ x.e.attestor = k /\ x.e.now = now
              /\ x.facts.role \in Role /\ x.facts.jti \in AttestationId
              /\ x.facts.nbf \in Int /\ x.facts.exp \in Int
    BY <1>4, Verified DEF IInv
  <2>2. \A x \in verified' : /\ x.e.attestor \in AdmittedKeys
                             /\ x.e.now \in 0 .. now
                             /\ x.facts.role \in Role /\ x.facts.jti \in AttestationId
                             /\ x.facts.nbf \in Int /\ x.facts.exp \in Int
    BY <2>1 DEF TypeOK
  <2> QED BY <1>4, <2>2 DEF VerifyAttestation, TypeOK, IsAttestation
<1>5. CASE UNCHANGED vars
  BY <1>5 DEF vars, TypeOK, IsAttestation
<1> QED BY <1>1, <1>2, <1>3, <1>4, <1>5 DEF Next

\* Keys leak one at a time, each when its window has ended.
LEMMA LeakStep == IInv /\ [Next]_vars => LeakedHaveEnded'
<1> SUFFICES ASSUME IInv, [Next]_vars, NEW key \in leaked' PROVE ended(key)'
  BY DEF LeakedHaveEnded
<1>1. TypeOK /\ now \in Int
  BY DEF IInv, TypeOK
<1>2. now' \in Int /\ now' >= now
  BY <1>1 DEF Next, vars, Tick, Attest, Leak, VerifyAttestation
<1>3. ended(key)
  <2>1. CASE Leak
    BY <2>1 DEF IInv, LeakedHaveEnded, Leak
  <2>2. CASE leaked' = leaked
    BY <2>2 DEF IInv, LeakedHaveEnded
  <2> QED BY <2>1, <2>2 DEF Next, vars, Tick, Attest, VerifyAttestation
<1> QED BY <1>1, <1>2, <1>3, EndedStays

\* A verification that succeeds under an attestor's record finds its key unleaked.
LEMMA UnendedUnleaked ==
  ASSUME TypeOK, LeakedHaveEnded, NEW k \in AdmittedKeys, k.public_key \in AttestorKey,
         NEW exp \in Int, exp > now, k.valid_before # Unbounded => exp <= k.valid_before
  PROVE  k.public_key \notin leaked
<1>1. SUFFICES ASSUME k.public_key \in leaked PROVE FALSE
  OBVIOUS
<1>2. k \in AttestorKeys
  BY RecordOfAttestor
<1>3. k.valid_before # Unbounded /\ k.valid_before <= now
  BY <1>1, <1>2 DEF LeakedHaveEnded, ended
<1>4. k.valid_before \in Int /\ now \in Int
  BY <1>3, TimeAssumption DEF TypeOK
<1> QED BY <1>3, <1>4

LEMMA FactsStep == IInv /\ [Next]_vars => FactsInWindow' /\ AttestationsAuthentic'
<1> SUFFICES ASSUME IInv, [Next]_vars, NEW x \in verified'
             PROVE  /\ x.facts.attestor_key_fingerprint = x.e.attestor.public_key
                    /\ x.e.attestor.valid_before # Unbounded
                         => x.facts.exp <= x.e.attestor.valid_before
                    /\ ByAttestor(x) =>
                         /\ Attested(x) \in attested'
                         /\ x.facts.subject_key_id = x.e.subject_key_id
                         /\ x.facts.subject_key_fingerprint = x.e.subject_public_key
                         /\ x.facts.subject_key_id # x.facts.attestor_key_id
                         /\ x.facts.subject_key_fingerprint # x.facts.attestor_key_fingerprint
  BY DEF FactsInWindow, AttestationsAuthentic, ByAttestor, Attested
<1>1. attested \subseteq attested'
  BY DEF Next, vars, Tick, Attest, Leak, VerifyAttestation
<1>2. CASE x \in verified
  BY <1>1, <1>2 DEF IInv, FactsInWindow, AttestationsAuthentic
<1>3. CASE x \notin verified
  <2>1. VerifyAttestation /\ TypeOK /\ LeakedHaveEnded
    BY <1>3 DEF IInv, Next, vars, Tick, Attest, Leak
  <2>2. PICK a \in AttestationsOnWire, k \in AdmittedKeys, s \in Subject :
          LET y == RecordOf(a, k, s)
          IN  /\ verified' = verified \cup {y}
              /\ y.e.attestor = k
              /\ y.e.subject_key_id = s.key_id /\ y.e.subject_public_key = s.public_key
              /\ y.facts.exp \in Int
              /\ y.facts.attestor_key_id = k.key_id
              /\ y.facts.attestor_key_fingerprint = k.public_key
              /\ k.valid_before # Unbounded => y.facts.exp <= k.valid_before
              /\ y.facts.exp > now
              /\ y.facts.subject_key_id = s.key_id
              /\ y.facts.subject_key_id # k.key_id
              /\ y.facts.subject_key_fingerprint = s.public_key
              /\ y.facts.subject_key_fingerprint # k.public_key
              /\ Attested(y) = a
              /\ k.public_key \in AttestorKey => a \in attested \/ k.public_key \in leaked
    BY <2>1, Verified
  <2>3. x = RecordOf(a, k, s)
    BY <1>3, <2>2
  <2>4. k.public_key \in AttestorKey => k.public_key \notin leaked
    BY <2>1, <2>2, UnendedUnleaked
  <2>5. ByAttestor(x) => Attested(x) \in attested
    BY <2>2, <2>3, <2>4 DEF ByAttestor
  <2> QED BY <1>1, <2>2, <2>3, <2>5
<1> QED BY <1>2, <1>3

LEMMA Invariance == Spec => []IInv
<1>1. IInv /\ [Next]_vars => IInv'
  BY TypeStep, LeakStep, FactsStep DEF IInv
<1> QED BY <1>1, InitInv, PTL DEF Spec

-----------------------------------------------------------------------------
\* The type invariant of attestors, hosts and facts.
THEOREM Typed == Spec => []TypeOK
BY Invariance, PTL DEF IInv

\* verify_attestation: facts under an attestor's key are an attestation that this
\* attestor signed for the subject asked about, whatever the adversary signs and
\* whichever keys it comes by when they have ended.
THEOREM Authentic == Spec => []AttestationsAuthentic
BY Invariance, PTL DEF IInv

\* The window containment of verify_attestation: as long as the dates of facts
\* run, the key that vouched for them has not leaked.
THEOREM Reliance == Spec => []RelianceSound
<1>1. IInv => RelianceSound
  <2> SUFFICES ASSUME IInv, NEW x \in verified, ByAttestor(x),
                      now \in x.facts.nbf .. x.facts.exp - 1
               PROVE  x.facts.attestor_key_fingerprint \notin leaked
    BY DEF RelianceSound
  <2>1. TypeOK /\ LeakedHaveEnded /\ x.e.attestor \in AdmittedKeys /\ x.facts.exp \in Int
    BY DEF IInv, TypeOK
  <2>2. /\ x.facts.attestor_key_fingerprint = x.e.attestor.public_key
        /\ x.e.attestor.valid_before # Unbounded => x.facts.exp <= x.e.attestor.valid_before
    BY DEF IInv, FactsInWindow
  <2>3. x.facts.exp > now
    BY <2>1 DEF TypeOK
  <2>4. x.e.attestor.public_key \in AttestorKey
    BY <2>2 DEF ByAttestor
  <2> QED BY <2>1, <2>2, <2>3, <2>4, UnendedUnleaked
<1> QED BY <1>1, Invariance, PTL

\* verify_attestation takes, for the whole of its dates, what an attestor signed for
\* another within the window of its key: the ends of both windows are exclusive.
THEOREM Accepted == Spec => []AttestedAccepted
<1>1. TypeOK => AttestedAccepted
  <2> SUFFICES ASSUME TypeOK, NEW a \in attested, NEW k \in AttestorKeys,
                      k.public_key = a.signer, k.key_id = a.claims.kid, historical_key(k),
                      acceptable_public_key(k.public_key),
                      a.claims.key_id # k.key_id, a.claims.public_key # k.public_key,
                      inside_window(a.claims.nbf, k), inside_window(a.claims.exp - 1, k),
                      now \in a.claims.nbf .. a.claims.exp - 1
               PROVE  verify_attestation(a, [attestor |-> k, subject_key_id |-> a.claims.key_id,
                                             subject_public_key |-> a.claims.public_key,
                                             now |-> now])
    BY DEF AttestedAccepted
  <2>1. /\ IsCompact(a) /\ decode_attestation(a)
        /\ a.claims.nbf \in Int /\ a.claims.exp \in Int /\ now \in Int
    BY DEF TypeOK, IsAttestation
  <2>2. ed25519_verify(k.public_key, a)
    BY <2>1 DEF IsCompact, Signed, ed25519_verify, signature_gate, equation
  <2>3. k.valid_before # Unbounded => k.valid_before \in Int
    BY TimeAssumption DEF AdmittedKeys
  <2>4. k.valid_from \in Int
    BY TimeAssumption DEF AdmittedKeys
  <2>5. contained(a.claims, k)
    BY <2>1, <2>3, <2>4 DEF contained, inside_window
  <2>6. a.claims.nbf <= now /\ now < a.claims.exp
    BY <2>1
  <2> QED BY <2>1, <2>2, <2>5, <2>6 DEF verify_attestation, subject_matches, distinct, in_force
<1>2. Spec => []TypeOK
  BY Typed
<1> QED BY <1>1, <1>2, PTL
=============================================================================
