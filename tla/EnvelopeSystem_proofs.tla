------------------------ MODULE EnvelopeSystem_proofs ------------------------
(***************************************************************************)
(* EnvelopeSystem proved for every set of keys, grants, requests and       *)
(* forged credentials, every drift and every bound.                        *)
(***************************************************************************)
EXTENDS EnvelopeSystem, TLAPS

(***************************************************************************)
(* Type correctness.                                                       *)
(***************************************************************************)

\* what anybody can present has the shape of a credential
LEMMA WireTypes ==
  ASSUME TypeOK
  PROVE  GrantsOnWire \subseteq GrantCompact /\ ProofsOnWire \subseteq ProofCompact
<1>1. \A g \in GrantCompact : shifted(g) \in GrantCompact
  BY DEF shifted, GrantCompact, Scalar
<1>2. \A p \in ProofCompact : shifted(p) \in ProofCompact
  BY DEF shifted, ProofCompact, Scalar
<1>3. SignedProofs \subseteq ProofCompact
  BY DEF TypeOK, SignedProofs
<1>4. QED
  BY <1>1, <1>2, <1>3, ForgedAssumption DEF TypeOK, GrantsOnWire, ProofsOnWire

\* a call carries the host's clock and a well-shaped context
LEMMA CallTypes ==
  ASSUME TypeOK
  PROVE  Calls \subseteq ExpectedRequest /\ \A e \in Calls : e.now = now
<1>1. Outstanding \subseteq Nonce
  BY DEF TypeOK, Outstanding
<1>2. now \in I64
  BY TimeAssumption, BoundAssumption DEF TypeOK, I64
<1>3. QED
  BY <1>1, <1>2, ContextAssumption DEF Calls, ExpectedRequest

\* the claims a producer makes of its input have the shape of claims
LEMMA GrantClaimTypes ==
  ASSUME NEW major \in Majors, NEW input \in GrantInput
  PROVE  grant_signing_input(major, input) \in GrantClaims
<1>1. grant_signing_input_v1(input) \in GrantClaims
  BY DEF grant_signing_input_v1, GrantInput, GrantClaims, Alg, Typ, Majors
<1>2. grant_signing_input_v2(input) \in GrantClaims
  BY DEF grant_signing_input_v2, GrantInput, GrantClaims, Alg, Typ, Majors
<1>3. grant_signing_input_v3(input) \in GrantClaims
  BY DEF grant_signing_input_v3, GrantInput, GrantClaims, Alg, Typ, Majors
<1>4. QED
  BY <1>1, <1>2, <1>3 DEF grant_signing_input, Majors

LEMMA DigestTypes ==
  ASSUME NEW operation \in Operation, NEW args \in Args
  PROVE  /\ request_digest(operation, args) \in RequestDomain \X Operation \X Args
         /\ request_digest_successor(operation, args) \in RequestDomain \X Operation \X Args
         /\ request_digest_v3(operation, args) \in RequestDomain \X Operation \X Args
BY DEF request_digest, request_digest_successor, request_digest_v3, request_digest_with,
       RequestDomain

LEMMA ProofClaimTypes ==
  ASSUME NEW major \in Majors, NEW profile \in AllProfiles, NEW input \in ProofInput
  PROVE  proof_signing_input(major, profile, input) \in ProofClaims
<1>1. proof_signing_input_for_v1(input, profile) \in ProofClaims
  BY DigestTypes
     DEF proof_signing_input_for_v1, proof_typ, ProofInput, ProofClaims, Alg, Typ, Majors
<1>2. proof_signing_input_v2(input) \in ProofClaims
  BY DigestTypes DEF proof_signing_input_v2, ProofInput, ProofClaims, Alg, Typ, Majors
<1>3. proof_signing_input_v3(input) \in ProofClaims
  BY DigestTypes DEF proof_signing_input_v3, ProofInput, ProofClaims, Alg, Typ, Majors
<1>4. QED
  BY <1>1, <1>2, <1>3 DEF proof_signing_input, Majors

LEMMA ProofInputTypes ==
  ASSUME NEW g \in GrantCompact, NEW r \in HolderRequest, NEW iat \in I64,
         NEW nonce \in Nonce \cup {NoNonce}
  PROVE  /\ r.major \in Majors /\ r.profile \in AllProfiles
         /\ proof_input(g, r, iat, nonce) \in ProofInput
<1>1. r \in Request
  BY HonestAssumption
<1>2. g.claims.cnf \in Key
  BY DEF GrantCompact, GrantClaims
<1>3. QED
  BY <1>1, <1>2 DEF proof_input, ProofInput, Request

LEMMA ProofTypes ==
  ASSUME NEW claims \in ProofClaims, NEW form \in Form, NEW scalar \in Scalar
  PROVE  Proof(claims, form, scalar) \in ProofCompact
BY DEF Proof, ProofCompact, ProofClaims

LEMMA GrantFactTypes ==
  ASSUME NEW g \in GrantCompact, NEW e \in ExpectedRequest
  PROVE  grant_facts(g, e) \in GrantFacts
BY DEF grant_facts, GrantFacts, GrantCompact, GrantClaims, ExpectedRequest, TrustedIssuer

LEMMA EnvelopeFactTypes ==
  ASSUME NEW g \in GrantCompact, NEW p \in ProofCompact, NEW e \in ExpectedRequest
  PROVE  envelope_facts(g, p, e) \in EnvelopeFacts
BY GrantFactTypes DEF envelope_facts, EnvelopeFacts, ProofCompact, ProofClaims

\* The credentials, the facts and the clock keep their shapes: the base of every
\* other proof about verify_grant and check_envelope.
THEOREM TypeCorrect == Spec => []TypeOK
<1>1. Init => TypeOK
  BY TimeAssumption DEF Init, TypeOK
<1>2. TypeOK /\ [Next]_vars => TypeOK'
  <2> SUFFICES ASSUME TypeOK, [Next]_vars PROVE TypeOK'
    OBVIOUS
  <2>1. now \in Int /\ now \in 0 .. MaxTime
    BY TimeAssumption DEF TypeOK
  <2>2. CASE Tick
    BY <2>1, <2>2, TimeAssumption DEF TypeOK, Tick
  <2>3. CASE IssueGrant
    <3>1. PICK policy \in GrantPolicy, iat \in Near, form \in Form, scalar \in Scalar :
            issued' = issued \cup
              {[claims |-> grant_signing_input(policy.major, [policy.input EXCEPT !.iat = iat]),
                form |-> form, scalar |-> scalar, signer |-> policy.signer]}
      BY <2>3 DEF IssueGrant
    <3>2. policy.major \in Majors /\ policy.input \in GrantInput /\ policy.signer \in Key
      BY HonestAssumption
    <3>3. [policy.input EXCEPT !.iat = iat] \in GrantInput
      BY <3>2 DEF GrantInput, Near
    <3>4. grant_signing_input(policy.major, [policy.input EXCEPT !.iat = iat]) \in GrantClaims
      BY <3>2, <3>3, GrantClaimTypes
    <3>5. issued' \subseteq GrantCompact
      BY <3>1, <3>2, <3>4 DEF TypeOK, GrantCompact
    <3>6. QED
      BY <2>3, <3>5 DEF IssueGrant, TypeOK
  <2>4. CASE Challenge
    BY <2>1, <2>4 DEF TypeOK, Challenge
  <2>5. CASE SignProof
    <3>1. PICK g \in GrantsOnWire, r \in HolderRequest, nonce \in Outstanding \cup {NoNonce},
               iat \in Near, form \in Form, scalar \in Scalar :
            signed' = signed \cup
              {[proof |-> Proof(proof_signing_input(r.major, r.profile,
                                  proof_input(g, r, iat, nonce)), form, scalar),
                at |-> now]}
      BY <2>5 DEF SignProof
    <3>2. g \in GrantCompact /\ iat \in I64 /\ nonce \in Nonce \cup {NoNonce}
      BY WireTypes DEF TypeOK, Outstanding, Near
    <3>3. proof_signing_input(r.major, r.profile, proof_input(g, r, iat, nonce))
            \in ProofClaims
      BY <3>2, ProofInputTypes, ProofClaimTypes
    <3>4. signed' \subseteq [proof : ProofCompact, at : 0 .. MaxTime]
      BY <2>1, <3>1, <3>3, ProofTypes DEF TypeOK
    <3>5. QED
      BY <2>5, <3>4 DEF SignProof, TypeOK
  <2>9. CASE SignProofElsewhere
    <3>1. PICK g \in GrantsOnWire, r \in HolderRequest, nonce \in Outstanding,
               iat \in Near, form \in Form :
            signed' = signed \cup
              {[proof |-> Proof([proof_signing_input(r.major, "standard",
                                   proof_input(g, r, iat, nonce)) EXCEPT !.nonce = nonce],
                                form, "canonical"),
                at |-> now]}
      BY <2>9, ZenonT(40) DEF SignProofElsewhere
    <3>2. g \in GrantCompact /\ iat \in I64 /\ nonce \in Nonce \cup {NoNonce}
      BY WireTypes DEF TypeOK, Outstanding, Near
    <3>3. proof_signing_input(r.major, "standard", proof_input(g, r, iat, nonce))
            \in ProofClaims
      BY <3>2, ProofInputTypes, ProofClaimTypes DEF AllProfiles
    <3>4. [proof_signing_input(r.major, "standard", proof_input(g, r, iat, nonce))
             EXCEPT !.nonce = nonce] \in ProofClaims
      BY <3>2, <3>3 DEF ProofClaims
    <3>5. signed' \subseteq [proof : ProofCompact, at : 0 .. MaxTime]
      BY <2>1, <3>1, <3>4, ProofTypes DEF TypeOK, Scalar
    <3>6. QED
      BY <2>9, <3>5 DEF SignProofElsewhere, TypeOK
  <2>6. CASE VerifyGrant
    <3>1. PICK g \in GrantsOnWire, e \in Calls :
            granted' = granted \cup {[facts |-> grant_facts(g, e), at |-> e.now]}
      BY <2>6 DEF VerifyGrant
    <3>2. granted' \subseteq [facts : GrantFacts, at : 0 .. MaxTime]
      BY <2>1, <3>1, WireTypes, CallTypes, GrantFactTypes DEF TypeOK
    <3>3. QED
      BY <2>6, <3>2 DEF VerifyGrant, TypeOK
  <2>7. CASE CheckEnvelope
    <3>1. PICK g \in GrantsOnWire, p \in ProofsOnWire, e \in Calls :
            enveloped' = enveloped \cup {[facts |-> envelope_facts(g, p, e), e |-> e]}
      BY <2>7 DEF CheckEnvelope
    <3>2. enveloped' \subseteq [facts : EnvelopeFacts, e : ExpectedRequest]
      BY <3>1, WireTypes, CallTypes, EnvelopeFactTypes DEF TypeOK
    <3>3. QED
      BY <2>7, <3>2 DEF CheckEnvelope, TypeOK
  <2>8. CASE UNCHANGED vars
    BY <2>8 DEF vars, TypeOK
  <2>10. QED
    BY <2>2, <2>3, <2>4, <2>5, <2>6, <2>7, <2>8, <2>9 DEF Next
<1>3. QED
  BY <1>1, <1>2, PTL DEF Spec

(***************************************************************************)
(* Safety.                                                                 *)
(***************************************************************************)

\* bytes that the key's private half signed, under the scalar it gave
SignedBy(compact, key) == compact.signer = key /\ compact.scalar = "canonical"

\* both suites accept only what the key signed: Ed25519 refuses the small-order
\* keys that fit anything, and P-256 has none
LEMMA VerifiedSignature ==
  ASSUME NEW compact, NEW key, ed25519_verify(key, compact) \/ es256_verify(key, compact)
  PROVE  SignedBy(compact, key) /\ key \notin SmallOrderKey
BY KeyAssumption
   DEF ed25519_verify, es256_verify, acceptable_public_key, validate_point, signature_gate,
       validate_rs_range, equation, SignedBy

\* a grant that an honest key signed was signed by its owner: neither a forgery
\* nor a shifted copy has its signature
LEMMA GrantSource ==
  ASSUME TypeOK, NEW g \in GrantsOnWire, NEW key \in HonestKey, SignedBy(g, key)
  PROVE  g \in issued /\ g.signer = key
<1>1. \A h \in issued : shifted(h).scalar = "shifted"
  BY DEF TypeOK, shifted, GrantCompact
<1>2. QED
  BY <1>1, ForgedAssumption DEF GrantsOnWire, SignedBy

\* the same of proofs
LEMMA ProofSource ==
  ASSUME TypeOK, NEW p \in ProofsOnWire, NEW key \in HonestKey, SignedBy(p, key)
  PROVE  \E s \in signed : s.proof = p /\ p.signer = key
<1>1. \A h \in SignedProofs : shifted(h).scalar = "shifted"
  BY DEF TypeOK, SignedProofs, shifted, ProofCompact
<1>2. p \in SignedProofs
  BY <1>1, ForgedAssumption DEF ProofsOnWire, SignedBy
<1>3. QED
  BY <1>2 DEF SignedProofs, SignedBy

\* the integers that the time checks compare
LEMMA Times ==
  ASSUME TypeOK
  PROVE  /\ now \in Int /\ Drift \in Int /\ MaxClockSkew \in Int
         /\ \A s \in signed : s.at \in Int /\ s.proof.claims.iat \in Int
         /\ \A c \in challenges : c.at \in Int
         /\ \A e \in ExpectedRequest :
              /\ e.now \in Int /\ e.skew \in Nat /\ e.max_age \in Nat
              /\ e.bounds.clock_skew \in Int /\ e.bounds.clock_skew <= MaxClockSkew
         /\ \A p \in ProofCompact : p.claims.iat \in Int
         /\ \A g \in GrantCompact :
              g.claims.iat \in Int /\ g.claims.nbf \in Int /\ g.claims.exp \in Int
BY TimeAssumption, BoundAssumption
   DEF TypeOK, ExpectedRequest, GrantCompact, GrantClaims, ProofCompact, ProofClaims, I64,
       Bounds

\* saturation only ever narrows a window
LEMMA Saturation ==
  ASSUME NEW a \in Int, NEW b \in Nat
  PROVE  /\ saturating_add(a, b) \in Int /\ saturating_add(a, b) <= a + b
         /\ saturating_sub(a, b) \in Int /\ saturating_sub(a, b) >= a - b
BY BoundAssumption DEF saturating_add, saturating_sub

\* what verify_grant has checked, whichever major it was
LEMMA VerifiedGrant ==
  ASSUME NEW g \in GrantCompact, NEW e \in ExpectedRequest, verify_grant(g, e), TypeOK
  PROVE  /\ SignedBy(g, e.trusted.key) /\ e.trusted.key \notin SmallOrderKey
         /\ g.claims.v = e.major
         /\ g.claims.kid = e.trusted.kid /\ g.claims.iss = e.issuer
         /\ e.audience \in g.claims.aud
         /\ e.skew <= MaxClockSkew
         /\ g.claims.iat <= e.now + e.skew /\ g.claims.nbf <= e.now + e.skew
         /\ g.claims.exp > e.now - e.skew
<1>1. /\ e.now \in Int /\ e.skew \in Nat /\ MaxClockSkew \in Int
      /\ e.bounds.clock_skew \in Int /\ e.bounds.clock_skew <= MaxClockSkew
      /\ g.claims.iat \in Int /\ g.claims.nbf \in Int /\ g.claims.exp \in Int
  BY Times
<1> DEFINE up == saturating_add(e.now, e.skew)
           low == saturating_sub(e.now, e.skew)
<1>2. up \in Int /\ up <= e.now + e.skew /\ low \in Int /\ low >= e.now - e.skew
  BY <1>1, Saturation
<1>3. /\ g.claims.iat <= up /\ g.claims.nbf <= up /\ g.claims.exp > low
      /\ e.skew <= e.bounds.clock_skew
  BY DEF verify_grant, verify_grant_v1, verify_grant_v2, verify_grant_v3,
         grant_in_force_v1, grant_in_force_v2, grant_in_force_v3
<1>4. /\ g.claims.v = e.major
      /\ g.claims.kid = e.trusted.kid /\ g.claims.iss = e.issuer
      /\ e.audience \in g.claims.aud
      /\ ed25519_verify(e.trusted.key, g) \/ es256_verify(e.trusted.key, g)
  BY DEF verify_grant, verify_grant_v1, verify_grant_v2, verify_grant_v3,
         decode_grant_parts_v1, decode_grant_parts_v2, decode_grant_parts_v3,
         validate_grant_payload_v1, validate_grant_payload_v2, validate_grant_payload_v3
<1> HIDE DEF up, low
<1>5. e.skew <= MaxClockSkew
  BY <1>1, <1>3
<1>6. /\ g.claims.iat <= e.now + e.skew /\ g.claims.nbf <= e.now + e.skew
      /\ g.claims.exp > e.now - e.skew
  BY <1>1, <1>2, <1>3
<1>7. QED
  BY <1>4, <1>5, <1>6, VerifiedSignature

LEMMA InitSafety == Init => SafetyInv
BY TimeAssumption
   DEF Init, SafetyInv, TypeOK, SigningHistory, ProofInWindow, GrantFactsAuthentic,
       EnvelopeFactsAuthentic, HolderMeantIt, ChallengeAnswered, SomebodySigned

\* what one step may do to the state: credentials and nonces are only added, and
\* facts only by the two verification calls
LEMMA StepShape ==
  ASSUME TypeOK, [Next]_vars
  PROVE  /\ issued \subseteq issued' /\ challenges \subseteq challenges'
         /\ signed \subseteq signed' /\ now <= now'
         /\ granted' = granted \/ VerifyGrant
         /\ enveloped' = enveloped \/ CheckEnvelope
<1>1. now \in Int
  BY Times
<1>2. CASE Tick
  BY <1>1, <1>2 DEF Tick
<1>3. CASE IssueGrant
  BY <1>1, <1>3 DEF IssueGrant
<1>4. CASE Challenge
  BY <1>1, <1>4 DEF Challenge
<1>5. CASE SignProof
  BY <1>1, <1>5 DEF SignProof
<1>10. CASE SignProofElsewhere
  BY <1>1, <1>10 DEF SignProofElsewhere
<1>6. VerifyGrant => UNCHANGED <<now, issued, challenges, signed, enveloped>>
  BY DEF VerifyGrant
<1>7. CheckEnvelope => UNCHANGED <<now, issued, challenges, signed, granted>>
  BY DEF CheckEnvelope
<1>8. CASE UNCHANGED vars
  BY <1>1, <1>8 DEF vars
<1>9. QED
  BY <1>1, <1>2, <1>3, <1>4, <1>5, <1>6, <1>7, <1>8, <1>10 DEF Next

\* the time and the nonce a producer puts into a proof
LEMMA ProducedFields ==
  ASSUME NEW major, NEW profile, NEW g, NEW r, NEW iat, NEW nonce
  PROVE  LET c == proof_signing_input(major, profile, proof_input(g, r, iat, nonce))
         IN  c.iat = iat /\ c.nonce \in {nonce, NoNonce}
BY DEF proof_signing_input, proof_signing_input_for_v1, proof_signing_input_v2,
       proof_signing_input_v3, proof_input

LEMMA HistoryStep ==
  ASSUME TypeOK, SigningHistory, [Next]_vars
  PROVE  SigningHistory'
<1> USE Times
<1>1. CASE Tick
  BY <1>1 DEF Tick, SigningHistory
<1>2. CASE Challenge
  BY <1>2 DEF Challenge, SigningHistory
<1>3. CASE SignProof \/ SignProofElsewhere
  <2>1. PICK p :
          /\ signed' = signed \cup {[proof |-> p, at |-> now]}
          /\ p.claims.iat \in Near
          /\ p.claims.nonce \in Outstanding \cup {NoNonce}
    <3>1. ASSUME SignProof
          PROVE  \E p :
                   /\ signed' = signed \cup {[proof |-> p, at |-> now]}
                   /\ p.claims.iat \in Near
                   /\ p.claims.nonce \in Outstanding \cup {NoNonce}
      <4>1. PICK g \in GrantsOnWire, r \in HolderRequest,
                 nonce \in Outstanding \cup {NoNonce}, iat \in Near, form \in Form,
                 scalar \in Scalar :
              signed' = signed \cup
                {[proof |-> Proof(proof_signing_input(r.major, r.profile,
                                    proof_input(g, r, iat, nonce)), form, scalar),
                  at |-> now]}
        BY <3>1 DEF SignProof
      <4> DEFINE c == proof_signing_input(r.major, r.profile, proof_input(g, r, iat, nonce))
      <4>2. c.iat = iat /\ c.nonce \in {nonce, NoNonce}
        BY ProducedFields
      <4> HIDE DEF c
      <4> DEFINE p == Proof(c, form, scalar)
      <4>3. p.claims = c
        BY DEF Proof
      <4>4. signed' = signed \cup {[proof |-> p, at |-> now]}
        BY <4>1 DEF c
      <4> HIDE DEF p
      <4>5. QED
        BY <4>2, <4>3, <4>4
    <3>2. ASSUME SignProofElsewhere
          PROVE  \E p :
                   /\ signed' = signed \cup {[proof |-> p, at |-> now]}
                   /\ p.claims.iat \in Near
                   /\ p.claims.nonce \in Outstanding \cup {NoNonce}
      <4>1. PICK g \in GrantsOnWire, r \in HolderRequest, nonce \in Outstanding,
                 iat \in Near, form \in Form :
              signed' = signed \cup
                {[proof |-> Proof([proof_signing_input(r.major, "standard",
                                     proof_input(g, r, iat, nonce)) EXCEPT !.nonce = nonce],
                                  form, "canonical"),
                  at |-> now]}
        BY <3>2, ZenonT(40) DEF SignProofElsewhere
      <4> DEFINE d == proof_signing_input(r.major, "standard", proof_input(g, r, iat, nonce))
                 c == [d EXCEPT !.nonce = nonce]
      <4>2. d \in ProofClaims /\ nonce \in Nonce
        <5>1. g \in GrantCompact /\ iat \in I64 /\ nonce \in Nonce
          BY WireTypes DEF TypeOK, Outstanding, Near
        <5>2. QED
          BY <5>1, ProofInputTypes, ProofClaimTypes DEF AllProfiles
      <4>3. d.iat = iat
        BY ProducedFields
      <4> HIDE DEF d
      <4>4. c.iat = iat /\ c.nonce = nonce
        BY <4>2, <4>3 DEF ProofClaims
      <4> HIDE DEF c
      <4> DEFINE p == Proof(c, form, "canonical")
      <4>5. p.claims = c
        BY DEF Proof
      <4>6. signed' = signed \cup {[proof |-> p, at |-> now]}
        BY <4>1 DEF c, d
      <4> HIDE DEF p
      <4>7. QED
        BY <4>4, <4>5, <4>6
    <3>3. QED
      BY <1>3, <3>1, <3>2
  <2>2. now' = now /\ challenges' = challenges
    BY <1>3 DEF SignProof, SignProofElsewhere
  <2>3. now - Drift <= p.claims.iat /\ p.claims.iat <= now + Drift
    BY <2>1 DEF Near
  <2>4. p.claims.nonce # NoNonce =>
          \E ch \in challenges : ch.nonce = p.claims.nonce /\ ch.at <= now
    BY <2>1 DEF Outstanding, SigningHistory
  <2>5. \A s \in signed' \ signed : s.at = now /\ s.proof = p
    BY <2>1
  <2>6. QED
    BY <2>1, <2>2, <2>3, <2>4, <2>5 DEF SigningHistory
<1>4. CASE UNCHANGED <<now, challenges, signed>>
  BY <1>4 DEF SigningHistory
<1>5. QED
  BY <1>1, <1>2, <1>3, <1>4 DEF Next, vars, IssueGrant, VerifyGrant, CheckEnvelope

\* verify_grant's own step, and what the growth of issued preserves
LEMMA GrantFactsStep ==
  ASSUME TypeOK, GrantFactsAuthentic, [Next]_vars
  PROVE  GrantFactsAuthentic'
<1>1. issued \subseteq issued'
  BY StepShape
<1>2. CASE granted' = granted
  BY <1>1, <1>2 DEF GrantFactsAuthentic
<1>3. CASE VerifyGrant
  <2>1. PICK g \in GrantsOnWire, e \in Calls :
          /\ verify_grant(g, e)
          /\ granted' = granted \cup {[facts |-> grant_facts(g, e), at |-> e.now]}
    BY <1>3 DEF VerifyGrant
  <2> DEFINE new == [facts |-> grant_facts(g, e), at |-> e.now]
  <2>2. ASSUME new.facts.issuer_key \in HonestKey
        PROVE  /\ g \in issued /\ g.signer = new.facts.issuer_key
               /\ g.claims.v = new.facts.version
               /\ g.claims.iss = new.facts.issuer /\ g.claims.jti = new.facts.grant_id
               /\ g.claims.cnf = new.facts.holder
               /\ new.facts.matched_audience \in g.claims.aud
               /\ g.claims.nbf - MaxClockSkew <= new.at
               /\ new.at < g.claims.exp + MaxClockSkew
    <3>1. g \in GrantCompact /\ e \in ExpectedRequest
      BY WireTypes, CallTypes
    <3>2. e.trusted.key \in HonestKey
      BY <2>2 DEF grant_facts
    <3>3. g \in issued /\ g.signer = e.trusted.key
      BY <2>1, <3>1, <3>2, VerifiedGrant, GrantSource
    <3>4. /\ g.claims.nbf - MaxClockSkew <= e.now
          /\ e.now < g.claims.exp + MaxClockSkew
      <4>1. /\ e.skew <= MaxClockSkew /\ g.claims.nbf <= e.now + e.skew
            /\ g.claims.exp > e.now - e.skew
        BY <2>1, <3>1, VerifiedGrant
      <4>2. /\ e.now \in Int /\ e.skew \in Int /\ MaxClockSkew \in Int
            /\ g.claims.nbf \in Int /\ g.claims.exp \in Int
        BY <3>1, Times
      <4>3. QED
        BY <4>1, <4>2
    <3>5. e.audience \in g.claims.aud
      BY <2>1, <3>1, VerifiedGrant
    <3>6. QED
      BY <3>3, <3>4, <3>5 DEF grant_facts
  <2>3. QED
    BY <1>1, <2>1, <2>2 DEF GrantFactsAuthentic
<1>4. QED
  BY <1>2, <1>3, StepShape

\* the facts a check returns, and the call it returns them for
LEMMA CheckStep ==
  ASSUME TypeOK, CheckEnvelope
  PROVE  \E g \in GrantsOnWire, p \in ProofsOnWire, e \in Calls :
           /\ g \in GrantCompact /\ p \in ProofCompact /\ e \in ExpectedRequest
           /\ e.now = now
           /\ check_envelope_for(g, p, e)
           /\ enveloped' = enveloped \cup {[facts |-> envelope_facts(g, p, e), e |-> e]}
BY WireTypes, CallTypes DEF CheckEnvelope

\* check_envelope has verified the grant and found the operation
LEMMA CheckedGrant ==
  ASSUME NEW g, NEW p, NEW e, check_envelope_for(g, p, e)
  PROVE  /\ verify_grant(g, e)
         /\ e.operation \in DOMAIN g.claims.operations
         /\ \A s \in g.claims.operations[e.operation] : evaluate(s, e.args)
BY DEF check_envelope_for, check_envelope_v1, check_local_loopback_http_envelope_v1,
       check_envelope_for_v1, check_envelope_v2, check_envelope_v3, verify_grant,
       operation_authorised_v1, operation_authorised_v2, operation_authorised_v3

\* and the proof: whose it is, which grant and which call it is for
LEMMA CheckedBinding ==
  ASSUME NEW g, NEW p, NEW e, check_envelope_for(g, p, e)
  PROVE  /\ p.claims.jwk = g.claims.cnf /\ p.claims.ath = g
         /\ SignedBy(p, g.claims.cnf) /\ g.claims.cnf \notin SmallOrderKey
         /\ p.claims.v = e.major /\ p.claims.typ = proof_typ(e.profile)
         /\ p.claims.htm = e.method /\ p.claims.htu = e.uri
         /\ p.claims.ba_inv = e.inv /\ p.claims.ba_op = e.operation
         /\ p.claims.ba_req[2] = e.operation /\ p.claims.ba_req[3] = e.args
         /\ p.claims.nonce = e.nonce
<1>1. /\ p.claims.jwk = g.claims.cnf /\ p.claims.ath = g
      /\ ed25519_verify(p.claims.jwk, p) \/ es256_verify(p.claims.jwk, p)
      /\ p.claims.nonce = e.nonce
  BY DEF check_envelope_for, check_envelope_v1, check_local_loopback_http_envelope_v1,
         check_envelope_for_v1, check_envelope_v2, check_envelope_v3,
         holder_bound_v1, holder_bound_v2, holder_bound_v3,
         nonce_mode_v1, nonce_mode_v2, nonce_mode_v3
<1>2. /\ p.claims.htm = e.method /\ p.claims.htu = e.uri
      /\ p.claims.ba_inv = e.inv /\ p.claims.ba_op = e.operation
      /\ p.claims.ba_req[2] = e.operation /\ p.claims.ba_req[3] = e.args
  BY DEF check_envelope_for, check_envelope_v1, check_local_loopback_http_envelope_v1,
         check_envelope_for_v1, check_envelope_v2, check_envelope_v3,
         request_bound_v1, request_bound_v2, request_bound_v3, request_digest,
         request_digest_successor, request_digest_v3, request_digest_with
<1>3. p.claims.v = e.major /\ p.claims.typ = proof_typ(e.profile)
  BY DEF check_envelope_for, check_envelope_v1, check_local_loopback_http_envelope_v1,
         check_envelope_for_v1, check_envelope_v2, check_envelope_v3, proof_typ,
         decode_proof_parts_for_v1, decode_proof_parts_v2, decode_proof_parts_v3,
         validate_proof_header_for_v1, validate_proof_header_v2, validate_proof_header_v3,
         validate_proof_payload_for_v1, validate_proof_payload_v2, validate_proof_payload_v3
<1>4. QED
  BY <1>1, <1>2, <1>3, VerifiedSignature

\* and the window: the proof is no older than its age and the skew allow
LEMMA CheckedWindow ==
  ASSUME TypeOK, NEW g, NEW p \in ProofCompact, NEW e \in ExpectedRequest,
         check_envelope_for(g, p, e)
  PROVE  /\ p.claims.iat >= e.now - e.max_age - e.skew
         /\ p.claims.iat <= e.now + e.skew
<1>1. e.now \in Int /\ e.skew \in Nat /\ e.max_age \in Nat /\ p.claims.iat \in Int
  BY Times
<1> DEFINE old == saturating_sub(e.now, e.max_age)
           low == saturating_sub(old, e.skew)
           up == saturating_add(e.now, e.skew)
<1>2. old \in Int /\ old >= e.now - e.max_age
  BY <1>1, Saturation
<1>3. low \in Int /\ low >= old - e.skew
  BY <1>1, <1>2, Saturation
<1>4. up \in Int /\ up <= e.now + e.skew
  BY <1>1, Saturation
<1>5. p.claims.iat >= low /\ p.claims.iat <= up
  BY DEF check_envelope_for, check_envelope_v1, check_local_loopback_http_envelope_v1,
         check_envelope_for_v1, check_envelope_v2, check_envelope_v3,
         proof_timely_v1, proof_timely_v2, proof_timely_v3
<1> HIDE DEF old, low, up
<1>6. QED
  BY <1>1, <1>2, <1>3, <1>4, <1>5

\* the facts of a successful check name its grant and its proof
LEMMA CheckedProof ==
  ASSUME NEW g, NEW p, NEW e, check_envelope_for(g, p, e)
  PROVE  LET f == envelope_facts(g, p, e)
         IN  /\ f.grant_hash = g /\ f.proof_id = p.form
             /\ f.grant = grant_facts(g, e)
             /\ f.grant.holder = g.claims.cnf
             /\ f.proof_iat = p.claims.iat
BY CheckedBinding DEF envelope_facts, grant_facts

LEMMA EnvelopeFactsStep ==
  ASSUME TypeOK, EnvelopeFactsAuthentic, [Next]_vars
  PROVE  EnvelopeFactsAuthentic'
<1>1. issued \subseteq issued'
  BY StepShape
<1>2. CASE enveloped' = enveloped
  BY <1>1, <1>2 DEF EnvelopeFactsAuthentic
<1>3. CASE CheckEnvelope
  <2>1. PICK g \in GrantsOnWire, p \in ProofsOnWire, e \in Calls :
          /\ g \in GrantCompact /\ e \in ExpectedRequest
          /\ check_envelope_for(g, p, e)
          /\ enveloped' = enveloped \cup {[facts |-> envelope_facts(g, p, e), e |-> e]}
    BY <1>3, CheckStep
  <2> DEFINE new == [facts |-> envelope_facts(g, p, e), e |-> e]
  <2>2. /\ new.e = e /\ new.facts.grant_hash = g
        /\ new.facts.grant.grant_id = g.claims.jti
    <3>1. new.facts.grant_hash = g /\ new.facts.grant = grant_facts(g, e)
      BY <2>1, CheckedProof
    <3>2. grant_facts(g, e).grant_id = g.claims.jti
      BY DEF grant_facts
    <3>3. QED
      BY <3>1, <3>2
  <2>3. ASSUME e.trusted.key \in HonestKey
        PROVE  /\ g \in issued /\ g.signer = e.trusted.key
               /\ g.claims.v = e.major
               /\ e.audience \in g.claims.aud
               /\ e.operation \in DOMAIN g.claims.operations
               /\ \A s \in g.claims.operations[e.operation] : evaluate(s, e.args)
               /\ g.claims.iat - e.skew <= e.now /\ g.claims.nbf - e.skew <= e.now
               /\ e.now < g.claims.exp + e.skew
    <3>1. verify_grant(g, e)
      BY <2>1, CheckedGrant
    <3>2. g \in issued /\ g.signer = e.trusted.key
      BY <2>1, <2>3, <3>1, VerifiedGrant, GrantSource
    <3>3. /\ g.claims.iat - e.skew <= e.now /\ g.claims.nbf - e.skew <= e.now
          /\ e.now < g.claims.exp + e.skew
      <4>1. /\ g.claims.iat <= e.now + e.skew /\ g.claims.nbf <= e.now + e.skew
            /\ g.claims.exp > e.now - e.skew
        BY <2>1, <3>1, VerifiedGrant
      <4>2. /\ e.now \in Int /\ e.skew \in Int /\ g.claims.iat \in Int
            /\ g.claims.nbf \in Int /\ g.claims.exp \in Int
        BY <2>1, Times
      <4>3. QED
        BY <4>1, <4>2
    <3>4. g.claims.v = e.major /\ e.audience \in g.claims.aud
      BY <2>1, <3>1, VerifiedGrant
    <3>5. QED
      BY <2>1, <3>2, <3>3, <3>4, CheckedGrant
  <2>4. QED
    BY <1>1, <2>1, <2>2, <2>3 DEF EnvelopeFactsAuthentic
<1>4. QED
  BY <1>2, <1>3, StepShape

LEMMA WindowStep ==
  ASSUME TypeOK, ProofInWindow, [Next]_vars
  PROVE  ProofInWindow'
<1>1. CASE enveloped' = enveloped
  BY <1>1 DEF ProofInWindow
<1>2. CASE CheckEnvelope
  <2>1. PICK g \in GrantsOnWire, p \in ProofsOnWire, e \in Calls :
          /\ p \in ProofCompact /\ e \in ExpectedRequest
          /\ check_envelope_for(g, p, e)
          /\ enveloped' = enveloped \cup {[facts |-> envelope_facts(g, p, e), e |-> e]}
    BY <1>2, CheckStep
  <2> DEFINE f == envelope_facts(g, p, e)
  <2>2. p.claims.iat \in Int /\ e.now \in Int /\ e.skew \in Int /\ e.max_age \in Int
    BY <2>1, Times
  <2>3. /\ e.now - e.max_age - e.skew <= f.proof_iat
        /\ f.proof_iat <= e.now + e.skew
    <3>1. f.proof_iat = p.claims.iat
      BY <2>1, CheckedProof
    <3>2. /\ p.claims.iat >= e.now - e.max_age - e.skew
          /\ p.claims.iat <= e.now + e.skew
      BY <2>1, CheckedWindow
    <3> HIDE DEF f
    <3>3. QED
      BY <2>2, <3>1, <3>2
  <2>4. QED
    BY <2>1, <2>3 DEF ProofInWindow
<1>3. QED
  BY <1>1, <1>2, StepShape

\* the one step that could make a holder's word say more than it meant
LEMMA HolderStep ==
  ASSUME TypeOK, SigningHistory, HolderMeantIt, ChallengeAnswered, [Next]_vars
  PROVE  HolderMeantIt' /\ ChallengeAnswered'
<1>1. signed \subseteq signed' /\ challenges \subseteq challenges'
  BY StepShape
<1>2. CASE enveloped' = enveloped
  <2>1. HolderMeantIt'
    BY <1>1, <1>2 DEF HolderMeantIt, Meant
  <2>2. ChallengeAnswered'
    BY <1>1, <1>2, ZenonT(40) DEF ChallengeAnswered, Meant
  <2>3. QED
    BY <2>1, <2>2
<1>3. CASE CheckEnvelope
  <2>1. PICK g \in GrantsOnWire, p \in ProofsOnWire, e \in Calls :
          /\ p \in ProofCompact /\ e \in ExpectedRequest /\ e.now = now
          /\ check_envelope_for(g, p, e)
          /\ enveloped' = enveloped \cup {[facts |-> envelope_facts(g, p, e), e |-> e]}
    BY <1>3, CheckStep
  <2> DEFINE f == envelope_facts(g, p, e)
  <2>2. ASSUME f.grant.holder \in HonestKey
        PROVE  \E s \in signed :
                 /\ Meant(s, g, e) /\ s.proof.form = f.proof_id
                 /\ s.at <= e.now /\ e.now - s.at <= e.max_age + e.skew + Drift
                 /\ e.nonce # NoNonce =>
                      \E c \in challenges : c.nonce = e.nonce /\ c.at <= s.at
    <3>1. g.claims.cnf \in HonestKey /\ SignedBy(p, g.claims.cnf)
      BY <2>1, <2>2, CheckedProof, CheckedBinding
    <3>2. PICK s \in signed : s.proof = p /\ p.signer = g.claims.cnf
      BY <3>1, ProofSource
    <3>3. Meant(s, g, e) /\ s.proof.form = f.proof_id
      BY <2>1, <3>2, CheckedProof, CheckedBinding DEF Meant
    <3>4. s.at <= e.now /\ s.proof.claims.iat <= s.at + Drift
      BY <2>1 DEF SigningHistory
    <3>5. e.now - e.max_age - e.skew <= s.proof.claims.iat
      BY <2>1, <3>2, CheckedWindow, Times
    <3>6. e.now - s.at <= e.max_age + e.skew + Drift
      BY <2>1, <3>4, <3>5, Times
    <3>7. s.proof.claims.nonce = e.nonce
      BY <2>1, <3>2, CheckedBinding
    <3>8. e.nonce # NoNonce =>
            \E c \in challenges : c.nonce = e.nonce /\ c.at <= s.at
      BY <3>7 DEF SigningHistory
    <3>9. QED
      BY <3>3, <3>4, <3>6, <3>8
  <2>3. f.grant_hash = g /\ f.grant = grant_facts(g, e)
    BY <2>1, CheckedProof
  <2>4. \A x \in enveloped' : x \in enveloped \/ (x.e = e /\ x.facts = f)
    BY <2>1
  <2>5. HolderMeantIt'
    <3> SUFFICES ASSUME NEW x \in enveloped', x.facts.grant.holder \in HonestKey
                 PROVE  \E s \in signed' :
                          /\ Meant(s, x.facts.grant_hash, x.e)
                          /\ x.facts.grant = grant_facts(x.facts.grant_hash, x.e)
                          /\ s.proof.form = x.facts.proof_id
                          /\ s.at <= x.e.now
                          /\ x.e.now - s.at <= x.e.max_age + x.e.skew + Drift
      BY DEF HolderMeantIt
    <3>1. CASE x \in enveloped
      BY <1>1, <3>1 DEF HolderMeantIt
    <3>2. CASE x.e = e /\ x.facts = f
      BY <1>1, <2>2, <2>3, <3>2
    <3>3. QED
      BY <2>4, <3>1, <3>2
  <2>6. ChallengeAnswered'
    <3> SUFFICES ASSUME NEW x \in enveloped', x.facts.grant.holder \in HonestKey,
                        x.e.nonce # NoNonce
                 PROVE  \E c \in challenges', s \in signed' :
                          /\ c.nonce = x.e.nonce
                          /\ Meant(s, x.facts.grant_hash, x.e)
                          /\ c.at <= s.at /\ s.at <= x.e.now
      BY DEF ChallengeAnswered
    <3>1. CASE x \in enveloped
      BY <1>1, <3>1 DEF ChallengeAnswered
    <3>2. CASE x.e = e /\ x.facts = f
      BY <1>1, <2>2, <2>3, <3>2
    <3>3. QED
      BY <2>4, <3>1, <3>2
  <2>7. QED
    BY <2>5, <2>6
<1>4. QED
  BY <1>2, <1>3, StepShape

\* facts are returned only over signatures that somebody made
LEMMA SomebodyStep ==
  ASSUME TypeOK, SomebodySigned, [Next]_vars
  PROVE  SomebodySigned'
<1>1. CASE enveloped' = enveloped
  BY <1>1 DEF SomebodySigned
<1>2. CASE CheckEnvelope
  <2>1. PICK g \in GrantsOnWire, p \in ProofsOnWire, e \in Calls :
          /\ g \in GrantCompact /\ e \in ExpectedRequest
          /\ check_envelope_for(g, p, e)
          /\ enveloped' = enveloped \cup {[facts |-> envelope_facts(g, p, e), e |-> e]}
    BY <1>2, CheckStep
  <2>2. g.signer = e.trusted.key /\ g.claims.cnf \notin SmallOrderKey
    BY <2>1, CheckedGrant, VerifiedGrant, CheckedBinding DEF SignedBy
  <2>3. /\ envelope_facts(g, p, e).grant_hash = g
        /\ envelope_facts(g, p, e).grant.holder = g.claims.cnf
    BY <2>1, CheckedProof
  <2>4. QED
    BY <2>1, <2>2, <2>3 DEF SomebodySigned
<1>3. QED
  BY <1>1, <1>2, StepShape

LEMMA SafetyStep == SafetyInv /\ TypeOK' /\ [Next]_vars => SafetyInv'
BY HistoryStep, WindowStep, GrantFactsStep, EnvelopeFactsStep, HolderStep, SomebodyStep
   DEF SafetyInv

\* The inductive invariant: what the library returned about honest keys is what
\* their owners signed, in the order and inside the windows the code checks.
THEOREM Safety == Spec => []SafetyInv
<1>1. SafetyInv /\ TypeOK' /\ [Next]_vars => SafetyInv'
  BY SafetyStep
<1>2. QED
  BY <1>1, InitSafety, TypeCorrect, PTL DEF Spec

\* verify_grant never returns facts that the honest owner of the trusted key did
\* not sign, or outside the grant's life widened by the largest skew.
THEOREM GrantFactsAreAuthentic == Spec => []GrantFactsAuthentic
<1>1. SafetyInv => GrantFactsAuthentic
  BY DEF SafetyInv
<1>2. QED
  BY <1>1, Safety, PTL

\* check_envelope never returns facts of a grant its trusted honest issuer did
\* not sign byte for byte, for that audience and those arguments.
THEOREM EnvelopeFactsAreAuthentic == Spec => []EnvelopeFactsAuthentic
<1>1. SafetyInv => EnvelopeFactsAuthentic
  BY DEF SafetyInv
<1>2. QED
  BY <1>1, Safety, PTL

\* check_envelope never returns facts that name an honest holder which did not
\* sign for exactly that call, recently.
THEOREM HoldersMeantIt == Spec => []HolderMeantIt
<1>1. SafetyInv => HolderMeantIt
  BY DEF SafetyInv
<1>2. QED
  BY <1>1, Safety, PTL

\* a required nonce is answered after it was handed out
THEOREM ChallengesAnswered == Spec => []ChallengeAnswered
<1>1. SafetyInv => ChallengeAnswered
  BY DEF SafetyInv
<1>2. QED
  BY <1>1, Safety, PTL

\* the replay window has the width the specification gives it
THEOREM ReplayIsBounded == Spec => []ReplayWindow
<1>1. SafetyInv => ReplayWindow
  <2> SUFFICES ASSUME SafetyInv, NEW a \in enveloped, NEW b \in enveloped,
                      a.facts = b.facts
               PROVE  b.e.now - a.e.now <= b.e.max_age + b.e.skew + a.e.skew
    BY DEF ReplayWindow
  <2>1. a.e \in ExpectedRequest /\ b.e \in ExpectedRequest /\ a.facts \in EnvelopeFacts
    BY DEF SafetyInv, TypeOK
  <2>2. /\ a.e.now \in Int /\ a.e.skew \in Int
        /\ b.e.now \in Int /\ b.e.skew \in Int /\ b.e.max_age \in Int
        /\ a.facts.proof_iat \in Int
    BY <2>1, BoundAssumption DEF ExpectedRequest, EnvelopeFacts, I64
  <2>3. /\ b.e.now - b.e.max_age - b.e.skew <= a.facts.proof_iat
        /\ a.facts.proof_iat <= a.e.now + a.e.skew
    BY DEF SafetyInv, ProofInWindow
  <2>4. QED
    BY <2>2, <2>3
<1>2. QED
  BY <1>1, Safety, PTL

\* neither a small-order issuer key in a host's configuration nor one that a grant
\* confirms ever yields facts
THEOREM SmallOrderKeysAreUseless == Spec => []SomebodySigned
<1>1. SafetyInv => SomebodySigned
  BY DEF SafetyInv
<1>2. QED
  BY <1>1, Safety, PTL

(***************************************************************************)
(* What the producers make every reader takes.                             *)
(***************************************************************************)

\* assembly has decoded the grant under its own major, whatever the clock says later
LEMMA AssembledGrant ==
  ASSUME NEW major \in Majors, NEW input, NEW form, NEW scalar, NEW signer, NEW g,
         g = [claims |-> grant_signing_input(major, input), form |-> form,
              scalar |-> scalar, signer |-> signer],
         grant_assembled(major, g)
  PROVE  /\ g.scalar = "canonical" /\ g.claims.v = major
         /\ decode_grant(major, g) /\ g.claims.iat = input.iat
<1>1. g.claims = grant_signing_input(major, input)
  OBVIOUS
<1>2. g.scalar = "canonical" /\ decode_grant(major, g)
  BY DEF grant_assembled, assemble_compact_for_v1, assemble_compact_v2, assemble_compact_v3,
         signature_gate, validate_rs_range, decode_grant, decode_grant_v1, decode_grant_v2,
         decode_grant_v3
<1>3. g.claims.v = major /\ g.claims.iat = input.iat
  BY <1>1 DEF grant_signing_input, grant_signing_input_v1, grant_signing_input_v2,
              grant_signing_input_v3, Majors
<1>4. QED
  BY <1>2, <1>3

\* what a proof producer writes besides the times
LEMMA ProducedProof ==
  ASSUME NEW major \in Majors, NEW profile, NEW g, NEW r, NEW iat, NEW nonce
  PROVE  LET c == proof_signing_input(major, profile, proof_input(g, r, iat, nonce))
         IN  c.v = major /\ c.ba_req[1] = DomainOf(major)
BY DEF proof_signing_input, proof_signing_input_for_v1, proof_signing_input_v2,
       proof_signing_input_v3, proof_input, request_digest, request_digest_successor,
       request_digest_v3, request_digest_with, DomainOf, Majors

\* assembly has decoded the proof under the profile it was asked for
LEMMA AssembledProof ==
  ASSUME NEW major \in Majors, NEW profile \in AllProfiles, NEW p,
         proof_assembled(major, profile, p)
  PROVE  /\ p.scalar = "canonical" /\ profile \in Profiles(major)
         /\ p.claims.typ = proof_typ(profile) /\ decode_proof(major, profile, p)
<1>1. profile \in Profiles(major)
  BY DEF proof_assembled, Profiles, AllProfiles
<1>2. p.scalar = "canonical" /\ decode_proof(major, profile, p)
  BY DEF proof_assembled, assemble_compact_for_v1, assemble_compact_v2, assemble_compact_v3,
         signature_gate, validate_rs_range, decode_proof, decode_proof_for_v1,
         decode_proof_v2, decode_proof_v3
<1>3. p.claims.typ = proof_typ(profile)
  BY <1>1, <1>2
     DEF decode_proof, decode_proof_for_v1, decode_proof_v2, decode_proof_v3,
         decode_proof_parts_for_v1, decode_proof_parts_v2, decode_proof_parts_v3,
         validate_proof_header_for_v1, validate_proof_header_v2, validate_proof_header_v3,
         proof_typ, Profiles, Majors
<1>4. QED
  BY <1>1, <1>2, <1>3

\* whichever producer a holder uses
LEMMA HoldersProduceWell ==
  ASSUME TypeOK, SignProof \/ SignProofElsewhere
  PROVE  \A s \in signed' \ signed : SignedWell(s.proof)
<1>1. CASE SignProof
  <2>1. PICK g \in GrantsOnWire, r \in HolderRequest, nonce \in Outstanding \cup {NoNonce},
             iat \in Near, form \in Form, scalar \in Scalar :
          LET proof == Proof(proof_signing_input(r.major, r.profile,
                               proof_input(g, r, iat, nonce)), form, scalar)
          IN  /\ proof_assembled(r.major, r.profile, proof)
              /\ signed' = signed \cup {[proof |-> proof, at |-> now]}
    BY <1>1 DEF SignProof
  <2> DEFINE c == proof_signing_input(r.major, r.profile, proof_input(g, r, iat, nonce))
             p == Proof(c, form, scalar)
  <2>2. r.major \in Majors /\ r.profile \in AllProfiles
    BY HonestAssumption DEF Request
  <2>3. c.v = r.major /\ c.ba_req[1] = DomainOf(r.major)
    BY <2>2, ProducedProof
  <2>4. proof_assembled(r.major, r.profile, p) /\ signed' \ signed \subseteq {[proof |-> p, at |-> now]}
    BY <2>1
  <2> HIDE DEF c
  <2>5. p.claims = c /\ p.signer = c.jwk
    BY DEF Proof
  <2> HIDE DEF p
  <2>6. SignedWell(p)
    BY <2>2, <2>3, <2>4, <2>5, AssembledProof DEF SignedWell
  <2>7. QED
    BY <2>4, <2>6
<1>2. CASE SignProofElsewhere
  <2>1. PICK g \in GrantsOnWire, r \in HolderRequest, nonce \in Outstanding,
             iat \in Near, form \in Form :
          LET proof == Proof([proof_signing_input(r.major, "standard",
                                proof_input(g, r, iat, nonce)) EXCEPT !.nonce = nonce],
                             form, "canonical")
          IN  /\ proof_assembled(r.major, "standard", proof)
              /\ signed' = signed \cup {[proof |-> proof, at |-> now]}
    BY <1>2, ZenonT(40) DEF SignProofElsewhere
  <2> DEFINE d == proof_signing_input(r.major, "standard", proof_input(g, r, iat, nonce))
             c == [d EXCEPT !.nonce = nonce]
             p == Proof(c, form, "canonical")
  <2>2. r.major \in Majors /\ "standard" \in AllProfiles
    BY HonestAssumption DEF Request, AllProfiles
  <2>3. d.v = r.major /\ d.ba_req[1] = DomainOf(r.major)
    BY <2>2, ProducedProof
  <2>4. proof_assembled(r.major, "standard", p) /\ signed' \ signed \subseteq {[proof |-> p, at |-> now]}
    BY <2>1
  <2>5. d \in ProofClaims
    <3>1. g \in GrantCompact /\ iat \in I64 /\ nonce \in Nonce \cup {NoNonce}
      BY WireTypes DEF TypeOK, Outstanding, Near
    <3>2. QED
      BY <3>1, ProofInputTypes, ProofClaimTypes DEF AllProfiles
  <2> HIDE DEF d
  <2>6. c.v = r.major /\ c.ba_req[1] = DomainOf(r.major)
    BY <2>3, <2>5 DEF ProofClaims
  <2> HIDE DEF c
  <2>7. p.claims = c /\ p.signer = c.jwk
    BY DEF Proof
  <2> HIDE DEF p
  <2>8. SignedWell(p)
    BY <2>2, <2>4, <2>6, <2>7, AssembledProof DEF SignedWell
  <2>9. QED
    BY <2>4, <2>8
<1>3. QED
  BY <1>1, <1>2

LEMMA WellProducedStep ==
  ASSUME TypeOK, WellProduced, [Next]_vars
  PROVE  WellProduced'
<1>1. \A g \in issued' : IssuedWell(g)'
  <2>1. /\ now \in Int /\ Drift \in Int /\ now' \in Int /\ now <= now'
        /\ \A g \in issued : g.claims.iat \in Int
    <3>1. now \in Int /\ Drift \in Int /\ \A g \in issued : g.claims.iat \in Int
      BY Times DEF TypeOK
    <3>2. now' = now \/ now' = now + 1
      BY DEF Next, vars, Tick, IssueGrant, Challenge, SignProof, SignProofElsewhere,
             VerifyGrant, CheckEnvelope
    <3>3. QED
      BY <3>1, <3>2
  <2>2. ASSUME NEW g \in issued
        PROVE  IssuedWell(g)'
    <3>1. IssuedWell(g)
      BY DEF WellProduced
    <3>2. QED
      BY <2>1, <3>1 DEF IssuedWell
  <2>3. CASE IssueGrant
    <3>1. PICK policy \in GrantPolicy, iat \in Near, form \in Form, scalar \in Scalar :
            LET input == [policy.input EXCEPT !.iat = iat]
                grant == [claims |-> grant_signing_input(policy.major, input),
                          form |-> form, scalar |-> scalar, signer |-> policy.signer]
            IN  /\ grant_assembled(policy.major, grant)
                /\ issued' = issued \cup {grant}
      BY <2>3 DEF IssueGrant
    <3> DEFINE input == [policy.input EXCEPT !.iat = iat]
               grant == [claims |-> grant_signing_input(policy.major, input),
                         form |-> form, scalar |-> scalar, signer |-> policy.signer]
    <3>2. policy.major \in Majors /\ policy.input \in GrantInput
      BY HonestAssumption
    <3>3. input.iat = iat /\ iat <= now + Drift /\ now' = now
      BY <2>3, <3>2 DEF GrantInput, Near, IssueGrant
    <3>4. grant_assembled(policy.major, grant) /\ issued' = issued \cup {grant}
      BY <3>1
    <3> HIDE DEF input
    <3>5. /\ grant.scalar = "canonical" /\ grant.claims.v = policy.major
          /\ decode_grant(policy.major, grant) /\ grant.claims.iat = input.iat
      BY <3>2, <3>4, AssembledGrant
    <3> HIDE DEF grant
    <3>6. QED
      BY <2>2, <3>3, <3>4, <3>5 DEF IssuedWell
  <2>4. CASE issued' = issued
    BY <2>2, <2>4
  <2>5. QED
    BY <2>3, <2>4 DEF Next, vars, Tick, Challenge, SignProof, SignProofElsewhere,
                      VerifyGrant, CheckEnvelope
<1>2. \A s \in signed' : SignedWell(s.proof)
  <2>1. CASE SignProof \/ SignProofElsewhere
    BY <2>1, HoldersProduceWell DEF WellProduced
  <2>2. CASE signed' = signed
    BY <2>2 DEF WellProduced
  <2>3. QED
    BY <2>1, <2>2 DEF Next, vars, Tick, Challenge, IssueGrant, VerifyGrant, CheckEnvelope
<1>3. QED
  BY <1>1, <1>2 DEF WellProduced

LEMMA InitWellProduced == Init => WellProduced
BY DEF Init, WellProduced

\* what the state and the context of a call give check_envelope to work with
LEMMA HonestInputs ==
  ASSUME TypeOK, NEW s \in signed, NEW e \in Calls
  PROVE  LET g == s.proof.claims.ath
         IN  /\ e \in ExpectedRequest /\ e.now = now /\ s.proof \in ProofCompact
             /\ g \in GrantCompact /\ e.major \in Majors /\ e.profile \in AllProfiles
             /\ s.proof.claims.ba_req \in RequestDomain \X Operation \X Args
BY CallTypes DEF TypeOK, ProofCompact, ProofClaims, ExpectedRequest

\* saturation at the ends of i64 leaves an i64 in a window it was in before
LEMMA SaturatedWindow ==
  ASSUME NEW a \in Int, NEW b \in Nat, NEW t \in I64
  PROVE  /\ t <= a + b => t <= saturating_add(a, b)
         /\ a - b <= t => saturating_sub(a, b) <= t
BY BoundAssumption DEF saturating_add, saturating_sub, I64

\* the time checks of a call for which HonestAccepted states its premise
LEMMA HonestInTime ==
  ASSUME NEW t \in Int, NEW d \in Nat, NEW skew \in Nat, NEW age \in Nat,
         NEW at \in Int, NEW iat \in I64, NEW nbf \in I64, NEW exp \in I64,
         NEW piat \in I64,
         d <= skew, iat <= t + d, nbf <= t, t < exp,
         at - d <= piat, piat <= at + d, at <= t, t - at <= age
  PROVE  /\ iat <= saturating_add(t, skew) /\ nbf <= saturating_add(t, skew)
         /\ exp > saturating_sub(t, skew)
         /\ piat >= saturating_sub(saturating_sub(t, age), skew)
         /\ piat <= saturating_add(t, skew)
<1>1. iat \in Int /\ nbf \in Int /\ exp \in Int /\ piat \in Int
  BY BoundAssumption DEF I64
<1>2. iat <= t + skew /\ nbf <= t + skew /\ piat <= t + skew /\ t - age - skew <= piat
  BY <1>1
<1>3. /\ iat <= saturating_add(t, skew) /\ nbf <= saturating_add(t, skew)
      /\ piat <= saturating_add(t, skew)
  BY <1>2, SaturatedWindow
<1>4. exp > saturating_sub(t, skew)
  BY <1>1, BoundAssumption DEF saturating_sub, I64
<1>5. piat >= saturating_sub(saturating_sub(t, age), skew)
  BY <1>1, <1>2, BoundAssumption DEF saturating_sub, I64
<1>6. QED
  BY <1>3, <1>4, <1>5

\* one major and profile after the other: every check of the call is one of the
\* facts that the producers, the premise and the clock have established
LEMMA HonestPassesChecks ==
  ASSUME NEW g, NEW p, NEW e \in ExpectedRequest, usable_context(e),
         decode_grant(e.major, g), decode_proof(e.major, e.profile, p),
         g.scalar = "canonical", p.scalar = "canonical",
         g.signer = e.trusted.key, g.claims.kid = e.trusted.kid,
         g.claims.iss = e.issuer, e.audience \in g.claims.aud,
         g.claims.iat <= saturating_add(e.now, e.skew),
         g.claims.nbf <= saturating_add(e.now, e.skew),
         g.claims.exp > saturating_sub(e.now, e.skew),
         p.claims.jwk = g.claims.cnf, p.signer = g.claims.cnf, p.claims.ath = g,
         p.claims.ba_req = <<DomainOf(e.major), e.operation, e.args>>,
         p.claims.htm = e.method, p.claims.htu = e.uri, p.claims.ba_inv = e.inv,
         p.claims.ba_op = e.operation,
         e.operation \in DOMAIN g.claims.operations,
         \A selector \in g.claims.operations[e.operation] : evaluate(selector, e.args),
         p.claims.iat >= saturating_sub(saturating_sub(e.now, e.max_age), e.skew),
         p.claims.iat <= saturating_add(e.now, e.skew),
         p.claims.nonce = e.nonce
  PROVE  check_envelope_for(g, p, e)
<1>1. /\ 1 <= e.max_age /\ e.max_age <= e.bounds.proof_max_age
      /\ e.skew <= e.bounds.clock_skew
      /\ e.profile \in Profiles(e.major) /\ e.uri \in NormalUris(e.profile)
      /\ e.profile = "local_loopback_http" => e.nonce # NoNonce
  BY DEF usable_context
<1>2. CASE e.major = 1
  <2>1. acceptable_public_key(e.trusted.key)
    BY <1>2 DEF usable_context, SuiteKeys
  <2>2. acceptable_public_key(p.claims.jwk) /\ decode_proof_parts_for_v1(p, e.profile)
    BY <1>2 DEF decode_proof, decode_proof_for_v1, decode_proof_parts_for_v1,
                validate_proof_header_for_v1, jwk_decode_public
  <2>3. verify_grant_v1(g, e)
    BY <1>1, <1>2, <2>1 DEF verify_grant_v1, decode_grant, decode_grant_v1, ed25519_verify,
       signature_gate, equation, grant_in_force_v1
  <2>4. holder_bound_v1(g, p)
    BY <2>2 DEF holder_bound_v1, ed25519_verify, signature_gate, equation
  <2>5. request_bound_v1(p, e, e.profile)
    BY <1>1, <1>2 DEF request_bound_v1, request_digest, request_digest_with, DomainOf,
                      NormalUris, normal_uris_v1
  <2>6. operation_authorised_v1(g, e) /\ proof_timely_v1(p, e) /\ nonce_mode_v1(p, e)
    BY DEF operation_authorised_v1, proof_timely_v1, nonce_mode_v1
  <2>7. check_envelope_for_v1(g, p, e, e.profile)
    BY <1>1, <2>2, <2>3, <2>4, <2>5, <2>6 DEF check_envelope_for_v1
  <2>8. e.profile = "standard" \/ e.profile = "local_loopback_http"
    BY DEF ExpectedRequest, AllProfiles
  <2>9. QED
    BY <1>2, <2>7, <2>8 DEF check_envelope_for, check_envelope_v1,
                            check_local_loopback_http_envelope_v1
<1>3. CASE e.major = 2
  <2>1. acceptable_public_key(e.trusted.key) /\ e.profile = "standard"
    BY <1>1, <1>3 DEF usable_context, SuiteKeys, Profiles
  <2>2. acceptable_public_key(p.claims.jwk) /\ decode_proof_parts_v2(p)
    BY <1>3 DEF decode_proof, decode_proof_v2, decode_proof_parts_v2,
                validate_proof_header_v2, jwk_decode_public
  <2>3. verify_grant_v2(g, e)
    BY <1>1, <1>3, <2>1 DEF verify_grant_v2, decode_grant, decode_grant_v2, ed25519_verify,
       signature_gate, equation, grant_in_force_v2
  <2>4. holder_bound_v2(g, p)
    BY <2>2 DEF holder_bound_v2, ed25519_verify, signature_gate, equation
  <2>5. request_bound_v2(p, e)
    BY <1>1, <1>3, <2>1 DEF request_bound_v2, request_digest_successor,
       request_digest_with, DomainOf, NormalUris
  <2>6. operation_authorised_v2(g, e) /\ proof_timely_v2(p, e) /\ nonce_mode_v2(p, e)
    BY DEF operation_authorised_v2, proof_timely_v2, nonce_mode_v2
  <2>7. QED
    BY <1>1, <1>3, <2>1, <2>2, <2>3, <2>4, <2>5, <2>6
       DEF check_envelope_for, check_envelope_v2
<1>4. CASE e.major = 3
  <2>1. validate_point(e.trusted.key) /\ e.profile = "standard"
    BY <1>1, <1>4 DEF usable_context, SuiteKeys, Profiles
  <2>2. validate_point(p.claims.jwk) /\ decode_proof_parts_v3(p)
    BY <1>4 DEF decode_proof, decode_proof_v3, decode_proof_parts_v3,
                validate_proof_header_v3, jwk_decode_public_v3
  <2>3. verify_grant_v3(g, e)
    BY <1>1, <1>4, <2>1 DEF verify_grant_v3, decode_grant, decode_grant_v3, es256_verify,
       validate_rs_range, equation, grant_in_force_v3
  <2>4. holder_bound_v3(g, p)
    BY <2>2 DEF holder_bound_v3, es256_verify, validate_rs_range, equation
  <2>5. request_bound_v3(p, e)
    BY <1>1, <1>4, <2>1 DEF request_bound_v3, request_digest_v3,
       request_digest_with, DomainOf, NormalUris
  <2>6. operation_authorised_v3(g, e) /\ proof_timely_v3(p, e) /\ nonce_mode_v3(p, e)
    BY DEF operation_authorised_v3, proof_timely_v3, nonce_mode_v3
  <2>7. QED
    BY <1>1, <1>4, <2>1, <2>2, <2>3, <2>4, <2>5, <2>6
       DEF check_envelope_for, check_envelope_v3
<1>5. QED
  BY <1>2, <1>3, <1>4 DEF ExpectedRequest, Majors

\* check_envelope refuses nothing that an honest issuer and an honest holder made for
\* the call at hand: while the grant is in force and the proof young enough, a host
\* whose skew covers the drift of the clocks gets its facts, in every major and
\* profile and up to the ends of i64.
THEOREM HonestCallsPass == Spec => []HonestAccepted
<1>1. TypeOK /\ SigningHistory /\ WellProduced => HonestAccepted
  <2> SUFFICES ASSUME TypeOK, SigningHistory, WellProduced, NEW s \in signed, NEW e \in Calls
               PROVE  LET g == s.proof.claims.ath
                      IN  (/\ g \in issued
                           /\ Meant(s, g, e)
                           /\ usable_context(e)
                           /\ e.trusted = [kid |-> g.claims.kid, key |-> g.signer]
                           /\ g.claims.v = e.major
                           /\ e.issuer = g.claims.iss /\ e.audience \in g.claims.aud
                           /\ e.operation \in DOMAIN g.claims.operations
                           /\ \A selector \in g.claims.operations[e.operation] :
                                evaluate(selector, e.args)
                           /\ g.claims.nbf <= now /\ now < g.claims.exp
                           /\ Drift <= e.skew /\ now - s.at <= e.max_age)
                          => /\ untrusted_key_locator(e.major, g)
                             /\ decode_grant(e.major, g)
                             /\ decode_proof(e.major, e.profile, s.proof)
                             /\ check_envelope_for(g, s.proof, e)
    BY DEF HonestAccepted
  <2> DEFINE p == s.proof
             g == p.claims.ath
  <2> SUFFICES ASSUME g \in issued, Meant(s, g, e), usable_context(e),
                      e.trusted = [kid |-> g.claims.kid, key |-> g.signer],
                      g.claims.v = e.major,
                      e.issuer = g.claims.iss, e.audience \in g.claims.aud,
                      e.operation \in DOMAIN g.claims.operations,
                      \A selector \in g.claims.operations[e.operation] :
                        evaluate(selector, e.args),
                      g.claims.nbf <= now, now < g.claims.exp,
                      Drift <= e.skew, now - s.at <= e.max_age
               PROVE  /\ untrusted_key_locator(e.major, g)
                      /\ decode_grant(e.major, g)
                      /\ decode_proof(e.major, e.profile, p)
                      /\ check_envelope_for(g, p, e)
    OBVIOUS
  <2>1. /\ e \in ExpectedRequest /\ e.now = now /\ p \in ProofCompact
        /\ g \in GrantCompact /\ e.major \in Majors /\ e.profile \in AllProfiles
        /\ p.claims.ba_req \in RequestDomain \X Operation \X Args
    BY HonestInputs
  <2>2. IssuedWell(g) /\ SignedWell(p)
    BY DEF WellProduced
  <2>3. /\ p.signer = g.claims.cnf /\ p.claims.v = e.major
        /\ p.claims.typ = proof_typ(e.profile)
        /\ p.claims.htm = e.method /\ p.claims.htu = e.uri /\ p.claims.ba_inv = e.inv
        /\ p.claims.ba_op = e.operation
        /\ p.claims.ba_req[2] = e.operation /\ p.claims.ba_req[3] = e.args
        /\ p.claims.nonce = e.nonce
    BY DEF Meant
  <2>4. decode_grant(e.major, g) /\ untrusted_key_locator(e.major, g)
    BY <2>2 DEF IssuedWell, decode_grant, decode_grant_v1, decode_grant_v2, decode_grant_v3,
       decode_grant_parts_v1, decode_grant_parts_v2, decode_grant_parts_v3,
       untrusted_key_locator, untrusted_key_locator_v1, untrusted_key_locator_v2,
       untrusted_key_locator_v3
  <2>5. decode_proof(e.major, e.profile, p)
    <3>1. PICK profile \in Profiles(e.major) :
            proof_typ(e.profile) = proof_typ(profile) /\ decode_proof(e.major, profile, p)
      BY <2>2, <2>3 DEF SignedWell
    <3>2. profile = e.profile
      BY <2>1, <3>1 DEF proof_typ, Profiles, AllProfiles
    <3>3. QED
      BY <3>1, <3>2
  <2>6. p.claims.ba_req = <<DomainOf(e.major), e.operation, e.args>>
    BY <2>1, <2>2, <2>3 DEF SignedWell
  <2>7. /\ g.claims.iat <= saturating_add(e.now, e.skew)
        /\ g.claims.nbf <= saturating_add(e.now, e.skew)
        /\ g.claims.exp > saturating_sub(e.now, e.skew)
        /\ p.claims.iat >= saturating_sub(saturating_sub(e.now, e.max_age), e.skew)
        /\ p.claims.iat <= saturating_add(e.now, e.skew)
    <3>1. /\ now \in Int /\ s.at \in Int /\ e.skew \in Nat /\ e.max_age \in Nat
          /\ Drift \in Nat
      BY <2>1, Times, TimeAssumption
    <3>2. /\ g.claims.iat \in I64 /\ g.claims.nbf \in I64 /\ g.claims.exp \in I64
          /\ p.claims.iat \in I64
      BY <2>1 DEF GrantCompact, GrantClaims, ProofCompact, ProofClaims
    <3>3. /\ s.at <= now /\ s.at - Drift <= p.claims.iat /\ p.claims.iat <= s.at + Drift
          /\ g.claims.iat <= now + Drift
      BY <2>2 DEF SigningHistory, IssuedWell
    <3>4. /\ g.claims.nbf <= now /\ now < g.claims.exp
          /\ Drift <= e.skew /\ now - s.at <= e.max_age
      OBVIOUS
    <3> HIDE DEF p, g
    <3> DEFINE iat == g.claims.iat  nbf == g.claims.nbf  exp == g.claims.exp
               piat == p.claims.iat
    <3> HIDE DEF iat, nbf, exp, piat
    <3>5. /\ iat <= saturating_add(now, e.skew) /\ nbf <= saturating_add(now, e.skew)
          /\ exp > saturating_sub(now, e.skew)
          /\ piat >= saturating_sub(saturating_sub(now, e.max_age), e.skew)
          /\ piat <= saturating_add(now, e.skew)
      <4>1. /\ iat \in I64 /\ nbf \in I64 /\ exp \in I64 /\ piat \in I64
            /\ iat <= now + Drift /\ nbf <= now /\ now < exp
            /\ s.at - Drift <= piat /\ piat <= s.at + Drift
        BY <3>2, <3>3, <3>4 DEF iat, nbf, exp, piat
      <4>2. QED
        BY <3>1, <3>3, <3>4, <4>1, HonestInTime
    <3>6. QED
      BY <2>1, <3>5 DEF iat, nbf, exp, piat
  <2>8. p.claims.jwk = g.claims.cnf /\ p.scalar = "canonical" /\ g.scalar = "canonical"
    BY <2>2, <2>3 DEF SignedWell, IssuedWell
  <2>9. /\ g.signer = e.trusted.key /\ g.claims.kid = e.trusted.kid
        /\ p.claims.ath = g
    OBVIOUS
  <2> HIDE DEF p, g
  <2>10. check_envelope_for(g, p, e)
    BY <2>1, <2>3, <2>4, <2>5, <2>6, <2>7, <2>8, <2>9, HonestPassesChecks
  <2>11. QED
    BY <2>4, <2>5, <2>10
<1>2. TypeOK /\ WellProduced /\ [Next]_vars => WellProduced'
  BY WellProducedStep
<1>3. QED
  BY <1>1, <1>2, InitWellProduced, Safety, PTL DEF Spec, SafetyInv

(***************************************************************************)
(* The abstract specification.                                             *)
(***************************************************************************)

Rights == {RightOf(g) : g \in issued}
Wants == {WantOf(s) : s \in signed}
Exercised == {ExerciseOf(x) : x \in {y \in enveloped : Honest(y)}}

LEMMA IdealInit == Init => Ideal!Init
BY DEF Init, Ideal!Init

\* a proof the holder meant for a call is a want of the request that is exercised
LEMMA MeantIsWanted ==
  ASSUME NEW s, NEW g, NEW e, Meant(s, g, e)
  PROVE  /\ WantOf(s).id = g /\ WantOf(s).holder = g.claims.cnf
         /\ WantOf(s).request = RequestOf(e.major, proof_typ(e.profile), e)
BY DEF Meant, WantOf, RequestOf

LEMMA ExerciseAllowed ==
  ASSUME TypeOK, SigningHistory, NEW g \in GrantsOnWire, NEW p \in ProofsOnWire,
         NEW e \in Calls, check_envelope_for(g, p, e),
         e.trusted.key \in HonestKey, g.claims.cnf \in HonestKey
  PROVE  /\ RightOf(g) \in Rights
         /\ \E w \in Wants : /\ w.request = RequestOf(e.major, proof_typ(e.profile), e)
                             /\ Ideal!Allows(RightOf(g), w, e.audience)
<1>1. g \in GrantCompact /\ e \in ExpectedRequest /\ e.now = now
  BY WireTypes, CallTypes
<1>2. verify_grant(g, e)
  BY CheckedGrant
<1>21. g \in issued
  BY <1>1, <1>2, VerifiedGrant, GrantSource
<1>22. PICK s \in signed : s.proof = p /\ p.signer = g.claims.cnf
  BY CheckedBinding, ProofSource
<1>3. Meant(s, g, e)
  BY <1>22, CheckedBinding DEF Meant
<1> DEFINE w == WantOf(s)
           r == RightOf(g)
<1>4. w.id = g /\ w.holder = g.claims.cnf
      /\ w.request = RequestOf(e.major, proof_typ(e.profile), e)
  BY <1>3, MeantIsWanted
<1>5. /\ r.id = g /\ r.holder = g.claims.cnf /\ r.audiences = g.claims.aud
      /\ r.operations = g.claims.operations /\ r.to = g.claims.exp
      /\ r.from = IF g.claims.iat > g.claims.nbf THEN g.claims.iat ELSE g.claims.nbf
  BY DEF RightOf
<1>6. w.request.operation = e.operation /\ w.request.args = e.args
  BY <1>4 DEF RequestOf
<1>7. /\ e.audience \in g.claims.aud
      /\ e.operation \in DOMAIN g.claims.operations
      /\ \A sel \in g.claims.operations[e.operation] : e.args \in sel
  BY <1>1, <1>2, CheckedGrant, VerifiedGrant DEF evaluate
<1>8. r.from - MaxClockSkew <= now /\ now < r.to + MaxClockSkew
  <2>1. /\ e.skew <= MaxClockSkew
        /\ g.claims.iat <= e.now + e.skew /\ g.claims.nbf <= e.now + e.skew
        /\ g.claims.exp > e.now - e.skew
    BY <1>1, <1>2, VerifiedGrant
  <2>2. /\ now \in Int /\ MaxClockSkew \in Int /\ e.skew \in Int
        /\ g.claims.iat \in Int /\ g.claims.nbf \in Int /\ g.claims.exp \in Int
    BY <1>1, Times
  <2> HIDE DEF r
  <2>3. QED
    BY <1>1, <1>5, <2>1, <2>2
<1> HIDE DEF r, w
<1>9. Ideal!Allows(r, w, e.audience)
  BY <1>4, <1>5, <1>6, <1>7, <1>8 DEF Ideal!Allows
<1>10. r \in Rights /\ w \in Wants
  BY <1>21 DEF r, w, Rights, Wants
<1>11. QED
  BY <1>4, <1>9, <1>10 DEF r

LEMMA IdealStep ==
  SafetyInv /\ [Next]_vars => [Ideal!Next]_<<now, Rights, Wants, Exercised>>
<1> SUFFICES ASSUME SafetyInv, [Next]_vars
             PROVE  [Ideal!Next]_<<now, Rights, Wants, Exercised>>
  OBVIOUS
<1>1. CASE Tick
  <2>1. UNCHANGED <<Rights, Wants, Exercised>>
    BY <1>1 DEF Tick, Rights, Wants, Exercised, RightOf, WantOf, ExerciseOf, Honest
  <2>2. now' > now
    BY <1>1, Times DEF Tick, SafetyInv
  <2>3. Ideal!Pass
    BY <2>1, <2>2 DEF Ideal!Pass, Rights, Wants, Exercised
  <2>4. QED
    BY <2>3 DEF Ideal!Next
<1>2. CASE IssueGrant
  <2>1. PICK g : /\ issued' = issued \cup {g}
                 /\ g.claims.iat < g.claims.exp /\ g.claims.nbf < g.claims.exp
    <3>1. PICK major, g : issued' = issued \cup {g} /\ grant_assembled(major, g)
      BY <1>2 DEF IssueGrant
    <3>2. g.claims.iat < g.claims.exp /\ g.claims.nbf < g.claims.exp
      BY <3>1 DEF grant_assembled, assemble_compact_for_v1, assemble_compact_v2,
                  assemble_compact_v3, decode_grant_parts_v1, decode_grant_parts_v2,
                  decode_grant_parts_v3, validate_grant_payload_v1,
                  validate_grant_payload_v2, validate_grant_payload_v3
    <3>3. QED
      BY <3>1, <3>2
  <2>2. UNCHANGED <<now, Wants, Exercised>>
    BY <1>2 DEF IssueGrant, Wants, Exercised, WantOf, ExerciseOf, Honest
  <2>3. Rights' = Rights \cup {RightOf(g)}
    BY <2>1 DEF Rights
  <2>4. RightOf(g).from < RightOf(g).to
    BY <2>1 DEF RightOf
  <2>5. CASE RightOf(g) \in Rights
    BY <2>2, <2>3, <2>5
  <2>6. CASE RightOf(g) \notin Rights
    <3>1. Ideal!Delegate(RightOf(g))
      BY <2>2, <2>3, <2>4 DEF Ideal!Delegate, Rights, Wants, Exercised
    <3>2. RightOf(g) \in Rights' \ Rights
      BY <2>3, <2>6
    <3>3. QED
      BY <3>1, <3>2 DEF Ideal!Next, Rights
  <2>7. QED
    BY <2>5, <2>6
<1>3. CASE SignProof \/ SignProofElsewhere
  <2>1. PICK s : signed' = signed \cup {s}
    BY <1>3, ZenonT(40) DEF SignProof, SignProofElsewhere
  <2>2. UNCHANGED <<now, Rights, Exercised>>
    BY <1>3 DEF SignProof, SignProofElsewhere, Rights, Exercised, RightOf, ExerciseOf, Honest
  <2>3. Wants' = Wants \cup {WantOf(s)}
    BY <2>1 DEF Wants
  <2>4. CASE WantOf(s) \in Wants
    BY <2>2, <2>3, <2>4
  <2>5. CASE WantOf(s) \notin Wants
    <3>1. Ideal!Want(WantOf(s))
      BY <2>2, <2>3 DEF Ideal!Want, Rights, Wants, Exercised
    <3>2. WantOf(s) \in Wants' \ Wants
      BY <2>3, <2>5
    <3>3. QED
      BY <3>1, <3>2 DEF Ideal!Next, Wants
  <2>6. QED
    BY <2>4, <2>5
<1>4. CASE CheckEnvelope
  <2>1. PICK g \in GrantsOnWire, p \in ProofsOnWire, e \in Calls :
          /\ e.now = now /\ check_envelope_for(g, p, e)
          /\ enveloped' = enveloped \cup {[facts |-> envelope_facts(g, p, e), e |-> e]}
    BY <1>4, CheckStep DEF SafetyInv
  <2> DEFINE x == [facts |-> envelope_facts(g, p, e), e |-> e]
             a == ExerciseOf(x)
  <2>2. UNCHANGED <<now, Rights, Wants>>
    BY <1>4 DEF CheckEnvelope, Rights, Wants, RightOf, WantOf
  <2>3. x.e = e /\ x.facts.grant_hash = g /\ x.facts.grant.holder = g.claims.cnf
    BY <2>1, CheckedProof
  <2>4. /\ a.right = RightOf(g) /\ a.audience = e.audience /\ a.at = now
        /\ a.request = RequestOf(e.major, proof_typ(e.profile), e)
    BY <2>1, <2>3 DEF ExerciseOf
  <2>5. enveloped' = enveloped \cup {x}
    BY <2>1
  <2> HIDE DEF x, a
  <2>6. CASE Honest(x) /\ a \notin Exercised
    <3>1. Exercised' = Exercised \cup {a}
      BY <2>5, <2>6 DEF Exercised, a, Honest, ExerciseOf
    <3>2. /\ RightOf(g) \in Rights
          /\ \E w \in Wants : /\ w.request = RequestOf(e.major, proof_typ(e.profile), e)
                              /\ Ideal!Allows(RightOf(g), w, e.audience)
      BY <2>1, <2>3, <2>6, ExerciseAllowed DEF Honest, SafetyInv
    <3>3. Ideal!Exercise(a)
      BY <2>2, <2>4, <3>1, <3>2 DEF Ideal!Exercise, Rights, Wants, Exercised
    <3>4. a \in Exercised' \ Exercised
      BY <2>6, <3>1
    <3>5. QED
      BY <3>3, <3>4 DEF Ideal!Next, Exercised
  <2>7. CASE ~ (Honest(x) /\ a \notin Exercised)
    <3>1. Exercised' = Exercised
      BY <2>5, <2>7 DEF Exercised, a, Honest, ExerciseOf
    <3>2. QED
      BY <2>2, <3>1
  <2>8. QED
    BY <2>6, <2>7
<1>5. CASE UNCHANGED <<now, issued, signed, enveloped>>
  BY <1>5 DEF Rights, Wants, Exercised, RightOf, WantOf, ExerciseOf, Honest
<1>6. QED
  BY <1>1, <1>2, <1>3, <1>4, <1>5 DEF Next, vars, Challenge, VerifyGrant

\* Issuers, holders and hosts that speak through this library exercise authority
\* only as BoundedAuthority allows: the right was delegated, its holder wanted the
\* request, and the right covers it and is in force.
THEOREM Refinement == Spec => ImplementsBoundedAuthority
BY Safety, IdealInit, IdealStep, PTL
   DEF Spec, Ideal!Spec, ImplementsBoundedAuthority, Rights, Wants, Exercised
=============================================================================
