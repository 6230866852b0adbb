--------------------------- MODULE EnvelopeSystem ---------------------------
(***************************************************************************)
(* The verification boundaries in the system they are written for: issuers *)
(* that sign grants, holders that sign proofs, hosts that challenge and    *)
(* verify, a clock per host and an adversary that owns the wire.           *)
(*                                                                         *)
(* Everything signed by an honest key is public from then on.  The         *)
(* adversary presents any of it to any host in any order and any number    *)
(* of times, with or without a shifted scalar, next to the credentials it  *)
(* makes itself (ForgedGrants, ForgedProofs: nothing in them is signed by  *)
(* an honest key) and chooses the request the host serves.  The SDK is     *)
(* pure, so a verification is one step; a rejected one changes nothing.    *)
(***************************************************************************)
EXTENDS Envelope, FiniteSets

\* what a request is about, for its holder and for the host that serves it
Request ==
  [major : Majors, profile : AllProfiles, method : Method,
   uri : HttpsUri \cup LoopbackUri, inv : Invocation, operation : Operation,
   args : Args]

CONSTANTS
  HonestKey,      \* keys only their owners sign with
  GrantPolicy,    \* the grants honest issuers may want to sign, iat apart
  HolderRequest,  \* the requests honest holders may want to make
  HostContext,    \* what hosts may be asked to serve, clock and nonce apart
  ForgedGrants, ForgedProofs,
  Drift,          \* how far an issuer's or holder's clock may be from the host's
  \* bounds of the model
  MaxTime, MaxGrants, MaxProofs, MaxGrantFacts, MaxEnvelopeFacts

ASSUME HonestAssumption ==
  /\ HonestKey \subseteq Key
  /\ GrantPolicy \subseteq [major : Majors, input : GrantInput, signer : Key]
  /\ HolderRequest \subseteq Request
ASSUME ContextAssumption ==
  HostContext \subseteq
    [major : Majors, profile : AllProfiles, method : Method,
     uri : HttpsUri \cup LoopbackUri, inv : Invocation, operation : Operation,
     args : Args, trusted : TrustedIssuer, issuer : Issuer, audience : Audience,
     skew : Nat, max_age : Nat, bounds : Bounds]
ASSUME ForgedAssumption ==
  /\ ForgedGrants \subseteq GrantCompact /\ ForgedProofs \subseteq ProofCompact
  /\ \A g \in ForgedGrants : g.signer \notin HonestKey
  /\ \A p \in ForgedProofs : p.signer \notin HonestKey
ASSUME SoundAssumption == HonestKey \cap SmallOrderKey = {}
ASSUME TimeAssumption == Drift \in Nat /\ MaxTime \in Nat /\ MaxTime <= I64Max

VARIABLES
  now,         \* the host's clock, the evaluation_time of every call
  issued,      \* grants signed by honest keys
  challenges,  \* [nonce, at]: nonces the host has handed out, and when
  signed,      \* [proof, at]: proofs signed by honest keys, and when
  granted,     \* [facts, at]: what verify_grant returned, and when
  enveloped    \* [facts, e]: what check_envelope returned, and for which call

vars == <<now, issued, challenges, signed, granted, enveloped>>

SignedProofs == {s.proof : s \in signed}
Outstanding == {c.nonce : c \in challenges}

\* the credentials anyone can present
GrantsOnWire == issued \cup {shifted(g) : g \in issued} \cup ForgedGrants
ProofsOnWire ==
  SignedProofs \cup {shifted(p) : p \in SignedProofs} \cup ForgedProofs

Init ==
  /\ now = 0
  /\ issued = {}
  /\ challenges = {}
  /\ signed = {}
  /\ granted = {}
  /\ enveloped = {}

Tick ==
  /\ now < MaxTime
  /\ now' = now + 1
  /\ UNCHANGED <<issued, challenges, signed, granted, enveloped>>

\* the iat that a clock near the host's may give
Near == {iat \in now - Drift .. now + Drift : iat \in I64}

\* grant_signing_input, the issuer's signature, assemble_compact.  A signer may
\* give either of the two scalars; one that assembly refuses is never sent.
IssueGrant ==
  /\ Cardinality(issued) < MaxGrants
  /\ \E policy \in GrantPolicy, iat \in Near, form \in Form, scalar \in Scalar :
       LET input == [policy.input EXCEPT !.iat = iat]
           grant == [claims |-> grant_signing_input(policy.major, input),
                     form |-> form, scalar |-> scalar, signer |-> policy.signer]
       IN  /\ policy.signer \in HonestKey
           /\ grant_signing_input_ok(policy.major, input)
           /\ grant_assembled(policy.major, grant)
           /\ issued' = issued \cup {grant}
  /\ UNCHANGED <<now, challenges, signed, granted, enveloped>>

\* The host hands out a nonce it has not handed out before.
Challenge ==
  /\ \E n \in Nonce \ Outstanding :
       challenges' = challenges \cup {[nonce |-> n, at |-> now]}
  /\ UNCHANGED <<now, issued, signed, granted, enveloped>>

\* what a holder asks its producer for: a proof of request r on the grant g
proof_input(g, r, iat, nonce) ==
  [htm |-> r.method, htu |-> r.uri, ba_inv |-> r.inv, ba_op |-> r.operation,
   args |-> r.args, grant |-> g, jwk |-> g.claims.cnf, iat |-> iat, nonce |-> nonce]

Proof(claims, form, scalar) ==
  [claims |-> claims, form |-> form, scalar |-> scalar, signer |-> claims.jwk]

\* proof_signing_input (or its loopback twin), the holder's signature, assembly.
\* A holder signs for a grant that confirms its key, over a nonce it was handed.
SignProof ==
  /\ Cardinality(signed) < MaxProofs
  /\ \E g \in GrantsOnWire, r \in HolderRequest, nonce \in Outstanding \cup {NoNonce},
        iat \in Near, form \in Form, scalar \in Scalar :
       LET input == proof_input(g, r, iat, nonce)
           proof == Proof(proof_signing_input(r.major, r.profile, input), form, scalar)
       IN  /\ g.claims.cnf \in HonestKey
           /\ proof_signing_input_ok(r.major, r.profile, input)
           /\ proof_assembled(r.major, r.profile, proof)
           /\ signed' = signed \cup {[proof |-> proof, at |-> now]}
  /\ UNCHANGED <<now, issued, challenges, granted, enveloped>>

\* The format gives a standard proof an optional nonce, which this SDK's producer
\* has no parameter for: a holder that answers a challenge under the standard
\* profile has its proof from another producer of the format.
SignProofElsewhere ==
  /\ Cardinality(signed) < MaxProofs
  /\ \E g \in GrantsOnWire, r \in HolderRequest, nonce \in Outstanding,
        iat \in Near, form \in Form :
       LET input == proof_input(g, r, iat, nonce)
           claims == [proof_signing_input(r.major, "standard", input)
                        EXCEPT !.nonce = nonce]
       IN  /\ r.profile = "standard"
           /\ g.claims.cnf \in HonestKey
           /\ proof_signing_input_ok(r.major, "standard", input)
           /\ proof_assembled(r.major, "standard", Proof(claims, form, "canonical"))
           /\ signed' = signed \cup
                {[proof |-> Proof(claims, form, "canonical"), at |-> now]}
  /\ UNCHANGED <<now, issued, challenges, granted, enveloped>>

\* the expected context of a call made now: a host requires only nonces it handed out
Calls ==
  {[major |-> c.major, profile |-> c.profile, trusted |-> c.trusted,
    issuer |-> c.issuer, audience |-> c.audience, method |-> c.method,
    uri |-> c.uri, inv |-> c.inv, operation |-> c.operation, args |-> c.args,
    now |-> now, skew |-> c.skew, max_age |-> c.max_age, nonce |-> nonce,
    bounds |-> c.bounds] :
     c \in HostContext, nonce \in Outstanding \cup {NoNonce}}

VerifyGrant ==
  /\ Cardinality(granted) < MaxGrantFacts
  /\ \E g \in GrantsOnWire, e \in Calls :
       /\ verify_grant(g, e)
       /\ granted' = granted \cup {[facts |-> grant_facts(g, e), at |-> e.now]}
  /\ UNCHANGED <<now, issued, challenges, signed, enveloped>>

CheckEnvelope ==
  /\ Cardinality(enveloped) < MaxEnvelopeFacts
  /\ \E g \in GrantsOnWire, p \in ProofsOnWire, e \in Calls :
       /\ check_envelope_for(g, p, e)
       /\ enveloped' = enveloped \cup {[facts |-> envelope_facts(g, p, e), e |-> e]}
  /\ UNCHANGED <<now, issued, challenges, signed, granted>>

Next ==
  \/ Tick
  \/ IssueGrant
  \/ Challenge
  \/ SignProof
  \/ SignProofElsewhere
  \/ VerifyGrant
  \/ CheckEnvelope

Spec == Init /\ [][Next]_vars

-----------------------------------------------------------------------------
(***************************************************************************)
(* Type invariant.                                                         *)
(***************************************************************************)

GrantFacts ==
  [version : Majors, issuer : Issuer, grant_id : GrantId, issuer_key : Key,
   holder : Key, matched_audience : Audience, issued_at : I64,
   not_before : I64, expires_at : I64]

EnvelopeFacts ==
  [grant : GrantFacts, proof_id : Form, invocation_id : Invocation,
   operation : Operation, normalized_uri : HttpsUri \cup LoopbackUri,
   grant_hash : GrantCompact, request_hash : RequestDomain \X Operation \X Args,
   proof_iat : I64]

\* the clock, the credentials and the facts keep their shapes
TypeOK ==
  /\ now \in 0 .. MaxTime
  /\ issued \subseteq GrantCompact
  /\ challenges \subseteq [nonce : Nonce, at : 0 .. MaxTime]
  /\ signed \subseteq [proof : ProofCompact, at : 0 .. MaxTime]
  /\ granted \subseteq [facts : GrantFacts, at : 0 .. MaxTime]
  /\ enveloped \subseteq [facts : EnvelopeFacts, e : ExpectedRequest]

(***************************************************************************)
(* Safety.                                                                 *)
(***************************************************************************)

\* verify_grant: facts under a key whose owner is honest describe a grant that
\* owner signed, and are returned only while the grant is in force by the
\* host's clock, give or take the largest skew a host may allow.
GrantFactsAuthentic ==
  \A x \in granted : x.facts.issuer_key \in HonestKey =>
    \E g \in issued :
      /\ g.signer = x.facts.issuer_key
      /\ g.claims.v = x.facts.version
      /\ g.claims.iss = x.facts.issuer /\ g.claims.jti = x.facts.grant_id
      /\ g.claims.cnf = x.facts.holder
      /\ x.facts.matched_audience \in g.claims.aud
      /\ g.claims.nbf - MaxClockSkew <= x.at
      /\ x.at < g.claims.exp + MaxClockSkew

\* check_envelope: the issuer signed the very bytes whose hash the facts carry,
\* for the host's major and audience and for arguments that every selector of the
\* operation admits, however many grants, re-signed copies and shifted signatures
\* are on the wire.
EnvelopeFactsAuthentic ==
  \A x \in enveloped : x.e.trusted.key \in HonestKey =>
    LET g == x.facts.grant_hash
    IN  /\ g \in issued
        /\ g.signer = x.e.trusted.key
        /\ g.claims.v = x.e.major
        /\ x.facts.grant.grant_id = g.claims.jti
        /\ x.e.audience \in g.claims.aud
        /\ x.e.operation \in DOMAIN g.claims.operations
        /\ \A s \in g.claims.operations[x.e.operation] : evaluate(s, x.e.args)
        /\ g.claims.iat - x.e.skew <= x.e.now /\ g.claims.nbf - x.e.skew <= x.e.now
        /\ x.e.now < g.claims.exp + x.e.skew

\* the holder s.proof belongs to meant exactly the call e on grant g
Meant(s, g, e) ==
  LET c == s.proof.claims
  IN  /\ s.proof.signer = g.claims.cnf
      /\ c.ath = g
      /\ c.v = e.major /\ c.typ = proof_typ(e.profile)
      /\ c.htm = e.method /\ c.htu = e.uri /\ c.ba_inv = e.inv
      /\ c.ba_op = e.operation
      /\ c.ba_req[2] = e.operation /\ c.ba_req[3] = e.args
      /\ c.nonce = e.nonce

\* check_envelope: an honest holder signed a proof for exactly the grant that the
\* facts describe and for this request, target, invocation, nonce, major and
\* profile; no proof crosses to another call, and none is replayed more than the
\* proof age and the two clocks allow after it was really signed.
HolderMeantIt ==
  \A x \in enveloped : x.facts.grant.holder \in HonestKey =>
    \E s \in signed :
      /\ Meant(s, x.facts.grant_hash, x.e)
      /\ x.facts.grant = grant_facts(x.facts.grant_hash, x.e)
      /\ s.proof.form = x.facts.proof_id
      /\ s.at <= x.e.now
      /\ x.e.now - s.at <= x.e.max_age + x.e.skew + Drift

\* check_envelope with a required nonce: the honest holder signed after the host
\* handed the nonce out, so nothing signed in advance is accepted.
ChallengeAnswered ==
  \A x \in enveloped :
    (x.facts.grant.holder \in HonestKey /\ x.e.nonce # NoNonce) =>
      \E c \in challenges, s \in signed :
        /\ c.nonce = x.e.nonce
        /\ Meant(s, x.facts.grant_hash, x.e)
        /\ c.at <= s.at /\ s.at <= x.e.now

\* the window that bounds replay (spec/bap-v1.md:741): whoever holds the key,
\* two calls that return the same facts are no further apart than the proof
\* age and the two skews.
ReplayWindow ==
  \A x, y \in enveloped :
    x.facts = y.facts => y.e.now - x.e.now <= y.e.max_age + y.e.skew + x.e.skew

\* Keys of small order satisfy the curve equation for bytes that nobody signed.
\* Even a host that was given one as its issuer's key, or a grant that confirms
\* one, gets no facts from it.
SomebodySigned ==
  \A x \in enveloped :
    /\ x.facts.grant_hash.signer = x.e.trusted.key
    /\ x.facts.grant.holder \notin SmallOrderKey

\* a context that check_envelope does not refuse whatever the credentials are
usable_context(e) ==
  /\ e.profile \in Profiles(e.major) /\ e.trusted.key \in SuiteKeys(e.major)
  /\ e.uri \in NormalUris(e.profile)
  /\ e.skew <= e.bounds.clock_skew
  /\ 1 <= e.max_age /\ e.max_age <= e.bounds.proof_max_age
  /\ e.profile = "local_loopback_http" => e.nonce # NoNonce

\* what the producers make every reader takes: a proof an honest holder signed on
\* an issued grant in force can be located, decoded and is accepted by the call it
\* was meant for, for as long as the proof age lasts, if the skew covers the drift
\* of the clocks, up to the ends of i64.
HonestAccepted ==
  \A s \in signed, e \in Calls :
    LET g == s.proof.claims.ath
    IN  (/\ g \in issued
         /\ Meant(s, g, e)
         /\ usable_context(e)
         /\ e.trusted = [kid |-> g.claims.kid, key |-> g.signer]
         /\ g.claims.v = e.major
         /\ e.issuer = g.claims.iss /\ e.audience \in g.claims.aud
         /\ e.operation \in DOMAIN g.claims.operations
         /\ \A selector \in g.claims.operations[e.operation] : evaluate(selector, e.args)
         /\ g.claims.nbf <= now /\ now < g.claims.exp
         /\ Drift <= e.skew /\ now - s.at <= e.max_age)
        => /\ untrusted_key_locator(e.major, g)
           /\ decode_grant(e.major, g)
           /\ decode_proof(e.major, e.profile, s.proof)
           /\ check_envelope_for(g, s.proof, e)

(***************************************************************************)
(* What the safety properties rest on, and what makes them inductive.      *)
(***************************************************************************)

\* nothing was handed out or signed later than now; a proof's iat is the time it
\* was signed but for the drift, and its nonce was handed out before
SigningHistory ==
  /\ \A c \in challenges : c.at <= now
  /\ \A s \in signed :
       /\ s.at <= now
       /\ s.at - Drift <= s.proof.claims.iat /\ s.proof.claims.iat <= s.at + Drift
       /\ s.proof.claims.nonce # NoNonce =>
            \E c \in challenges : c.nonce = s.proof.claims.nonce /\ c.at <= s.at

\* a call accepts a proof only in the window around its iat
ProofInWindow ==
  \A x \in enveloped :
    /\ x.e.now - x.e.max_age - x.e.skew <= x.facts.proof_iat
    /\ x.facts.proof_iat <= x.e.now + x.e.skew

\* the domain prefix of a major's request digest
DomainOf(major) ==
  CASE major = 1 -> "BAP1-REQUEST" [] major = 2 -> "BAP2-REQUEST" [] OTHER -> "BAP3-REQUEST"

\* what the producers let out decodes under its own major and profile, is signed
\* under the scalar that the suites accept, and is dated no further ahead than
\* the drift
IssuedWell(g) ==
  /\ g.scalar = "canonical" /\ decode_grant(g.claims.v, g)
  /\ g.claims.iat <= now + Drift

SignedWell(p) ==
  /\ p.scalar = "canonical" /\ p.signer = p.claims.jwk
  /\ p.claims.ba_req[1] = DomainOf(p.claims.v)
  /\ \E profile \in Profiles(p.claims.v) :
       p.claims.typ = proof_typ(profile) /\ decode_proof(p.claims.v, profile, p)

WellProduced ==
  /\ \A g \in issued : IssuedWell(g)
  /\ \A s \in signed : SignedWell(s.proof)

SafetyInv ==
  /\ TypeOK
  /\ SigningHistory
  /\ ProofInWindow
  /\ GrantFactsAuthentic
  /\ EnvelopeFactsAuthentic
  /\ HolderMeantIt
  /\ ChallengeAnswered
  /\ SomebodySigned

(***************************************************************************)
(* The abstract specification, and how this one implements it.  Calls      *)
(* whose trusted key or holder is not honest map to stuttering: nobody is  *)
(* protected against the misuse of a key by its owner.                     *)
(***************************************************************************)

RightOf(g) ==
  [id |-> g, issuer |-> g.signer, holder |-> g.claims.cnf,
   audiences |-> g.claims.aud, operations |-> g.claims.operations,
   from |-> IF g.claims.iat > g.claims.nbf THEN g.claims.iat ELSE g.claims.nbf,
   to |-> g.claims.exp]

RequestOf(major, typ, c) ==
  [major |-> major, typ |-> typ, method |-> c.method, uri |-> c.uri,
   inv |-> c.inv, operation |-> c.operation, args |-> c.args, nonce |-> c.nonce]

WantOf(s) ==
  LET c == s.proof.claims
  IN  [id |-> c.ath, holder |-> s.proof.signer,
       request |-> RequestOf(c.v, c.typ,
         [method |-> c.htm, uri |-> c.htu, inv |-> c.ba_inv,
          operation |-> c.ba_op, args |-> c.ba_req[3], nonce |-> c.nonce])]

Honest(x) == x.e.trusted.key \in HonestKey /\ x.facts.grant.holder \in HonestKey

ExerciseOf(x) ==
  [right |-> RightOf(x.facts.grant_hash), audience |-> x.e.audience, at |-> x.e.now,
   request |-> RequestOf(x.e.major, proof_typ(x.e.profile), x.e)]

Ideal == INSTANCE BoundedAuthority WITH
  Tolerance <- MaxClockSkew,
  rights    <- {RightOf(g) : g \in issued},
  wants     <- {WantOf(s) : s \in signed},
  exercised <- {ExerciseOf(x) : x \in {y \in enveloped : Honest(y)}}

\* issuers, holders and hosts that speak through this library exercise authority
\* only as BoundedAuthority allows
ImplementsBoundedAuthority == Ideal!Spec
=============================================================================
