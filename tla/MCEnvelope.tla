----------------------------- MODULE MCEnvelope -----------------------------
(***************************************************************************)
(* Small instances of EnvelopeSystem.  Ed25519 keys: ik signs grants, hk   *)
(* holds them, ak belongs to the adversary, sk has small order.  On P-256: *)
(* pik signs grants, phk holds them.                                       *)
(***************************************************************************)
EXTENDS EnvelopeSystem

CONSTANTS ik, hk, ak, sk, pik, phk, kid, iss, g1, g2, aud1, aud2, read, write,
          x, y, post, u1, loop1, i1, i2, f1

MCKey == {ik, hk, ak, sk, pik, phk}
MCP256 == {pik, phk}
MCSmall == {sk}
MCHonest == {ik, hk, pik, phk}
MCI64Min == -1

Trusted(key) == [kid |-> kid, key |-> key]

Input(jti, aud, nbf, exp, cnf, operations) ==
  [kid |-> kid, iss |-> iss, jti |-> jti, aud |-> aud, iat |-> 0,
   nbf |-> nbf, exp |-> exp, cnf |-> cnf, operations |-> operations]

Policy(major, input, signer) == [major |-> major, input |-> input, signer |-> signer]

Req(major, profile, uri, inv, operation, args) ==
  [major |-> major, profile |-> profile, method |-> post, uri |-> uri,
   inv |-> inv, operation |-> operation, args |-> args]

Context(r, key, audience, skew) ==
  [major |-> r.major, profile |-> r.profile, method |-> r.method, uri |-> r.uri,
   inv |-> r.inv, operation |-> r.operation, args |-> r.args,
   trusted |-> Trusted(key), issuer |-> iss, audience |-> audience, skew |-> skew,
   max_age |-> 1, bounds |-> [clock_skew |-> MaxClockSkew, proof_max_age |-> MaxProofAge]]

Compact(claims, form, signer) ==
  [claims |-> claims, form |-> form, scalar |-> "canonical", signer |-> signer]

\* every grant an honest issuer may come to sign
HonestGrants ==
  {Compact(grant_signing_input(p.major, [p.input EXCEPT !.iat = iat]), f, p.signer) :
     p \in GrantPolicy, iat \in {t \in 0 - Drift .. MaxTime + Drift : t \in I64}, f \in Form}

ForgedProof(g, r, iat, jwk, signer) ==
  Compact([proof_signing_input(r.major, r.profile, proof_input(g, r, iat, NoNonce))
             EXCEPT !.jwk = jwk], f1, signer)

-----------------------------------------------------------------------------
(***************************************************************************)
(* Which requests a grant covers: one holder with two grants, two          *)
(* operations, arguments that all, some or none of the selectors admit,    *)
(* two audiences, one grant that expires early, one that starts late.      *)
(***************************************************************************)

BindPolicy ==
  {Policy(1, Input(g1, {aud1}, 0, 2, hk, [o \in {read} |-> {{x}}]), ik),
   Policy(1, Input(g2, {aud1, aud2}, 1, 3, hk,
                   [o \in {read, write} |-> IF o = read THEN {{x, y}} ELSE {{y}, {x, y}}]),
          ik)}

BindRequests ==
  {Req(1, "standard", u1, i1, read, x), Req(1, "standard", u1, i1, read, y),
   Req(1, "standard", u1, i2, write, x)}

BindContexts ==
  {Context(r, ik, aud1, 1) : r \in BindRequests}
    \cup {Context(Req(1, "standard", u1, i2, write, y), ik, aud2, 0),
          Context(Req(1, "standard", u1, i1, read, x), sk, aud1, 0)}

\* the second policy's claims: under the adversary's key, for itself and for hk;
\* and under no key at all
BindForgedGrants ==
  {Compact(grant_signing_input(1,
             Input(g2, {aud1}, 0, 4, k, [o \in {read, write} |-> {{x, y}}])), f1, s) :
     k \in {hk}, s \in {ak, NoKey}}
    \cup {Compact(grant_signing_input(1,
             Input(g2, {aud1}, 0, 4, ak, [o \in {read, write} |-> {{x, y}}])), f1, ak)}

\* the best proofs of a thief: right about everything but the private key
BindForgedProofs ==
  {ForgedProof(g, Req(1, "standard", u1, i1, read, y), 1, jwk, ak) :
     g \in HonestGrants \cup BindForgedGrants, jwk \in {hk, ak}}

-----------------------------------------------------------------------------
(***************************************************************************)
(* Which major, profile and challenge a proof answers: the same grant in   *)
(* every major, proofs of every major and profile.                         *)
(***************************************************************************)

Grant1(major, exp) ==
  Policy(major, Input(g1, {aud1}, 0, exp, IF major = 3 THEN phk ELSE hk,
                      [o \in {read} |-> {{x}}]),
         IF major = 3 THEN pik ELSE ik)

CrossPolicy == {Grant1(v, 3) : v \in Majors}

CrossRequests ==
  {Req(v, "standard", u1, i1, read, x) : v \in Majors}
    \cup {Req(1, "local_loopback_http", loop1, i1, read, x),
          Req(3, "standard", u1, i2, read, x)}

CrossContexts ==
  {Context(r, IF r.major = 3 THEN pik ELSE ik, aud1, 1) : r \in CrossRequests}

-----------------------------------------------------------------------------
(***************************************************************************)
(* One grant through its whole life, up to the end of i64: copies of it,   *)
(* hosts of different skews, one of them beyond what its bounds allow.     *)
(***************************************************************************)

LifePolicy == {Grant1(1, exp) : exp \in {2, 4}}
OneRequest == {Req(1, "standard", u1, i1, read, x)}
LifeContexts ==
  {Context(r, ik, aud1, skew) : r \in OneRequest, skew \in {0, 2}}
    \cup {[Context(r, ik, aud1, 2) EXCEPT !.bounds.clock_skew = 1] : r \in OneRequest}
=============================================================================
