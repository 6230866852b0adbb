------------------------ MODULE LineageSystem_proofs ------------------------
(***************************************************************************)
(* LineageSystem proved for every set of keys, windows, contexts and       *)
(* contents, for every reader and every bound.                             *)
(***************************************************************************)
EXTENDS LineageSystem, ChainLemmas

(***************************************************************************)
(* Type correctness.                                                       *)
(***************************************************************************)

LEMMA LineageIsSeq ==
  ASSUME TypeOK, NEW c \in Context
  PROVE  /\ published[c] \in Seq({published[c][i] : i \in DOMAIN published[c]})
         /\ Len(published[c]) \in Nat
         /\ DOMAIN published[c] = 1 .. Len(published[c])
<1>1. published[c] \in Seq({published[c][i] : i \in DOMAIN published[c]})
  BY DEF TypeOK, IsLineage
<1>2. QED
  BY <1>1, LenProperties

LEMMA HeldIsSeq ==
  ASSUME TypeOK, NEW r \in Reader
  PROVE  /\ held[r] \in Seq({held[r][i] : i \in DOMAIN held[r]})
         /\ Len(held[r]) \in Nat
         /\ DOMAIN held[r] = 1 .. Len(held[r])
<1>1. held[r] \in Seq({held[r][i] : i \in DOMAIN held[r]})
  BY DEF TypeOK
<1>2. QED
  BY <1>1, LenProperties

\* what Publish signs
NextCompact(c, key, content, id, t, scalar) ==
  Signed(assertion_signing_input(NextInput(c, key, content, id, t)), scalar, key.public_key)

\* what Publish adds
LEMMA PublishedOne ==
  ASSUME TypeOK, Publish
  PROVE  \E c, a :
           /\ c \in Context
           /\ IsCompact(a) /\ decode_parts(a)
           /\ {a.claims.iat, a.claims.nbf, a.claims.exp} \subseteq Int
           /\ a.signer \in HonestKey
           /\ a.claims.context = c /\ a.claims.gen = Len(published[c]) + 1
           /\ a.claims.iat = now /\ a.claims.prev = head(c)
           /\ published' = [d \in Context |-> IF d = c THEN Append(published[c], a)
                                              ELSE published[d]]
<1>1. PICK c \in Context, key \in AuthorKeys, content \in Content, id \in AssertionId,
           t \in Term, scalar \in Scalar :
        /\ assemble_content_assertion_compact(NextCompact(c, key, content, id, t, scalar))
        /\ published' = [published EXCEPT ![c] =
             Append(@, NextCompact(c, key, content, id, t, scalar))]
  <2>1. PICK c \in Context, key \in AuthorKeys, content \in Content, id \in AssertionId,
             t \in Term, scalar \in Scalar :
          /\ Len(published[c]) < MaxPublished
          /\ assemble_content_assertion_compact(NextCompact(c, key, content, id, t, scalar))
          /\ published' = [published EXCEPT ![c] =
               Append(@, NextCompact(c, key, content, id, t, scalar))]
    BY ZenonT(40) DEF Publish, NextCompact
  <2>2. QED
    BY <2>1, Zenon
<1> DEFINE claims == assertion_signing_input(NextInput(c, key, content, id, t))
           a == NextCompact(c, key, content, id, t, scalar)
<1>2. now \in Int /\ t.wait \in Int /\ t.life \in Int
  BY TimeAssumption DEF TypeOK
<1>3. decode_parts(a) /\ scalar = "canonical"
  BY <1>1 DEF assemble_content_assertion_compact, signature_gate, NextCompact, Signed
<1>4. IsCompact(a) /\ a.claims = claims /\ a.signer = key.public_key
  BY <1>3 DEF NextCompact, Signed, IsCompact
<1>5. key.public_key \in HonestKey
  BY DEF HonestKey
<1>6. /\ {claims.iat, claims.nbf, claims.exp} \subseteq Int
      /\ claims.context = c /\ claims.gen = Len(published[c]) + 1
      /\ claims.iat = now /\ claims.prev = head(c)
  BY <1>2 DEF assertion_signing_input, NextInput
<1>7. published' = [d \in Context |-> IF d = c THEN Append(published[c], a) ELSE published[d]]
  <2>1. published = [d \in Context |-> published[d]]
    BY DEF TypeOK
  <2>2. DOMAIN published = Context
    BY <2>1
  <2>3. published' = [published EXCEPT ![c] = Append(@, a)]
    BY <1>1
  <2> HIDE DEF a
  <2>4. QED
    BY <2>2, <2>3
<1> HIDE DEF claims, a
<1>8. QED
  BY <1>3, <1>4, <1>5, <1>6, <1>7

\* what Follow adds
LEMMA FollowedOne ==
  ASSUME TypeOK, Follow
  PROVE  \E r \in Reader, x \in verified :
           /\ held[r] # << >> => verify_content_assertion_successor(LastOf(held[r]), x.facts)
           /\ held' = [s \in Reader |-> IF s = r THEN Append(held[r], x.facts) ELSE held[s]]
<1>1. PICK r \in Reader, x \in verified :
        /\ held[r] # << >> => verify_content_assertion_successor(LastOf(held[r]), x.facts)
        /\ held' = [held EXCEPT ![r] = Append(@, x.facts)]
  BY DEF Follow
<1>2. held = [s \in Reader |-> held[s]]
  BY DEF TypeOK
<1>3. DOMAIN held = Reader
  BY <1>2
<1>4. held' = [s \in Reader |-> IF s = r THEN Append(held[r], x.facts) ELSE held[s]]
  BY <1>1, <1>3
<1>5. QED
  BY <1>1, <1>4

LEMMA TypeInit == Init => TypeOK
<1> SUFFICES ASSUME Init PROVE TypeOK
  OBVIOUS
<1>1. /\ << >> \in Seq({<< >>[i] : i \in DOMAIN << >>})
      /\ Len(<< >>) = 0 /\ DOMAIN << >> = {}
  <2>1. << >> \in Seq({}) /\ Len(<< >>) = 0 /\ DOMAIN << >> = {}
    BY EmptySeq
  <2>2. QED
    BY <2>1, SeqMonotonic
<1>2. IsLineage(<< >>)
  BY <1>1, MagnitudeAssumption DEF IsLineage
<1>3. \A c \in Context : published[c] = << >>
  BY DEF Init
<1>4. \A r \in Reader : held[r] = << >>
  BY DEF Init
<1>5. published = [c \in Context |-> published[c]] /\ held = [r \in Reader |-> held[r]]
  BY DEF Init
<1>6. now \in 0 .. MaxTime
  BY TimeAssumption DEF Init
<1>7. \A r \in Reader : held[r] \in Seq({held[r][i] : i \in DOMAIN held[r]})
  BY <1>1, <1>4
<1>8. QED
  BY <1>2, <1>3, <1>5, <1>6, <1>7 DEF TypeOK

LEMMA LineageGrows ==
  ASSUME NEW s, IsLineage(s), NEW a, IsCompact(a), decode_parts(a),
         {a.claims.iat, a.claims.nbf, a.claims.exp} \subseteq Int,
         a.claims.gen = Len(s) + 1
  PROVE  IsLineage(Append(s, a))
<1> DEFINE t == Append(s, a)
<1>1. s \in Seq({s[i] : i \in DOMAIN s})
  BY DEF IsLineage
<1>2. /\ t \in Seq({t[i] : i \in DOMAIN t})
      /\ Len(t) = Len(s) + 1
      /\ DOMAIN t = 1 .. Len(s) + 1
      /\ \A i \in 1 .. Len(s) : t[i] = s[i]
      /\ t[Len(s) + 1] = a
  BY <1>1, AppendGrows
<1>3. Len(s) \in Nat /\ DOMAIN s = 1 .. Len(s)
  BY <1>1, LenProperties
<1>4. Len(t) <= IntegerMagnitude
  BY <1>2, <1>3 DEF decode_parts, validate_payload, validate_numbers
<1> HIDE DEF t
<1>5. ASSUME NEW i \in DOMAIN t
      PROVE  /\ IsCompact(t[i]) /\ decode_parts(t[i])
             /\ {t[i].claims.iat, t[i].claims.nbf, t[i].claims.exp} \subseteq Int
  <2>1. CASE i = Len(s) + 1
    BY <1>2, <2>1
  <2>2. CASE i # Len(s) + 1
    <3>1. i \in DOMAIN s /\ t[i] = s[i]
      BY <1>2, <1>3, <2>2
    <3>2. QED
      BY <3>1 DEF IsLineage
  <2>3. QED
    BY <2>1, <2>2
<1>6. QED
  BY <1>2, <1>4, <1>5 DEF IsLineage, t

LEMMA TypeStep == TypeOK /\ [Next]_vars => TypeOK'
<1> SUFFICES ASSUME TypeOK, [Next]_vars PROVE TypeOK'
  OBVIOUS
<1>1. CASE Tick
  <2>1. now' \in 0 .. MaxTime
    BY <1>1, TimeAssumption DEF TypeOK, Tick
  <2>2. UNCHANGED <<published, held>>
    BY <1>1 DEF Tick
  <2>3. QED
    BY <2>1, <2>2 DEF TypeOK
<1>2. CASE Publish
  <2>1. PICK c, a :
          /\ c \in Context
          /\ IsCompact(a) /\ decode_parts(a)
          /\ {a.claims.iat, a.claims.nbf, a.claims.exp} \subseteq Int
          /\ a.claims.gen = Len(published[c]) + 1
          /\ published' = [d \in Context |-> IF d = c THEN Append(published[c], a)
                                             ELSE published[d]]
    BY <1>2, PublishedOne
  <2>2. UNCHANGED <<now, held>>
    BY <1>2 DEF Publish
  <2>3. \A d \in Context : IsLineage(published[d])
    BY DEF TypeOK
  <2>4. IsLineage(Append(published[c], a))
    BY <2>1, <2>3, LineageGrows
  <2>5. \A d \in Context : IsLineage(published'[d])
    BY <2>1, <2>3, <2>4
  <2>6. published' = [d \in Context |-> published'[d]]
    BY <2>1
  <2>7. QED
    BY <2>2, <2>5, <2>6 DEF TypeOK
<1>3. CASE Follow
  <2>1. PICK r \in Reader, x \in verified :
          held' = [s \in Reader |-> IF s = r THEN Append(held[r], x.facts) ELSE held[s]]
    BY <1>3, FollowedOne
  <2>2. UNCHANGED <<now, published>>
    BY <1>3 DEF Follow
  <2>3. ASSUME NEW s \in Reader
        PROVE  held'[s] \in Seq({held'[s][i] : i \in DOMAIN held'[s]})
    <3>1. CASE s # r
      <4>1. held'[s] = held[s]
        BY <2>1, <3>1
      <4>2. QED
        BY <4>1, HeldIsSeq
    <3>2. CASE s = r
      <4> DEFINE t == Append(held[r], x.facts)
      <4>1. held'[s] = t
        BY <2>1, <3>2
      <4>2. /\ t \in Seq({t[i] : i \in DOMAIN t})
            /\ Len(t) = Len(held[r]) + 1
            /\ DOMAIN t = 1 .. Len(held[r]) + 1
            /\ \A i \in 1 .. Len(held[r]) : t[i] = held[r][i]
            /\ t[Len(held[r]) + 1] = x.facts
        BY HeldIsSeq, AppendGrows
      <4> HIDE DEF t
      <4>3. QED
        BY <4>1, <4>2
    <3>3. QED
      BY <3>1, <3>2
  <2>4. held' = [s \in Reader |-> held'[s]]
    BY <2>1
  <2>5. QED
    BY <2>2, <2>3, <2>4 DEF TypeOK
<1>4. CASE UNCHANGED <<now, published, held>>
  BY <1>4 DEF TypeOK
<1>5. QED
  BY <1>1, <1>2, <1>3, <1>4 DEF Next, vars, VerifyAssertion

\* Assertions and facts keep their shapes, every published assertion has coherent
\* claims, and no lineage passes the largest generation: the base of every other
\* proof about lineages.
THEOREM TypeCorrect == Spec => []TypeOK
BY TypeInit, TypeStep, PTL DEF Spec

(***************************************************************************)
(* What was published, verified and held.                                  *)
(***************************************************************************)

\* a lineage only grows: its assertions stay where they are
LEMMA PublishedGrows ==
  ASSUME TypeOK, [Next]_vars, NEW c \in Context
  PROVE  /\ DOMAIN published[c] \subseteq DOMAIN published'[c]
         /\ \A i \in DOMAIN published[c] : published'[c][i] = published[c][i]
<1>1. CASE published'[c] = published[c]
  BY <1>1
<1>2. CASE published'[c] # published[c]
  <2>1. Publish
    BY <1>2 DEF Next, vars, Tick, VerifyAssertion, Follow
  <2>2. PICK d, a :
          /\ d \in Context
          /\ IsCompact(a) /\ decode_parts(a)
          /\ {a.claims.iat, a.claims.nbf, a.claims.exp} \subseteq Int
          /\ a.signer \in HonestKey
          /\ a.claims.context = d /\ a.claims.gen = Len(published[d]) + 1
          /\ a.claims.iat = now /\ a.claims.prev = head(d)
          /\ published' = [x \in Context |-> IF x = d THEN Append(published[d], a)
                                             ELSE published[x]]
    BY <2>1, PublishedOne, Zenon
  <2>3. published'[c] = Append(published[c], a)
    BY <1>2, <2>2
  <2>4. /\ DOMAIN Append(published[c], a) = 1 .. Len(published[c]) + 1
        /\ \A i \in 1 .. Len(published[c]) : Append(published[c], a)[i] = published[c][i]
    BY LineageIsSeq, AppendGrows
  <2>5. Len(published[c]) \in Nat /\ DOMAIN published[c] = 1 .. Len(published[c])
    BY LineageIsSeq
  <2>6. QED
    BY <2>3, <2>4, <2>5
<1>3. QED
  BY <1>1, <1>2

LEMMA LinkedInit == Init => Linked
<1>1. DOMAIN << >> = {}
  OBVIOUS
<1>2. QED
  BY <1>1 DEF Init, Linked

LEMMA LinkedStep == TypeOK /\ Linked /\ [Next]_vars => Linked'
<1> SUFFICES ASSUME TypeOK, Linked, [Next]_vars PROVE Linked'
  OBVIOUS
<1>0. now \in Int /\ now' \in Int /\ now <= now'
  BY TimeAssumption DEF TypeOK, Next, vars, Tick, Publish, VerifyAssertion, Follow
<1>1. CASE UNCHANGED published
  <2> SUFFICES ASSUME NEW c \in Context, NEW i \in DOMAIN published[c]
               PROVE  published[c][i].claims.iat <= now'
    BY <1>1 DEF Linked
  <2>1. published[c][i].claims.iat <= now /\ published[c][i].claims.iat \in Int
    BY DEF Linked, TypeOK, IsLineage
  <2>2. QED
    BY <1>0, <2>1
<1>2. CASE Publish
  <2>1. PICK c, a :
          /\ c \in Context
          /\ a.signer \in HonestKey
          /\ a.claims.context = c /\ a.claims.gen = Len(published[c]) + 1
          /\ a.claims.iat = now /\ a.claims.prev = head(c)
          /\ published' = [d \in Context |-> IF d = c THEN Append(published[c], a)
                                             ELSE published[d]]
    BY <1>2, PublishedOne
  <2> DEFINE s == published[c]
             t == Append(published[c], a)
  <2>2. /\ DOMAIN t = 1 .. Len(s) + 1
        /\ \A i \in 1 .. Len(s) : t[i] = s[i]
        /\ t[Len(s) + 1] = a
    BY <2>1, LineageIsSeq, AppendGrows
  <2>3. Len(s) \in Nat /\ DOMAIN s = 1 .. Len(s) /\ (s = << >> <=> Len(s) = 0)
    BY <2>1, LineageIsSeq, EmptySeq
  <2>4. head(c) = IF Len(s) = 0 THEN ZeroDigest ELSE assertion_digest(s[Len(s)])
    BY <2>3 DEF head, LastOf
  <2>5. now' = now
    BY <1>2 DEF Publish
  <2>6. \A d \in Context : published'[d] = IF d = c THEN t ELSE published[d]
    BY <2>1
  <2> HIDE DEF t
  <2>7. ASSUME NEW d \in Context, NEW i \in DOMAIN published'[d]
        PROVE  /\ published'[d][i].signer \in HonestKey
               /\ published'[d][i].claims.context = d
               /\ published'[d][i].claims.gen = i
               /\ published'[d][i].claims.iat <= now
               /\ published'[d][i].claims.prev =
                    IF i = 1 THEN ZeroDigest ELSE assertion_digest(published'[d][i - 1])
               /\ i > 1 => published'[d][i - 1].claims.iat <= published'[d][i].claims.iat
    <3>1. CASE d # c
      <4>1. published'[d] = published[d]
        BY <2>6, <3>1
      <4>2. QED
        BY <4>1 DEF Linked
    <3>2. CASE d = c /\ i = Len(s) + 1
      <4>1. published'[d] = t /\ t[i] = a
        BY <2>2, <2>6, <3>2
      <4>2. Len(s) # 0 => t[i - 1] = s[Len(s)] /\ s[Len(s)].claims.iat <= now
        BY <2>1, <2>2, <2>3, <3>2 DEF Linked
      <4>3. i = 1 <=> Len(s) = 0
        BY <2>3, <3>2
      <4>4. i > 1 => t[i - 1].claims.iat <= a.claims.iat
        BY <2>1, <2>3, <3>2, <4>2
      <4>5. a.claims.prev = IF i = 1 THEN ZeroDigest ELSE assertion_digest(t[i - 1])
        BY <2>1, <2>4, <4>2, <4>3
      <4>6. a.claims.iat <= now /\ a.claims.gen = i
        BY <1>0, <2>1, <3>2
      <4>7. QED
        BY <2>1, <3>2, <4>1, <4>4, <4>5, <4>6
    <3>3. CASE d = c /\ i # Len(s) + 1
      <4>1. published'[d] = t
        BY <2>6, <3>3
      <4>2. i \in DOMAIN s /\ t[i] = s[i]
        BY <2>2, <2>3, <3>3, <4>1
      <4>3. i # 1 => t[i - 1] = s[i - 1]
        BY <2>2, <2>3, <4>1, <4>2
      <4>4. /\ s[i].signer \in HonestKey
            /\ s[i].claims.context = c
            /\ s[i].claims.gen = i
            /\ s[i].claims.iat <= now
            /\ s[i].claims.prev = IF i = 1 THEN ZeroDigest ELSE assertion_digest(s[i - 1])
            /\ i > 1 => s[i - 1].claims.iat <= s[i].claims.iat
        BY <2>1, <4>2 DEF Linked
      <4>5. i > 1 => i # 1
        BY <4>2, <2>3
      <4> HIDE DEF s
      <4>6. QED
        BY <3>3, <4>1, <4>2, <4>3, <4>4, <4>5
    <3>4. QED
      BY <3>1, <3>2, <3>3
  <2>8. QED
    BY <2>5, <2>7 DEF Linked
<1>3. QED
  BY <1>1, <1>2 DEF Next, vars, Tick, VerifyAssertion, Follow

\* whoever else signs an assertion, it is not the author
LEMMA ForgedIsForeign ==
  ASSUME TypeOK, NEW a \in AssertionsOnWire, a.scalar = "canonical", a.signer \in HonestKey
  PROVE  a \in Published
<1>1. CASE a \in {shifted(b) : b \in Published}
  <2>1. PICK b \in Published : a = shifted(b)
    BY <1>1
  <2>2. b = Signed(b.claims, "canonical", b.signer)
    <3>1. PICK d \in Context : \E i \in DOMAIN published[d] : b = published[d][i]
      BY DEF Published
    <3> PICK i \in DOMAIN published[d] : b = published[d][i]
      BY <3>1
    <3>2. IsCompact(published[d][i])
      BY DEF TypeOK, IsLineage
    <3>3. IsCompact(b)
      BY <3>2
    <3>4. QED
      BY <3>3 DEF IsCompact
  <2>3. a.scalar = "shifted"
    BY <2>1, <2>2 DEF shifted, Signed
  <2>4. QED
    BY <2>3
<1>2. ASSUME NEW compacts, a \in ChainedTo(compacts) PROVE FALSE
  <2>1. PICK k, claims : k \in AdversaryKeys /\ a = Forgery(claims, k)
    BY <1>2 DEF ChainedTo
  <2>2. a.signer = k.public_key
    BY <2>1 DEF Forgery, Signed
  <2>3. QED
    BY <2>1, <2>2, AuthorAssumption
<1>3. CASE a \in Forged
  BY <1>2, <1>3 DEF Forged
<1>4. CASE a \in {Forgery(b.claims, k) : b \in Published, k \in AdversaryKeys}
  BY <1>4, AuthorAssumption DEF Forgery, Signed
<1>5. QED
  BY <1>1, <1>3, <1>4 DEF AssertionsOnWire

\* what VerifyAssertion adds
LEMMA VerifiedOne ==
  ASSUME [Next]_vars, NEW x \in verified', x \notin verified
  PROVE  \E a \in AssertionsOnWire :
           /\ x.e.context \in Context
           /\ x.facts = ContentAssertionFacts(a, x.e.attestor.public_key)
           /\ x.e.attestor \in AdmittedKeys
           /\ x.e.now = now
           /\ verify_content_assertion(a, x.e)
<1>1. VerifyAssertion
  BY DEF Next, vars, Tick, Publish, Follow
<1>2. PICK a \in AssertionsOnWire, key \in AdmittedKeys, c \in Context,
           content \in Content \cup ForgedContent :
        LET e == [attestor |-> key, context |-> c, content |-> content_digest(content),
                 now |-> now]
        IN  /\ verify_content_assertion(a, e)
            /\ verified' = verified \cup
                 {[facts |-> ContentAssertionFacts(a, e.attestor.public_key), e |-> e]}
  BY <1>1 DEF VerifyAssertion
<1> DEFINE e == [attestor |-> key, context |-> c, content |-> content_digest(content),
                 now |-> now]
<1>3. x = [facts |-> ContentAssertionFacts(a, e.attestor.public_key), e |-> e]
  BY <1>2
<1>4. x.e = e /\ x.facts = ContentAssertionFacts(a, e.attestor.public_key)
  BY <1>3
<1>5. verify_content_assertion(a, e)
  BY <1>2
<1>6. e.context \in Context /\ e.attestor \in AdmittedKeys /\ e.now = now
  OBVIOUS
<1> HIDE DEF e
<1>7. QED
  BY <1>4, <1>5, <1>6

LEMMA FactsOfCompactsStep == FactsOfCompacts /\ [Next]_vars => FactsOfCompacts'
<1> SUFFICES ASSUME FactsOfCompacts, [Next]_vars, NEW x \in verified'
             PROVE  LET a == x.facts.digest.sha256
                    IN  /\ x.e.context \in Context
                        /\ x.facts = ContentAssertionFacts(a, a.signer)
                        /\ x.e.attestor.public_key = a.signer
                        /\ validate_payload(a)
  BY DEF FactsOfCompacts
<1>1. CASE x \in verified
  BY <1>1 DEF FactsOfCompacts
<1>2. CASE x \notin verified
  <2>1. PICK a \in AssertionsOnWire :
           /\ x.e.context \in Context
           /\ x.facts = ContentAssertionFacts(a, x.e.attestor.public_key)
           /\ verify_content_assertion(a, x.e)
    BY <1>2, VerifiedOne
  <2>2. a.signer = x.e.attestor.public_key /\ validate_payload(a)
    BY <2>1 DEF verify_content_assertion, decode_parts, ed25519_verify, equation,
                acceptable_public_key
  <2>3. x.facts.digest.sha256 = a
    BY <2>1 DEF ContentAssertionFacts, assertion_digest
  <2>4. QED
    BY <2>1, <2>2, <2>3
<1>3. QED
  BY <1>1, <1>2

LEMMA HeldIsLineageStep == TypeOK /\ HeldIsLineage /\ [Next]_vars => HeldIsLineage'
<1> SUFFICES ASSUME TypeOK, HeldIsLineage, [Next]_vars, NEW s \in Reader, NEW i \in DOMAIN held'[s]
             PROVE  /\ \E x \in verified' : x.facts = held'[s][i]
                    /\ i > 1 => verify_content_assertion_successor(held'[s][i - 1], held'[s][i])
  BY DEF HeldIsLineage
<1>1. verified \subseteq verified'
  BY DEF Next, vars, Tick, Publish, VerifyAssertion, Follow
<1>2. CASE held'[s] = held[s]
  BY <1>1, <1>2 DEF HeldIsLineage
<1>3. CASE held'[s] # held[s]
  <2>1. Follow
    BY <1>3 DEF Next, vars, Tick, Publish, VerifyAssertion
  <2>2. PICK r \in Reader, x \in verified :
          /\ held[r] # << >> => verify_content_assertion_successor(LastOf(held[r]), x.facts)
          /\ held' = [q \in Reader |-> IF q = r THEN Append(held[r], x.facts) ELSE held[q]]
    BY <2>1, FollowedOne
  <2>3. s = r
    BY <1>3, <2>2
  <2> DEFINE h == held[s]
             t == Append(held[s], x.facts)
  <2>4. held'[s] = t
    BY <2>2, <2>3
  <2>5. /\ DOMAIN t = 1 .. Len(h) + 1
        /\ \A j \in 1 .. Len(h) : t[j] = h[j]
        /\ t[Len(h) + 1] = x.facts
    BY HeldIsSeq, AppendGrows
  <2>6. Len(h) \in Nat /\ DOMAIN h = 1 .. Len(h) /\ (h = << >> <=> Len(h) = 0)
    BY HeldIsSeq, EmptySeq
  <2>7. h # << >> => verify_content_assertion_successor(h[Len(h)], x.facts)
    BY <2>2, <2>3 DEF LastOf
  <2>8. \A j \in DOMAIN h : /\ \E y \in verified : y.facts = h[j]
                            /\ j > 1 => verify_content_assertion_successor(h[j - 1], h[j])
    BY DEF HeldIsLineage
  <2> HIDE DEF t, h
  <2>9. CASE i = Len(h) + 1
    <3>1. t[i] = x.facts /\ (i > 1 => t[i - 1] = h[Len(h)])
      BY <2>5, <2>6, <2>9
    <3>2. i > 1 => h # << >>
      BY <2>6, <2>9
    <3>3. QED
      BY <1>1, <2>4, <2>7, <3>1, <3>2
  <2>10. CASE i # Len(h) + 1
    <3>1. i \in DOMAIN h /\ t[i] = h[i] /\ (i > 1 => t[i - 1] = h[i - 1])
      BY <2>4, <2>5, <2>6, <2>10
    <3>2. QED
      BY <1>1, <2>4, <2>8, <3>1
  <2>11. QED
    BY <2>9, <2>10
<1>4. QED
  BY <1>2, <1>3

LEMMA AssertionsAuthenticStep ==
  TypeOK /\ Linked /\ FactsOfCompacts /\ AssertionsAuthentic /\ [Next]_vars
  => AssertionsAuthentic'
<1> SUFFICES ASSUME TypeOK, Linked, FactsOfCompacts, AssertionsAuthentic, [Next]_vars,
                    NEW x \in verified', x.e.attestor.public_key \in HonestKey
             PROVE  LET c == x.facts.claims
                    IN  /\ c.gen \in DOMAIN published'[x.e.context]
                        /\ x.facts = Authored(x.e.context, c.gen)'
                        /\ c.content = x.e.content
                        /\ inside_window(c.iat, x.e.attestor)
                        /\ \A t \in c.nbf .. c.exp - 1 : inside_window(t, x.e.attestor)
                        /\ x.e.now \in c.nbf .. c.exp - 1
  BY DEF AssertionsAuthentic
<1> DEFINE c == x.facts.claims
           p == published[x.e.context]
<1>1. x.e.context \in Context
  BY FactsOfCompactsStep DEF FactsOfCompacts
<1>2. /\ DOMAIN p \subseteq DOMAIN published'[x.e.context]
      /\ \A i \in DOMAIN p : published'[x.e.context][i] = p[i]
  BY <1>1, PublishedGrows
<1>3. SUFFICES /\ c.gen \in DOMAIN p
               /\ x.facts = ContentAssertionFacts(p[c.gen], p[c.gen].signer)
               /\ c.content = x.e.content
               /\ inside_window(c.iat, x.e.attestor)
               /\ \A t \in c.nbf .. c.exp - 1 : inside_window(t, x.e.attestor)
               /\ x.e.now \in c.nbf .. c.exp - 1
  BY <1>2 DEF Authored
<1>4. CASE x \in verified
  BY <1>4 DEF AssertionsAuthentic, Authored
<1>5. CASE x \notin verified
  <2>1. PICK a \in AssertionsOnWire :
          /\ x.facts = ContentAssertionFacts(a, x.e.attestor.public_key)
          /\ x.e.attestor \in AdmittedKeys
          /\ x.e.now = now
          /\ verify_content_assertion(a, x.e)
    BY <1>5, VerifiedOne
  <2>2. a.signer = x.e.attestor.public_key /\ a.scalar = "canonical"
    BY <2>1 DEF verify_content_assertion, ed25519_verify, equation, acceptable_public_key,
                signature_gate
  <2>3. a \in Published
    BY <2>2, ForgedIsForeign
  <2>4. PICK d \in Context : \E i \in DOMAIN published[d] : a = published[d][i]
    BY <2>3 DEF Published
  <2> PICK i \in DOMAIN published[d] : a = published[d][i]
    BY <2>4
  <2>5. /\ a.claims.context = d /\ a.claims.gen = i
        /\ {a.claims.iat, a.claims.nbf, a.claims.exp} \subseteq Int
    BY <2>4, Zenon DEF Linked, TypeOK, IsLineage
  <2>6. /\ a.claims.context = x.e.context /\ a.claims.content = x.e.content
        /\ contained(a.claims, x.e.attestor)
        /\ a.claims.nbf <= now /\ now < a.claims.exp /\ a.claims.iat <= a.claims.nbf
    BY <2>1 DEF verify_content_assertion, expected_matches, decode_parts, validate_payload,
                validate_numbers
  <2>7. c = a.claims
    BY <2>1 DEF ContentAssertionFacts
  <2>8. now \in Int
    BY TimeAssumption DEF TypeOK
  <2>9. /\ x.e.attestor.valid_from \in Int
        /\ x.e.attestor.valid_before # Unbounded => x.e.attestor.valid_before \in Int
    BY <2>1, TimeAssumption
  <2> DEFINE iat == a.claims.iat
             nbf == a.claims.nbf
             exp == a.claims.exp
             from == x.e.attestor.valid_from
             before == x.e.attestor.valid_before
  <2>10. /\ iat \in Int /\ nbf \in Int /\ exp \in Int
         /\ iat <= nbf /\ nbf <= now /\ now < exp
         /\ iat >= from /\ nbf >= from /\ (before # Unbounded => exp <= before)
    BY <2>5, <2>6 DEF contained
  <2>11. now \in nbf .. exp - 1 /\ inside_window(iat, x.e.attestor)
         /\ \A t \in nbf .. exp - 1 : inside_window(t, x.e.attestor)
    <3> HIDE DEF iat, nbf, exp, from, before
    <3>1. now \in nbf .. exp - 1
      BY <2>8, <2>10
    <3>2. \A t \in Int : t >= from /\ t < exp => inside_window(t, x.e.attestor)
      BY <2>9, <2>10 DEF inside_window, from, before
    <3>3. iat < exp /\ \A t \in nbf .. exp - 1 : t \in Int /\ t >= from /\ t < exp
      BY <2>8, <2>9, <2>10 DEF from
    <3>4. QED
      BY <2>10, <3>1, <3>2, <3>3
  <2>12. /\ c.iat = iat /\ c.nbf = nbf /\ c.exp = exp
    BY <2>7
  <2> HIDE DEF c, p, iat, nbf, exp
  <2>13. c.gen \in DOMAIN p /\ p[c.gen] = a
    BY <2>4, <2>5, <2>6, <2>7 DEF p
  <2>14. QED
    BY <2>1, <2>2, <2>6, <2>7, <2>11, <2>12, <2>13
<1>6. QED
  BY <1>4, <1>5

(***************************************************************************)
(* The theorems.                                                           *)
(***************************************************************************)

IInv ==
  TypeOK /\ Linked /\ FactsOfCompacts /\ HeldIsLineage /\ AssertionsAuthentic

LEMMA InvariantInit == Init => IInv
<1>1. DOMAIN << >> = {}
  OBVIOUS
<1>2. Init => FactsOfCompacts /\ HeldIsLineage /\ AssertionsAuthentic
  BY <1>1 DEF Init, FactsOfCompacts, HeldIsLineage, AssertionsAuthentic
<1>3. QED
  BY <1>2, TypeInit, LinkedInit DEF IInv

LEMMA InvariantStep == IInv /\ [Next]_vars => IInv'
BY TypeStep, LinkedStep, FactsOfCompactsStep, HeldIsLineageStep, AssertionsAuthenticStep
   DEF IInv

\* What the author published stays numbered and linked, facts are those of one
\* compact under the key that signed it, and a reader holds only facts that were
\* verified and follow on from each other.
THEOREM Inductive == Spec => []IInv
BY InvariantInit, InvariantStep, PTL DEF Spec

\* verify_assertion: facts under a key of the author's are those of the assertion
\* the author published, asked about, in force, and inside the key's window.
THEOREM AssertionsAreAuthentic == Spec => []AssertionsAuthentic
<1>1. IInv => AssertionsAuthentic
  BY DEF IInv
<1>2. QED
  BY <1>1, Inductive, PTL
(***************************************************************************)
(* What the invariant says of every lineage a reader follows.              *)
(***************************************************************************)

LEMMA FactsVerified ==
  ASSUME IInv, NEW x \in verified
  PROVE  LET f == x.facts  a == f.digest.sha256  c == f.claims.context
         IN  /\ f = ContentAssertionFacts(a, a.signer)
             /\ f.claims = a.claims
             /\ validate_facts(f)
             /\ ByAuthor(f) => /\ c \in Context
                               /\ f.claims.gen \in DOMAIN published[c]
                               /\ f = Authored(c, f.claims.gen)
<1> DEFINE f == x.facts
           a == f.digest.sha256
<1>1. /\ x.e.context \in Context
      /\ f = ContentAssertionFacts(a, a.signer)
      /\ x.e.attestor.public_key = a.signer
      /\ validate_payload(a)
  BY DEF IInv, FactsOfCompacts
<1>2. f.claims = a.claims /\ f.attestor_key_fingerprint = a.signer /\ validate_facts(f)
  BY <1>1 DEF ContentAssertionFacts, validate_facts, validate_payload
<1>3. ASSUME ByAuthor(f)
      PROVE  /\ f.claims.context = x.e.context
             /\ f.claims.gen \in DOMAIN published[x.e.context]
             /\ f = Authored(x.e.context, f.claims.gen)
  <2>1. x.e.attestor.public_key \in HonestKey
    BY <1>1, <1>2, <1>3 DEF ByAuthor
  <2>2. /\ f.claims.gen \in DOMAIN published[x.e.context]
        /\ f = Authored(x.e.context, f.claims.gen)
    BY <2>1 DEF IInv, AssertionsAuthentic
  <2>3. published[x.e.context][f.claims.gen].claims.context = x.e.context
    BY <1>1, <2>2 DEF IInv, Linked
  <2>4. f.claims = published[x.e.context][f.claims.gen].claims
    BY <2>2 DEF Authored, ContentAssertionFacts
  <2>5. QED
    BY <2>2, <2>3, <2>4
<1> HIDE DEF f, a
<1>4. /\ f = ContentAssertionFacts(a, a.signer)
      /\ f.claims = a.claims
      /\ validate_facts(f)
      /\ ByAuthor(f) => /\ f.claims.context \in Context
                        /\ f.claims.gen \in DOMAIN published[f.claims.context]
                        /\ f = Authored(f.claims.context, f.claims.gen)
  BY <1>1, <1>2, <1>3
<1>5. QED
  BY <1>4 DEF f, a

LEMMA FactsHeld ==
  ASSUME IInv, NEW r \in Reader, NEW i \in DOMAIN held[r]
  PROVE  LET f == held[r][i]  a == f.digest.sha256  c == f.claims.context
         IN  /\ f = ContentAssertionFacts(a, a.signer)
             /\ f.claims = a.claims
             /\ validate_facts(f)
             /\ ByAuthor(f) => /\ c \in Context
                               /\ f.claims.gen \in DOMAIN published[c]
                               /\ f = Authored(c, f.claims.gen)
<1>1. PICK x \in verified : x.facts = held[r][i]
  BY DEF IInv, HeldIsLineage
<1>2. QED
  BY <1>1, FactsVerified

\* the digest of facts decides them
LEMMA EqualDigests ==
  ASSUME IInv, NEW r \in Reader, NEW i \in DOMAIN held[r],
         NEW s \in Reader, NEW j \in DOMAIN held[s],
         held[r][i].digest = held[s][j].digest
  PROVE  held[r][i] = held[s][j]
<1> DEFINE f == held[r][i]
           g == held[s][j]
<1>1. f = ContentAssertionFacts(f.digest.sha256, f.digest.sha256.signer)
  BY FactsHeld
<1>2. g = ContentAssertionFacts(g.digest.sha256, g.digest.sha256.signer)
  BY FactsHeld
<1>3. f.digest.sha256 = g.digest.sha256
  OBVIOUS
<1> HIDE DEF f, g
<1>4. f = g
  BY <1>1, <1>2, <1>3
<1>5. QED
  BY <1>4 DEF f, g

LEMMA DigestsFixLineage == IInv => HeadFixesLineage
<1> SUFFICES ASSUME IInv, NEW r \in Reader, NEW s \in Reader,
                    NEW i \in DOMAIN held[r], NEW j \in DOMAIN held[s],
                    held[r][i].digest = held[s][j].digest
             PROVE  \A d \in 0 .. i - 1 : d < j => held[r][i - d] = held[s][j - d]
  BY DEF HeadFixesLineage
<1> DEFINE S == {d \in Int : d < j => held[r][i - d] = held[s][j - d]}
<1>1. TypeOK
  BY DEF IInv
<1>2. /\ Len(held[r]) \in Nat /\ i \in 1 .. Len(held[r]) /\ DOMAIN held[r] = 1 .. Len(held[r])
      /\ Len(held[s]) \in Nat /\ j \in 1 .. Len(held[s]) /\ DOMAIN held[s] = 1 .. Len(held[s])
  BY <1>1, HeldIsSeq
<1>3. i \in Int /\ j \in Int /\ 0 \in Int /\ i - 1 \in Int
  BY <1>2
<1>4. 0 \in S
  <2>1. held[r][i] = held[s][j]
    BY EqualDigests
  <2>2. i - 0 = i /\ j - 0 = j
    BY <1>3
  <2>3. QED
    BY <2>1, <2>2
<1>5. ASSUME NEW d \in 0 .. i - 1 - 1, d \in S PROVE d + 1 \in S
  <2> SUFFICES ASSUME d + 1 < j PROVE held[r][i - (d + 1)] = held[s][j - (d + 1)]
    BY <1>3
  <2> DEFINE m == i - d
             n == j - d
  <2>1. /\ m \in DOMAIN held[r] /\ m > 1 /\ m - 1 \in DOMAIN held[r] /\ i - (d + 1) = m - 1
        /\ n \in DOMAIN held[s] /\ n > 1 /\ n - 1 \in DOMAIN held[s] /\ j - (d + 1) = n - 1
    <3>1. d \in Int /\ 0 <= d /\ d <= i - 2 /\ d + 1 < j
      BY <1>3
    <3>2. /\ m \in 1 .. Len(held[r]) /\ m > 1 /\ m - 1 \in 1 .. Len(held[r])
          /\ i - (d + 1) = m - 1
      BY <1>2, <1>3, <3>1
    <3>3. /\ n \in 1 .. Len(held[s]) /\ n > 1 /\ n - 1 \in 1 .. Len(held[s])
          /\ j - (d + 1) = n - 1
      BY <1>2, <1>3, <3>1
    <3> HIDE DEF m, n
    <3>4. QED
      BY <1>2, <3>2, <3>3
  <2>2. held[r][m] = held[s][n]
    BY <1>3, <1>5
  <2> HIDE DEF m, n
  <2>3. /\ verify_content_assertion_successor(held[r][m - 1], held[r][m])
        /\ verify_content_assertion_successor(held[s][n - 1], held[s][n])
    BY <2>1 DEF IInv, HeldIsLineage
  <2>4. held[r][m - 1].digest = held[s][n - 1].digest
    BY <2>2, <2>3 DEF verify_content_assertion_successor
  <2>5. held[r][m - 1] = held[s][n - 1]
    BY <2>1, <2>4, EqualDigests
  <2>6. QED
    BY <2>1, <2>5
<1> HIDE DEF S
<1>6. 0 .. i - 1 \subseteq S
  BY <1>3, <1>4, <1>5, IntervalUp
<1>7. QED
  BY <1>6 DEF S

LEMMA LineagesAreFollowed == IInv => LineageFollowed
<1> SUFFICES ASSUME IInv, NEW r \in Reader, NEW j \in DOMAIN held[r], ByAuthor(held[r][j])
             PROVE  \A i \in 1 .. j :
                      LET c == held[r][j].claims.context  n == held[r][i].claims.gen
                      IN  /\ n \in DOMAIN published[c]
                          /\ held[r][i] = Authored(c, n)
                          /\ n = held[r][j].claims.gen - (j - i)
  BY DEF LineageFollowed
<1> DEFINE h == held[r]
           c == h[j].claims.context
           S == {i \in Int : /\ h[i].claims.gen \in DOMAIN published[c]
                             /\ h[i] = Authored(c, h[i].claims.gen)
                             /\ h[i].claims.gen = h[j].claims.gen - (j - i)}
<1>1. TypeOK
  BY DEF IInv
<1>2. Len(h) \in Nat /\ DOMAIN h = 1 .. Len(h) /\ j \in 1 .. Len(h)
  BY <1>1, HeldIsSeq
<1>3. j \in Int /\ 1 \in Int
  BY <1>2
<1>4. \A i \in DOMAIN h : h[i].claims.gen \in Int /\ validate_numbers(h[i].claims)
  BY FactsHeld, MagnitudeAssumption DEF validate_facts, validate_numbers
<1>5. c \in Context /\ j \in S
  <2>1. /\ c \in Context
        /\ h[j].claims.gen \in DOMAIN published[c]
        /\ h[j] = Authored(c, h[j].claims.gen)
    BY FactsHeld
  <2>2. h[j].claims.gen = h[j].claims.gen - (j - j)
    BY <1>2, <1>3, <1>4
  <2> HIDE DEF c, h
  <2>3. QED
    BY <1>3, <2>1, <2>2
<1>6. ASSUME NEW i \in 1 + 1 .. j, i \in S PROVE i - 1 \in S
  <2> DEFINE n == h[i].claims.gen
             m == h[i - 1].claims.gen
             p == published[c]
  <2>1. i \in DOMAIN h /\ i > 1 /\ i - 1 \in DOMAIN h /\ i \in Int /\ i - 1 \in Int
    BY <1>2
  <2>2. /\ n \in DOMAIN p /\ h[i] = ContentAssertionFacts(p[n], p[n].signer)
        /\ n = h[j].claims.gen - (j - i)
    BY <1>6 DEF Authored
  <2>3. verify_content_assertion_successor(h[i - 1], h[i])
    BY <2>1 DEF IInv, HeldIsLineage
  <2>4. n = m + 1 /\ h[i].claims.prev = h[i - 1].digest
    BY <2>3 DEF verify_content_assertion_successor
  <2>5. m \in Int /\ m >= 1 /\ n \in Int
    BY <1>4, <2>1, MagnitudeAssumption DEF validate_numbers
  <2>6. p[n].claims.prev = assertion_digest(p[n - 1])
    <3>1. p[n].claims.prev = IF n = 1 THEN ZeroDigest ELSE assertion_digest(p[n - 1])
      BY <1>5, <2>2 DEF IInv, Linked
    <3>2. n # 1
      BY <2>4, <2>5
    <3>3. QED
      BY <3>1, <3>2
  <2>7. h[i].claims = p[n].claims
    BY <2>2 DEF ContentAssertionFacts
  <2>8. n - 1 = m
    BY <2>4, <2>5
  <2>9. h[i - 1].digest.sha256 = p[m]
    <3>1. h[i - 1].digest = assertion_digest(p[m])
      BY <2>4, <2>6, <2>7, <2>8
    <3>2. QED
      BY <3>1 DEF assertion_digest
  <2>10. h[i - 1] = ContentAssertionFacts(h[i - 1].digest.sha256, h[i - 1].digest.sha256.signer)
    BY <2>1, FactsHeld
  <2>11. h[i - 1] = Authored(c, m)
    BY <2>9, <2>10 DEF Authored
  <2>12. m \in DOMAIN p
    <3>1. Len(p) \in Nat /\ DOMAIN p = 1 .. Len(p)
      BY <1>1, <1>5, LineageIsSeq
    <3>2. QED
      BY <2>2, <2>4, <2>5, <3>1
  <2>13. m = h[j].claims.gen - (j - (i - 1))
    <3>1. h[j].claims.gen \in Int
      BY <1>2, <1>4
    <3>2. QED
      BY <1>3, <2>1, <2>2, <2>4, <2>5, <3>1
  <2> HIDE DEF h, c
  <2>14. QED
    BY <2>1, <2>11, <2>12, <2>13
<1> HIDE DEF S
<1>7. 1 .. j \subseteq S
  <2>1. j \in S
    BY <1>5
  <2> HIDE DEF h, c
  <2>2. QED
    BY <1>3, <1>6, <2>1, IntervalDown
<1>8. QED
  BY <1>7 DEF S

LEMMA NextSucceeds == IInv => NextIsSuccessor
<1> SUFFICES ASSUME IInv, NEW r \in Reader, NEW x \in verified,
                    held[r] # << >>, ByAuthor(LastOf(held[r])), ByAuthor(x.facts),
                    x.facts.claims.context = LastOf(held[r]).claims.context,
                    x.facts.claims.gen = LastOf(held[r]).claims.gen + 1,
                    x.facts.claims.jti # LastOf(held[r]).claims.jti
             PROVE  verify_content_assertion_successor(LastOf(held[r]), x.facts)
  BY DEF NextIsSuccessor
<1> DEFINE f == LastOf(held[r])
           g == x.facts
           c == g.claims.context
           n == g.claims.gen
           p == published[c]
<1>1. PICK i \in DOMAIN held[r] : f = held[r][i]
  <2>1. TypeOK
    BY DEF IInv
  <2>2. held[r] \in Seq({held[r][i] : i \in DOMAIN held[r]})
    BY <2>1, HeldIsSeq
  <2>3. Len(held[r]) \in DOMAIN held[r]
    BY <2>1, <2>2, HeldIsSeq, EmptySeq
  <2>4. QED
    BY <2>3 DEF LastOf
<1>2. /\ validate_facts(f) /\ c \in Context
      /\ f.claims.gen \in DOMAIN p /\ f = Authored(c, f.claims.gen)
  BY <1>1, FactsHeld
<1>3. validate_facts(g) /\ n \in DOMAIN p /\ g = Authored(c, n)
  BY FactsVerified
<1>4. n \in Int /\ f.claims.gen \in Int /\ f.claims.gen >= 1 /\ n = f.claims.gen + 1
  BY <1>2, <1>3, MagnitudeAssumption DEF validate_facts, validate_numbers
<1>5. n # 1 /\ n > 1 /\ n - 1 = f.claims.gen
  BY <1>4
<1>6. /\ p[n].claims.prev = assertion_digest(p[n - 1])
      /\ p[n - 1].claims.iat <= p[n].claims.iat
  BY <1>2, <1>3, <1>5 DEF IInv, Linked
<1>7. /\ f.claims = p[n - 1].claims /\ f.digest = assertion_digest(p[n - 1])
      /\ g.claims = p[n].claims
  BY <1>2, <1>3, <1>5 DEF Authored, ContentAssertionFacts
<1>8. /\ p[n].claims.iat \in Int /\ p[n - 1].claims.iat \in Int
  <2>1. \A j \in DOMAIN p : p[j].claims.iat \in Int
    BY <1>2 DEF IInv, TypeOK, IsLineage
  <2>2. n \in DOMAIN p /\ n - 1 \in DOMAIN p
    BY <1>2, <1>3, <1>5
  <2> HIDE DEF n, p
  <2>3. QED
    BY <2>1, <2>2
<1>9. /\ g.claims.context = f.claims.context
      /\ g.claims.gen = f.claims.gen + 1
      /\ g.claims.jti # f.claims.jti
  OBVIOUS
<1>13. f.claims.gen < IntegerMagnitude
  <2>1. n <= IntegerMagnitude
    BY <1>3, MagnitudeAssumption DEF validate_facts, validate_numbers
  <2> HIDE DEF n
  <2>2. QED
    BY <1>4, <2>1, MagnitudeAssumption
<1> HIDE DEF f, g, p, n, c
<1>10. /\ g.claims.prev = f.digest
       /\ g.claims.iat >= f.claims.iat
  BY <1>6, <1>7, <1>8
<1>11. verify_content_assertion_successor(f, g)
  BY <1>2, <1>3, <1>9, <1>10, <1>13 DEF verify_content_assertion_successor
<1>12. QED
  BY <1>11 DEF f, g

LEMMA PublishedIsAccepted == IInv => PublishedAccepted
<1> SUFFICES ASSUME IInv, NEW c \in Context, NEW i \in DOMAIN published[c],
                    NEW key \in AuthorKeys,
                    key.public_key = published[c][i].signer,
                    key.key_id = published[c][i].claims.kid,
                    historical_key(key), acceptable_public_key(key.public_key),
                    validate_magnitude(now),
                    inside_window(published[c][i].claims.iat, key),
                    inside_window(published[c][i].claims.exp - 1, key),
                    now \in published[c][i].claims.nbf .. published[c][i].claims.exp - 1
             PROVE  verify_content_assertion(published[c][i],
                           [attestor |-> key, context |-> c,
                            content |-> published[c][i].claims.content, now |-> now])
  BY DEF PublishedAccepted
<1> DEFINE a == published[c][i]
           e == [attestor |-> key, context |-> c, content |-> a.claims.content, now |-> now]
<1>1. /\ IsCompact(a) /\ decode_parts(a)
      /\ {a.claims.iat, a.claims.nbf, a.claims.exp} \subseteq Int
      /\ a.claims.context = c
  BY DEF IInv, TypeOK, IsLineage, Linked
<1>2. now \in Int
  BY TimeAssumption DEF IInv, TypeOK
<1>3. /\ key.valid_from \in Int
      /\ key.valid_before # Unbounded => key.valid_before \in Int
  BY TimeAssumption DEF AdmittedKeys
<1>4. contained(a.claims, key)
  <2> DEFINE iat == a.claims.iat
             nbf == a.claims.nbf
             exp == a.claims.exp
             from == key.valid_from
             before == key.valid_before
  <2>1. /\ iat \in Int /\ nbf \in Int /\ exp \in Int /\ from \in Int
        /\ iat <= nbf /\ from <= iat
        /\ before # Unbounded => before \in Int /\ exp - 1 < before
    BY <1>1, <1>3 DEF inside_window, decode_parts, validate_payload, validate_numbers
  <2>2. iat >= from /\ nbf >= from /\ (before # Unbounded => exp <= before)
    <3> HIDE DEF iat, nbf, exp, from, before
    <3>1. QED
      BY <2>1
  <2>3. QED
    BY <2>2 DEF contained
<1>5. now \in a.claims.nbf .. a.claims.exp - 1
  OBVIOUS
<1>6. a.claims.nbf <= now /\ now < a.claims.exp
  BY <1>1, <1>2, <1>5
<1>7. e.attestor = key /\ e.context = c /\ e.content = a.claims.content /\ e.now = now
  OBVIOUS
<1>8. expected_matches(a.claims, e)
  BY <1>1, <1>7 DEF expected_matches
<1>9. ed25519_verify(key.public_key, a)
  <2>1. a.scalar = "canonical"
    BY <1>1 DEF IsCompact, Signed
  <2>2. QED
    BY <2>1 DEF ed25519_verify, signature_gate, equation
<1> HIDE DEF a, e
<1>10. validate_expected(e)
  BY <1>7 DEF validate_expected
<1>11. verify_content_assertion(a, e)
  BY <1>1, <1>4, <1>6, <1>7, <1>8, <1>9, <1>10 DEF verify_content_assertion
<1>12. QED
  BY <1>11 DEF a, e

\* verify_content_assertion_successor: below an assertion of the author's a reader holds nothing but
\* the author's, generation by generation, whatever other keys it has admitted.
THEOREM LineagesFollowed == Spec => []LineageFollowed
<1>1. IInv => LineageFollowed
  BY LineagesAreFollowed
<1>2. QED
  BY <1>1, Inductive, PTL

\* verify_content_assertion_successor: readers that hold the same digest hold the same facts below
\* it, whoever signed.
THEOREM HeadsFixLineage == Spec => []HeadFixesLineage
<1>1. IInv => HeadFixesLineage
  BY DigestsFixLineage
<1>2. QED
  BY <1>1, Inductive, PTL

\* verify_content_assertion_successor: from any generation of the author's a reader can go on to
\* the next.
THEOREM NextIsASuccessor == Spec => []NextIsSuccessor
<1>1. IInv => NextIsSuccessor
  BY NextSucceeds
<1>2. QED
  BY <1>1, Inductive, PTL

\* assertion_signing_input against verify_assertion: what the author publishes is
\* accepted as long as it and its key are in force.
THEOREM PublishedIsTaken == Spec => []PublishedAccepted
<1>1. IInv => PublishedAccepted
  BY PublishedIsAccepted
<1>2. QED
  BY <1>1, Inductive, PTL

(***************************************************************************)
(* The abstract log.                                                       *)
(***************************************************************************)

LEMMA IdealInit == Init => Ideal!Init
<1>1. DOMAIN << >> = {}
  OBVIOUS
<1>2. Init => Reports = {}
  BY <1>1 DEF Init, Reports
<1>3. QED
  BY <1>2 DEF Init, Ideal!Init

\* a reader that follows an assertion of the author's can report one thing more
LEMMA FollowReports ==
  ASSUME IInv, NEW r \in Reader, NEW f,
         held' = [s \in Reader |-> IF s = r THEN Append(held[r], f) ELSE held[s]]
  PROVE  LET n == Len(held[r]) + 1
         IN  /\ n \in DOMAIN held'[r] /\ held'[r][n] = f
             /\ Reports' = IF ByAuthor(f) THEN Reports \cup {ReportOf(held'[r], n)}
                           ELSE Reports
<1> DEFINE h == held[r]
           t == Append(h, f)
           n == Len(h) + 1
           Of(u) == {ReportOf(u, j) : j \in {i \in DOMAIN u : ByAuthor(u[i])}}
<1>1. TypeOK
  BY DEF IInv
<1>2. /\ DOMAIN t = 1 .. Len(h) + 1
      /\ \A i \in 1 .. Len(h) : t[i] = h[i]
      /\ t[Len(h) + 1] = f
  BY <1>1, HeldIsSeq, AppendGrows
<1>3. Len(h) \in Nat /\ DOMAIN h = 1 .. Len(h)
  BY <1>1, HeldIsSeq
<1>4. /\ held'[r] = t
      /\ \A s \in Reader : s # r => held'[s] = held[s]
  OBVIOUS
<1> HIDE DEF t, h
<1>5. n \in DOMAIN t /\ t[n] = f
  BY <1>2, <1>3
<1>6. \A j \in DOMAIN h : ReportOf(t, j) = ReportOf(h, j)
  <2> SUFFICES ASSUME NEW j \in DOMAIN h PROVE ReportOf(t, j) = ReportOf(h, j)
    OBVIOUS
  <2>1. t[1] = h[1] /\ \A i \in 1 .. j : t[i] = h[i]
    BY <1>2, <1>3
  <2>2. QED
    BY <2>1 DEF ReportOf
<1>7. DOMAIN t = DOMAIN h \cup {n} /\ \A j \in DOMAIN h : t[j] = h[j]
  BY <1>2, <1>3
<1>8. Of(t) = IF ByAuthor(f) THEN Of(h) \cup {ReportOf(t, n)} ELSE Of(h)
  <2> HIDE DEF n
  <2>1. QED
    BY <1>5, <1>6, <1>7
<1>9. Reports = UNION {Of(held[s]) : s \in Reader}
  BY DEF Reports
<1>10. Reports' = UNION {Of(held'[s]) : s \in Reader}
  BY DEF Reports, ByAuthor, ReportOf
<1> HIDE DEF Of, n
<1>11. Reports' = IF ByAuthor(f) THEN Reports \cup {ReportOf(t, n)} ELSE Reports
  <2>1. \A s \in Reader :
          Of(held'[s]) = IF s = r /\ ByAuthor(f) THEN Of(held[s]) \cup {ReportOf(t, n)}
                         ELSE Of(held[s])
    BY <1>4, <1>8 DEF h
  <2>2. QED
    BY <1>9, <1>10, <2>1
<1>12. QED
  BY <1>4, <1>5, <1>11 DEF h, n

\* what a reader can report is a piece of the lineage
ReportsPieces ==
  \A r \in Reader : \A j \in DOMAIN held[r] : ByAuthor(held[r][j]) =>
    LET y == ReportOf(held[r], j)
    IN  /\ y.records # << >>
        /\ y.first + Len(y.records) - 1 <= Len(published[y.chain_id])
        /\ y.records = SubSeq(published[y.chain_id], y.first,
                              y.first + Len(y.records) - 1)

LEMMA ReportsArePieces == IInv => ReportsPieces
<1> SUFFICES ASSUME IInv, NEW r \in Reader, NEW j \in DOMAIN held[r], ByAuthor(held[r][j])
             PROVE  LET y == ReportOf(held[r], j)
                    IN  /\ y.records # << >>
                        /\ y.first + Len(y.records) - 1 <= Len(published[y.chain_id])
                        /\ y.records = SubSeq(published[y.chain_id], y.first,
                                              y.first + Len(y.records) - 1)
  BY DEF ReportsPieces
<1>0. TypeOK /\ Linked /\ LineageFollowed /\ held[r][j].claims.context \in Context
  BY LineagesAreFollowed, FactsHeld DEF IInv
<1> DEFINE h == held[r]
           c == h[j].claims.context
           p == published[c]
           g == h[j].claims.gen
           first == h[1].claims.gen
           records == [i \in 1 .. j |-> h[i].digest.sha256]
<1>1. Len(h) \in Nat /\ DOMAIN h = 1 .. Len(h) /\ j \in 1 .. Len(h)
  BY <1>0, HeldIsSeq
<1>2. j \in Nat \ {0} /\ 1 \in 1 .. j
  BY <1>1
<1>3. \A i \in 1 .. j : /\ h[i].claims.gen \in DOMAIN p
                        /\ h[i] = Authored(c, h[i].claims.gen)
                        /\ h[i].claims.gen = g - (j - i)
  BY <1>0 DEF LineageFollowed
<1>4. /\ Len(p) \in Nat /\ DOMAIN p = 1 .. Len(p)
      /\ p \in Seq({p[i] : i \in DOMAIN p})
  BY <1>0, LineageIsSeq
<1>5. \A i \in 1 .. j : /\ h[i].claims = p[h[i].claims.gen].claims
                        /\ h[i].digest.sha256 = p[h[i].claims.gen]
  <2>1. \A n : /\ Authored(c, n).claims = p[n].claims
               /\ Authored(c, n).digest.sha256 = p[n]
    BY DEF Authored, ContentAssertionFacts, assertion_digest
  <2> HIDE DEF c, p, h
  <2>2. QED
    BY <1>3, <2>1
<1>6. h[1].claims.context = c
  <2>1. \A i \in DOMAIN p : p[i].claims.context = c
    BY <1>0 DEF Linked
  <2>2. h[1].claims.gen \in DOMAIN p /\ h[1].claims = p[h[1].claims.gen].claims
    BY <1>2, <1>3, <1>5
  <2> HIDE DEF c, p, h
  <2>3. QED
    BY <2>1, <2>2
<1>7. g \in 1 .. Len(p) /\ first \in 1 .. Len(p) /\ first = g - (j - 1)
  BY <1>2, <1>3, <1>4, <1>1
<1>8. ReportOf(h, j) = [chain_id |-> c, first |-> first, records |-> records]
  BY <1>6 DEF ReportOf
<1>9. Len(records) = j
  BY <1>2
<1> HIDE DEF h, c, p, g, first
<1>10. records = [i \in 1 .. j |-> p[first + i - 1]]
  <2>1. ASSUME NEW i \in 1 .. j PROVE h[i].digest.sha256 = p[first + i - 1]
    <3>1. h[i].claims.gen = first + i - 1
      <4>1. g \in Int /\ first = g - (j - 1)
        BY <1>4, <1>7
      <4>2. h[i].claims.gen = g - (j - i) /\ i \in Int
        BY <1>3
      <4>3. g - (j - i) = first + i - 1
        BY <1>2, <4>1, <4>2
      <4>4. QED
        BY <4>2, <4>3
    <3>2. QED
      BY <1>5, <3>1
  <2>2. QED
    BY <2>1
<1> HIDE DEF records
<1>11. first + j - 1 = g /\ g - first + 1 = j /\ first <= g
  BY <1>2, <1>7
<1>12. SubSeq(p, first, g) = [i \in 1 .. j |-> p[first + i - 1]]
  BY <1>2, <1>4, <1>7, <1>11, SubSeqIsFunction
<1>13. records # << >>
  BY <1>2, <1>9
<1>14. /\ records # << >>
       /\ first + Len(records) - 1 <= Len(p)
       /\ records = SubSeq(p, first, first + Len(records) - 1)
  <2>1. first + Len(records) - 1 = g /\ g <= Len(p)
    BY <1>4, <1>7, <1>9, <1>11
  <2>2. records = SubSeq(p, first, g)
    BY <1>10, <1>12
  <2>3. QED
    BY <1>13, <2>1, <2>2
<1> DEFINE y == ReportOf(h, j)
<1>15. y.chain_id = c /\ y.first = first /\ y.records = records
  BY <1>8
<1> HIDE DEF y
<1>16. /\ y.records # << >>
       /\ y.first + Len(y.records) - 1 <= Len(published[y.chain_id])
       /\ y.records = SubSeq(published[y.chain_id], y.first, y.first + Len(y.records) - 1)
  BY <1>14, <1>15 DEF p
<1>17. QED
  BY <1>16 DEF y, h

LEMMA IdealStep ==
  IInv /\ IInv' /\ [Next]_vars => [Ideal!Next]_<<published, Reports>>
<1> SUFFICES ASSUME IInv, IInv', [Next]_vars PROVE [Ideal!Next]_<<published, Reports>>
  OBVIOUS
<1>1. CASE Publish
  <2>1. PICK c, a :
          /\ c \in Context
          /\ published' = [d \in Context |-> IF d = c THEN Append(published[c], a)
                                             ELSE published[d]]
    <3>1. TypeOK
      BY DEF IInv
    <3>2. PICK c, a :
            /\ c \in Context
            /\ IsCompact(a) /\ decode_parts(a)
            /\ {a.claims.iat, a.claims.nbf, a.claims.exp} \subseteq Int
            /\ a.signer \in HonestKey
            /\ a.claims.context = c /\ a.claims.gen = Len(published[c]) + 1
            /\ a.claims.iat = now /\ a.claims.prev = head(c)
            /\ published' = [d \in Context |-> IF d = c THEN Append(published[c], a)
                                               ELSE published[d]]
      BY <1>1, <3>1, PublishedOne
    <3>3. QED
      BY <3>2
  <2>2. Reports' = Reports
    BY <1>1 DEF Publish, Reports, ReportOf, ByAuthor
  <2>3. /\ Len(published'[c]) = Len(published[c]) + 1 /\ Len(published[c]) \in Nat
        /\ published'[c][Len(published'[c])] = a
    BY <2>1, LineageIsSeq, AppendGrows DEF IInv
  <2>4. published = [d \in Context |-> published[d]]
    BY DEF IInv, TypeOK
  <2>5. published' = [published EXCEPT ![c] = Append(@, published'[c][Len(published'[c])])]
    <3>1. DOMAIN published = Context
      BY <2>4
    <3>2. QED
      BY <2>1, <2>3, <3>1
  <2>6. Ideal!Record(c, published'[c][Len(published'[c])])
    BY <2>2, <2>5 DEF Ideal!Record
  <2>7. Len(published'[c]) > 0
    BY <2>3
  <2>8. QED
    BY <2>1, <2>6, <2>7 DEF Ideal!Next
<1>2. CASE Follow
  <2>1. UNCHANGED published
    BY <1>2 DEF Follow
  <2>2. PICK r \in Reader, x \in verified :
          held' = [s \in Reader |-> IF s = r THEN Append(held[r], x.facts) ELSE held[s]]
    BY <1>2, FollowedOne DEF IInv
  <2> DEFINE n == Len(held[r]) + 1
             y == ReportOf(held'[r], n)
  <2>3. /\ n \in DOMAIN held'[r] /\ held'[r][n] = x.facts
        /\ Reports' = IF ByAuthor(x.facts) THEN Reports \cup {y} ELSE Reports
    BY <2>2, FollowReports
  <2>4. CASE ByAuthor(x.facts) /\ y \notin Reports
    <3>1. Reports' = Reports \cup {y} /\ y \in Reports' \ Reports
      BY <2>3, <2>4
    <3>2. x.facts.claims.context \in Context
      BY <2>4, FactsVerified
    <3>3. /\ y.records # << >>
          /\ y.first + Len(y.records) - 1 <= Len(published'[y.chain_id])
          /\ y.records = SubSeq(published'[y.chain_id], y.first,
                                y.first + Len(y.records) - 1)
      <4>1. IInv' => ReportsPieces'
        BY ReportsArePieces, PTL
      <4> HIDE DEF n
      <4>2. ByAuthor(held'[r][n])
        BY <2>3, <2>4
      <4>3. QED
        BY <2>3, <4>1, <4>2 DEF ReportsPieces, ByAuthor, ReportOf
    <3> HIDE DEF y
    <3>4. Ideal!Report(y)
      BY <2>1, <3>1, <3>3 DEF Ideal!Report
    <3>5. QED
      BY <3>1, <3>4 DEF Ideal!Next
  <2>5. CASE ~ (ByAuthor(x.facts) /\ y \notin Reports)
    <3> HIDE DEF y
    <3>1. Reports' = Reports
      BY <2>3, <2>5
    <3>2. QED
      BY <2>1, <3>1
  <2>6. QED
    BY <2>4, <2>5
<1>3. CASE UNCHANGED <<published, held>>
  BY <1>3 DEF Reports, ReportOf, ByAuthor
<1>4. QED
  BY <1>1, <1>2, <1>3 DEF Next, vars, Tick, VerifyAssertion

\* An author and readers who speak through this profile keep a lineage that is
\* only appended to and reported as it is.
THEOREM Refinement == Spec => ImplementsTamperEvidentLog
BY Inductive, IdealInit, IdealStep, PTL DEF Spec, Ideal!Spec, ImplementsTamperEvidentLog
=============================================================================
