---------------------------- MODULE LineageSystem ----------------------------
(***************************************************************************)
(* Content assertions in the system they are written for: an author that   *)
(* publishes generation after generation under keys it may change, and     *)
(* readers that fetch assertions from a place the adversary controls,      *)
(* verify them under the keys they admit, keep the facts and follow a      *)
(* lineage from one to the next.                                           *)
(*                                                                         *)
(* A reader may have admitted a key of the adversary's, may start anywhere *)
(* in a lineage, may come by generations in any order, and may compare     *)
(* facts long after the assertions have expired: the check of a successor  *)
(* is given facts and no time.                                             *)
(***************************************************************************)
EXTENDS ContentAssertion, Sequences, FiniteSets

CONSTANTS
  AuthorKeys,      \* records of the author's keys
  AdversaryKeys,   \* records of keys that are not the author's
  ForgedContent,   \* what the adversary asserts
  Term,            \* [wait, life]: when an assertion starts, how long it lasts
  Reader,
  \* bounds of the model
  MaxTime, MaxPublished, MaxVerified, MaxHeld

HonestKey == {k.public_key : k \in AuthorKeys}
AdmittedKeys == AuthorKeys \cup AdversaryKeys

ASSUME AuthorAssumption == \A k \in AdversaryKeys : k.public_key \notin HonestKey
ASSUME SoundAssumption == HonestKey \cap SmallOrderKey = {}
ASSUME TimeAssumption ==
  /\ \A k \in AdmittedKeys : k.valid_from \in Int
                             /\ (k.valid_before # Unbounded => k.valid_before \in Int)
  /\ \A t \in Term : t.wait \in Int /\ t.life \in Int
  /\ MaxTime \in Nat

VARIABLES
  now,         \* the clock of the author and of every reader
  published,   \* the author's assertions of each lineage
  verified,    \* [facts, e]: what verify returned, and for which call
  held         \* the facts each reader has followed, in order

vars == <<now, published, verified, held>>

LastOf(s) == s[Len(s)]

head(c) ==
  IF published[c] = << >> THEN ZeroDigest ELSE assertion_digest(LastOf(published[c]))

Init ==
  /\ now = 0
  /\ published = [c \in Context |-> << >>]
  /\ verified = {}
  /\ held = [r \in Reader |-> << >>]

Tick ==
  /\ now < MaxTime
  /\ now' = now + 1
  /\ UNCHANGED <<published, verified, held>>

\* what the author's signer makes of claims; either scalar, assembly refuses one
Signed(claims, scalar, key) ==
  [claims |-> claims, form |-> "canonical", scalar |-> scalar, signer |-> key]

\* the author's next assertion, on the digest of its last
NextInput(c, key, content, id, t) ==
  [attestor_key_id |-> key.key_id, context |-> c,
   content_digest |-> content_digest(content), generation |-> Len(published[c]) + 1,
   previous |-> head(c), jti |-> id, issued_at |-> now, not_before |-> now + t.wait,
   expires_at |-> now + t.wait + t.life]

\* assertion_signing_input, the author's signature, assembly
Publish ==
  /\ \E c \in Context, key \in AuthorKeys, content \in Content, id \in AssertionId,
        t \in Term, scalar \in Scalar :
       LET claims == assertion_signing_input(NextInput(c, key, content, id, t))
           a == Signed(claims, scalar, key.public_key)
       IN  /\ Len(published[c]) < MaxPublished
           /\ validate_numbers(claims)
           /\ assemble_content_assertion_compact(a)
           /\ published' = [published EXCEPT ![c] = Append(@, a)]
  /\ UNCHANGED <<now, verified, held>>

-----------------------------------------------------------------------------
(***************************************************************************)
(* What a reader can be given.                                             *)
(***************************************************************************)

Published == UNION {{published[c][i] : i \in DOMAIN published[c]} : c \in Context}

\* what the adversary claims of a first assertion, or of one after a; its claims
\* are as favourable as they can be
FirstClaims(k, c, content, id) ==
  assertion_signing_input(
    [attestor_key_id |-> k.key_id, context |-> c,
     content_digest |-> content_digest(content), generation |-> 1,
     previous |-> ZeroDigest, jti |-> id, issued_at |-> 0, not_before |-> 0,
     expires_at |-> MaxTime + 1])

ClaimsAfter(a, k, content, id) ==
  [a.claims EXCEPT !.kid = k.key_id, !.content = content_digest(content), !.gen = @ + 1,
                   !.prev = assertion_digest(a), !.jti = id, !.exp = MaxTime + 1]

Forgery(claims, k) == Signed(claims, "canonical", k.public_key)

ChainedTo(compacts) ==
  {Forgery(FirstClaims(k, c, content, id), k) :
     k \in AdversaryKeys, c \in Context, content \in ForgedContent, id \in AssertionId}
    \cup
  {Forgery(ClaimsAfter(a, k, content, id), k) :
     a \in compacts, k \in AdversaryKeys, content \in ForgedContent, id \in AssertionId}

Forged ==
  LET once == ChainedTo(Published)
  IN  once \cup ChainedTo(once)

\* and the author's claims under the adversary's signature
AssertionsOnWire ==
  Published \cup {shifted(a) : a \in Published} \cup Forged
    \cup {Forgery(a.claims, k) : a \in Published, k \in AdversaryKeys}

\* verify_content_assertion
VerifyAssertion ==
  /\ Cardinality(verified) < MaxVerified
  /\ \E a \in AssertionsOnWire, key \in AdmittedKeys, c \in Context,
        content \in Content \cup ForgedContent :
       LET e == [attestor |-> key, context |-> c, content |-> content_digest(content),
                 now |-> now]
       IN  /\ verify_content_assertion(a, e)
           /\ verified' = verified \cup
                {[facts |-> ContentAssertionFacts(a, e.attestor.public_key), e |-> e]}
  /\ UNCHANGED <<now, published, held>>

\* a reader starts from any facts and goes on to a successor
Follow ==
  /\ \E r \in Reader, x \in verified :
       /\ Len(held[r]) < MaxHeld
       /\ held[r] # << >> => verify_content_assertion_successor(LastOf(held[r]), x.facts)
       /\ held' = [held EXCEPT ![r] = Append(@, x.facts)]
  /\ UNCHANGED <<now, published, verified>>

Next ==
  \/ Tick
  \/ Publish
  \/ VerifyAssertion
  \/ Follow

Spec == Init /\ [][Next]_vars

-----------------------------------------------------------------------------
(***************************************************************************)
(* Type invariant: an assertion's prev is a digest of any depth, and is    *)
(* left to Linked.                                                         *)
(***************************************************************************)

IsCompact(a) == a = Signed(a.claims, "canonical", a.signer)

IsLineage(s) ==
  /\ s \in Seq({s[i] : i \in DOMAIN s})
  /\ Len(s) <= IntegerMagnitude
  /\ \A i \in DOMAIN s :
       /\ IsCompact(s[i]) /\ decode_parts(s[i])
       /\ {s[i].claims.iat, s[i].claims.nbf, s[i].claims.exp} \subseteq Int

TypeOK ==
  /\ now \in 0 .. MaxTime
  /\ published = [c \in Context |-> published[c]]
  /\ \A c \in Context : IsLineage(published[c])
  /\ held = [r \in Reader |-> held[r]]
  /\ \A r \in Reader : held[r] \in Seq({held[r][i] : i \in DOMAIN held[r]})

(***************************************************************************)
(* Safety.                                                                 *)
(***************************************************************************)

\* the author's assertion of a generation, as facts
Authored(c, n) == ContentAssertionFacts(published[c][n], published[c][n].signer)

ByAuthor(facts) == facts.attestor_key_fingerprint \in HonestKey

\* verify_content_assertion: facts that name a key of the author's are, digest and all,
\* those of the assertion the author published as that generation, they say what
\* the reader asked about, and the assertion was in force, inside the window of
\* the key, when the reader asked.
AssertionsAuthentic ==
  \A x \in verified : x.e.attestor.public_key \in HonestKey =>
    LET c == x.facts.claims
    IN  /\ c.gen \in DOMAIN published[x.e.context]
        /\ x.facts = Authored(x.e.context, c.gen)
        /\ c.content = x.e.content
        /\ inside_window(c.iat, x.e.attestor)
        /\ \A t \in c.nbf .. c.exp - 1 : inside_window(t, x.e.attestor)
        /\ x.e.now \in c.nbf .. c.exp - 1

\* verify_content_assertion_successor: below an assertion of the author's a
\* reader holds nothing but the author's, generation by generation, though it
\* has admitted a key of the adversary's and started where it liked.
LineageFollowed ==
  \A r \in Reader : \A j \in DOMAIN held[r] : ByAuthor(held[r][j]) =>
    \A i \in 1 .. j :
      LET c == held[r][j].claims.context  n == held[r][i].claims.gen
      IN  /\ n \in DOMAIN published[c]
          /\ held[r][i] = Authored(c, n)
          /\ n = held[r][j].claims.gen - (j - i)

\* verify_content_assertion_successor: a digest fixes its history.  Whoever
\* signed, two readers that hold the same digest hold the same facts below it,
\* as far back as both go: readers who followed different branches of a lineage
\* that forks never come to agree again.
HeadFixesLineage ==
  \A r, s \in Reader : \A i \in DOMAIN held[r], j \in DOMAIN held[s] :
    held[r][i].digest = held[s][j].digest =>
      \A d \in 0 .. i - 1 : d < j => held[r][i - d] = held[s][j - d]

\* what the producer makes the verifier takes: an assertion the author published
\* is accepted at every moment it is in force, if its key covers its validity,
\* to the last moment of both.
PublishedAccepted ==
  \A c \in Context : \A i \in DOMAIN published[c] : \A key \in AuthorKeys :
    LET a == published[c][i]
    IN  (/\ key.public_key = a.signer /\ key.key_id = a.claims.kid
         /\ historical_key(key) /\ acceptable_public_key(key.public_key)
         /\ validate_magnitude(now)
         /\ inside_window(a.claims.iat, key) /\ inside_window(a.claims.exp - 1, key)
         /\ now \in a.claims.nbf .. a.claims.exp - 1)
        => verify_content_assertion(a, [attestor |-> key, context |-> c,
                                        content |-> a.claims.content, now |-> now])

\* a reader is never stuck: from any generation of the author's it can go on to
\* the next, under whatever key, with whatever gap between the two validities
\* and however late it comes by the facts.
NextIsSuccessor ==
  \A r \in Reader, x \in verified :
    (held[r] # << >> /\ ByAuthor(LastOf(held[r])) /\ ByAuthor(x.facts)) =>
      LET c == x.facts.claims  last == LastOf(held[r]).claims
      IN  (/\ c.context = last.context /\ c.gen = last.gen + 1 /\ c.jti # last.jti)
          => verify_content_assertion_successor(LastOf(held[r]), x.facts)

(***************************************************************************)
(* What makes them inductive.                                              *)
(***************************************************************************)

\* the author's assertions are numbered, dated, and linked by their digests
Linked ==
  \A c \in Context : \A i \in DOMAIN published[c] :
    LET a == published[c][i].claims
    IN  /\ published[c][i].signer \in HonestKey
        /\ a.context = c
        /\ a.gen = i
        /\ a.iat <= now
        /\ a.prev = IF i = 1 THEN ZeroDigest ELSE assertion_digest(published[c][i - 1])
        /\ i > 1 => published[c][i - 1].claims.iat <= a.iat

\* facts are those of one compact, and name the key that signed it
FactsOfCompacts ==
  \A x \in verified :
    LET a == x.facts.digest.sha256
    IN  /\ x.e.context \in Context
        /\ x.facts = ContentAssertionFacts(a, a.signer)
        /\ x.e.attestor.public_key = a.signer
        /\ validate_payload(a)

\* what a reader holds was verified, and follows on
HeldIsLineage ==
  \A r \in Reader : \A i \in DOMAIN held[r] :
    /\ \E x \in verified : x.facts = held[r][i]
    /\ i > 1 => verify_content_assertion_successor(held[r][i - 1], held[r][i])

-----------------------------------------------------------------------------
(***************************************************************************)
(* The abstract specification: what a reader holds up to an assertion of   *)
(* the author's is a report of the lineage.  Assertions of the adversary's *)
(* map to stuttering.                                                      *)
(***************************************************************************)

ReportOf(s, j) ==
  [chain_id |-> s[1].claims.context, first |-> s[1].claims.gen,
   records |-> [i \in 1 .. j |-> s[i].digest.sha256]]

Reports ==
  UNION {{ReportOf(held[r], j) : j \in {i \in DOMAIN held[r] : ByAuthor(held[r][i])}} :
           r \in Reader}

Ideal == INSTANCE TamperEvidentLog WITH
  ChainId <- Context, chain <- published, reported <- Reports

\* an author and readers who speak through this profile keep a lineage that is
\* only appended to and followed as it is
ImplementsTamperEvidentLog == Ideal!Spec
=============================================================================
