------------------------ MODULE ArchiveSystem_proofs ------------------------
(***************************************************************************)
(* ArchiveSystem proved for every key path, every set of chains, forged    *)
(* anchors, transitions and commitments, and every bound.                  *)
(***************************************************************************)
EXTENDS ArchiveSystem, ChainLemmas

(***************************************************************************)
(* What the three majors have in common.                                   *)
(***************************************************************************)

LEMMA Majors ==
  ASSUME NEW c \in ChainId
  PROVE  MajorOf[c] \in EvidenceMajors
BY CustodyAssumption

\* hashing is injective, over the majors too
LEMMA EqualHashes ==
  ASSUME NEW m \in EvidenceMajors, NEW n \in EvidenceMajors, NEW r, NEW s,
         row_domain_hash(m, r) = row_domain_hash(n, s)
  PROVE  m = n /\ r = s
<1>1. ASSUME NEW k \in EvidenceMajors, NEW t
      PROVE  /\ row_domain_hash(k, t).row = t
             /\ row_domain_hash(k, t).prefix
                  = IF k = 1 THEN "BAP1-CHAIN" ELSE IF k = 2 THEN "BAP2-CHAIN" ELSE "BAP3-CHAIN"
  BY DEF row_domain_hash, row_domain_hash_v1, row_domain_hash_v2, row_domain_hash_v3,
         EvidenceMajors
<1>2. r = s
  BY <1>1
<1>3. m = n
  <2>1. row_domain_hash(m, r).prefix = row_domain_hash(n, s).prefix
    OBVIOUS
  <2>2. (IF m = 1 THEN "BAP1-CHAIN" ELSE IF m = 2 THEN "BAP2-CHAIN" ELSE "BAP3-CHAIN")
          = IF n = 1 THEN "BAP1-CHAIN" ELSE IF n = 2 THEN "BAP2-CHAIN" ELSE "BAP3-CHAIN"
    BY <1>1, <2>1
  <2>3. QED
    BY <2>2 DEF EvidenceMajors
<1>4. QED
  BY <1>2, <1>3

\* the writer's rows
LEMMA EncodedRow ==
  ASSUME NEW m \in EvidenceMajors, NEW entry
  PROVE  encode_consumption_entry(m, entry) = [v |-> m, entry |-> entry, form |-> "canonical"]
BY DEF encode_consumption_entry, encode_consumption_entry_v1, encode_consumption_entry_v2,
       encode_consumption_entry_v3, EvidenceMajors

LEMMA EncodedEntry ==
  ASSUME NEW m, NEW entry, encode_consumption_entry_ok(m, entry)
  PROVE  entry.sequence <= IntegerMagnitude
<1>1. entry.sequence \in InMagnitude
  BY DEF encode_consumption_entry_ok, encode_consumption_entry_ok_v1,
         encode_consumption_entry_ok_v2, encode_consumption_entry_ok_v3
<1>2. QED
  BY <1>1, EvidenceBoundAssumption DEF InMagnitude

\* the custodian's claims
LEMMA AnchorInput ==
  ASSUME NEW m \in EvidenceMajors, NEW a
  PROVE  LET claims == boundary_anchor_signing_input(m, a)
         IN  /\ claims.v = m /\ claims.chain_id = a.chain_id
             /\ claims.sequence = a.sequence /\ claims.chain_hash = a.chain_hash
BY DEF boundary_anchor_signing_input, boundary_anchor_signing_input_v1,
       boundary_anchor_signing_input_v2, boundary_anchor_signing_input_v3, EvidenceMajors

LEMMA TransitionInput ==
  ASSUME NEW m \in EvidenceMajors, NEW t
  PROVE  LET claims == key_transition_signing_input(m, t)
         IN  /\ claims.v = m /\ claims.chain_id = t.chain_id
             /\ claims.current_key_fingerprint = t.current_public_key
             /\ claims.next_key_fingerprint = t.next_public_key
BY DEF key_transition_signing_input, key_transition_signing_input_v1,
       key_transition_signing_input_v2, key_transition_signing_input_v3, EvidenceMajors

LEMMA Assembled ==
  ASSUME NEW m, NEW kind, NEW x, assemble_evidence(m, kind, x)
  PROVE  x.scalar = "canonical"
BY DEF assemble_evidence, assemble_evidence_v1, assemble_evidence_v2, assemble_evidence_v3,
       signature_gate, validate_rs_range

\* the auditor's checks: a chain
LEMMA CheckedChain ==
  ASSUME NEW m, NEW rows, NEW c, check_chain(m, rows, c)
  PROVE  /\ m \in EvidenceMajors
         /\ Len(rows) \in 1 .. MaxRows /\ Len(rows) = c.row_count
         /\ \A i \in 1 .. Len(rows) :
              rows[i].v = m /\ rows[i].entry.sequence = c.first_sequence + i - 1
         /\ \A i \in 2 .. Len(rows) :
              rows[i].entry.previous = row_domain_hash(m, rows[i - 1])
         /\ row_domain_hash(m, rows[Len(rows)]) = c.head_hash
<1>1. CASE m = 1 /\ check_chain_v1(rows, c)
  BY <1>1 DEF check_chain_v1, parse_row_v1, rows_linked_v1, row_domain_hash, EvidenceMajors
<1>2. CASE m = 2 /\ check_chain_v2(rows, c)
  BY <1>2 DEF check_chain_v2, parse_row_v2, rows_linked_v2, row_domain_hash, EvidenceMajors
<1>3. CASE m = 3 /\ check_chain_v3(rows, c)
  BY <1>3 DEF check_chain_v3, parse_row_v3, rows_linked_v3, row_domain_hash, EvidenceMajors
<1>4. QED
  BY <1>1, <1>2, <1>3 DEF check_chain

\* an expectation
LEMMA ExpectedInterval ==
  ASSUME NEW m, NEW e, expectation_ok(m, e)
  PROVE  /\ IsInterval(e.chain)
         /\ \A i \in DOMAIN e.transitions : e.transitions[i].chain_id = e.chain.chain_id
<1> DEFINE c == e.chain
<1>1. /\ c.chain_id \in ChainId
      /\ c.first_sequence \in 1 .. IntegerMagnitude
      /\ c.last_sequence \in c.first_sequence .. IntegerMagnitude
      /\ c.row_count \in 1 .. MaxRows
      /\ c.row_count = c.last_sequence - c.first_sequence + 1
      /\ \A i \in DOMAIN e.transitions : e.transitions[i].chain_id = c.chain_id
  BY DEF expectation_ok, expectation_ok_v1, expectation_ok_v2, expectation_ok_v3,
         boundaries_bound_v1, boundaries_bound_v2, boundaries_bound_v3
<1> HIDE DEF c
<1>2. IsInterval(c)
  BY <1>1, EvidenceBoundAssumption DEF IsInterval
<1>3. QED
  BY <1>1, <1>2 DEF c

\* and the signatures: what a key accepts was signed with it
SignedBy(x, key) == x.signer = key /\ x.scalar = "canonical"

LEMMA StrictlyVerified ==
  ASSUME NEW x, NEW key, ed25519_verify(key, x) \/ es256_verify(key, x)
  PROVE  SignedBy(x, key)
BY KeyAssumption
   DEF ed25519_verify, es256_verify, acceptable_public_key, validate_point, equation,
       signature_gate, validate_rs_range, SignedBy

LEMMA VerifiedAnchor ==
  ASSUME NEW a, NEW k, NEW e
  PROVE  /\ verify_historical_anchor_v1(a, k, e) => SignedBy(a, k.public_key) /\ a.claims.v = 1
         /\ verify_historical_anchor_v2(a, k, e) => SignedBy(a, k.public_key) /\ a.claims.v = 2
         /\ verify_historical_anchor_v3(a, k, e) => SignedBy(a, k.public_key) /\ a.claims.v = 3
BY StrictlyVerified
   DEF verify_historical_anchor_v1, verify_historical_anchor_v2, verify_historical_anchor_v3,
       decode_anchor_parts_v1, decode_anchor_parts_v2, decode_anchor_parts_v3,
       validate_anchor_payload_v1, validate_anchor_payload_v2, validate_anchor_payload_v3

LeadsFromTo(t, current, next) ==
  /\ SignedBy(t, current.public_key)
  /\ t.claims.current_key_fingerprint = current.public_key
  /\ t.claims.next_key_fingerprint = next.public_key

LEMMA VerifiedTransition ==
  ASSUME NEW t, NEW current, NEW next, NEW e,
         \/ verify_key_transition_v1(t, current, next, e)
         \/ verify_key_transition_v2(t, current, next, e)
         \/ verify_key_transition_v3(t, current, next, e)
  PROVE  LeadsFromTo(t, current, next)
BY StrictlyVerified
   DEF verify_key_transition_v1, verify_key_transition_v2, verify_key_transition_v3,
       LeadsFromTo

LEMMA AuthenticBoundaries ==
  ASSUME NEW m, NEW start, NEW ts, NEW end, NEW keys, NEW e,
         boundaries_authentic(m, start, ts, end, keys, e)
  PROVE  /\ m \in EvidenceMajors
         /\ SignedBy(end, keys[Len(keys)].public_key) /\ end.claims.v = m
         /\ \A i \in DOMAIN ts : LeadsFromTo(ts[i], keys[i], keys[i + 1])
<1>1. CASE m = 1 /\ boundaries_authentic_v1(start, ts, end, keys, e)
  <2>1. /\ verify_historical_anchor_v1(end, keys[Len(keys)], e.end_anchor)
        /\ \A i \in DOMAIN ts :
             verify_key_transition_v1(ts[i], keys[i], keys[i + 1], e.transitions[i])
    BY <1>1 DEF boundaries_authentic_v1
  <2>2. QED
    BY <1>1, <2>1, VerifiedAnchor, VerifiedTransition DEF EvidenceMajors
<1>2. CASE m = 2 /\ boundaries_authentic_v2(start, ts, end, keys, e)
  <2>1. /\ verify_historical_anchor_v2(end, keys[Len(keys)], e.end_anchor)
        /\ \A i \in DOMAIN ts :
             verify_key_transition_v2(ts[i], keys[i], keys[i + 1], e.transitions[i])
    BY <1>2 DEF boundaries_authentic_v2
  <2>2. QED
    BY <1>2, <2>1, VerifiedAnchor, VerifiedTransition DEF EvidenceMajors
<1>3. CASE m = 3 /\ boundaries_authentic_v3(start, ts, end, keys, e)
  <2>1. /\ verify_historical_anchor_v3(end, keys[Len(keys)], e.end_anchor)
        /\ \A i \in DOMAIN ts :
             verify_key_transition_v3(ts[i], keys[i], keys[i + 1], e.transitions[i])
    BY <1>3 DEF boundaries_authentic_v3
  <2>2. QED
    BY <1>3, <2>1, VerifiedAnchor, VerifiedTransition DEF EvidenceMajors
<1>4. QED
  BY <1>1, <1>2, <1>3 DEF boundaries_authentic

(***************************************************************************)
(* Type correctness.                                                       *)
(***************************************************************************)

LEMMA LogIsSeq ==
  ASSUME TypeOK, NEW c \in ChainId
  PROVE  /\ log[c] \in Seq({log[c][i] : i \in DOMAIN log[c]})
         /\ Len(log[c]) \in Nat
         /\ DOMAIN log[c] = 1 .. Len(log[c])
<1>1. log[c] \in Seq({log[c][i] : i \in DOMAIN log[c]})
  BY DEF TypeOK
<1>2. QED
  BY <1>1, LenProperties

\* the row that AppendRow adds
NextEntry(c, m) ==
  [chain_id |-> c, sequence |-> Len(log[c]) + 1, previous |-> head(c), commitment |-> m]
NextRow(c, m) == encode_consumption_entry(MajorOf[c], NextEntry(c, m))

LEMMA AppendedRow ==
  ASSUME TypeOK, AppendRow
  PROVE  \E c \in ChainId, m \in Commitment :
           /\ Len(log[c]) + 1 <= IntegerMagnitude
           /\ NextRow(c, m) = [v |-> MajorOf[c], entry |-> NextEntry(c, m),
                               form |-> "canonical"]
           /\ log' = [d \in ChainId |-> IF d = c THEN Append(log[c], NextRow(c, m))
                                        ELSE log[d]]
<1>1. PICK c \in ChainId, m \in Commitment :
        /\ encode_consumption_entry_ok(MajorOf[c], NextEntry(c, m))
        /\ log' = [log EXCEPT ![c] = Append(@, NextRow(c, m))]
  BY DEF AppendRow, NextRow, NextEntry
<1>2. log = [d \in ChainId |-> log[d]]
  BY DEF TypeOK
<1>3. DOMAIN log = ChainId
  BY <1>2
<1>4. log' = [d \in ChainId |-> IF d = c THEN Append(log[c], NextRow(c, m)) ELSE log[d]]
  BY <1>1, <1>3
<1>5. NextEntry(c, m).sequence <= IntegerMagnitude
  BY <1>1, EncodedEntry
<1>6. NextRow(c, m) = [v |-> MajorOf[c], entry |-> NextEntry(c, m), form |-> "canonical"]
  BY Majors, EncodedRow DEF NextRow
<1>7. QED
  BY <1>4, <1>5, <1>6 DEF NextEntry

\* the compacts that SignAnchor and RotateKey add
AnchorOf(c, id, scalar) ==
  Signed(boundary_anchor_signing_input(MajorOf[c], BoundaryAnchor(c, id)), scalar,
         custody(c).public_key)

TransitionOf(c, id, scalar) ==
  Signed(key_transition_signing_input(MajorOf[c], KeyTransition(c, id)), scalar,
         custody(c).public_key)

LEMMA SignedAnchor ==
  ASSUME NEW c \in ChainId, NEW id, NEW scalar
  PROVE  LET a == AnchorOf(c, id, scalar)
         IN  /\ IsCompact(a)
             /\ a.claims.chain_id = c /\ a.claims.v = MajorOf[c]
             /\ a.claims.sequence = Len(log[c]) /\ a.claims.chain_hash = head(c)
<1> DEFINE claims == boundary_anchor_signing_input(MajorOf[c], BoundaryAnchor(c, id))
<1>1. /\ claims.v = MajorOf[c] /\ claims.chain_id = c
      /\ claims.sequence = Len(log[c]) /\ claims.chain_hash = head(c)
  BY Majors, AnchorInput DEF BoundaryAnchor
<1>2. IsCompact(AnchorOf(c, id, scalar)) /\ AnchorOf(c, id, scalar).claims = claims
  BY DEF AnchorOf, Signed, IsCompact
<1> HIDE DEF claims
<1>3. QED
  BY <1>1, <1>2

LEMMA SignedTransition ==
  ASSUME NEW c \in ChainId, NEW id, NEW scalar
  PROVE  LET t == TransitionOf(c, id, scalar)
         IN  /\ IsCompact(t) /\ t.signer = custody(c).public_key
             /\ t.claims.chain_id = c /\ t.claims.v = MajorOf[c]
             /\ t.claims.current_key_fingerprint = custody(c).public_key
             /\ t.claims.next_key_fingerprint = KeyPath[epoch[c] + 1].public_key
<1> DEFINE claims == key_transition_signing_input(MajorOf[c], KeyTransition(c, id))
<1>1. /\ claims.v = MajorOf[c] /\ claims.chain_id = c
      /\ claims.current_key_fingerprint = custody(c).public_key
      /\ claims.next_key_fingerprint = KeyPath[epoch[c] + 1].public_key
  BY Majors, TransitionInput DEF KeyTransition
<1>2. /\ IsCompact(TransitionOf(c, id, scalar))
      /\ TransitionOf(c, id, scalar).claims = claims
      /\ TransitionOf(c, id, scalar).signer = custody(c).public_key
  BY DEF TransitionOf, Signed, IsCompact
<1> HIDE DEF claims
<1>3. QED
  BY <1>1, <1>2

LEMMA TypeInit == Init => TypeOK
<1> SUFFICES ASSUME Init PROVE TypeOK
  OBVIOUS
<1>1. ASSUME NEW c \in ChainId
      PROVE  /\ log[c] = << >>
             /\ log[c] \in Seq({log[c][i] : i \in DOMAIN log[c]})
             /\ Len(log[c]) <= IntegerMagnitude
             /\ \A i \in DOMAIN log[c] : IsRow(log[c][i]) /\ log[c][i].v = MajorOf[c]
  <2>1. log[c] = << >>
    BY DEF Init
  <2>2. << >> \in Seq({}) /\ Len(<< >>) = 0 /\ DOMAIN << >> = {}
    BY EmptySeq
  <2>3. << >> \in Seq({<< >>[i] : i \in DOMAIN << >>})
    BY <2>2, SeqMonotonic
  <2>4. QED
    BY <2>1, <2>2, <2>3, EvidenceBoundAssumption
<1>2. 1 \in DOMAIN KeyPath
  BY CustodyAssumption, LenProperties, EmptySeq
<1>3. QED
  BY <1>1, <1>2, BoundsAssumption DEF Init, TypeOK

LEMMA TypeStep == TypeOK /\ [Next]_vars => TypeOK'
<1> SUFFICES ASSUME TypeOK, [Next]_vars PROVE TypeOK'
  OBVIOUS
<1>1. CASE Tick
  <2>1. now' \in 0 .. MaxTime
    BY <1>1, BoundsAssumption DEF TypeOK, Tick
  <2>2. UNCHANGED <<log, epoch, anchors, transitions>>
    BY <1>1 DEF Tick
  <2>3. QED
    BY <2>1, <2>2 DEF TypeOK
<1>2. CASE AppendRow
  <2>1. PICK c \in ChainId, m \in Commitment :
          /\ Len(log[c]) + 1 <= IntegerMagnitude
          /\ NextRow(c, m) = [v |-> MajorOf[c], entry |-> NextEntry(c, m),
                              form |-> "canonical"]
          /\ log' = [d \in ChainId |-> IF d = c THEN Append(log[c], NextRow(c, m))
                                       ELSE log[d]]
    BY <1>2, AppendedRow
  <2>2. UNCHANGED <<now, epoch, anchors, transitions>>
    BY <1>2 DEF AppendRow
  <2>3. ASSUME NEW d \in ChainId
        PROVE  /\ log'[d] \in Seq({log'[d][i] : i \in DOMAIN log'[d]})
               /\ Len(log'[d]) <= IntegerMagnitude
               /\ \A i \in DOMAIN log'[d] : IsRow(log'[d][i]) /\ log'[d][i].v = MajorOf[d]
    <3>1. CASE d # c
      <4>1. log'[d] = log[d]
        BY <2>1, <3>1
      <4>2. /\ log[d] \in Seq({log[d][i] : i \in DOMAIN log[d]})
            /\ Len(log[d]) <= IntegerMagnitude
            /\ \A i \in DOMAIN log[d] : IsRow(log[d][i]) /\ log[d][i].v = MajorOf[d]
        BY DEF TypeOK
      <4>3. QED
        BY <4>1, <4>2, Zenon
    <3>2. CASE d = c
      <4> DEFINE r == NextRow(c, m)
      <4>1. log'[d] = Append(log[c], r)
        BY <2>1, <3>2
      <4>2. /\ Append(log[c], r) \in Seq({Append(log[c], r)[i] : i \in DOMAIN Append(log[c], r)})
            /\ Len(Append(log[c], r)) = Len(log[c]) + 1
            /\ DOMAIN Append(log[c], r) = 1 .. Len(log[c]) + 1
            /\ \A i \in 1 .. Len(log[c]) : Append(log[c], r)[i] = log[c][i]
            /\ Append(log[c], r)[Len(log[c]) + 1] = r
        BY LogIsSeq, AppendGrows
      <4>3. IsRow(r) /\ r.v = MajorOf[c]
        BY <2>1 DEF IsRow
      <4>5. ASSUME NEW i \in DOMAIN log'[d]
            PROVE  IsRow(log'[d][i]) /\ log'[d][i].v = MajorOf[d]
        <5>1. CASE i = Len(log[c]) + 1
          BY <3>2, <4>1, <4>2, <4>3, <5>1
        <5>2. CASE i # Len(log[c]) + 1
          <6>1. i \in DOMAIN log[c] /\ log'[d][i] = log[c][i]
            BY <4>1, <4>2, <5>2, LogIsSeq
          <6>2. QED
            BY <3>2, <6>1 DEF TypeOK
        <5>3. QED
          BY <5>1, <5>2
      <4>6. QED
        BY <2>1, <4>1, <4>2, <4>5
    <3>3. QED
      BY <3>1, <3>2
  <2>4. QED
    BY <2>1, <2>2, <2>3 DEF TypeOK
<1>3. CASE SignAnchor
  <2>1. PICK a : /\ anchors' = anchors \cup {a}
                 /\ IsAssembled(a) /\ a.claims.sequence \in Nat
    <3>1. PICK c \in ChainId, id \in AnchorId, scalar \in Scalar :
            LET a == AnchorOf(c, id, scalar)
            IN  assemble_evidence(MajorOf[c], "ChainAnchor", a) /\ anchors' = anchors \cup {a}
      BY <1>3, Zenon DEF SignAnchor, AnchorOf
    <3>2. AnchorOf(c, id, scalar).scalar = "canonical"
      BY <3>1, Assembled
    <3>3. QED
      BY <3>1, <3>2, SignedAnchor, LogIsSeq DEF IsAssembled
  <2>2. UNCHANGED <<now, log, epoch, transitions>>
    BY <1>3 DEF SignAnchor
  <2>3. \A a1 \in anchors' : IsAssembled(a1) /\ a1.claims.sequence \in Nat
    BY <2>1 DEF TypeOK
  <2>4. QED
    BY <2>2, <2>3 DEF TypeOK
<1>4. CASE RotateKey
  <2>1. PICK c \in ChainId, id \in TransitionId, scalar \in Scalar :
          /\ epoch[c] < Len(KeyPath)
          /\ assemble_evidence(MajorOf[c], "KeyTransition", TransitionOf(c, id, scalar))
          /\ transitions' = transitions \cup {TransitionOf(c, id, scalar)}
          /\ epoch' = [epoch EXCEPT ![c] = @ + 1]
    BY <1>4, Zenon DEF RotateKey, TransitionOf
  <2>2. IsAssembled(TransitionOf(c, id, scalar))
    <3>1. TransitionOf(c, id, scalar).scalar = "canonical"
      BY <2>1, Assembled
    <3>2. QED
      BY <3>1, SignedTransition DEF IsAssembled
  <2>3. \A t \in transitions' : IsAssembled(t)
    BY <2>1, <2>2 DEF TypeOK
  <2>4. epoch' \in [ChainId -> DOMAIN KeyPath]
    <3>1. DOMAIN KeyPath = 1 .. Len(KeyPath) /\ Len(KeyPath) \in Nat
      BY CustodyAssumption, LenProperties
    <3>2. QED
      BY <2>1, <3>1 DEF TypeOK
  <2>5. UNCHANGED <<now, log, anchors>>
    BY <1>4 DEF RotateKey
  <2>6. QED
    BY <2>3, <2>4, <2>5 DEF TypeOK
<1>5. CASE UNCHANGED <<now, log, epoch, anchors, transitions>>
  BY <1>5 DEF TypeOK
<1>6. QED
  BY <1>1, <1>2, <1>3, <1>4, <1>5 DEF Next, vars, ExportLog, VerifyArchive

\* Rows, anchors and transitions keep their shapes, every logged row is one of the
\* chain's major, whatever the custodian signed passed assemble_compact, and no
\* chain passes the largest sequence: the base of every other proof about the
\* chain and the archive.
THEOREM TypeCorrect == Spec => []TypeOK
BY TypeInit, TypeStep, PTL DEF Spec

(***************************************************************************)
(* The log, the anchors and the transitions.                               *)
(***************************************************************************)

\* a step either leaves the log alone or appends one row to one chain of it
LEMMA LogSteps ==
  ASSUME TypeOK, [Next]_vars
  PROVE  \/ UNCHANGED log
         \/ AppendRow /\ UNCHANGED <<anchors, transitions, verified>>
BY DEF Next, vars, Tick, AppendRow, SignAnchor, RotateKey, ExportLog, VerifyArchive

\* a chain only grows: its rows stay where they are
LEMMA LogGrows ==
  ASSUME TypeOK, [Next]_vars, NEW c \in ChainId
  PROVE  /\ Len(log'[c]) \in Nat
         /\ Len(log[c]) <= Len(log'[c])
         /\ \A i \in 1 .. Len(log[c]) : log'[c][i] = log[c][i]
         /\ \A m \in Nat \ {0}, n \in Nat : m <= n /\ n <= Len(log[c]) =>
              SubSeq(log'[c], m, n) = SubSeq(log[c], m, n)
<1>1. Len(log[c]) \in Nat
  BY LogIsSeq
<1>2. CASE log'[c] = log[c]
  BY <1>1, <1>2
<1>3. CASE log'[c] # log[c]
  <2>1. AppendRow
    BY <1>3, LogSteps
  <2>2. PICK r : log'[c] = Append(log[c], r)
    BY <2>1, <1>3, AppendedRow
  <2>3. /\ Len(Append(log[c], r)) = Len(log[c]) + 1
        /\ \A i \in 1 .. Len(log[c]) : Append(log[c], r)[i] = log[c][i]
    BY LogIsSeq, AppendGrows
  <2>4. \A m \in Nat \ {0}, n \in Nat : m <= n /\ n <= Len(log[c]) =>
          SubSeq(Append(log[c], r), m, n) = SubSeq(log[c], m, n)
    BY LogIsSeq, AppendKeepsPieces
  <2>5. QED
    BY <1>1, <2>2, <2>3, <2>4
<1>4. QED
  BY <1>2, <1>3

LEMMA LogLinkedInit == Init => LogLinked
<1>1. DOMAIN << >> = {}
  OBVIOUS
<1>2. QED
  BY <1>1 DEF Init, LogLinked

LEMMA LogLinkedStep == TypeOK /\ LogLinked /\ [Next]_vars => LogLinked'
<1> SUFFICES ASSUME TypeOK, LogLinked, [Next]_vars PROVE LogLinked'
  OBVIOUS
<1>1. CASE UNCHANGED log
  BY <1>1 DEF LogLinked
<1>2. CASE AppendRow
  <2>1. PICK c \in ChainId, m \in Commitment :
          /\ NextRow(c, m) = [v |-> MajorOf[c], entry |-> NextEntry(c, m),
                              form |-> "canonical"]
          /\ log' = [d \in ChainId |-> IF d = c THEN Append(log[c], NextRow(c, m))
                                       ELSE log[d]]
    BY <1>2, AppendedRow
  <2> DEFINE r == NextRow(c, m)
  <2>2. /\ Len(Append(log[c], r)) = Len(log[c]) + 1
        /\ DOMAIN Append(log[c], r) = 1 .. Len(log[c]) + 1
        /\ \A i \in 1 .. Len(log[c]) : Append(log[c], r)[i] = log[c][i]
        /\ Append(log[c], r)[Len(log[c]) + 1] = r
    BY LogIsSeq, AppendGrows
  <2>3. Len(log[c]) \in Nat /\ DOMAIN log[c] = 1 .. Len(log[c])
    BY LogIsSeq
  <2>4. /\ r.form = "canonical" /\ r.entry.chain_id = c
        /\ r.entry.sequence = Len(log[c]) + 1 /\ r.entry.previous = head(c)
    BY <2>1 DEF NextEntry
  <2>5. head(c) = IF Len(log[c]) = 0 THEN ZeroHash
                  ELSE row_domain_hash(MajorOf[c], log[c][Len(log[c])])
    <3>1. log[c] = << >> <=> Len(log[c]) = 0
      BY LogIsSeq, EmptySeq
    <3>2. QED
      BY <3>1 DEF head
  <2>6. ASSUME NEW d \in ChainId, NEW i \in DOMAIN log'[d]
        PROVE  /\ log'[d][i].form = "canonical"
               /\ log'[d][i].entry.chain_id = d
               /\ log'[d][i].entry.sequence = i
               /\ log'[d][i].entry.previous =
                    IF i = 1 THEN ZeroHash ELSE row_domain_hash(MajorOf[d], log'[d][i - 1])
    <3>1. CASE d # c
      <4>1. log'[d] = log[d]
        BY <2>1, <3>1
      <4>2. QED
        BY <4>1 DEF LogLinked
    <3>2. CASE d = c /\ i = Len(log[c]) + 1
      <4>1. log'[d] = Append(log[c], r)
        BY <2>1, <3>2
      <4>2. log'[d][i] = r
        BY <2>2, <3>2, <4>1
      <4>3. Len(log[c]) # 0 => log'[d][i - 1] = log[c][Len(log[c])]
        BY <2>2, <2>3, <3>2, <4>1
      <4>4. r.entry.previous =
              IF i = 1 THEN ZeroHash ELSE row_domain_hash(MajorOf[d], log'[d][i - 1])
        BY <2>3, <2>4, <2>5, <3>2, <4>3
      <4>5. QED
        BY <2>4, <3>2, <4>2, <4>4
    <3>3. CASE d = c /\ i # Len(log[c]) + 1
      <4>1. log'[d] = Append(log[c], r)
        BY <2>1, <3>3
      <4>2. i \in DOMAIN log[c] /\ log'[d][i] = log[c][i]
        BY <2>2, <2>3, <3>3, <4>1
      <4>3. i # 1 => log'[d][i - 1] = log[c][i - 1]
        BY <2>2, <2>3, <4>1, <4>2
      <4>4. QED
        BY <3>3, <4>2, <4>3 DEF LogLinked
    <3>4. QED
      BY <3>1, <3>2, <3>3
  <2>7. QED
    BY <2>6 DEF LogLinked
<1>3. QED
  BY <1>1, <1>2, LogSteps

LEMMA AnchorsAreHeadsStep == TypeOK /\ AnchorsAreHeads /\ [Next]_vars => AnchorsAreHeads'
<1> SUFFICES ASSUME TypeOK, AnchorsAreHeads, [Next]_vars, NEW a \in anchors'
             PROVE  /\ a.claims.sequence <= Len(log'[a.claims.chain_id])
                    /\ a.claims.sequence > 0 =>
                         a.claims.chain_hash
                           = row_domain_hash(MajorOf[a.claims.chain_id],
                                             log'[a.claims.chain_id][a.claims.sequence])
  BY DEF AnchorsAreHeads
<1>1. CASE a \in anchors
  <2> DEFINE c == a.claims.chain_id
             n == a.claims.sequence
  <2>1. c \in ChainId /\ n \in Nat
    BY <1>1 DEF TypeOK, IsAssembled
  <2>2. n <= Len(log[c])
        /\ (n > 0 => a.claims.chain_hash = row_domain_hash(MajorOf[c], log[c][n]))
    BY <1>1 DEF AnchorsAreHeads
  <2>3. Len(log[c]) \in Nat
    BY <2>1, LogIsSeq
  <2>4. Len(log'[c]) \in Nat /\ Len(log[c]) <= Len(log'[c])
        /\ \A i \in 1 .. Len(log[c]) : log'[c][i] = log[c][i]
    BY <2>1, LogGrows
  <2> HIDE DEF c, n
  <2>5. n <= Len(log'[c])
        /\ (n > 0 => a.claims.chain_hash = row_domain_hash(MajorOf[c], log'[c][n]))
    BY <2>1, <2>2, <2>3, <2>4
  <2>6. QED
    BY <2>5 DEF c, n
<1>2. CASE a \notin anchors
  <2>1. SignAnchor
    BY <1>2 DEF Next, vars, Tick, AppendRow, RotateKey, ExportLog, VerifyArchive
  <2>2. PICK c \in ChainId, id \in AnchorId, scalar \in Scalar : a = AnchorOf(c, id, scalar)
    BY <1>2, <2>1 DEF SignAnchor, AnchorOf
  <2>7. /\ a.claims.chain_id = c /\ a.claims.sequence = Len(log[c])
        /\ a.claims.chain_hash = head(c)
    BY <2>2, SignedAnchor
  <2>3. log' = log
    BY <2>1 DEF SignAnchor
  <2>4. Len(log[c]) \in Nat /\ (log[c] = << >> => Len(log[c]) = 0)
    BY LogIsSeq, EmptySeq
  <2>5. QED
    BY <2>3, <2>4, <2>7 DEF head
<1>3. QED
  BY <1>1, <1>2

LEMMA TransitionsStep ==
  TypeOK /\ TransitionsFollowPath /\ [Next]_vars => TransitionsFollowPath'
<1> SUFFICES ASSUME TypeOK, TransitionsFollowPath, [Next]_vars, NEW t \in transitions'
             PROVE  \E k \in DOMAIN KeyPath :
                      /\ k + 1 \in DOMAIN KeyPath
                      /\ t.signer = KeyPath[k].public_key
                      /\ t.claims.current_key_fingerprint = KeyPath[k].public_key
                      /\ t.claims.next_key_fingerprint = KeyPath[k + 1].public_key
  BY DEF TransitionsFollowPath
<1>1. CASE t \in transitions
  BY <1>1 DEF TransitionsFollowPath
<1>2. CASE t \notin transitions
  <2>1. RotateKey
    BY <1>2 DEF Next, vars, Tick, AppendRow, SignAnchor, ExportLog, VerifyArchive
  <2>2. PICK c \in ChainId, id \in TransitionId, scalar \in Scalar :
          epoch[c] < Len(KeyPath) /\ t = TransitionOf(c, id, scalar)
    BY <1>2, <2>1, Zenon DEF RotateKey, TransitionOf
  <2>7. /\ t.signer = KeyPath[epoch[c]].public_key
        /\ t.claims.current_key_fingerprint = KeyPath[epoch[c]].public_key
        /\ t.claims.next_key_fingerprint = KeyPath[epoch[c] + 1].public_key
    BY <2>2, SignedTransition DEF custody
  <2>3. DOMAIN KeyPath = 1 .. Len(KeyPath) /\ Len(KeyPath) \in Nat
    BY CustodyAssumption, LenProperties
  <2>4. epoch[c] \in DOMAIN KeyPath
    BY DEF TypeOK
  <2>5. epoch[c] + 1 \in DOMAIN KeyPath
    BY <2>2, <2>3, <2>4
  <2>6. QED
    BY <2>4, <2>5, <2>7
<1>3. QED
  BY <1>1, <1>2

(***************************************************************************)
(* What an archive that verifies consists of.                              *)
(***************************************************************************)

Accepted(major, start, ts, end, keys, rows) ==
  LET e == claimed(start, ts, end)
  IN  /\ start \in AnchorsOnWire /\ end \in AnchorsOnWire
      /\ ts \in SeqsUpTo(TransitionsOnWire, MaxPath)
      /\ expectation_ok(major, e)
      /\ keys \in [1 .. Len(ts) + 1 -> KeysOnWire]
      /\ rows \in [1 .. e.chain.row_count -> RowsOnWire(major)]
      /\ boundaries_authentic(major, start, ts, end, keys, e)
      /\ check_chain(major, rows, e.chain)

IsReport(x, major, start, ts, end, keys, rows) ==
  /\ x.major = major /\ x.keys = keys
  /\ x.facts.chain = claimed(start, ts, end).chain
  /\ x.facts.digest.rows = rows
  /\ x.facts.digest.transitions = ts

LEMMA EncodedArchive ==
  ASSUME NEW m, NEW start, NEW ts, NEW rows, NEW end, NEW e
  PROVE  LET archive == encode_anchored_export(m, start, ts, rows, end, e)
         IN  archive.transitions = ts /\ archive.rows = rows
BY DEF encode_anchored_export, encode_anchored_export_v1, encode_anchored_export_v2,
       encode_anchored_export_v3, Archive

LEMMA VerifiedRows ==
  ASSUME NEW m, NEW object, NEW keys, NEW e, verify_anchored_export(m, object, keys, e)
  PROVE  check_chain(m, object.archive.rows, e.chain)
BY DEF verify_anchored_export, verify_anchored_export_v1, verify_anchored_export_v2,
       verify_anchored_export_v3, check_chain

LEMMA VerifyArchiveStep ==
  ASSUME VerifyArchive
  PROVE  \E major, start, end, ts, keys, rows, x :
           /\ Accepted(major, start, ts, end, keys, rows)
           /\ IsReport(x, major, start, ts, end, keys, rows)
           /\ verified' = verified \cup {x}
<1>1. PICK major, start, end, ts, keys, rows, version :
        LET e == claimed(start, ts, end)
            archive == encode_anchored_export(major, start, ts, rows, end, e)
            object == [archive |-> archive, version |-> version, chunks |-> 1]
            x == expect(e, archive, version)
        IN  /\ start \in AnchorsOnWire /\ end \in AnchorsOnWire
            /\ ts \in SeqsUpTo(TransitionsOnWire, MaxPath)
            /\ expectation_ok(major, e)
            /\ keys \in [1 .. Len(ts) + 1 -> KeysOnWire]
            /\ boundaries_authentic(major, start, ts, end, keys, e)
            /\ rows \in [1 .. e.chain.row_count -> RowsOnWire(major)]
            /\ verify_anchored_export(major, object, keys, x)
            /\ verified' = verified \cup
                 {[major |-> major, facts |-> AnchoredExportFacts(object, x), keys |-> keys]}
  BY DEF VerifyArchive
<1> DEFINE e == claimed(start, ts, end)
           archive == encode_anchored_export(major, start, ts, rows, end, e)
           object == [archive |-> archive, version |-> version, chunks |-> 1]
           x == expect(e, archive, version)
           report == [major |-> major, facts |-> AnchoredExportFacts(object, x),
                      keys |-> keys]
<1>2. x.chain = e.chain
  BY DEF expect
<1>3. archive.transitions = ts /\ archive.rows = rows
  BY EncodedArchive
<1>4. object.archive = archive
  OBVIOUS
<1>5. check_chain(major, rows, e.chain)
  <2>1. verify_anchored_export(major, object, keys, x)
    BY <1>1
  <2> HIDE DEF x, object, archive, e
  <2>2. check_chain(major, object.archive.rows, x.chain)
    BY <2>1, VerifiedRows
  <2>3. QED
    BY <1>2, <1>3, <1>4, <2>2
<1>6. Accepted(major, start, ts, end, keys, rows)
  BY <1>1, <1>5 DEF Accepted
<1>7. IsReport(report, major, start, ts, end, keys, rows)
  <2> HIDE DEF x, object, archive
  <2>1. report.facts.chain = x.chain /\ report.facts.digest = object.archive
    BY DEF AnchoredExportFacts
  <2>2. report.major = major /\ report.keys = keys
    OBVIOUS
  <2> HIDE DEF report
  <2>3. QED
    BY <1>2, <1>3, <1>4, <2>1, <2>2 DEF IsReport
<1>8. QED
  BY <1>1, <1>6, <1>7

LEMMA NewReport ==
  ASSUME [Next]_vars, NEW x \in verified', x \notin verified
  PROVE  /\ UNCHANGED <<log, transitions>>
         /\ \E major, start, end, ts, keys, rows :
              /\ Accepted(major, start, ts, end, keys, rows)
              /\ IsReport(x, major, start, ts, end, keys, rows)
<1>1. VerifyArchive
  BY DEF Next, vars, Tick, AppendRow, SignAnchor, RotateKey, ExportLog
<1>2. UNCHANGED <<log, transitions>>
  BY <1>1 DEF VerifyArchive
<1>3. QED
  BY <1>1, <1>2, VerifyArchiveStep

\* whatever is on the wire has the shape of a row
LEMMA WireRows ==
  ASSUME TypeOK
  PROVE  \A major \in EvidenceMajors : \A r \in RowsOnWire(major) : IsRow(r)
<1>1. ASSUME NEW major \in EvidenceMajors, NEW entry
      PROVE  IsRow(encode_consumption_entry(major, entry))
  <2>1. encode_consumption_entry(major, entry) = [v |-> major, entry |-> entry, form |-> "canonical"]
    BY EncodedRow
  <2>2. QED
    BY <2>1 DEF IsRow
<1>2. ASSUME NEW major \in EvidenceMajors, NEW rows, NEW r \in ChainedTo(major, rows) PROVE IsRow(r)
  <2> DEFINE first(c, k) == [chain_id |-> c, sequence |-> 1, previous |-> ZeroHash,
                             commitment |-> k]
             next(q, k) == [chain_id |-> q.entry.chain_id, sequence |-> q.entry.sequence + 1,
                            previous |-> row_domain_hash(major, q), commitment |-> k]
  <2>1. \/ \E c \in ChainId, k \in ForgedCommitment :
             r = encode_consumption_entry(major, first(c, k))
        \/ \E q \in rows, k \in ForgedCommitment :
             r = encode_consumption_entry(major, next(q, k))
    BY SMTT(30) DEF ChainedTo
  <2> HIDE DEF first, next
  <2>2. QED
    BY <1>1, <2>1
<1>4. ASSUME NEW r \in LogRows PROVE IsRow(r)
  <2>1. PICK c \in ChainId : \E i \in DOMAIN log[c] : r = log[c][i]
    BY Zenon DEF LogRows
  <2>2. \A i \in DOMAIN log[c] : IsRow(log[c][i])
    BY DEF TypeOK
  <2>3. QED
    BY <2>1, <2>2, Zenon
<1>3. ASSUME NEW r \in Reformed(LogRows) PROVE IsRow(r)
  <2>1. PICK q \in LogRows : r = [q EXCEPT !.form = "other"]
    BY DEF Reformed
  <2>2. q = [v |-> q.v, entry |-> q.entry, form |-> q.form]
    BY <1>4 DEF IsRow
  <2>3. r = [v |-> q.v, entry |-> q.entry, form |-> "other"]
    BY <2>1, <2>2
  <2>4. QED
    BY <2>3 DEF IsRow
<1>5. QED
  BY <1>2, <1>3, <1>4 DEF RowsOnWire

\* sequences of transitions, and of keys that go with them
LEMMA WireSequences ==
  ASSUME NEW major, NEW start, NEW end, NEW ts, NEW keys, NEW rows,
         Accepted(major, start, ts, end, keys, rows)
  PROVE  /\ Len(ts) \in Nat /\ DOMAIN ts = 1 .. Len(ts)
         /\ \A i \in 1 .. Len(ts) : ts[i] \in TransitionsOnWire
         /\ Len(keys) = Len(ts) + 1 /\ DOMAIN keys = 1 .. Len(ts) + 1
         /\ rows \in Seq(RowsOnWire(major))
         /\ DOMAIN rows = 1 .. claimed(start, ts, end).chain.row_count
<1>1. PICK k \in 0 .. MaxPath : ts \in [1 .. k -> TransitionsOnWire]
  BY DEF Accepted, SeqsUpTo
<1>2. k \in Nat
  BY BoundsAssumption
<1>3. ts \in Seq(TransitionsOnWire) /\ Len(ts) = k
  BY <1>1, <1>2
<1>4. keys \in Seq(KeysOnWire) /\ Len(keys) = k + 1
  BY <1>2, <1>3 DEF Accepted
<1>5. claimed(start, ts, end).chain.row_count \in Nat
  BY ExpectedInterval DEF Accepted, IsInterval
<1>6. rows \in Seq(RowsOnWire(major))
  BY <1>5 DEF Accepted
<1>7. QED
  BY <1>1, <1>2, <1>3, <1>4, <1>6 DEF Accepted

LEMMA ReportsAreChainsStep ==
  TypeOK /\ ReportsAreChains /\ [Next]_vars => ReportsAreChains'
<1> SUFFICES ASSUME TypeOK, ReportsAreChains, [Next]_vars, NEW x \in verified'
             PROVE  /\ IsInterval(x.facts.chain)
                    /\ check_chain(x.major, x.facts.digest.rows, x.facts.chain)
                    /\ DOMAIN x.facts.digest.rows = 1 .. x.facts.chain.row_count
                    /\ \A i \in DOMAIN x.facts.digest.rows : IsRow(x.facts.digest.rows[i])
  BY DEF ReportsAreChains
<1>1. CASE x \in verified
  BY <1>1 DEF ReportsAreChains
<1>2. CASE x \notin verified
  <2>1. PICK major, start, end, ts, keys, rows :
          /\ Accepted(major, start, ts, end, keys, rows)
          /\ IsReport(x, major, start, ts, end, keys, rows)
    BY <1>2, NewReport
  <2>2. /\ check_chain(major, rows, claimed(start, ts, end).chain)
        /\ IsInterval(claimed(start, ts, end).chain)
    BY <2>1, ExpectedInterval DEF Accepted
  <2>3. DOMAIN rows = 1 .. claimed(start, ts, end).chain.row_count
    BY <2>1, WireSequences
  <2>4. \A i \in DOMAIN rows : IsRow(rows[i])
    BY <2>1, <2>2, WireRows, CheckedChain DEF Accepted
  <2>5. x.major = major /\ x.facts.chain = claimed(start, ts, end).chain
        /\ x.facts.digest.rows = rows
    BY <2>1 DEF IsReport
  <2>6. QED
    BY <2>2, <2>3, <2>4, <2>5, Zenon
<1>3. QED
  BY <1>1, <1>2

(***************************************************************************)
(* From an honest key only to honest keys, and to what they signed.        *)
(***************************************************************************)

LEMMA HonestTransition ==
  ASSUME TypeOK, TransitionsFollowPath,
         NEW t \in TransitionsOnWire, NEW current, NEW next, LeadsFromTo(t, current, next),
         NEW k \in DOMAIN KeyPath, current.public_key = KeyPath[k].public_key
  PROVE  /\ t \in transitions
         /\ k + 1 \in DOMAIN KeyPath
         /\ next.public_key = KeyPath[k + 1].public_key
<1>1. t.signer = current.public_key /\ t.scalar = "canonical"
      /\ t.claims.next_key_fingerprint = next.public_key
  BY DEF LeadsFromTo, SignedBy
<1>2. t.signer \in HonestKey
  BY <1>1 DEF HonestKey
<1>3. t \notin ForgedTransitions
  BY <1>2, ForgeryAssumption
<1>4. ASSUME NEW u \in transitions PROVE shifted(u).scalar # "canonical"
  BY DEF shifted, TypeOK, IsAssembled, IsCompact
<1>5. t \in transitions
  BY <1>1, <1>3, <1>4 DEF TransitionsOnWire
<1>6. PICK j \in DOMAIN KeyPath :
        /\ j + 1 \in DOMAIN KeyPath
        /\ t.signer = KeyPath[j].public_key
        /\ t.claims.next_key_fingerprint = KeyPath[j + 1].public_key
  BY <1>5 DEF TransitionsFollowPath
<1>7. j = k
  BY <1>1, <1>6, CustodyAssumption
<1>8. QED
  BY <1>1, <1>5, <1>6, <1>7

LEMMA HonestAnchor ==
  ASSUME TypeOK, NEW a \in AnchorsOnWire, NEW key \in HonestKey, SignedBy(a, key)
  PROVE  a \in anchors
<1>1. a.signer \in HonestKey /\ a.scalar = "canonical"
  BY DEF SignedBy
<1>2. a \notin ForgedAnchors
  BY <1>1, ForgeryAssumption
<1>3. ASSUME NEW b \in anchors PROVE shifted(b).scalar # "canonical"
  BY DEF shifted, TypeOK, IsAssembled, IsCompact
<1>4. QED
  BY <1>1, <1>2, <1>3 DEF AnchorsOnWire

LEMMA CustodyOfKeys ==
  ASSUME TypeOK, TransitionsFollowPath,
         NEW major, NEW start, NEW end, NEW ts, NEW keys, NEW rows,
         Accepted(major, start, ts, end, keys, rows),
         NEW k \in DOMAIN KeyPath, keys[1].public_key = KeyPath[k].public_key
  PROVE  /\ \A i \in 1 .. Len(ts) + 1 :
              k + i - 1 \in DOMAIN KeyPath
                /\ keys[i].public_key = KeyPath[k + i - 1].public_key
         /\ \A i \in 1 .. Len(ts) : ts[i] \in transitions
<1> DEFINE n == Len(ts)
           S == {i \in 1 .. n + 1 : /\ k + i - 1 \in DOMAIN KeyPath
                                    /\ keys[i].public_key = KeyPath[k + i - 1].public_key}
<1>1. /\ n \in Nat /\ DOMAIN ts = 1 .. n
      /\ \A i \in 1 .. n : ts[i] \in TransitionsOnWire
  BY WireSequences
<1>2. \A i \in 1 .. n : LeadsFromTo(ts[i], keys[i], keys[i + 1])
  BY <1>1, AuthenticBoundaries DEF Accepted
<1>3. k \in Int /\ k + 1 - 1 = k
  BY CustodyAssumption, LenProperties
<1>4. ASSUME NEW i \in 1 .. n, i \in S
      PROVE  i + 1 \in S /\ ts[i] \in transitions
  <2> DEFINE j == k + i - 1
  <2>1. j \in DOMAIN KeyPath /\ keys[i].public_key = KeyPath[j].public_key
    BY <1>4
  <2>2. ts[i] \in TransitionsOnWire
        /\ LeadsFromTo(ts[i], keys[i], keys[i + 1])
    BY <1>1, <1>2
  <2> HIDE DEF j
  <2>3. ts[i] \in transitions /\ j + 1 \in DOMAIN KeyPath
        /\ keys[i + 1].public_key = KeyPath[j + 1].public_key
    BY <2>1, <2>2, HonestTransition
  <2>4. j + 1 = k + (i + 1) - 1
    BY <1>1, <1>3 DEF j
  <2>5. i + 1 \in 1 .. n + 1
    BY <1>1
  <2>6. QED
    BY <2>3, <2>4, <2>5
<1>5. 1 .. n + 1 \subseteq S
  <2>1. 1 \in S
    BY <1>1, <1>3
  <2>2. \A i \in 1 .. (n + 1) - 1 : i \in S => i + 1 \in S
    BY <1>1, <1>4
  <2>3. n + 1 \in Int
    BY <1>1
  <2> HIDE DEF S, n
  <2>4. QED
    BY <2>1, <2>2, <2>3, IntervalUp
<1>6. \A i \in 1 .. n : i \in S
  <2>1. 1 .. n \subseteq 1 .. n + 1
    BY <1>1
  <2> HIDE DEF S, n
  <2>2. QED
    BY <1>5, <2>1
<1>7. QED
  BY <1>4, <1>5, <1>6

LEMMA CustodyFollowedStep ==
  TypeOK /\ TransitionsFollowPath /\ CustodyFollowed /\ [Next]_vars => CustodyFollowed'
<1> SUFFICES ASSUME TypeOK, TransitionsFollowPath, CustodyFollowed, [Next]_vars,
                    NEW x \in verified', x.keys[1].public_key \in HonestKey
             PROVE  \E k \in DOMAIN KeyPath : \A i \in DOMAIN x.keys :
                      /\ k + i - 1 \in DOMAIN KeyPath
                      /\ x.keys[i].public_key = KeyPath[k + i - 1].public_key
                      /\ i > 1 =>
                           /\ x.facts.digest.transitions[i - 1] \in transitions'
                           /\ x.facts.digest.transitions[i - 1].claims.chain_id
                                = x.facts.chain.chain_id
  BY DEF CustodyFollowed
<1>1. transitions \subseteq transitions'
  BY DEF Next, vars, Tick, AppendRow, SignAnchor, RotateKey, ExportLog, VerifyArchive
<1>2. CASE x \in verified
  BY <1>1, <1>2 DEF CustodyFollowed
<1>3. CASE x \notin verified
  <2>1. PICK major, start, end, ts, keys, rows :
          /\ Accepted(major, start, ts, end, keys, rows)
          /\ IsReport(x, major, start, ts, end, keys, rows)
    BY <1>3, NewReport
  <2>2. x.keys = keys /\ x.facts.digest.transitions = ts
        /\ x.facts.chain = claimed(start, ts, end).chain
    BY <2>1 DEF IsReport
  <2>3. PICK k \in DOMAIN KeyPath : keys[1].public_key = KeyPath[k].public_key
    BY <2>2 DEF HonestKey
  <2>4. /\ \A i \in 1 .. Len(ts) + 1 :
             k + i - 1 \in DOMAIN KeyPath
               /\ keys[i].public_key = KeyPath[k + i - 1].public_key
        /\ \A i \in 1 .. Len(ts) : ts[i] \in transitions
    BY <2>1, <2>3, CustodyOfKeys
  <2>5. Len(ts) \in Nat /\ DOMAIN ts = 1 .. Len(ts) /\ DOMAIN keys = 1 .. Len(ts) + 1
    BY <2>1, WireSequences
  <2>6. \A i \in 1 .. Len(ts) :
          ts[i].claims.chain_id = claimed(start, ts, end).chain.chain_id
    <3>1. claimed(start, ts, end).transitions
            = [i \in DOMAIN ts |-> ExpectedKeyTransition(ts[i].claims)]
      BY DEF claimed, expected_transitions
    <3>2. \A i \in DOMAIN ts : ExpectedKeyTransition(ts[i].claims).chain_id
                               = ts[i].claims.chain_id
      BY DEF ExpectedKeyTransition
    <3>3. \A i \in DOMAIN claimed(start, ts, end).transitions :
            claimed(start, ts, end).transitions[i].chain_id
              = claimed(start, ts, end).chain.chain_id
      BY <2>1, ExpectedInterval DEF Accepted
    <3>4. QED
      BY <2>5, <3>1, <3>2, <3>3
  <2>7. ASSUME NEW i \in DOMAIN keys, i > 1 PROVE i - 1 \in 1 .. Len(ts)
    BY <2>5, <2>7
  <2>8. QED
    BY <2>2, <2>4, <2>5, <2>6, <2>7, <1>3, NewReport
<1>4. QED
  BY <1>2, <1>3

(***************************************************************************)
(* A checked segment, read backwards from its head.                        *)
(***************************************************************************)

LEMMA CheckedRows ==
  ASSUME NEW m, NEW rows, NEW c, IsInterval(c), check_chain(m, rows, c)
  PROVE  /\ c.first_sequence \in Nat \ {0} /\ c.last_sequence \in Nat
         /\ c.row_count \in Nat \ {0}
         /\ c.row_count = c.last_sequence - c.first_sequence + 1
         /\ c.chain_id \in ChainId /\ m \in EvidenceMajors
         /\ \A i \in 1 .. c.row_count :
              /\ rows[i].entry.sequence = c.first_sequence + i - 1
              /\ i > 1 => rows[i].entry.previous = row_domain_hash(m, rows[i - 1])
         /\ row_domain_hash(m, rows[c.row_count]) = c.head_hash
<1>1. /\ c.first_sequence \in Nat \ {0} /\ c.row_count \in Nat \ {0} /\ c.chain_id \in ChainId
      /\ c.last_sequence = c.first_sequence + c.row_count - 1
  BY DEF IsInterval
<1>2. /\ m \in EvidenceMajors /\ Len(rows) = c.row_count
      /\ \A i \in 1 .. c.row_count : rows[i].entry.sequence = c.first_sequence + i - 1
      /\ \A i \in 2 .. c.row_count : rows[i].entry.previous = row_domain_hash(m, rows[i - 1])
      /\ row_domain_hash(m, rows[c.row_count]) = c.head_hash
  BY CheckedChain
<1>3. QED
  BY <1>1, <1>2

\* the head is a row of the log of that major
EndsInLog(major, c) ==
  /\ major = MajorOf[c.chain_id]
  /\ c.head_hash = row_domain_hash(major, log[c.chain_id][c.last_sequence])

\* a segment that ends in a row of the log is a piece of the log
LEMMA CheckedRowsAreTheLog ==
  ASSUME TypeOK, LogLinked,
         NEW T, NEW major, NEW rows \in Seq(T), NEW c, IsInterval(c), check_chain(major, rows, c),
         DOMAIN rows = 1 .. c.row_count,
         c.last_sequence <= Len(log[c.chain_id]),
         EndsInLog(major, c)
  PROVE  rows = Segment(c.chain_id, c.first_sequence, c.last_sequence)
<1> DEFINE l == log[c.chain_id]
           f == c.first_sequence
           n == c.row_count
           S == {i \in 1 .. n : rows[i] = l[f + i - 1]}
<1>1. /\ f \in Nat \ {0} /\ c.last_sequence \in Nat
      /\ n \in Nat \ {0} /\ n = c.last_sequence - f + 1
      /\ c.chain_id \in ChainId /\ major \in EvidenceMajors
      /\ \A i \in 1 .. n : i > 1 => rows[i].entry.previous = row_domain_hash(major, rows[i - 1])
      /\ row_domain_hash(major, rows[n]) = c.head_hash
  BY CheckedRows
<1>2. /\ l \in Seq({l[i] : i \in DOMAIN l}) /\ Len(l) \in Nat /\ DOMAIN l = 1 .. Len(l)
  BY <1>1, LogIsSeq
<1>3. ASSUME NEW i \in 2 .. Len(l)
      PROVE  l[i].entry.previous = row_domain_hash(major, l[i - 1])
  <2>1. i \in DOMAIN l /\ i # 1
    BY <1>2
  <2>2. QED
    BY <1>1, <2>1 DEF LogLinked, EndsInLog
<1>4. n \in S
  <2>1. f + n - 1 = c.last_sequence /\ n \in 1 .. n
    BY <1>1
  <2>2. row_domain_hash(major, rows[n]) = row_domain_hash(major, l[f + n - 1])
    BY <1>1, <2>1 DEF EndsInLog
  <2>3. QED
    BY <1>1, <2>1, <2>2, EqualHashes
<1>5. ASSUME NEW i \in 1 + 1 .. n, i \in S PROVE i - 1 \in S
  <2>1. /\ i \in 1 .. n /\ i > 1 /\ i - 1 \in 1 .. n
        /\ f + i - 1 \in 2 .. Len(l) /\ (f + i - 1) - 1 = f + (i - 1) - 1
    <3>1. c.last_sequence <= Len(l)
      OBVIOUS
    <3> HIDE DEF l, f, n
    <3>2. QED
      BY <1>1, <1>2, <3>1, SMTT(30)
  <2>2. rows[i].entry.previous = row_domain_hash(major, rows[i - 1])
    BY <1>1, <2>1
  <2>3. l[f + i - 1].entry.previous = row_domain_hash(major, l[f + (i - 1) - 1])
    BY <1>3, <2>1
  <2>4. rows[i] = l[f + i - 1]
    BY <1>5
  <2>5. rows[i - 1] = l[f + (i - 1) - 1]
    BY <1>1, <2>2, <2>3, <2>4, EqualHashes
  <2>6. QED
    BY <2>1, <2>5
<1>6. 1 .. n \subseteq S
  <2>1. n \in Int /\ 1 \in Int
    BY <1>1
  <2> HIDE DEF S, n
  <2>2. QED
    BY <1>4, <1>5, <2>1, IntervalDown
<1>7. rows = [i \in 1 .. n |-> l[f + i - 1]]
  <2>1. rows = [i \in 1 .. n |-> rows[i]]
    BY LenProperties
  <2>2. \A i \in 1 .. n : rows[i] = l[f + i - 1]
    BY <1>6
  <2>3. QED
    BY <2>1, <2>2
<1>8. SubSeq(l, f, c.last_sequence) = [i \in 1 .. n |-> l[f + i - 1]]
  <2>1. f <= c.last_sequence /\ c.last_sequence <= Len(l) /\ c.last_sequence - f + 1 = n
    BY <1>1
  <2> HIDE DEF l, f, n
  <2>2. QED
    BY <1>1, <1>2, <2>1, SubSeqIsFunction
<1>9. QED
  BY <1>7, <1>8 DEF Segment

\* an archive that starts from an honest key ends in an honest anchor, which
\* fixes its rows
LEMMA HonestArchive ==
  ASSUME TypeOK, LogLinked, AnchorsAreHeads, TransitionsFollowPath,
         NEW major, NEW start, NEW end, NEW ts, NEW keys, NEW rows,
         Accepted(major, start, ts, end, keys, rows),
         keys[1].public_key \in HonestKey
  PROVE  LET c == claimed(start, ts, end).chain
         IN  /\ major = MajorOf[c.chain_id]
             /\ c.last_sequence <= Len(log[c.chain_id])
             /\ rows = Segment(c.chain_id, c.first_sequence, c.last_sequence)
<1> DEFINE e == claimed(start, ts, end)
           c == e.chain
<1>1. PICK k \in DOMAIN KeyPath : keys[1].public_key = KeyPath[k].public_key
  BY DEF HonestKey
<1>2. Len(ts) \in Nat /\ Len(keys) = Len(ts) + 1
  BY WireSequences
<1>3. keys[Len(keys)].public_key \in HonestKey
  <2>1. /\ \A i \in 1 .. Len(ts) + 1 :
             k + i - 1 \in DOMAIN KeyPath
               /\ keys[i].public_key = KeyPath[k + i - 1].public_key
        /\ \A i \in 1 .. Len(ts) : ts[i] \in transitions
    BY <1>1, CustodyOfKeys
  <2>2. Len(keys) \in 1 .. Len(ts) + 1
    BY <1>2
  <2>3. QED
    BY <2>1, <2>2 DEF HonestKey
<1>4. end \in anchors
  <2>1. end \in AnchorsOnWire /\ SignedBy(end, keys[Len(keys)].public_key)
    BY AuthenticBoundaries DEF Accepted
  <2>2. QED
    BY <1>3, <2>1, HonestAnchor
<1>5. check_chain(major, rows, c) /\ IsInterval(c)
  BY ExpectedInterval DEF Accepted
<1>6. rows \in Seq(RowsOnWire(major)) /\ DOMAIN rows = 1 .. c.row_count
  BY WireSequences
<1>7. /\ c.chain_id = end.claims.chain_id
      /\ c.last_sequence = end.claims.sequence
      /\ c.head_hash = end.claims.chain_hash
  BY DEF claimed
<1>8. c.last_sequence > 0
  <2> HIDE DEF c
  <2>1. QED
    BY <1>5, CheckedRows
<1>12. major = MajorOf[c.chain_id]
  <2>1. end.claims.v = major
    BY AuthenticBoundaries DEF Accepted
  <2>2. QED
    BY <1>4, <1>7, <2>1 DEF TypeOK, IsAssembled
<1>9. /\ c.last_sequence <= Len(log[c.chain_id])
      /\ c.head_hash = row_domain_hash(major, log[c.chain_id][c.last_sequence])
  BY <1>4, <1>7, <1>8, <1>12 DEF AnchorsAreHeads
<1>10. rows = Segment(c.chain_id, c.first_sequence, c.last_sequence)
  <2> HIDE DEF c
  <2>1. QED
    BY <1>5, <1>6, <1>9, <1>12, CheckedRowsAreTheLog DEF EndsInLog
<1>11. QED
  BY <1>9, <1>10, <1>12

LEMMA ExportIsTheLogStep ==
  /\ TypeOK /\ LogLinked /\ AnchorsAreHeads /\ TransitionsFollowPath /\ ReportsAreChains
  /\ ExportIsTheLog /\ [Next]_vars
  => ExportIsTheLog'
<1> SUFFICES ASSUME TypeOK, LogLinked, AnchorsAreHeads, TransitionsFollowPath,
                    ReportsAreChains, ExportIsTheLog, [Next]_vars,
                    NEW x \in verified', x.keys[1].public_key \in HonestKey
             PROVE  /\ x.major = MajorOf[x.facts.chain.chain_id]
                    /\ x.facts.chain.last_sequence <= Len(log'[x.facts.chain.chain_id])
                    /\ x.facts.digest.rows =
                         SubSeq(log'[x.facts.chain.chain_id],
                                x.facts.chain.first_sequence, x.facts.chain.last_sequence)
  BY DEF ExportIsTheLog, Segment
<1> DEFINE c == x.facts.chain
           rows == x.facts.digest.rows
<1>1. CASE x \in verified
  <2>1. /\ x.major = MajorOf[c.chain_id]
        /\ c.last_sequence <= Len(log[c.chain_id])
        /\ rows = SubSeq(log[c.chain_id], c.first_sequence, c.last_sequence)
    BY <1>1 DEF ExportIsTheLog, Segment
  <2>2. check_chain(x.major, rows, c) /\ IsInterval(c)
    BY <1>1 DEF ReportsAreChains
  <2> HIDE DEF c, rows
  <2>3. /\ c.first_sequence \in Nat \ {0} /\ c.last_sequence \in Nat
        /\ c.row_count \in Nat \ {0} /\ c.chain_id \in ChainId
        /\ c.row_count = c.last_sequence - c.first_sequence + 1
    BY <2>2, CheckedRows
  <2>4. c.first_sequence <= c.last_sequence
    BY <2>3
  <2>5. /\ Len(log[c.chain_id]) \in Nat /\ Len(log'[c.chain_id]) \in Nat
        /\ Len(log[c.chain_id]) <= Len(log'[c.chain_id])
        /\ SubSeq(log'[c.chain_id], c.first_sequence, c.last_sequence)
             = SubSeq(log[c.chain_id], c.first_sequence, c.last_sequence)
    BY <2>1, <2>3, <2>4, LogGrows, LogIsSeq
  <2>6. c.last_sequence <= Len(log'[c.chain_id])
    BY <2>1, <2>3, <2>5
  <2>7. rows = SubSeq(log'[c.chain_id], c.first_sequence, c.last_sequence)
    BY <2>1, <2>5
  <2>8. QED
    BY <2>1, <2>6, <2>7 DEF c, rows
<1>2. CASE x \notin verified
  <2>1. PICK major, start, end, ts, keys, sent :
          /\ Accepted(major, start, ts, end, keys, sent)
          /\ IsReport(x, major, start, ts, end, keys, sent)
    BY <1>2, NewReport
  <2>2. x.major = major /\ x.keys = keys /\ c = claimed(start, ts, end).chain /\ rows = sent
    BY <2>1 DEF IsReport
  <2>3. log' = log
    BY <1>2, NewReport
  <2> HIDE DEF c, rows
  <2>4. /\ x.major = MajorOf[c.chain_id]
        /\ c.last_sequence <= Len(log[c.chain_id])
        /\ rows = Segment(c.chain_id, c.first_sequence, c.last_sequence)
    BY <2>1, <2>2, HonestArchive
  <2>5. QED
    BY <2>3, <2>4 DEF Segment, c, rows
<1>3. QED
  BY <1>1, <1>2

LEMMA ChainsFixHistory == ReportsAreChains => HeadFixesHistory
<1> SUFFICES ASSUME ReportsAreChains, NEW x \in verified, NEW y \in verified,
                    x.facts.chain.head_hash = y.facts.chain.head_hash
             PROVE  LET c == x.facts.chain  d == y.facts.chain
                        from == IF c.first_sequence > d.first_sequence
                                THEN c.first_sequence ELSE d.first_sequence
                    IN  /\ x.major = y.major
                        /\ c.last_sequence = d.last_sequence
                        /\ \A n \in from .. c.last_sequence :
                             x.facts.digest.rows[n - c.first_sequence + 1]
                               = y.facts.digest.rows[n - d.first_sequence + 1]
  BY DEF HeadFixesHistory
<1> DEFINE c == x.facts.chain
           d == y.facts.chain
           r == x.facts.digest.rows
           s == y.facts.digest.rows
           from == IF c.first_sequence > d.first_sequence
                   THEN c.first_sequence ELSE d.first_sequence
           last == c.last_sequence
           S == {n \in Int : r[n - c.first_sequence + 1] = s[n - d.first_sequence + 1]}
<1>1. /\ check_chain(x.major, r, c) /\ IsInterval(c)
      /\ check_chain(y.major, s, d) /\ IsInterval(d)
  BY DEF ReportsAreChains
<1>2. c.head_hash = d.head_hash
  OBVIOUS
<1> HIDE DEF c, d, r, s
<1>3. /\ c.first_sequence \in Nat \ {0} /\ c.last_sequence \in Nat
      /\ c.row_count \in Nat \ {0}
      /\ c.row_count = c.last_sequence - c.first_sequence + 1
      /\ \A i \in 1 .. c.row_count :
           /\ r[i].entry.sequence = c.first_sequence + i - 1
           /\ i > 1 => r[i].entry.previous = row_domain_hash(x.major, r[i - 1])
      /\ row_domain_hash(x.major, r[c.row_count]) = c.head_hash
      /\ x.major \in EvidenceMajors
  BY <1>1, CheckedRows
<1>4. /\ d.first_sequence \in Nat \ {0} /\ d.last_sequence \in Nat
      /\ d.row_count \in Nat \ {0}
      /\ d.row_count = d.last_sequence - d.first_sequence + 1
      /\ \A i \in 1 .. d.row_count :
           /\ s[i].entry.sequence = d.first_sequence + i - 1
           /\ i > 1 => s[i].entry.previous = row_domain_hash(y.major, s[i - 1])
      /\ row_domain_hash(y.major, s[d.row_count]) = d.head_hash
      /\ y.major \in EvidenceMajors
  BY <1>1, CheckedRows
<1>5. x.major = y.major /\ r[c.row_count] = s[d.row_count]
  BY <1>2, <1>3, <1>4, EqualHashes
<1>6. c.last_sequence = d.last_sequence
  <2>1. r[c.row_count].entry.sequence = c.last_sequence
    BY <1>3
  <2>2. s[d.row_count].entry.sequence = d.last_sequence
    BY <1>4
  <2>3. QED
    BY <1>5, <2>1, <2>2
<1>7. from .. last \subseteq S
  <2>1. from \in Int /\ last \in Int
    BY <1>3, <1>4
  <2>2. last \in S
    BY <1>3, <1>4, <1>5, <1>6
  <2>3. ASSUME NEW n \in from + 1 .. last, n \in S PROVE n - 1 \in S
    <3> DEFINE i == n - c.first_sequence + 1
               j == n - d.first_sequence + 1
    <3>1. /\ i \in 1 .. c.row_count /\ i > 1 /\ j \in 1 .. d.row_count /\ j > 1
          /\ i - 1 = (n - 1) - c.first_sequence + 1
          /\ j - 1 = (n - 1) - d.first_sequence + 1
      BY <1>3, <1>4, <1>6
    <3>2. r[i] = s[j]
      BY <2>3
    <3> HIDE DEF i, j
    <3>3. row_domain_hash(x.major, r[i - 1]) = row_domain_hash(y.major, s[j - 1])
      BY <1>3, <1>4, <3>1, <3>2
    <3>4. r[(n - 1) - c.first_sequence + 1] = s[(n - 1) - d.first_sequence + 1]
      BY <1>3, <1>4, <3>1, <3>3, EqualHashes
    <3>5. n - 1 \in Int
      BY <2>1
    <3>6. QED
      BY <3>4, <3>5
  <2> HIDE DEF S, from, last
  <2>4. QED
    BY <2>1, <2>2, <2>3, IntervalDown
<1>8. QED
  BY <1>5, <1>6, <1>7 DEF c, d, r, s

(***************************************************************************)
(* What encode_anchored_export frames verifies later.                      *)
(***************************************************************************)

\* encode's own step, and what the growth of the wire preserves
LEMMA ExportsAreEncodedStep ==
  TypeOK /\ ExportsAreEncoded /\ [Next]_vars => ExportsAreEncoded'
<1> SUFFICES ASSUME TypeOK, ExportsAreEncoded, [Next]_vars PROVE ExportsAreEncoded'
  OBVIOUS
<1> DEFINE Encoded(o) ==
             LET a == o.archive
                 e == claimed(a.start_anchor, a.transitions, a.end_anchor)
             IN  /\ encode_anchored_export_ok(o.major, a.start_anchor, a.transitions, a.rows,
                                              a.end_anchor, e)
                 /\ a = encode_anchored_export(o.major, a.start_anchor, a.transitions,
                                               a.rows, a.end_anchor, e)
                 /\ o.chunks = frame_count(a.transitions, a.rows)
           OnWire(o) ==
             /\ o.archive.start_anchor \in AnchorsOnWire
             /\ o.archive.end_anchor \in AnchorsOnWire
             /\ o.archive.transitions \in SeqsUpTo(TransitionsOnWire, MaxPath)
<1>1. AnchorsOnWire \subseteq AnchorsOnWire' /\ TransitionsOnWire \subseteq TransitionsOnWire'
  <2>1. anchors \subseteq anchors' /\ transitions \subseteq transitions'
    BY Zenon DEF Next, vars, Tick, AppendRow, SignAnchor, RotateKey, ExportLog, VerifyArchive
  <2>2. QED
    BY <2>1, Zenon DEF AnchorsOnWire, TransitionsOnWire
<1>2. ASSUME NEW o, OnWire(o) PROVE OnWire(o)'
  <2>1. PICK k \in 0 .. MaxPath : o.archive.transitions \in [1 .. k -> TransitionsOnWire]
    BY <1>2 DEF SeqsUpTo
  <2>2. o.archive.transitions \in [1 .. k -> TransitionsOnWire']
    BY <1>1, <2>1
  <2>3. o.archive.transitions \in SeqsUpTo(TransitionsOnWire, MaxPath)'
    BY <2>2, Zenon DEF SeqsUpTo
  <2>4. QED
    BY <1>1, <1>2, <2>3
<1>3. ASSUME NEW o \in exported' \ exported PROVE Encoded(o) /\ OnWire(o)
  <2>1. ExportLog
    BY <1>3, Zenon DEF Next, vars, Tick, AppendRow, SignAnchor, RotateKey, VerifyArchive
  <2>2. PICK start \in AnchorsOnWire, end \in AnchorsOnWire,
             ts \in SeqsUpTo(TransitionsOnWire, MaxPath), version \in Version :
          LET e == claimed(start, ts, end)
              c == e.chain.chain_id
              rows == SubSeq(log[c], e.chain.first_sequence, e.chain.last_sequence)
          IN  /\ e.chain.last_sequence <= Len(log[c])
              /\ encode_anchored_export_ok(MajorOf[c], start, ts, rows, end, e)
              /\ exported' = exported \cup
                   {[major |-> MajorOf[c],
                     archive |-> encode_anchored_export(MajorOf[c], start, ts, rows, end, e),
                     version |-> version, chunks |-> frame_count(ts, rows)]}
    BY <2>1, Zenon DEF ExportLog
  <2> DEFINE e == claimed(start, ts, end)
             c == e.chain.chain_id
             rows == SubSeq(log[c], e.chain.first_sequence, e.chain.last_sequence)
             m == MajorOf[c]
             a == encode_anchored_export(m, start, ts, rows, end, e)
  <2>3. encode_anchored_export_ok(m, start, ts, rows, end, e)
    BY <2>2, Zenon
  <2>13. exported' = exported \cup {[major |-> m, archive |-> a, version |-> version,
                                     chunks |-> frame_count(ts, rows)]}
    BY <2>2, Zenon
  <2>4. o = [major |-> m, archive |-> a, version |-> version,
             chunks |-> frame_count(ts, rows)]
    <3> HIDE DEF a, rows, m, e
    <3>1. QED
      BY <1>3, <2>13
  <2> HIDE DEF rows, m, e
  <2>5. /\ a.start_anchor = start /\ a.end_anchor = end /\ a.transitions = ts
        /\ a.rows = rows
    BY DEF encode_anchored_export, encode_anchored_export_v1, encode_anchored_export_v2,
           encode_anchored_export_v3, Archive
  <2> DEFINE b == o.archive
  <2>6. /\ o.major = m /\ b = a /\ o.chunks = frame_count(ts, rows)
    BY <2>4
  <2>7. /\ b.start_anchor = start /\ b.end_anchor = end /\ b.transitions = ts
        /\ b.rows = rows
    BY <2>5, <2>6
  <2>8. b = encode_anchored_export(m, start, ts, rows, end, e)
    BY <2>6
  <2> HIDE DEF a, b
  <2>9. claimed(b.start_anchor, b.transitions, b.end_anchor) = e
    BY <2>7 DEF e
  <2>10. Encoded(o)
    BY <2>3, <2>6, <2>7, <2>8, <2>9 DEF b
  <2>11. OnWire(o)
    BY <2>7 DEF b
  <2>12. QED
    BY <2>10, <2>11
<1>4. ASSUME NEW o \in exported PROVE Encoded(o) /\ OnWire(o)
  BY <1>4, Zenon DEF ExportsAreEncoded
<1>5. \A o \in exported' : Encoded(o) /\ OnWire(o)'
  BY <1>2, <1>3, <1>4
<1>6. QED
  BY <1>5, Zenon DEF ExportsAreEncoded

\* the signing inputs take no fingerprint of a key that the suite cannot use
LEMMA SuiteInputs ==
  ASSUME NEW m
  PROVE  /\ \A a : boundary_anchor_signing_input_ok(m, a) => SuiteKey(m, a.public_key)
         /\ \A t : key_transition_signing_input_ok(m, t) => SuiteKey(m, t.current_public_key)
BY DEF boundary_anchor_signing_input_ok, boundary_anchor_signing_input_ok_v1,
       boundary_anchor_signing_input_ok_v2, boundary_anchor_signing_input_ok_v3,
       key_transition_signing_input_ok, key_transition_signing_input_ok_v1,
       key_transition_signing_input_ok_v2, key_transition_signing_input_ok_v3,
       thumbprint_raw, SuiteKey

LEMMA EvidenceUnderSuiteKeysStep ==
  TypeOK /\ EvidenceUnderSuiteKeys /\ [Next]_vars => EvidenceUnderSuiteKeys'
<1> SUFFICES ASSUME TypeOK, EvidenceUnderSuiteKeys, [Next]_vars
             PROVE  EvidenceUnderSuiteKeys'
  OBVIOUS
<1>1. ASSUME NEW a \in anchors' \ anchors PROVE SuiteKey(a.claims.v, a.signer)
  <2>1. SignAnchor
    BY <1>1, Zenon DEF Next, vars, Tick, AppendRow, RotateKey, ExportLog, VerifyArchive
  <2>2. PICK c \in ChainId, id \in AnchorId, scalar \in Scalar :
          /\ boundary_anchor_signing_input_ok(MajorOf[c], BoundaryAnchor(c, id))
          /\ a = AnchorOf(c, id, scalar)
    BY <1>1, <2>1 DEF SignAnchor, AnchorOf
  <2>3. a.claims.v = MajorOf[c]
    BY <2>2, SignedAnchor
  <2>4. a.signer = custody(c).public_key
    BY <2>2 DEF AnchorOf, Signed
  <2>5. BoundaryAnchor(c, id).public_key = custody(c).public_key
    BY DEF BoundaryAnchor
  <2>6. QED
    BY <2>2, <2>3, <2>4, <2>5, SuiteInputs
<1>2. ASSUME NEW t \in transitions' \ transitions PROVE SuiteKey(t.claims.v, t.signer)
  <2>1. RotateKey
    BY <1>2, Zenon DEF Next, vars, Tick, AppendRow, SignAnchor, ExportLog, VerifyArchive
  <2>2. PICK c \in ChainId, id \in TransitionId, scalar \in Scalar :
          /\ key_transition_signing_input_ok(MajorOf[c], KeyTransition(c, id))
          /\ t = TransitionOf(c, id, scalar)
    BY <1>2, <2>1, Zenon DEF RotateKey, TransitionOf
  <2>3. t.claims.v = MajorOf[c] /\ t.signer = custody(c).public_key
    BY <2>2, SignedTransition
  <2>4. KeyTransition(c, id).current_public_key = custody(c).public_key
    BY DEF KeyTransition
  <2>5. QED
    BY <2>2, <2>3, <2>4, SuiteInputs
<1>3. QED
  BY <1>1, <1>2, Zenon DEF EvidenceUnderSuiteKeys

\* what framing has checked, whichever major it was
Framed(m, a, e) ==
  /\ m \in EvidenceMajors
  /\ Len(e.transitions) <= MaxTransitions /\ Len(a.transitions) = Len(e.transitions)
  /\ boundaries_bound_v1(e) /\ key_path_ok_v1(e)
  /\ check_chain(m, a.rows, e.chain)
  /\ \A x \in {a.start_anchor, a.end_anchor} :
       /\ x.scalar = "canonical" /\ x.claims.v = m /\ x.claims.chain_id \in ChainId
       /\ x.claims.anchored_at \in InMagnitude
       /\ x.claims.sequence \in 0 .. IntegerMagnitude
  /\ \A i \in DOMAIN a.transitions :
       LET t == a.transitions[i]
       IN  /\ t.scalar = "canonical" /\ t.claims.v = m /\ t.claims.chain_id \in ChainId
           /\ t.claims.effective_at \in InMagnitude
  /\ boundaries_decode(m, a.start_anchor, a.transitions, a.end_anchor)
  /\ ExpectedAnchor(a.start_anchor.claims) = e.start_anchor
  /\ ExpectedAnchor(a.end_anchor.claims) = e.end_anchor
  /\ expected_transitions(a.transitions) = e.transitions
  /\ frame_count(a.transitions, a.rows) <= MaxChunks

LEMMA EncodedIsFramed ==
  ASSUME NEW m, NEW a, NEW e,
         encode_anchored_export_ok(m, a.start_anchor, a.transitions, a.rows, a.end_anchor, e)
  PROVE  Framed(m, a, e)
<1>1. CASE m = 1
  <2>1. encode_anchored_export_ok_v1(a.start_anchor, a.transitions, a.rows, a.end_anchor, e)
    BY <1>1 DEF encode_anchored_export_ok
  <2>2. /\ \A x \in {a.start_anchor, a.end_anchor} :
             signature_gate(x.scalar) /\ decode_anchor_parts_v1(x)
        /\ \A i \in DOMAIN a.transitions :
             /\ signature_gate(a.transitions[i].scalar)
             /\ decode_transition_parts_v1(a.transitions[i])
    BY <2>1 DEF encode_anchored_export_ok_v1
  <2>3. /\ Len(e.transitions) <= MaxTransitions /\ Len(a.transitions) = Len(e.transitions)
        /\ boundaries_bound_v1(e) /\ key_path_ok_v1(e)
        /\ check_chain(m, a.rows, e.chain)
        /\ ExpectedAnchor(a.start_anchor.claims) = e.start_anchor
        /\ ExpectedAnchor(a.end_anchor.claims) = e.end_anchor
        /\ expected_transitions(a.transitions) = e.transitions
        /\ frame_count(a.transitions, a.rows) <= MaxChunks
    BY <1>1, <2>1, Zenon DEF encode_anchored_export_ok_v1, check_chain
  <2>4. QED
    BY <1>1, <2>2, <2>3
       DEF Framed, boundaries_decode, EvidenceMajors, signature_gate, decode_anchor_parts_v1,
           validate_anchor_payload_v1, decode_transition_parts_v1,
           validate_transition_payload_v1
<1>2. CASE m = 2
  <2>1. encode_anchored_export_ok_v2(a.start_anchor, a.transitions, a.rows, a.end_anchor, e)
    BY <1>2 DEF encode_anchored_export_ok
  <2>2. /\ \A x \in {a.start_anchor, a.end_anchor} :
             signature_gate(x.scalar) /\ decode_anchor_parts_v2(x)
        /\ \A i \in DOMAIN a.transitions :
             /\ signature_gate(a.transitions[i].scalar)
             /\ decode_transition_parts_v2(a.transitions[i])
    BY <2>1 DEF encode_anchored_export_ok_v2
  <2>3. /\ Len(e.transitions) <= MaxTransitions /\ Len(a.transitions) = Len(e.transitions)
        /\ boundaries_bound_v2(e) /\ key_path_ok_v2(e)
        /\ check_chain(m, a.rows, e.chain)
        /\ ExpectedAnchor(a.start_anchor.claims) = e.start_anchor
        /\ ExpectedAnchor(a.end_anchor.claims) = e.end_anchor
        /\ expected_transitions(a.transitions) = e.transitions
        /\ frame_count(a.transitions, a.rows) <= MaxChunks
    BY <1>2, <2>1, Zenon DEF encode_anchored_export_ok_v2, check_chain
  <2>4. boundaries_bound_v1(e) /\ key_path_ok_v1(e)
    BY <2>3, Zenon DEF boundaries_bound_v1, boundaries_bound_v2, key_path_ok_v1,
       key_path_ok_v2, path_key_v1, path_key_v2, path_time_v1, path_time_v2
  <2>5. QED
    BY <1>2, <2>2, <2>3, <2>4
       DEF Framed, boundaries_decode, EvidenceMajors, signature_gate, decode_anchor_parts_v2,
           validate_anchor_payload_v2, decode_transition_parts_v2,
           validate_transition_payload_v2
<1>3. CASE m = 3
  <2>1. encode_anchored_export_ok_v3(a.start_anchor, a.transitions, a.rows, a.end_anchor, e)
    BY <1>3 DEF encode_anchored_export_ok
  <2>2. /\ \A x \in {a.start_anchor, a.end_anchor} :
             validate_rs_range(x.scalar) /\ decode_anchor_parts_v3(x)
        /\ \A i \in DOMAIN a.transitions :
             /\ validate_rs_range(a.transitions[i].scalar)
             /\ decode_transition_parts_v3(a.transitions[i])
    BY <2>1 DEF encode_anchored_export_ok_v3
  <2>3. /\ Len(e.transitions) <= MaxTransitions /\ Len(a.transitions) = Len(e.transitions)
        /\ boundaries_bound_v3(e) /\ key_path_ok_v3(e)
        /\ check_chain(m, a.rows, e.chain)
        /\ ExpectedAnchor(a.start_anchor.claims) = e.start_anchor
        /\ ExpectedAnchor(a.end_anchor.claims) = e.end_anchor
        /\ expected_transitions(a.transitions) = e.transitions
        /\ frame_count(a.transitions, a.rows) <= MaxChunks
    BY <1>3, <2>1, Zenon DEF encode_anchored_export_ok_v3, check_chain
  <2>4. boundaries_bound_v1(e) /\ key_path_ok_v1(e)
    BY <2>3, Zenon DEF boundaries_bound_v1, boundaries_bound_v3, key_path_ok_v1,
       key_path_ok_v3, path_key_v1, path_key_v3, path_time_v1, path_time_v3
  <2>5. QED
    BY <1>3, <2>2, <2>3, <2>4
       DEF Framed, boundaries_decode, EvidenceMajors, validate_rs_range,
           decode_anchor_parts_v3, validate_anchor_payload_v3, decode_transition_parts_v3,
           validate_transition_payload_v3
<1>4. QED
  BY <1>1, <1>2, <1>3 DEF encode_anchored_export_ok

\* an archive that was framed, and the keys that ExportVerifies supplies
Genuine(m, a, e, keys) ==
  /\ Framed(m, a, e)
  /\ e = claimed(a.start_anchor, a.transitions, a.end_anchor)
  /\ Len(a.transitions) \in Nat /\ DOMAIN a.transitions = 1 .. Len(a.transitions)
  /\ DOMAIN keys = 1 .. Len(a.transitions) + 1 /\ Len(keys) = Len(a.transitions) + 1
  /\ MadeUnder(a, e, keys) /\ MadeInForce(a, e, keys)
  /\ \A i \in DOMAIN keys : SuiteKey(m, keys[i].public_key)

\* an expectation states the values of a transition as they are
LEMMA StatedTransition ==
  ASSUME NEW c, NEW x, x = ExpectedKeyTransition(c)
  PROVE  /\ x.chain_id = c.chain_id /\ x.effective_at = c.effective_at
         /\ x.current_key_id = c.current_key_id
         /\ x.current_key_fingerprint = c.current_key_fingerprint
         /\ x.next_key_id = c.next_key_id
         /\ x.next_key_fingerprint = c.next_key_fingerprint
BY DEF ExpectedKeyTransition

LEMMA GenuineExpectation ==
  ASSUME NEW m, NEW a, NEW e, NEW keys, Genuine(m, a, e, keys)
  PROVE  expectation_ok_v1(e)
<1> DEFINE s == a.start_anchor.claims
           d == a.end_anchor.claims
           ts == a.transitions
           n == Len(ts)
           c == e.chain
<1>1. /\ Framed(m, a, e) /\ n \in Nat /\ DOMAIN ts = 1 .. n
      /\ e = claimed(a.start_anchor, ts, a.end_anchor)
  BY DEF Genuine
<1>2. /\ s.chain_id \in ChainId /\ s.anchored_at \in InMagnitude
      /\ s.sequence \in 0 .. IntegerMagnitude
      /\ d.chain_id \in ChainId /\ d.anchored_at \in InMagnitude
      /\ d.sequence \in 0 .. IntegerMagnitude
      /\ \A i \in 1 .. n : ts[i].claims.chain_id \in ChainId
                           /\ ts[i].claims.effective_at \in InMagnitude
  BY <1>1 DEF Framed
<1>3. /\ c.chain_id = d.chain_id /\ c.first_sequence = s.sequence + 1
      /\ c.last_sequence = d.sequence /\ c.row_count = d.sequence - s.sequence
      /\ c.previous_hash = s.chain_hash
      /\ e.start_anchor = ExpectedAnchor(s) /\ e.end_anchor = ExpectedAnchor(d)
      /\ e.transitions = expected_transitions(ts)
  BY <1>1 DEF claimed
<1>4. /\ Len(e.transitions) <= MaxTransitions /\ n = Len(e.transitions)
      /\ check_chain(m, a.rows, c) /\ key_path_ok_v1(e)
  BY <1>1 DEF Framed
<1>5. c.row_count \in 1 .. MaxRows
  BY <1>4, CheckedChain
<1>6. c.first_sequence = 1 => c.previous_hash = ZeroHash
  BY <1>4 DEF check_chain, check_chain_v1, check_chain_v2, check_chain_v3
<1>7. /\ DOMAIN e.transitions = 1 .. n
      /\ \A i \in 1 .. n : e.transitions[i] = ExpectedKeyTransition(ts[i].claims)
  BY <1>1, <1>3 DEF expected_transitions
<1>8. ASSUME NEW i \in 1 .. n
      PROVE  /\ e.transitions[i].chain_id \in ChainId
             /\ e.transitions[i].effective_at \in InMagnitude
             /\ e.transitions[i].current_key_fingerprint
                  # e.transitions[i].next_key_fingerprint
  <2>1. /\ e.transitions[i].chain_id \in ChainId
        /\ e.transitions[i].effective_at \in InMagnitude
    <3>1. /\ e.transitions[i].chain_id = ts[i].claims.chain_id
          /\ e.transitions[i].effective_at = ts[i].claims.effective_at
      BY <1>7, StatedTransition
    <3>2. QED
      BY <1>2, <3>1
  <2>2. /\ <<e.transitions[i].current_key_id, e.transitions[i].current_key_fingerprint>>
             = path_key_v1(e, i - 1)
        /\ \A j \in 0 .. i - 1 : path_key_v1(e, i)[2] # path_key_v1(e, j)[2]
    BY <1>4, Zenon DEF key_path_ok_v1
  <2>3. i - 1 \in 0 .. i - 1 /\ i # 0
    BY <1>1
  <2>4. path_key_v1(e, i)[2] # path_key_v1(e, i - 1)[2]
    BY <2>2, <2>3
  <2>5. path_key_v1(e, i)[2] = e.transitions[i].next_key_fingerprint
    BY <2>3 DEF path_key_v1
  <2>6. path_key_v1(e, i - 1)[2] = e.transitions[i].current_key_fingerprint
    BY <2>2
  <2>7. QED
    BY <2>1, <2>4, <2>5, <2>6
<1> HIDE DEF s, d, ts, n, c
<1>9. /\ c.first_sequence \in 1 .. IntegerMagnitude
      /\ c.last_sequence \in c.first_sequence .. IntegerMagnitude
      /\ c.row_count = c.last_sequence - c.first_sequence + 1
  BY <1>2, <1>3, <1>5, EvidenceBoundAssumption
<1>10. s.sequence = 0 => s.chain_hash = ZeroHash
  BY <1>2, <1>3, <1>6
<1>11. d.sequence # 0
  BY <1>2, <1>3, <1>9
<1>12. \A x \in {e.start_anchor, e.end_anchor} :
         /\ x.chain_id \in ChainId
         /\ x.anchored_at \in InMagnitude /\ x.sequence \in 0 .. IntegerMagnitude
         /\ x.sequence = 0 => x.chain_hash = ZeroHash
  BY <1>2, <1>3, <1>10, <1>11 DEF ExpectedAnchor
<1>13. QED
  BY <1>2, <1>3, <1>4, <1>5, <1>6, <1>7, <1>8, <1>9, <1>12 DEF expectation_ok_v1, c

\* the keys are those that the claims name, and no two of them are the same
LEMMA GenuineKeys ==
  ASSUME NEW m, NEW a, NEW e, NEW keys, Genuine(m, a, e, keys)
  PROVE  LET s == a.start_anchor.claims
             d == a.end_anchor.claims
             ts == a.transitions
             n == Len(ts)
         IN  /\ s.key_id = keys[1].key_id /\ s.key_fingerprint = keys[1].public_key
             /\ d.key_id = keys[n + 1].key_id /\ d.key_fingerprint = keys[n + 1].public_key
             /\ \A i \in 1 .. n :
                  LET c == ts[i].claims
                  IN  /\ c.current_key_id = keys[i].key_id
                      /\ c.current_key_fingerprint = keys[i].public_key
                      /\ c.next_key_id = keys[i + 1].key_id
                      /\ c.next_key_fingerprint = keys[i + 1].public_key
             /\ \A i, j \in 1 .. n + 1 : i # j => keys[i].public_key # keys[j].public_key
<1> DEFINE s == a.start_anchor.claims
           d == a.end_anchor.claims
           ts == a.transitions
           n == Len(ts)
           path(i) == path_key_v1(e, i)
<1>1. /\ n \in Nat /\ DOMAIN ts = 1 .. n /\ n = Len(e.transitions)
      /\ e = claimed(a.start_anchor, ts, a.end_anchor)
      /\ key_path_ok_v1(e) /\ MadeUnder(a, e, keys)
  BY DEF Genuine, Framed
<1>2. \A i \in 0 .. n : path(i) = <<keys[i + 1].key_id, keys[i + 1].public_key>>
  BY <1>1 DEF MadeUnder
<1>3. /\ e.start_anchor = ExpectedAnchor(s) /\ e.end_anchor = ExpectedAnchor(d)
      /\ \A i \in 1 .. n : e.transitions[i] = ExpectedKeyTransition(ts[i].claims)
  BY <1>1 DEF claimed, expected_transitions
<1>4. s.key_id = keys[1].key_id /\ s.key_fingerprint = keys[1].public_key
  <2>1. path(0) = <<keys[1].key_id, keys[1].public_key>>
    BY <1>1, <1>2
  <2>2. path(0) = <<s.key_id, s.key_fingerprint>>
    BY <1>3 DEF path_key_v1, ExpectedAnchor
  <2>3. QED
    BY <2>1, <2>2
<1>5. d.key_id = keys[n + 1].key_id /\ d.key_fingerprint = keys[n + 1].public_key
  <2>1. path(n) = <<keys[n + 1].key_id, keys[n + 1].public_key>>
    BY <1>1, <1>2
  <2>2. path(n) = <<e.end_anchor.key_id, e.end_anchor.key_fingerprint>>
    BY <1>1, Zenon DEF key_path_ok_v1
  <2>3. e.end_anchor.key_id = d.key_id /\ e.end_anchor.key_fingerprint = d.key_fingerprint
    BY <1>3 DEF ExpectedAnchor
  <2>4. QED
    BY <2>1, <2>2, <2>3
<1>6. ASSUME NEW i \in 1 .. n
      PROVE  /\ ts[i].claims.current_key_id = keys[i].key_id
             /\ ts[i].claims.current_key_fingerprint = keys[i].public_key
             /\ ts[i].claims.next_key_id = keys[i + 1].key_id
             /\ ts[i].claims.next_key_fingerprint = keys[i + 1].public_key
  <2> DEFINE t == e.transitions[i]
  <2>1. i \in 0 .. n /\ i - 1 \in 0 .. n /\ (i - 1) + 1 = i /\ i # 0
    BY <1>1
  <2>2. <<t.current_key_id, t.current_key_fingerprint>> = path(i - 1)
    BY <1>1, Zenon DEF key_path_ok_v1
  <2>3. path(i - 1) = <<keys[i].key_id, keys[i].public_key>>
    BY <1>2, <2>1
  <2>4. path(i) = <<t.next_key_id, t.next_key_fingerprint>>
    BY <2>1 DEF path_key_v1
  <2>5. path(i) = <<keys[i + 1].key_id, keys[i + 1].public_key>>
    BY <1>2, <2>1
  <2>6. /\ t.current_key_id = ts[i].claims.current_key_id
        /\ t.current_key_fingerprint = ts[i].claims.current_key_fingerprint
        /\ t.next_key_id = ts[i].claims.next_key_id
        /\ t.next_key_fingerprint = ts[i].claims.next_key_fingerprint
    BY <1>3, StatedTransition
  <2> HIDE DEF t, path
  <2>7. QED
    BY <2>2, <2>3, <2>4, <2>5, <2>6
<1>7. ASSUME NEW i \in 1 .. n + 1, NEW j \in 1 .. n + 1, j < i
      PROVE  keys[i].public_key # keys[j].public_key
  <2>1. i - 1 \in 1 .. n /\ j - 1 \in 0 .. (i - 1) - 1 /\ i - 1 \in 0 .. n /\ j - 1 \in 0 .. n
        /\ (i - 1) + 1 = i /\ (j - 1) + 1 = j
    BY <1>1, <1>7
  <2>2. path(i - 1)[2] # path(j - 1)[2]
    BY <1>1, <2>1, Zenon DEF key_path_ok_v1
  <2>3. /\ path(i - 1) = <<keys[i].key_id, keys[i].public_key>>
        /\ path(j - 1) = <<keys[j].key_id, keys[j].public_key>>
    BY <1>2, <2>1
  <2> HIDE DEF path
  <2>4. QED
    BY <2>2, <2>3
<1>8. \A i, j \in 1 .. n + 1 : i # j => keys[i].public_key # keys[j].public_key
  <2>1. \A i, j \in 1 .. n + 1 : i # j => i < j \/ j < i
    BY <1>1
  <2>2. QED
    BY <1>7, <2>1
<1>9. QED
  BY <1>4, <1>5, <1>6, <1>8

\* a time inside a window makes the window one that a verifier takes
LEMMA InsideWindow ==
  ASSUME NEW t \in InMagnitude, NEW k, inside_window(t, k)
  PROVE  key_window_v1(k) /\ in_interval_v1(t, k)
<1>1. t \in Int /\ k.valid_from \in Int /\ k.valid_from <= t
  BY EvidenceBoundAssumption DEF inside_window, InMagnitude
<1>2. k.valid_before # Unbounded =>
        k.valid_before \in Int /\ t < k.valid_before /\ k.valid_before > k.valid_from
  BY <1>1, EvidenceBoundAssumption DEF inside_window, InMagnitude
<1>3. QED
  BY <1>1, <1>2 DEF inside_window, key_window_v1, in_interval_v1

LEMMA GenuineTimes ==
  ASSUME NEW m, NEW a, NEW e, NEW keys, Genuine(m, a, e, keys)
  PROVE  LET s == a.start_anchor.claims
             d == a.end_anchor.claims
             ts == a.transitions
             n == Len(ts)
         IN  /\ \A i \in 1 .. n + 1 : key_window_v1(keys[i])
             /\ in_interval_v1(s.anchored_at, keys[1])
             /\ in_interval_v1(d.anchored_at, keys[n + 1])
             /\ \A i \in 1 .. n : /\ in_interval_v1(ts[i].claims.effective_at, keys[i])
                                  /\ in_interval_v1(ts[i].claims.effective_at, keys[i + 1])
             /\ n = 0 => s.anchored_at <= d.anchored_at
             /\ \A i \in 2 .. n : ts[i - 1].claims.effective_at < ts[i].claims.effective_at
             /\ n > 0 => /\ s.anchored_at < ts[1].claims.effective_at
                         /\ d.anchored_at >= ts[n].claims.effective_at
<1> DEFINE s == a.start_anchor.claims
           d == a.end_anchor.claims
           ts == a.transitions
           n == Len(ts)
           time(i) == path_time_v1(e, i)
<1>1. /\ n \in Nat /\ DOMAIN ts = 1 .. n /\ n = Len(e.transitions)
      /\ e = claimed(a.start_anchor, ts, a.end_anchor)
      /\ key_path_ok_v1(e) /\ MadeInForce(a, e, keys)
      /\ s.anchored_at \in InMagnitude /\ d.anchored_at \in InMagnitude
      /\ \A i \in 1 .. n : ts[i].claims.effective_at \in InMagnitude
  BY DEF Genuine, Framed
<1>2. time(0) = s.anchored_at /\ e.end_anchor.anchored_at = d.anchored_at
  BY <1>1 DEF claimed, path_time_v1, ExpectedAnchor
<1>3. ASSUME NEW i \in 1 .. n PROVE time(i) = ts[i].claims.effective_at
  <2>1. e.transitions[i] = ExpectedKeyTransition(ts[i].claims) /\ i # 0
    BY <1>1 DEF claimed, expected_transitions
  <2>2. QED
    BY <2>1, StatedTransition DEF path_time_v1
<1>4. /\ inside_window(s.anchored_at, keys[1])
      /\ inside_window(d.anchored_at, keys[n + 1])
      /\ \A i \in 1 .. n : /\ inside_window(ts[i].claims.effective_at, keys[i])
                           /\ inside_window(ts[i].claims.effective_at, keys[i + 1])
  BY <1>1, <1>2, <1>3 DEF MadeInForce
<1>5. \A i \in 1 .. n : time(i) > time(i - 1)
  BY <1>1, Zenon DEF key_path_ok_v1
<1>6. d.anchored_at >= time(n)
  BY <1>1, <1>2 DEF key_path_ok_v1
<1> HIDE DEF time, s, d, ts, n
<1>7. \A i \in 1 .. n + 1 : i \in 1 .. n \/ i = n + 1
  BY <1>1
<1>8. \A i \in 1 .. n + 1 : key_window_v1(keys[i])
  BY <1>1, <1>4, <1>7, InsideWindow
<1>9. /\ in_interval_v1(s.anchored_at, keys[1])
      /\ in_interval_v1(d.anchored_at, keys[n + 1])
      /\ \A i \in 1 .. n : /\ in_interval_v1(ts[i].claims.effective_at, keys[i])
                           /\ in_interval_v1(ts[i].claims.effective_at, keys[i + 1])
  BY <1>1, <1>4, InsideWindow
<1>10. /\ s.anchored_at \in Int /\ d.anchored_at \in Int
       /\ \A i \in 1 .. n : ts[i].claims.effective_at \in Int
  BY <1>1, EvidenceBoundAssumption DEF InMagnitude
<1>11. n = 0 => s.anchored_at <= d.anchored_at
  BY <1>2, <1>6, <1>10
<1>12. ASSUME NEW i \in 2 .. n
       PROVE  ts[i - 1].claims.effective_at < ts[i].claims.effective_at
  <2>1. i \in 1 .. n /\ i - 1 \in 1 .. n
    BY <1>1
  <2>2. time(i) > time(i - 1)
    BY <1>5, <2>1
  <2>3. QED
    BY <1>3, <1>10, <2>1, <2>2
<1>13. ASSUME n > 0
       PROVE  /\ s.anchored_at < ts[1].claims.effective_at
              /\ d.anchored_at >= ts[n].claims.effective_at
  <2>1. 1 \in 1 .. n /\ n \in 1 .. n /\ 1 - 1 = 0
    BY <1>1, <1>13
  <2>2. time(1) > time(0)
    BY <1>5, <2>1
  <2>3. QED
    BY <1>2, <1>3, <1>6, <1>10, <2>1, <2>2
<1>14. QED
  BY <1>8, <1>9, <1>11, <1>12, <1>13 DEF s, d, ts, n

\* a key that the suite can use accepts what it signed
LEMMA SuiteSignature ==
  ASSUME NEW m \in EvidenceMajors, NEW key, NEW x, SuiteKey(m, key),
         x.signer = key, x.scalar = "canonical"
  PROVE  /\ m \in {1, 2} => thumbprint_raw(key) /\ ed25519_verify(key, x)
         /\ m = 3 => thumbprint_raw_v3(key) /\ es256_verify(key, x)
BY DEF SuiteKey, thumbprint_raw, thumbprint_raw_v3, ed25519_verify, es256_verify,
       signature_gate, validate_rs_range, equation, EvidenceMajors

\* what the caller supplies agrees with the archive
Supplied(o, a, e, x) ==
  /\ o.archive = a /\ o.chunks = frame_count(a.transitions, a.rows)
  /\ a = encode_anchored_export(o.major, a.start_anchor, a.transitions, a.rows,
                                a.end_anchor, e)
  /\ x.chain = e.chain /\ x.start_anchor = e.start_anchor /\ x.end_anchor = e.end_anchor
  /\ x.transitions = e.transitions /\ x.digest = a /\ x.object_version = o.version

\* storage, header and context: nothing in them depends on the keys' owners
LEMMA GenuineStorage ==
  ASSUME NEW o, NEW a, NEW e, NEW keys, NEW x, Genuine(o.major, a, e, keys),
         Supplied(o, a, e, x)
  PROVE  /\ expectation_ok_v1(x) /\ boundaries_bound_v1(x) /\ keys_ok_v1(keys, x)
         /\ check_chain(o.major, a.rows, x.chain)
         /\ o.major = 1 => stored_ok_v1(o, x) /\ header_matches_v1(a.header, x)
         /\ o.major = 2 => stored_ok_v2(o, x) /\ header_matches_v2(a.header, x)
         /\ o.major = 3 => stored_ok_v3(o, x) /\ header_matches_v3(a.header, x)
<1>1. /\ o.major \in EvidenceMajors /\ Len(a.transitions) \in Nat
      /\ boundaries_bound_v1(e) /\ check_chain(o.major, a.rows, e.chain)
      /\ frame_count(a.transitions, a.rows) <= MaxChunks
      /\ Len(e.transitions) <= MaxTransitions /\ Len(a.transitions) = Len(e.transitions)
      /\ Len(keys) = Len(e.transitions) + 1 /\ DOMAIN keys = 1 .. Len(a.transitions) + 1
  BY DEF Genuine, Framed
<1>2. expectation_ok_v1(e)
  BY GenuineExpectation
<1>3. expectation_ok_v1(x) /\ boundaries_bound_v1(x)
  BY <1>1, <1>2 DEF Supplied, expectation_ok_v1, boundaries_bound_v1
<1>4. keys_ok_v1(keys, x)
  BY <1>1, GenuineTimes DEF Supplied, keys_ok_v1
<1>5. Len(a.rows) \in Nat
  BY <1>1, CheckedChain, EvidenceBoundAssumption
<1>6. o.chunks \in 1 .. MaxChunks
  <2> DEFINE p == Len(a.transitions)
             q == Len(a.rows)
  <2>1. o.chunks = 4 + p + q /\ o.chunks <= MaxChunks
    BY <1>1 DEF Supplied, frame_count
  <2>2. p \in Nat /\ q \in Nat /\ MaxChunks \in Nat
    BY <1>1, <1>5, EvidenceBoundAssumption
  <2> HIDE DEF p, q
  <2>3. QED
    BY <2>1, <2>2
<1>7. /\ x.chain.chain_id \in ChainId /\ x.chain.row_count \in 0 .. MaxRows
      /\ x.chain.first_sequence >= 1 /\ x.chain.last_sequence >= x.chain.first_sequence
  BY <1>3, EvidenceBoundAssumption DEF expectation_ok_v1
<1>8. Len(x.transitions) \in 0 .. MaxTransitions
  BY <1>1, EvidenceBoundAssumption DEF Supplied
<1>9. /\ a.header = [v |-> o.major, chain |-> e.chain, transition_count |-> Len(e.transitions)]
      /\ a.magic = CASE o.major = 1 -> "BAP1-ARCHIVE" [] o.major = 2 -> "BAP2-ARCHIVE"
                     [] OTHER -> "BAP3-ARCHIVE"
  <2>1. a = encode_anchored_export(o.major, a.start_anchor, a.transitions, a.rows,
                                   a.end_anchor, e)
    BY DEF Supplied
  <2> DEFINE f == encode_anchored_export(o.major, a.start_anchor, a.transitions, a.rows,
                                         a.end_anchor, e)
  <2>2. /\ f.header = [v |-> o.major, chain |-> e.chain,
                       transition_count |-> Len(e.transitions)]
        /\ f.magic = CASE o.major = 1 -> "BAP1-ARCHIVE" [] o.major = 2 -> "BAP2-ARCHIVE"
                       [] OTHER -> "BAP3-ARCHIVE"
    BY <1>1 DEF encode_anchored_export, encode_anchored_export_v1, encode_anchored_export_v2,
       encode_anchored_export_v3, Archive, archive_header_v1, archive_header_v2,
       archive_header_v3, EvidenceMajors
  <2> HIDE DEF f
  <2>3. a = f
    BY <2>1 DEF f
  <2>4. QED
    BY <2>2, <2>3
<1>10. /\ o.version = x.object_version /\ a = x.digest /\ o.archive = a
       /\ a.header.chain = x.chain /\ a.header.transition_count = Len(x.transitions)
       /\ a.header.v = o.major
       /\ check_chain(o.major, a.rows, x.chain)
  BY <1>1, <1>9 DEF Supplied
<1>11. CASE o.major = 1
  BY <1>3, <1>4, <1>6, <1>7, <1>8, <1>9, <1>10, <1>11
     DEF stored_ok_v1, header_matches_v1, decode_archive_header_v1
<1>12. CASE o.major = 2
  BY <1>3, <1>4, <1>6, <1>7, <1>8, <1>9, <1>10, <1>12
     DEF stored_ok_v2, header_matches_v2, decode_archive_header_v2
<1>13. CASE o.major = 3
  BY <1>3, <1>4, <1>6, <1>7, <1>8, <1>9, <1>10, <1>13
     DEF stored_ok_v3, header_matches_v3, decode_archive_header_v3
<1>14. QED
  BY <1>1, <1>3, <1>4, <1>10, <1>11, <1>12, <1>13 DEF EvidenceMajors

\* what verify_historical_anchor, verify_key_transition and the chronology of a
\* major ask of the boundaries
LEMMA GenuineIsAuthenticV1 ==
  ASSUME NEW o, NEW a, NEW e, NEW keys, NEW x, Genuine(o.major, a, e, keys),
         Supplied(o, a, e, x), o.major = 1
  PROVE  boundaries_authentic_v1(a.start_anchor, a.transitions, a.end_anchor, keys, x)
<1> DEFINE s == a.start_anchor
           d == a.end_anchor
           ts == a.transitions
           n == Len(ts)
<1>1. /\ n \in Nat /\ DOMAIN ts = 1 .. n /\ DOMAIN keys = 1 .. n + 1 /\ Len(keys) = n + 1
      /\ n = Len(x.transitions)
      /\ ExpectedAnchor(s.claims) = x.start_anchor /\ ExpectedAnchor(d.claims) = x.end_anchor
      /\ \A i \in 1 .. n : ExpectedKeyTransition(ts[i].claims) = x.transitions[i]
  BY DEF Genuine, Framed, Supplied, expected_transitions
<1>2. /\ decode_anchor_parts_v1(s) /\ decode_anchor_parts_v1(d)
      /\ \A i \in 1 .. n : decode_transition_parts_v1(ts[i])
  BY <1>1 DEF Genuine, Framed, boundaries_decode
<1>3. /\ expectation_ok_v1(x) /\ boundaries_bound_v1(x) /\ keys_ok_v1(keys, x)
  BY GenuineStorage
<1>4. /\ thumbprint_raw(keys[1].public_key) /\ ed25519_verify(keys[1].public_key, s)
      /\ thumbprint_raw(keys[n + 1].public_key) /\ ed25519_verify(keys[n + 1].public_key, d)
      /\ \A i \in 1 .. n : /\ thumbprint_raw(keys[i].public_key)
                           /\ thumbprint_raw(keys[i + 1].public_key)
                           /\ ed25519_verify(keys[i].public_key, ts[i])
  <2>1. /\ s.signer = keys[1].public_key /\ d.signer = keys[n + 1].public_key
        /\ \A i \in 1 .. n : ts[i].signer = keys[i].public_key
        /\ s.scalar = "canonical" /\ d.scalar = "canonical"
        /\ \A i \in 1 .. n : ts[i].scalar = "canonical"
    BY <1>1 DEF Genuine, MadeUnder, Framed
  <2>2. \A i \in 1 .. n + 1 : SuiteKey(1, keys[i].public_key)
    BY <1>1 DEF Genuine
  <2>3. 1 \in 1 .. n + 1 /\ n + 1 \in 1 .. n + 1
        /\ \A i \in 1 .. n : i \in 1 .. n + 1 /\ i + 1 \in 1 .. n + 1
    BY <1>1
  <2>4. \A i \in 1 .. n + 1 : thumbprint_raw(keys[i].public_key)
    BY <2>2 DEF SuiteKey, thumbprint_raw, thumbprint_raw_v3
  <2> HIDE DEF s, d, ts, n
  <2>5. QED
    BY <2>1, <2>2, <2>3, <2>4, SuiteSignature DEF EvidenceMajors
<1>5. /\ s.claims.key_id = keys[1].key_id /\ s.claims.key_fingerprint = keys[1].public_key
      /\ d.claims.key_id = keys[n + 1].key_id
      /\ d.claims.key_fingerprint = keys[n + 1].public_key
      /\ \A i \in 1 .. n :
           LET c == ts[i].claims
           IN  /\ c.current_key_id = keys[i].key_id
               /\ c.current_key_fingerprint = keys[i].public_key
               /\ c.next_key_id = keys[i + 1].key_id
               /\ c.next_key_fingerprint = keys[i + 1].public_key
      /\ \A i, j \in 1 .. n + 1 : i # j => keys[i].public_key # keys[j].public_key
  BY GenuineKeys
<1>6. /\ \A i \in 1 .. n + 1 : key_window_v1(keys[i])
      /\ in_interval_v1(s.claims.anchored_at, keys[1])
      /\ in_interval_v1(d.claims.anchored_at, keys[n + 1])
      /\ \A i \in 1 .. n : /\ in_interval_v1(ts[i].claims.effective_at, keys[i])
                           /\ in_interval_v1(ts[i].claims.effective_at, keys[i + 1])
  BY GenuineTimes
<1>7. check_export_chronology_v1(s, ts, d, keys)
  <2>1. /\ n = 0 => s.claims.anchored_at <= d.claims.anchored_at
        /\ \A i \in 2 .. n : ts[i - 1].claims.effective_at < ts[i].claims.effective_at
        /\ n > 0 => /\ s.claims.anchored_at < ts[1].claims.effective_at
                    /\ d.claims.anchored_at >= ts[n].claims.effective_at
    BY GenuineTimes
  <2>2. QED
    BY <1>1, <1>5, <2>1, Zenon DEF check_export_chronology_v1
<1>8. /\ s.claims.sequence = 0 => s.claims.chain_hash = ZeroHash
      /\ d.claims.sequence = 0 => d.claims.chain_hash = ZeroHash
  BY <1>1, <1>3 DEF expectation_ok_v1, ExpectedAnchor
<1> HIDE DEF s, d, ts, n
<1>9. verify_historical_anchor_v1(s, keys[1], x.start_anchor)
  <2>1. key_window_v1(keys[1])
    BY <1>1, <1>6
  <2>2. QED
    BY <1>1, <1>2, <1>4, <1>5, <1>6, <1>8, <2>1
       DEF verify_historical_anchor_v1
<1>10. verify_historical_anchor_v1(d, keys[Len(keys)], x.end_anchor)
  <2>1. key_window_v1(keys[n + 1])
    BY <1>1, <1>6
  <2>2. QED
    BY <1>1, <1>2, <1>4, <1>5, <1>6, <1>8, <2>1
       DEF verify_historical_anchor_v1
<1>11. ASSUME NEW i \in 1 .. n
       PROVE  verify_key_transition_v1(ts[i], keys[i], keys[i + 1], x.transitions[i])
  <2>1. i \in 1 .. n + 1 /\ i + 1 \in 1 .. n + 1 /\ i # i + 1
    BY <1>1
  <2>2. /\ key_window_v1(keys[i]) /\ key_window_v1(keys[i + 1])
        /\ keys[i].public_key # keys[i + 1].public_key
    BY <1>5, <1>6, <2>1
  <2>3. QED
    BY <1>1, <1>2, <1>4, <1>5, <1>6, <2>2
       DEF verify_key_transition_v1
<1>12. expectation_ok_v1(x) /\ boundaries_bound_v1(x) /\ keys_ok_v1(keys, x)
  BY <1>3
<1>13. Len(ts) = Len(x.transitions)
  BY <1>1 DEF n
<1>14. QED
  BY <1>1, <1>7, <1>9, <1>10, <1>11, <1>12, <1>13
     DEF boundaries_authentic_v1, s, d, ts

LEMMA GenuineIsAuthenticV2 ==
  ASSUME NEW o, NEW a, NEW e, NEW keys, NEW x, Genuine(o.major, a, e, keys),
         Supplied(o, a, e, x), o.major = 2
  PROVE  boundaries_authentic_v2(a.start_anchor, a.transitions, a.end_anchor, keys, x)
<1> DEFINE s == a.start_anchor
           d == a.end_anchor
           ts == a.transitions
           n == Len(ts)
<1>1. /\ n \in Nat /\ DOMAIN ts = 1 .. n /\ DOMAIN keys = 1 .. n + 1 /\ Len(keys) = n + 1
      /\ n = Len(x.transitions)
      /\ ExpectedAnchor(s.claims) = x.start_anchor /\ ExpectedAnchor(d.claims) = x.end_anchor
      /\ \A i \in 1 .. n : ExpectedKeyTransition(ts[i].claims) = x.transitions[i]
  BY DEF Genuine, Framed, Supplied, expected_transitions
<1>2. /\ decode_anchor_parts_v2(s) /\ decode_anchor_parts_v2(d)
      /\ \A i \in 1 .. n : decode_transition_parts_v2(ts[i])
  BY <1>1 DEF Genuine, Framed, boundaries_decode
<1>3. /\ expectation_ok_v1(x) /\ boundaries_bound_v1(x) /\ keys_ok_v1(keys, x)
  BY GenuineStorage
<1>4. /\ thumbprint_raw(keys[1].public_key) /\ ed25519_verify(keys[1].public_key, s)
      /\ thumbprint_raw(keys[n + 1].public_key) /\ ed25519_verify(keys[n + 1].public_key, d)
      /\ \A i \in 1 .. n : /\ thumbprint_raw(keys[i].public_key)
                           /\ thumbprint_raw(keys[i + 1].public_key)
                           /\ ed25519_verify(keys[i].public_key, ts[i])
  <2>1. /\ s.signer = keys[1].public_key /\ d.signer = keys[n + 1].public_key
        /\ \A i \in 1 .. n : ts[i].signer = keys[i].public_key
        /\ s.scalar = "canonical" /\ d.scalar = "canonical"
        /\ \A i \in 1 .. n : ts[i].scalar = "canonical"
    BY <1>1 DEF Genuine, MadeUnder, Framed
  <2>2. \A i \in 1 .. n + 1 : SuiteKey(2, keys[i].public_key)
    BY <1>1 DEF Genuine
  <2>3. 1 \in 1 .. n + 1 /\ n + 1 \in 1 .. n + 1
        /\ \A i \in 1 .. n : i \in 1 .. n + 1 /\ i + 1 \in 1 .. n + 1
    BY <1>1
  <2>4. \A i \in 1 .. n + 1 : thumbprint_raw(keys[i].public_key)
    BY <2>2 DEF SuiteKey, thumbprint_raw, thumbprint_raw_v3
  <2> HIDE DEF s, d, ts, n
  <2>5. QED
    BY <2>1, <2>2, <2>3, <2>4, SuiteSignature DEF EvidenceMajors
<1>5. /\ s.claims.key_id = keys[1].key_id /\ s.claims.key_fingerprint = keys[1].public_key
      /\ d.claims.key_id = keys[n + 1].key_id
      /\ d.claims.key_fingerprint = keys[n + 1].public_key
      /\ \A i \in 1 .. n :
           LET c == ts[i].claims
           IN  /\ c.current_key_id = keys[i].key_id
               /\ c.current_key_fingerprint = keys[i].public_key
               /\ c.next_key_id = keys[i + 1].key_id
               /\ c.next_key_fingerprint = keys[i + 1].public_key
      /\ \A i, j \in 1 .. n + 1 : i # j => keys[i].public_key # keys[j].public_key
  BY GenuineKeys
<1>6. /\ \A i \in 1 .. n + 1 : key_window_v1(keys[i])
      /\ in_interval_v1(s.claims.anchored_at, keys[1])
      /\ in_interval_v1(d.claims.anchored_at, keys[n + 1])
      /\ \A i \in 1 .. n : /\ in_interval_v1(ts[i].claims.effective_at, keys[i])
                           /\ in_interval_v1(ts[i].claims.effective_at, keys[i + 1])
  BY GenuineTimes
<1>7. check_export_chronology_v2(s, ts, d, keys)
  <2>1. /\ n = 0 => s.claims.anchored_at <= d.claims.anchored_at
        /\ \A i \in 2 .. n : ts[i - 1].claims.effective_at < ts[i].claims.effective_at
        /\ n > 0 => /\ s.claims.anchored_at < ts[1].claims.effective_at
                    /\ d.claims.anchored_at >= ts[n].claims.effective_at
    BY GenuineTimes
  <2>2. QED
    BY <1>1, <1>5, <2>1, Zenon DEF check_export_chronology_v2
<1>8. /\ s.claims.sequence = 0 => s.claims.chain_hash = ZeroHash
      /\ d.claims.sequence = 0 => d.claims.chain_hash = ZeroHash
  BY <1>1, <1>3 DEF expectation_ok_v1, ExpectedAnchor
<1> HIDE DEF s, d, ts, n
<1>9. verify_historical_anchor_v2(s, keys[1], x.start_anchor)
  <2>1. key_window_v1(keys[1])
    BY <1>1, <1>6
  <2>2. QED
    BY <1>1, <1>2, <1>4, <1>5, <1>6, <1>8, <2>1
       DEF verify_historical_anchor_v2, key_window_v1, key_window_v2, in_interval_v1,
           in_interval_v2
<1>10. verify_historical_anchor_v2(d, keys[Len(keys)], x.end_anchor)
  <2>1. key_window_v1(keys[n + 1])
    BY <1>1, <1>6
  <2>2. QED
    BY <1>1, <1>2, <1>4, <1>5, <1>6, <1>8, <2>1
       DEF verify_historical_anchor_v2, key_window_v1, key_window_v2, in_interval_v1,
           in_interval_v2
<1>11. ASSUME NEW i \in 1 .. n
       PROVE  verify_key_transition_v2(ts[i], keys[i], keys[i + 1], x.transitions[i])
  <2>1. i \in 1 .. n + 1 /\ i + 1 \in 1 .. n + 1 /\ i # i + 1
    BY <1>1
  <2>2. /\ key_window_v1(keys[i]) /\ key_window_v1(keys[i + 1])
        /\ keys[i].public_key # keys[i + 1].public_key
    BY <1>5, <1>6, <2>1
  <2>3. QED
    BY <1>1, <1>2, <1>4, <1>5, <1>6, <2>2
       DEF verify_key_transition_v2, key_window_v1, key_window_v2, in_interval_v1,
           in_interval_v2
<1>12. expectation_ok_v2(x) /\ boundaries_bound_v2(x) /\ keys_ok_v2(keys, x)
  BY <1>3, Zenon
     DEF expectation_ok_v1, expectation_ok_v2, boundaries_bound_v1, boundaries_bound_v2,
         keys_ok_v1, keys_ok_v2, key_window_v1, key_window_v2
<1>13. Len(ts) = Len(x.transitions)
  BY <1>1 DEF n
<1>14. QED
  BY <1>1, <1>7, <1>9, <1>10, <1>11, <1>12, <1>13
     DEF boundaries_authentic_v2, s, d, ts

LEMMA GenuineIsAuthenticV3 ==
  ASSUME NEW o, NEW a, NEW e, NEW keys, NEW x, Genuine(o.major, a, e, keys),
         Supplied(o, a, e, x), o.major = 3
  PROVE  boundaries_authentic_v3(a.start_anchor, a.transitions, a.end_anchor, keys, x)
<1> DEFINE s == a.start_anchor
           d == a.end_anchor
           ts == a.transitions
           n == Len(ts)
<1>1. /\ n \in Nat /\ DOMAIN ts = 1 .. n /\ DOMAIN keys = 1 .. n + 1 /\ Len(keys) = n + 1
      /\ n = Len(x.transitions)
      /\ ExpectedAnchor(s.claims) = x.start_anchor /\ ExpectedAnchor(d.claims) = x.end_anchor
      /\ \A i \in 1 .. n : ExpectedKeyTransition(ts[i].claims) = x.transitions[i]
  BY DEF Genuine, Framed, Supplied, expected_transitions
<1>2. /\ decode_anchor_parts_v3(s) /\ decode_anchor_parts_v3(d)
      /\ \A i \in 1 .. n : decode_transition_parts_v3(ts[i])
  BY <1>1 DEF Genuine, Framed, boundaries_decode
<1>3. /\ expectation_ok_v1(x) /\ boundaries_bound_v1(x) /\ keys_ok_v1(keys, x)
  BY GenuineStorage
<1>4. /\ thumbprint_raw_v3(keys[1].public_key) /\ es256_verify(keys[1].public_key, s)
      /\ thumbprint_raw_v3(keys[n + 1].public_key) /\ es256_verify(keys[n + 1].public_key, d)
      /\ \A i \in 1 .. n : /\ thumbprint_raw_v3(keys[i].public_key)
                           /\ thumbprint_raw_v3(keys[i + 1].public_key)
                           /\ es256_verify(keys[i].public_key, ts[i])
  <2>1. /\ s.signer = keys[1].public_key /\ d.signer = keys[n + 1].public_key
        /\ \A i \in 1 .. n : ts[i].signer = keys[i].public_key
        /\ s.scalar = "canonical" /\ d.scalar = "canonical"
        /\ \A i \in 1 .. n : ts[i].scalar = "canonical"
    BY <1>1 DEF Genuine, MadeUnder, Framed
  <2>2. \A i \in 1 .. n + 1 : SuiteKey(3, keys[i].public_key)
    BY <1>1 DEF Genuine
  <2>3. 1 \in 1 .. n + 1 /\ n + 1 \in 1 .. n + 1
        /\ \A i \in 1 .. n : i \in 1 .. n + 1 /\ i + 1 \in 1 .. n + 1
    BY <1>1
  <2>4. \A i \in 1 .. n + 1 : thumbprint_raw_v3(keys[i].public_key)
    BY <2>2 DEF SuiteKey, thumbprint_raw, thumbprint_raw_v3
  <2> HIDE DEF s, d, ts, n
  <2>5. QED
    BY <2>1, <2>2, <2>3, <2>4, SuiteSignature DEF EvidenceMajors
<1>5. /\ s.claims.key_id = keys[1].key_id /\ s.claims.key_fingerprint = keys[1].public_key
      /\ d.claims.key_id = keys[n + 1].key_id
      /\ d.claims.key_fingerprint = keys[n + 1].public_key
      /\ \A i \in 1 .. n :
           LET c == ts[i].claims
           IN  /\ c.current_key_id = keys[i].key_id
               /\ c.current_key_fingerprint = keys[i].public_key
               /\ c.next_key_id = keys[i + 1].key_id
               /\ c.next_key_fingerprint = keys[i + 1].public_key
      /\ \A i, j \in 1 .. n + 1 : i # j => keys[i].public_key # keys[j].public_key
  BY GenuineKeys
<1>6. /\ \A i \in 1 .. n + 1 : key_window_v1(keys[i])
      /\ in_interval_v1(s.claims.anchored_at, keys[1])
      /\ in_interval_v1(d.claims.anchored_at, keys[n + 1])
      /\ \A i \in 1 .. n : /\ in_interval_v1(ts[i].claims.effective_at, keys[i])
                           /\ in_interval_v1(ts[i].claims.effective_at, keys[i + 1])
  BY GenuineTimes
<1>7. check_export_chronology_v3(s, ts, d, keys)
  <2>1. /\ n = 0 => s.claims.anchored_at <= d.claims.anchored_at
        /\ \A i \in 2 .. n : ts[i - 1].claims.effective_at < ts[i].claims.effective_at
        /\ n > 0 => /\ s.claims.anchored_at < ts[1].claims.effective_at
                    /\ d.claims.anchored_at >= ts[n].claims.effective_at
    BY GenuineTimes
  <2>2. QED
    BY <1>1, <1>5, <2>1, Zenon DEF check_export_chronology_v3
<1>8. /\ s.claims.sequence = 0 => s.claims.chain_hash = ZeroHash
      /\ d.claims.sequence = 0 => d.claims.chain_hash = ZeroHash
  BY <1>1, <1>3 DEF expectation_ok_v1, ExpectedAnchor
<1> HIDE DEF s, d, ts, n
<1>9. verify_historical_anchor_v3(s, keys[1], x.start_anchor)
  <2>1. key_window_v1(keys[1])
    BY <1>1, <1>6
  <2>2. QED
    BY <1>1, <1>2, <1>4, <1>5, <1>6, <1>8, <2>1
       DEF verify_historical_anchor_v3, key_window_v1, key_window_v3, in_interval_v1,
           in_interval_v3
<1>10. verify_historical_anchor_v3(d, keys[Len(keys)], x.end_anchor)
  <2>1. key_window_v1(keys[n + 1])
    BY <1>1, <1>6
  <2>2. QED
    BY <1>1, <1>2, <1>4, <1>5, <1>6, <1>8, <2>1
       DEF verify_historical_anchor_v3, key_window_v1, key_window_v3, in_interval_v1,
           in_interval_v3
<1>11. ASSUME NEW i \in 1 .. n
       PROVE  verify_key_transition_v3(ts[i], keys[i], keys[i + 1], x.transitions[i])
  <2>1. i \in 1 .. n + 1 /\ i + 1 \in 1 .. n + 1 /\ i # i + 1
    BY <1>1
  <2>2. /\ key_window_v1(keys[i]) /\ key_window_v1(keys[i + 1])
        /\ keys[i].public_key # keys[i + 1].public_key
    BY <1>5, <1>6, <2>1
  <2>3. QED
    BY <1>1, <1>2, <1>4, <1>5, <1>6, <2>2
       DEF verify_key_transition_v3, key_window_v1, key_window_v3, in_interval_v1,
           in_interval_v3
<1>12. expectation_ok_v3(x) /\ boundaries_bound_v3(x) /\ keys_ok_v3(keys, x)
  BY <1>3, Zenon
     DEF expectation_ok_v1, expectation_ok_v3, boundaries_bound_v1, boundaries_bound_v3,
         keys_ok_v1, keys_ok_v3, key_window_v1, key_window_v3
<1>13. Len(ts) = Len(x.transitions)
  BY <1>1 DEF n
<1>14. QED
  BY <1>1, <1>7, <1>9, <1>10, <1>11, <1>12, <1>13
     DEF boundaries_authentic_v3, s, d, ts

\* every check of verify_anchored_export, in each major
LEMMA GenuineVerifies ==
  ASSUME NEW o, NEW a, NEW e, NEW keys, NEW x, Genuine(o.major, a, e, keys),
         Supplied(o, a, e, x)
  PROVE  verify_anchored_export(o.major, o, keys, x)
<1>1. o.archive = a /\ o.major \in EvidenceMajors /\ check_chain(o.major, a.rows, x.chain)
  BY GenuineStorage DEF Supplied, Genuine, Framed
<1>2. CASE o.major = 1
  <2>1. boundaries_authentic_v1(a.start_anchor, a.transitions, a.end_anchor, keys, x)
    BY <1>2, GenuineIsAuthenticV1
  <2>2. stored_ok_v1(o, x) /\ header_matches_v1(a.header, x)
    BY <1>2, GenuineStorage
  <2>3. check_chain_v1(a.rows, x.chain)
    BY <1>1, <1>2 DEF check_chain
  <2>4. QED
    BY <1>1, <1>2, <2>1, <2>2, <2>3
       DEF verify_anchored_export, verify_anchored_export_v1
<1>3. CASE o.major = 2
  <2>1. boundaries_authentic_v2(a.start_anchor, a.transitions, a.end_anchor, keys, x)
    BY <1>3, GenuineIsAuthenticV2
  <2>2. stored_ok_v2(o, x) /\ header_matches_v2(a.header, x)
    BY <1>3, GenuineStorage
  <2>3. check_chain_v2(a.rows, x.chain)
    BY <1>1, <1>3 DEF check_chain
  <2>4. QED
    BY <1>1, <1>3, <2>1, <2>2, <2>3
       DEF verify_anchored_export, verify_anchored_export_v2
<1>4. CASE o.major = 3
  <2>1. boundaries_authentic_v3(a.start_anchor, a.transitions, a.end_anchor, keys, x)
    BY <1>4, GenuineIsAuthenticV3
  <2>2. stored_ok_v3(o, x) /\ header_matches_v3(a.header, x)
    BY <1>4, GenuineStorage
  <2>3. check_chain_v3(a.rows, x.chain)
    BY <1>1, <1>4 DEF check_chain
  <2>4. QED
    BY <1>1, <1>4, <2>1, <2>2, <2>3
       DEF verify_anchored_export, verify_anchored_export_v3
<1>5. QED
  BY <1>1, <1>2, <1>3, <1>4 DEF EvidenceMajors

\* the custodian's keys among them are keys of the suite: each of them made an
\* anchor or a transition of the archive, and that one is the custodian's own
LEMMA HonestKeysAreSuiteKeys ==
  ASSUME TypeOK, EvidenceUnderSuiteKeys, NEW m, NEW a, NEW e, NEW keys, Framed(m, a, e),
         a.start_anchor \in AnchorsOnWire, a.end_anchor \in AnchorsOnWire,
         Len(a.transitions) \in Nat, DOMAIN a.transitions = 1 .. Len(a.transitions),
         \A i \in DOMAIN a.transitions : a.transitions[i] \in TransitionsOnWire,
         MadeUnder(a, e, keys),
         NEW i \in 1 .. Len(a.transitions) + 1, keys[i].public_key \in HonestKey
  PROVE  SuiteKey(m, keys[i].public_key)
<1> DEFINE n == Len(a.transitions)
           k == keys[i].public_key
<1>1. CASE i = n + 1
  <2>1. SignedBy(a.end_anchor, k) /\ a.end_anchor.claims.v = m
    BY <1>1 DEF MadeUnder, Framed, SignedBy
  <2>2. a.end_anchor \in anchors
    BY <2>1, HonestAnchor
  <2>3. QED
    BY <2>1, <2>2 DEF EvidenceUnderSuiteKeys, SignedBy
<1>2. CASE i \in 1 .. n
  <2> DEFINE t == a.transitions[i]
  <2>1. t.signer = k /\ t.scalar = "canonical" /\ t.claims.v = m /\ t \in TransitionsOnWire
    BY <1>2 DEF MadeUnder, Framed
  <2> HIDE DEF t
  <2>2. t \notin ForgedTransitions
    BY <2>1, ForgeryAssumption
  <2>3. ASSUME NEW u \in transitions PROVE shifted(u).scalar # "canonical"
    BY DEF shifted, TypeOK, IsAssembled, IsCompact
  <2>4. t \in transitions
    BY <2>1, <2>2, <2>3 DEF TransitionsOnWire
  <2>5. QED
    BY <2>1, <2>4 DEF EvidenceUnderSuiteKeys
<1>3. QED
  BY <1>1, <1>2

LEMMA EncodedExportsVerify ==
  ASSUME TypeOK, ExportsAreEncoded, EvidenceUnderSuiteKeys
  PROVE  ExportVerifies
<1> SUFFICES ASSUME NEW o \in exported,
                    NEW keys \in [1 .. Len(o.archive.transitions) + 1 -> KeysOnWire],
                    LET a == o.archive
                        e == claimed(a.start_anchor, a.transitions, a.end_anchor)
                    IN  /\ MadeUnder(a, e, keys) /\ MadeInForce(a, e, keys)
                        /\ \A i \in DOMAIN keys :
                             \/ keys[i].public_key \in HonestKey
                             \/ SuiteKey(o.major, keys[i].public_key)
             PROVE  LET a == o.archive
                        e == claimed(a.start_anchor, a.transitions, a.end_anchor)
                    IN  verify_anchored_export(o.major, o, keys, expect(e, a, o.version))
  BY Zenon DEF ExportVerifies
<1> DEFINE a == o.archive
           e == claimed(a.start_anchor, a.transitions, a.end_anchor)
           n == Len(a.transitions)
<1>1. /\ MadeUnder(a, e, keys) /\ MadeInForce(a, e, keys)
      /\ \A i \in DOMAIN keys : \/ keys[i].public_key \in HonestKey
                                \/ SuiteKey(o.major, keys[i].public_key)
  OBVIOUS
<1>2. /\ a.start_anchor \in AnchorsOnWire /\ a.end_anchor \in AnchorsOnWire
      /\ a.transitions \in SeqsUpTo(TransitionsOnWire, MaxPath)
      /\ encode_anchored_export_ok(o.major, a.start_anchor, a.transitions, a.rows,
                                   a.end_anchor, e)
      /\ a = encode_anchored_export(o.major, a.start_anchor, a.transitions, a.rows,
                                    a.end_anchor, e)
      /\ o.chunks = frame_count(a.transitions, a.rows)
  BY Zenon DEF ExportsAreEncoded
<1>3. Framed(o.major, a, e)
  BY <1>2, EncodedIsFramed
<1>4. /\ n \in Nat /\ DOMAIN a.transitions = 1 .. n
      /\ \A i \in DOMAIN a.transitions : a.transitions[i] \in TransitionsOnWire
  <2>1. PICK k \in 0 .. MaxPath : a.transitions \in [1 .. k -> TransitionsOnWire]
    BY <1>2 DEF SeqsUpTo
  <2>2. k \in Nat
    BY BoundsAssumption
  <2>3. a.transitions \in Seq(TransitionsOnWire) /\ n = k
    BY <2>1, <2>2
  <2>4. QED
    BY <2>1, <2>2, <2>3
<1>5. DOMAIN keys = 1 .. n + 1 /\ Len(keys) = n + 1
  <2>1. keys \in Seq(KeysOnWire) /\ Len(keys) = n + 1
    BY <1>4
  <2>2. QED
    BY <2>1
<1>6. \A i \in DOMAIN keys : SuiteKey(o.major, keys[i].public_key)
  BY <1>1, <1>2, <1>3, <1>4, <1>5, HonestKeysAreSuiteKeys
<1>7. Genuine(o.major, a, e, keys)
  BY <1>1, <1>3, <1>4, <1>5, <1>6 DEF Genuine
<1> DEFINE x == expect(e, a, o.version)
<1>8. Supplied(o, a, e, x)
  <2>1. /\ x.chain = e.chain /\ x.start_anchor = e.start_anchor
        /\ x.end_anchor = e.end_anchor /\ x.transitions = e.transitions
        /\ x.digest = a /\ x.object_version = o.version
    BY DEF expect
  <2>2. QED
    BY <1>2, <2>1, Zenon DEF Supplied
<1> HIDE DEF x, e
<1>9. verify_anchored_export(o.major, o, keys, x)
  BY <1>7, <1>8, GenuineVerifies
<1>10. QED
  BY <1>9 DEF x, e

(***************************************************************************)
(* The theorems.                                                           *)
(***************************************************************************)

IInv ==
  /\ TypeOK /\ LogLinked /\ AnchorsAreHeads /\ TransitionsFollowPath /\ ReportsAreChains
  /\ ExportIsTheLog /\ CustodyFollowed

LEMMA InvariantInit == Init => IInv
<1>1. Init => AnchorsAreHeads /\ TransitionsFollowPath /\ ReportsAreChains
              /\ ExportIsTheLog /\ CustodyFollowed
  BY DEF Init, AnchorsAreHeads, TransitionsFollowPath, ReportsAreChains, ExportIsTheLog,
         CustodyFollowed
<1>2. QED
  BY <1>1, TypeInit, LogLinkedInit DEF IInv

LEMMA InvariantStep == IInv /\ [Next]_vars => IInv'
BY TypeStep, LogLinkedStep, AnchorsAreHeadsStep, TransitionsStep, ReportsAreChainsStep,
   ExportIsTheLogStep, CustodyFollowedStep
   DEF IInv

\* The rows of a chain stay linked, what the custodian signed stays true of the
\* log and of its own keys, and whatever verifies is a chain.
THEOREM Inductive == Spec => []IInv
BY InvariantInit, InvariantStep, PTL DEF Spec

\* verify_anchored_export: whoever starts from a key of the custodian is told
\* what the writer wrote, byte for byte and with nothing left out.
THEOREM ExportsAreTheLog == Spec => []ExportIsTheLog
<1>1. IInv => ExportIsTheLog
  BY DEF IInv
<1>2. QED
  BY <1>1, Inductive, PTL

\* verify_anchored_export: the keys it went through are the custodian's, in the
\* custodian's order, by transitions that the custodian made for this chain.
THEOREM CustodyIsFollowed == Spec => []CustodyFollowed
<1>1. IInv => CustodyFollowed
  BY DEF IInv
<1>2. QED
  BY <1>1, Inductive, PTL

\* check_chain: two archives that end in the same hash do not
\* disagree about any row they share, whoever's keys they are under.
THEOREM HeadsFixHistory == Spec => []HeadFixesHistory
<1>1. IInv => HeadFixesHistory
  BY ChainsFixHistory DEF IInv
<1>2. QED
  BY <1>1, Inductive, PTL

\* encode_anchored_export: what it frames, verify_anchored_export accepts, of
\* every major, for whoever expects what was exported and asks with keys whose
\* windows hold the times of the evidence.
THEOREM ExportsVerify == Spec => []ExportVerifies
<1>1. Init => ExportsAreEncoded /\ EvidenceUnderSuiteKeys
  BY DEF Init, ExportsAreEncoded, EvidenceUnderSuiteKeys
<1>2. IInv /\ ExportsAreEncoded /\ [Next]_vars => ExportsAreEncoded'
  BY ExportsAreEncodedStep DEF IInv
<1>3. IInv /\ EvidenceUnderSuiteKeys /\ [Next]_vars => EvidenceUnderSuiteKeys'
  BY EvidenceUnderSuiteKeysStep DEF IInv
<1>4. IInv /\ ExportsAreEncoded /\ EvidenceUnderSuiteKeys => ExportVerifies
  BY EncodedExportsVerify DEF IInv
<1>5. QED
  BY <1>1, <1>2, <1>3, <1>4, Inductive, PTL DEF Spec

(***************************************************************************)
(* The abstract log.                                                       *)
(***************************************************************************)

LEMMA IdealInit == Init => Ideal!Init
BY DEF Init, Ideal!Init

LEMMA IdealStep ==
  IInv /\ IInv' /\ [Next]_vars
  => [Ideal!Next]_<<log, {ReportOf(x) : x \in {y \in verified :
                                                y.keys[1].public_key \in HonestKey}}>>
<1> DEFINE Told == {ReportOf(x) : x \in {y \in verified : y.keys[1].public_key \in HonestKey}}
<1> SUFFICES ASSUME IInv, IInv', [Next]_vars PROVE [Ideal!Next]_<<log, Told>>
  OBVIOUS
<1>1. CASE AppendRow
  <2>1. PICK c \in ChainId, m \in Commitment :
          log' = [d \in ChainId |-> IF d = c THEN Append(log[c], NextRow(c, m)) ELSE log[d]]
    BY <1>1, AppendedRow DEF IInv
  <2>2. Told' = Told
    BY <1>1 DEF AppendRow, ReportOf
  <2>3. /\ Len(log'[c]) = Len(log[c]) + 1 /\ Len(log[c]) \in Nat
        /\ log'[c][Len(log'[c])] = NextRow(c, m)
    BY <2>1, LogIsSeq, AppendGrows DEF IInv
  <2>4. log = [d \in ChainId |-> log[d]]
    BY DEF IInv, TypeOK
  <2>5. log' = [log EXCEPT ![c] = Append(@, log'[c][Len(log'[c])])]
    <3>1. DOMAIN log = ChainId
      BY <2>4
    <3>2. QED
      BY <2>1, <2>3, <3>1
  <2> HIDE DEF Told
  <2>6. Ideal!Record(c, log'[c][Len(log'[c])])
    BY <2>2, <2>5 DEF Ideal!Record, Told
  <2>7. Len(log'[c]) > 0
    BY <2>3
  <2>8. QED
    BY <2>6, <2>7 DEF Ideal!Next
<1>2. CASE VerifyArchive
  <2>1. UNCHANGED log
    BY <1>2 DEF VerifyArchive
  <2>2. PICK x : verified' = verified \cup {x}
    BY <1>2, VerifyArchiveStep
  <2>3. CASE x.keys[1].public_key \in HonestKey /\ ReportOf(x) \notin Told
    <3>1. Told' = Told \cup {ReportOf(x)}
      BY <2>2, <2>3 DEF ReportOf
    <3>2. x \in verified'
      BY <2>2
    <3> DEFINE c == x.facts.chain
               rows == x.facts.digest.rows
    <3>3. /\ c.last_sequence <= Len(log[c.chain_id])
          /\ rows = SubSeq(log[c.chain_id], c.first_sequence, c.last_sequence)
      BY <2>1, <2>3, <3>2 DEF IInv, ExportIsTheLog, Segment
    <3>4. /\ check_chain(x.major, rows, c) /\ IsInterval(c)
          /\ DOMAIN rows = 1 .. c.row_count
      BY <3>2 DEF IInv, ReportsAreChains
    <3>5. ReportOf(x) = [chain_id |-> c.chain_id, first |-> c.first_sequence,
                         records |-> rows]
      BY DEF ReportOf
    <3> HIDE DEF c, rows
    <3>6. /\ c.first_sequence \in Nat \ {0} /\ c.last_sequence \in Nat
          /\ c.row_count \in Nat \ {0}
          /\ c.row_count = c.last_sequence - c.first_sequence + 1
      BY <3>4, CheckedRows
    <3>7. Len(rows) = c.row_count
      BY <3>4, CheckedChain
    <3>8. rows # << >>
      BY <3>4, <3>6
    <3>9. c.first_sequence + Len(rows) - 1 = c.last_sequence
      BY <3>6, <3>7
    <3>10. Ideal!Report(ReportOf(x))
      <4> DEFINE y == ReportOf(x)
      <4>1. /\ y.records = rows /\ y.chain_id = c.chain_id /\ y.first = c.first_sequence
        BY <3>5
      <4>2. Told' = Told \cup {y}
        BY <3>1
      <4> HIDE DEF y
      <4>3. /\ y.records # << >>
            /\ y.first + Len(y.records) - 1 <= Len(log[y.chain_id])
            /\ y.records = SubSeq(log[y.chain_id], y.first, y.first + Len(y.records) - 1)
        BY <3>3, <3>8, <3>9, <4>1
      <4> HIDE DEF Told
      <4>4. Ideal!Report(y)
        BY <2>1, <4>2, <4>3 DEF Ideal!Report, Told
      <4>5. QED
        BY <4>4 DEF y
    <3>11. ReportOf(x) \in Told' \ Told
      BY <2>3, <3>1
    <3>12. QED
      BY <3>10, <3>11 DEF Ideal!Next
  <2>4. CASE ~ (x.keys[1].public_key \in HonestKey /\ ReportOf(x) \notin Told)
    <3>1. Told' = Told
      BY <2>2, <2>4 DEF ReportOf
    <3>2. QED
      BY <2>1, <3>1
  <2>5. QED
    BY <2>3, <2>4
<1>3. CASE UNCHANGED <<log, verified>>
  BY <1>3 DEF ReportOf
<1>4. QED
  BY <1>1, <1>2, <1>3 DEF Next, vars, Tick, SignAnchor, RotateKey, ExportLog

\* A writer, a custodian and an auditor who speak through this library keep a log
\* that is only appended to and reported as it is.
THEOREM Refinement == Spec => ImplementsTamperEvidentLog
BY Inductive, IdealInit, IdealStep, PTL DEF Spec, Ideal!Spec, ImplementsTamperEvidentLog
=============================================================================
