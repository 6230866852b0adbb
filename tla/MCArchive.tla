------------------------------ MODULE MCArchive ------------------------------
(***************************************************************************)
(* Small instances of ArchiveSystem.  The custodian's keys are k1, k2 and  *)
(* k3; ak belongs to the adversary, which also passes it off as the        *)
(* successor of k1; sk is a key of small order.                            *)
(***************************************************************************)
EXTENDS ArchiveSystem, TLC

CONSTANTS k1, k2, k3, ak, sk, kid1, kid2, a1, t1, ca, cb, m1, m2

Record(kid, key, from, before) ==
  [key_id |-> kid, public_key |-> key, valid_from |-> from, valid_before |-> before]

Row(major, c, n, previous, m) ==
  encode_consumption_entry(major,
    [chain_id |-> c, sequence |-> n, previous |-> previous, commitment |-> m])

ForgedAnchor(major, kid, key, c, n, h, at, signer) ==
  [claims |-> boundary_anchor_signing_input(major,
                [anchor_id |-> a1, anchored_at |-> at, chain_id |-> c, sequence |-> n,
                 chain_hash |-> h, key_id |-> kid, public_key |-> key]),
   form |-> "canonical", scalar |-> "canonical", signer |-> signer]

ForgedTransition(major, c, at, from, to) ==
  [claims |-> key_transition_signing_input(major,
                [transition_id |-> t1, chain_id |-> c, effective_at |-> at,
                 current_key_id |-> from.key_id, current_public_key |-> from.public_key,
                 next_key_id |-> to.key_id, next_public_key |-> to.public_key]),
   form |-> "canonical", scalar |-> "canonical", signer |-> ak]

\* one Ed25519 key for two chains of two majors, for ever
TwoMajors == (ca :> 1) @@ (cb :> 2)
OneKey == <<Record(kid1, k1, 0, Unbounded)>>
AdversaryKeys == {Record(kid2, ak, 0, Unbounded)}
SmallOrderKeys == {Record(kid2, sk, 0, Unbounded)}

\* an adversary's chain of one and of two rows, anchored with its own key, and
\* anchors that name the custodian's key or one that needs no signer
OwnRow == Row(1, ca, 1, ZeroHash, m2)
OwnHead == row_domain_hash(1, OwnRow)
OwnAnchors ==
  {ForgedAnchor(1, kid2, ak, ca, 0, ZeroHash, 0, ak),
   ForgedAnchor(1, kid2, ak, ca, 1, OwnHead, 0, ak),
   ForgedAnchor(1, kid2, ak, ca, 2, row_domain_hash(1, Row(1, ca, 2, OwnHead, m2)), 0, ak),
   ForgedAnchor(1, kid1, k1, ca, 1, OwnHead, 0, ak),
   ForgedAnchor(2, kid1, k1, ca, 1, row_domain_hash(2, Row(2, ca, 1, ZeroHash, m2)), 0,
                NoKey)}

\* P-256 keys that are replaced before they end, the first by one that keeps its id
ThirdMajor == ca :> 3
ThreeKeys == <<Record(kid1, k1, 0, 2), Record(kid1, k2, 1, Unbounded),
               Record(kid2, k3, 0, Unbounded)>>

\* ak as the successor of k1
SuccessorHead == row_domain_hash(3, Row(3, ca, 1, ZeroHash, m2))
SuccessorAnchors ==
  {ForgedAnchor(3, kid2, ak, ca, 1, SuccessorHead, at, ak) : at \in 1 .. MaxTime}
    \cup {ForgedAnchor(3, kid1, k1, ca, 1, SuccessorHead, 1, ak)}
SuccessorTransitions ==
  {ForgedTransition(3, ca, 1, KeyPath[1], CHOOSE k \in AdversaryKeys : TRUE)}
=============================================================================
