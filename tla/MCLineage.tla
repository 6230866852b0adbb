------------------------------ MODULE MCLineage ------------------------------
(***************************************************************************)
(* Small instances of LineageSystem.  The author's keys are k1 and k2; ak  *)
(* belongs to the adversary, under a key id of the author's.               *)
(***************************************************************************)
EXTENDS LineageSystem, TLC

CONSTANTS k1, k2, ak, kid1, kid2, j1, j2, ca, cb, m1, m2, r1, r2, sk

\* nothing tells the names of assertions apart
Names == Permutations(AssertionId)

Record(kid, key, from, before) ==
  [key_id |-> kid, public_key |-> key, valid_from |-> from, valid_before |-> before]

OneKey == {Record(kid1, k1, 0, Unbounded)}

\* the successor of a key keeps its id, and there is a time for both
TwoKeys == {Record(kid1, k1, 0, 2), Record(kid1, k2, 1, Unbounded)}

AdversaryKey == {Record(kid1, ak, 0, Unbounded)}

Lasting == {[wait |-> 0, life |-> MaxTime + 1]}

\* later, and for one moment; at once, and for two
Passing == {[wait |-> 1, life |-> 1], [wait |-> 0, life |-> 2]}
=============================================================================
