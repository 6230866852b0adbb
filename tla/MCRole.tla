-------------------------------- MODULE MCRole --------------------------------
(***************************************************************************)
(* Small instances of RoleSystem.  The attestor's keys are k1, which ends, *)
(* and k2, which takes over its id while it lasts; ak belongs to the       *)
(* adversary, and a host has admitted sk, which is of small order.         *)
(***************************************************************************)
EXTENDS RoleSystem

CONSTANTS k1, k2, ak, sk, s1, kid1, kid2, j1

Record(kid, key, from, before) ==
  [key_id |-> kid, public_key |-> key, valid_from |-> from, valid_before |-> before]

MCAttestorKeys == {Record(kid1, k1, 0, 2), Record(kid1, k2, 1, Unbounded)}
MCAdversaryKeys == {Record(kid2, ak, 0, Unbounded), Record(kid1, sk, 0, Unbounded)}

\* a subject, the adversary under either id, and an attestor under another id
MCSubject ==
  {[key_id |-> kid2, public_key |-> s1], [key_id |-> kid1, public_key |-> ak],
   [key_id |-> kid2, public_key |-> ak], [key_id |-> kid2, public_key |-> k1]}

MCValidity == {[nbf |-> 0, exp |-> 2], [nbf |-> 1, exp |-> 2], [nbf |-> 1, exp |-> 3],
               [nbf |-> 2, exp |-> 3], [nbf |-> 1, exp |-> 1]}
=============================================================================
