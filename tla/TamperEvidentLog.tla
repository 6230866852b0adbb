-------------------------- MODULE TamperEvidentLog --------------------------
(***************************************************************************)
(* What an archive of consumption or a lineage of assertions promises,     *)
(* without hashes, keys or archives: records are only appended, and        *)
(* whatever is reported of a chain is a contiguous piece of it.            *)
(* ArchiveSystem and LineageSystem implement this.                         *)
(***************************************************************************)
EXTENDS Integers, Sequences

CONSTANT ChainId

VARIABLES
  chain,      \* the records of each chain, in order
  reported    \* [chain_id, first, records]: what auditors have been told

Init == chain = [c \in ChainId |-> << >>] /\ reported = {}

Record(c, r) ==
  /\ chain' = [chain EXCEPT ![c] = Append(@, r)]
  /\ UNCHANGED reported

Report(x) ==
  /\ x.records # << >>
  /\ x.first + Len(x.records) - 1 <= Len(chain[x.chain_id])
  /\ x.records = SubSeq(chain[x.chain_id], x.first, x.first + Len(x.records) - 1)
  /\ reported' = reported \cup {x}
  /\ UNCHANGED chain

Next ==
  \/ \E c \in ChainId : Len(chain'[c]) > 0 /\ Record(c, chain'[c][Len(chain'[c])])
  \/ \E x \in reported' \ reported : Report(x)

Spec == Init /\ [][Next]_<<chain, reported>>
=============================================================================
