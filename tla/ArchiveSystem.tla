---------------------------- MODULE ArchiveSystem ----------------------------
(***************************************************************************)
(* The chain and archive functions in the system they are written for: a   *)
(* writer that appends rows, a custodian that anchors the head of a chain  *)
(* and rotates its key, an exporter, and an auditor whose storage is in    *)
(* the hands of an adversary.                                              *)
(*                                                                         *)
(* The adversary keeps every row, anchor and transition it has seen, makes *)
(* rows, anchors and transitions of its own, and presents any archive that *)
(* can be put together from them.  The auditor is not told what to expect  *)
(* by anyone it trusts: it expects what the archive claims, which is the   *)
(* most that verify can accept.  What it does know is the key it starts    *)
(* from.                                                                   *)
(***************************************************************************)
EXTENDS AnchoredExport, FiniteSets

CONSTANTS
  MajorOf,           \* the contract major that each chain is kept in
  KeyPath,           \* the custodian's keys, in the order it uses them
  OtherKeys,         \* records of keys that are not the custodian's
  ForgedAnchors, ForgedTransitions,
  ForgedCommitment,  \* what the adversary's own rows commit to
  Version,           \* versions of stored objects
  AnchorId, TransitionId,
  \* bounds of the model
  MaxTime, MaxLog, MaxAnchors, MaxPath, MaxExported, MaxVerified

HonestKey == {KeyPath[i].public_key : i \in DOMAIN KeyPath}

ASSUME CustodyAssumption ==
  /\ MajorOf \in [ChainId -> EvidenceMajors]
  /\ KeyPath \in Seq({KeyPath[i] : i \in DOMAIN KeyPath}) /\ KeyPath # << >>
  /\ \A i \in DOMAIN KeyPath : KeyPath[i].public_key \in Key
  /\ \A i, j \in DOMAIN KeyPath :
       KeyPath[i].public_key = KeyPath[j].public_key => i = j
ASSUME ForgeryAssumption ==
  /\ \A a \in ForgedAnchors : a.signer \notin HonestKey
  /\ \A t \in ForgedTransitions : t.signer \notin HonestKey

ASSUME BoundsAssumption == MaxTime \in Nat /\ MaxPath \in Nat

VARIABLES
  now,          \* the custodian's clock
  log,          \* the rows of each chain
  epoch,        \* which key of KeyPath is in custody of each chain
  anchors, transitions,   \* what the custodian signed
  exported,     \* [major, archive, version, chunks]: what encode has framed
  verified      \* [major, facts, keys]: what verify returned, and under which keys

vars == <<now, log, epoch, anchors, transitions, exported, verified>>

head(c) ==
  IF log[c] = << >> THEN ZeroHash ELSE row_domain_hash(MajorOf[c], log[c][Len(log[c])])
custody(c) == KeyPath[epoch[c]]

Init ==
  /\ now = 0
  /\ log = [c \in ChainId |-> << >>]
  /\ epoch = [c \in ChainId |-> 1]
  /\ anchors = {}
  /\ transitions = {}
  /\ exported = {}
  /\ verified = {}

Tick ==
  /\ now < MaxTime
  /\ now' = now + 1
  /\ UNCHANGED <<log, epoch, anchors, transitions, exported, verified>>

\* the writer encodes the next row on the hash of the last one
AppendRow ==
  /\ \E c \in ChainId, commitment \in Commitment :
       LET entry == [chain_id |-> c, sequence |-> Len(log[c]) + 1,
                     previous |-> head(c), commitment |-> commitment]
       IN  /\ Len(log[c]) < MaxLog
           /\ encode_consumption_entry_ok(MajorOf[c], entry)
           /\ log' = [log EXCEPT
                        ![c] = Append(@, encode_consumption_entry(MajorOf[c], entry))]
  /\ UNCHANGED <<now, epoch, anchors, transitions, exported, verified>>

\* what the custodian's signer makes of claims.  ECDSA signers give either
\* scalar: assemble_compact refuses one of the two.
Signed(claims, scalar, key) ==
  [claims |-> claims, form |-> "canonical", scalar |-> scalar, signer |-> key]

\* the custodian's anchor of the head of a chain, and its next transition
BoundaryAnchor(c, id) ==
  [anchor_id |-> id, anchored_at |-> now, chain_id |-> c,
   sequence |-> Len(log[c]), chain_hash |-> head(c),
   key_id |-> custody(c).key_id, public_key |-> custody(c).public_key]

KeyTransition(c, id) ==
  LET next == KeyPath[epoch[c] + 1]
  IN  [transition_id |-> id, chain_id |-> c, effective_at |-> now,
       current_key_id |-> custody(c).key_id, current_public_key |-> custody(c).public_key,
       next_key_id |-> next.key_id, next_public_key |-> next.public_key]

\* boundary_anchor_signing_input, the signature, assemble_compact
SignAnchor ==
  /\ Cardinality(anchors) < MaxAnchors
  /\ \E c \in ChainId, id \in AnchorId, scalar \in Scalar :
       LET input == BoundaryAnchor(c, id)
           anchor == Signed(boundary_anchor_signing_input(MajorOf[c], input), scalar,
                            custody(c).public_key)
       IN  /\ boundary_anchor_signing_input_ok(MajorOf[c], input)
           /\ assemble_evidence(MajorOf[c], "ChainAnchor", anchor)
           /\ anchors' = anchors \cup {anchor}
  /\ UNCHANGED <<now, log, epoch, transitions, exported, verified>>

\* key_transition_signing_input: the key in custody signs its successor in
RotateKey ==
  /\ \E c \in ChainId, id \in TransitionId, scalar \in Scalar :
       /\ epoch[c] < Len(KeyPath)
       /\ LET input == KeyTransition(c, id)
              transition == Signed(key_transition_signing_input(MajorOf[c], input), scalar,
                                   custody(c).public_key)
          IN  /\ key_transition_signing_input_ok(MajorOf[c], input)
              /\ assemble_evidence(MajorOf[c], "KeyTransition", transition)
              /\ transitions' = transitions \cup {transition}
       /\ epoch' = [epoch EXCEPT ![c] = @ + 1]
  /\ UNCHANGED <<now, log, anchors, exported, verified>>

-----------------------------------------------------------------------------
(***************************************************************************)
(* What an archive can be put together from.                               *)
(***************************************************************************)

LogRows == UNION {{log[c][i] : i \in DOMAIN log[c]} : c \in ChainId}

\* rows anybody can chain to the given rows, or to nothing, for a major
ChainedTo(major, rows) ==
  {encode_consumption_entry(major,
     [chain_id |-> c, sequence |-> 1, previous |-> ZeroHash, commitment |-> m]) :
     c \in ChainId, m \in ForgedCommitment}
    \cup
  {encode_consumption_entry(major,
     [chain_id |-> r.entry.chain_id, sequence |-> r.entry.sequence + 1,
      previous |-> row_domain_hash(major, r), commitment |-> m]) :
     r \in rows, m \in ForgedCommitment}

\* other bytes for the same entries
Reformed(rows) == {[r EXCEPT !.form = "other"] : r \in rows}

RowsOnWire(major) ==
  LET forged == ChainedTo(major, LogRows)
  IN  LogRows \cup Reformed(LogRows) \cup forged \cup ChainedTo(major, forged)

AnchorsOnWire == anchors \cup {shifted(a) : a \in anchors} \cup ForgedAnchors
TransitionsOnWire ==
  transitions \cup {shifted(t) : t \in transitions} \cup ForgedTransitions

KeysOnWire == {KeyPath[i] : i \in DOMAIN KeyPath} \cup OtherKeys

\* the expectation an archive states for itself.  The context checks, the header
\* and the claims leave verify no other that it could accept.
claimed(start, ts, end) ==
  [chain |-> [chain_id |-> end.claims.chain_id,
              first_sequence |-> start.claims.sequence + 1,
              last_sequence |-> end.claims.sequence,
              row_count |-> end.claims.sequence - start.claims.sequence,
              previous_hash |-> start.claims.chain_hash,
              head_hash |-> end.claims.chain_hash],
   start_anchor |-> ExpectedAnchor(start.claims), transitions |-> expected_transitions(ts),
   end_anchor |-> ExpectedAnchor(end.claims)]

expect(e, archive, version) ==
  [chain |-> e.chain, start_anchor |-> e.start_anchor, transitions |-> e.transitions,
   end_anchor |-> e.end_anchor, digest |-> archive, object_version |-> version]

SeqsUpTo(S, n) == UNION {[1 .. k -> S] : k \in 0 .. n}

\* encode_anchored_export, over rows read from the log
ExportLog ==
  /\ Cardinality(exported) < MaxExported
  /\ \E start, end \in AnchorsOnWire, ts \in SeqsUpTo(TransitionsOnWire, MaxPath),
        version \in Version :
       LET e == claimed(start, ts, end)
           c == e.chain.chain_id
           rows == SubSeq(log[c], e.chain.first_sequence, e.chain.last_sequence)
       IN  /\ e.chain.last_sequence <= Len(log[c])
           /\ encode_anchored_export_ok(MajorOf[c], start, ts, rows, end, e)
           /\ exported' = exported \cup
                {[major |-> MajorOf[c],
                  archive |-> encode_anchored_export(MajorOf[c], start, ts, rows, end, e),
                  version |-> version, chunks |-> frame_count(ts, rows)]}
  /\ UNCHANGED <<now, log, epoch, anchors, transitions, verified>>

\* verify_anchored_export of any major.  Conditions that say nothing about the
\* keys stand before the choice of keys, and so for the rows.
VerifyArchive ==
  /\ Cardinality(verified) < MaxVerified
  /\ \E major \in EvidenceMajors, start, end \in AnchorsOnWire,
        ts \in SeqsUpTo(TransitionsOnWire, MaxPath) :
       LET e == claimed(start, ts, end)
       IN  /\ boundaries_decode(major, start, ts, end)
           /\ expectation_ok(major, e)
           /\ \E keys \in [1 .. Len(ts) + 1 -> KeysOnWire] :
                /\ boundaries_authentic(major, start, ts, end, keys, e)
                /\ \E rows \in [1 .. e.chain.row_count -> RowsOnWire(major)],
                      version \in Version :
                     LET archive == encode_anchored_export(major, start, ts, rows, end, e)
                         object == [archive |-> archive, version |-> version, chunks |-> 1]
                         x == expect(e, archive, version)
                     IN  /\ verify_anchored_export(major, object, keys, x)
                         /\ verified' = verified \cup
                              {[major |-> major, facts |-> AnchoredExportFacts(object, x),
                                keys |-> keys]}
  /\ UNCHANGED <<now, log, epoch, anchors, transitions, exported>>

Next ==
  \/ Tick
  \/ AppendRow
  \/ SignAnchor
  \/ RotateKey
  \/ ExportLog
  \/ VerifyArchive

Spec == Init /\ [][Next]_vars

-----------------------------------------------------------------------------
(***************************************************************************)
(* Type invariant: a row's previous is a digest of any depth, and is left  *)
(* to LogLinked.                                                           *)
(***************************************************************************)

IsRow(r) == r = [v |-> r.v, entry |-> r.entry, form |-> r.form]

IsCompact(x) ==
  x = [claims |-> x.claims, form |-> x.form, scalar |-> x.scalar, signer |-> x.signer]

IsAssembled(x) ==
  /\ IsCompact(x) /\ x.scalar = "canonical"
  /\ x.claims.chain_id \in ChainId /\ x.claims.v = MajorOf[x.claims.chain_id]

\* every row is one that the writer's major encodes, and whatever the custodian
\* signed went through assemble_compact of that major
TypeOK ==
  /\ now \in 0 .. MaxTime
  /\ log = [c \in ChainId |-> log[c]]
  /\ \A c \in ChainId :
       /\ log[c] \in Seq({log[c][i] : i \in DOMAIN log[c]})
       /\ Len(log[c]) <= IntegerMagnitude
       /\ \A i \in DOMAIN log[c] : IsRow(log[c][i]) /\ log[c][i].v = MajorOf[c]
  /\ epoch \in [ChainId -> DOMAIN KeyPath]
  /\ \A a \in anchors : IsAssembled(a) /\ a.claims.sequence \in Nat
  /\ \A t \in transitions : IsAssembled(t)

(***************************************************************************)
(* Safety.                                                                 *)
(***************************************************************************)

Segment(c, first, last) == SubSeq(log[c], first, last)

\* verify_anchored_export: whoever starts from a key of the custodian is told
\* what the writer wrote, byte for byte and with nothing left out, in the major
\* it was written in, though the rows, the later keys, the anchors and the
\* expectation are the adversary's choice.
ExportIsTheLog ==
  \A x \in verified : x.keys[1].public_key \in HonestKey =>
    LET c == x.facts.chain
    IN  /\ x.major = MajorOf[c.chain_id]
        /\ c.last_sequence <= Len(log[c.chain_id])
        /\ x.facts.digest.rows = Segment(c.chain_id, c.first_sequence, c.last_sequence)

\* verify_anchored_export: the keys it went through are the ones the custodian
\* went through, in order and without a gap, at the times and on the chain at
\* which the custodian changed them.
CustodyFollowed ==
  \A x \in verified : x.keys[1].public_key \in HonestKey =>
    LET ts == x.facts.digest.transitions
    IN  \E k \in DOMAIN KeyPath :
          \A i \in DOMAIN x.keys :
            /\ k + i - 1 \in DOMAIN KeyPath
            /\ x.keys[i].public_key = KeyPath[k + i - 1].public_key
            /\ i > 1 => ts[i - 1] \in transitions
                        /\ ts[i - 1].claims.chain_id = x.facts.chain.chain_id

\* check_chain: a head fixes its history.  Whoever the keys belong to and
\* whichever major was asked, two archives that end in the same hash do not
\* disagree about any row they share.
HeadFixesHistory ==
  \A x, y \in verified :
    LET c == x.facts.chain  d == y.facts.chain
        from == IF c.first_sequence > d.first_sequence THEN c.first_sequence
                ELSE d.first_sequence
    IN  c.head_hash = d.head_hash =>
          /\ x.major = y.major
          /\ c.last_sequence = d.last_sequence
          /\ \A n \in from .. c.last_sequence :
               x.facts.digest.rows[n - c.first_sequence + 1]
                 = y.facts.digest.rows[n - d.first_sequence + 1]

\* a key that the suite of a major can use
SuiteKey(major, key) ==
  IF major = 3 THEN validate_point(key) ELSE acceptable_public_key(key)

\* the keys of the path that an archive claims made its signatures.  The path of
\* major 1 stands for that of every major.
MadeUnder(a, e, keys) ==
  LET n == Len(a.transitions)
  IN  /\ \A i \in 0 .. n :
           path_key_v1(e, i) = <<keys[i + 1].key_id, keys[i + 1].public_key>>
      /\ a.start_anchor.signer = keys[1].public_key
      /\ a.end_anchor.signer = keys[n + 1].public_key
      /\ \A i \in 1 .. n : a.transitions[i].signer = keys[i].public_key

\* a window whose ends can be written down, with the time inside it
inside_window(t, k) ==
  /\ k.valid_from \in InMagnitude /\ k.valid_from <= t
  /\ k.valid_before # Unbounded => k.valid_before \in InMagnitude /\ t < k.valid_before

\* each key was in force whenever the archive says it signed or took over
MadeInForce(a, e, keys) ==
  LET n == Len(a.transitions)
  IN  /\ inside_window(path_time_v1(e, 0), keys[1])
      /\ \A i \in 1 .. n :
           /\ inside_window(path_time_v1(e, i), keys[i])
           /\ inside_window(path_time_v1(e, i), keys[i + 1])
      /\ inside_window(e.end_anchor.anchored_at, keys[n + 1])

\* encode_anchored_export: what it frames out of signatures that are genuine is
\* accepted later, under the keys that made them, if they were made while those
\* keys were in force.  Of the keys that are not the custodian's, the suite must
\* be able to use them: who signs under others is on their own.
ExportVerifies ==
  \A o \in exported :
    LET a == o.archive
        e == claimed(a.start_anchor, a.transitions, a.end_anchor)
    IN  \A keys \in [1 .. Len(a.transitions) + 1 -> KeysOnWire] :
          (/\ MadeUnder(a, e, keys) /\ MadeInForce(a, e, keys)
           /\ \A i \in DOMAIN keys :
                keys[i].public_key \in HonestKey \/ SuiteKey(o.major, keys[i].public_key))
          => verify_anchored_export(o.major, o, keys, expect(e, a, o.version))

(***************************************************************************)
(* What makes them inductive.                                              *)
(***************************************************************************)

\* the rows of a chain are numbered, and linked by the hashes of its major
LogLinked ==
  \A c \in ChainId : \A i \in DOMAIN log[c] :
    /\ log[c][i].form = "canonical"
    /\ log[c][i].entry.chain_id = c
    /\ log[c][i].entry.sequence = i
    /\ log[c][i].entry.previous =
         IF i = 1 THEN ZeroHash ELSE row_domain_hash(MajorOf[c], log[c][i - 1])

\* an anchor names a row that is in the log
AnchorsAreHeads ==
  \A a \in anchors :
    LET c == a.claims.chain_id
    IN  /\ a.claims.sequence <= Len(log[c])
        /\ a.claims.sequence > 0 =>
             a.claims.chain_hash = row_domain_hash(MajorOf[c], log[c][a.claims.sequence])

\* as many numbers as rows, from the first to the last
IsInterval(c) ==
  /\ c.chain_id \in ChainId
  /\ c.first_sequence \in Nat \ {0} /\ c.row_count \in Nat \ {0}
  /\ c.last_sequence = c.first_sequence + c.row_count - 1

\* what was verified is a chain of its own, whoever wrote it
ReportsAreChains ==
  \A x \in verified :
    LET rows == x.facts.digest.rows
    IN  /\ IsInterval(x.facts.chain)
        /\ check_chain(x.major, rows, x.facts.chain)
        /\ DOMAIN rows = 1 .. x.facts.chain.row_count
        /\ \A i \in DOMAIN rows : IsRow(rows[i])

\* a transition leads from one key of the path to the next
TransitionsFollowPath ==
  \A t \in transitions : \E k \in DOMAIN KeyPath :
    /\ k + 1 \in DOMAIN KeyPath
    /\ t.signer = KeyPath[k].public_key
    /\ t.claims.current_key_fingerprint = KeyPath[k].public_key
    /\ t.claims.next_key_fingerprint = KeyPath[k + 1].public_key

\* what was framed passed the checks of the framing, over boundaries on the wire
ExportsAreEncoded ==
  \A o \in exported :
    LET a == o.archive
        e == claimed(a.start_anchor, a.transitions, a.end_anchor)
    IN  /\ a.start_anchor \in AnchorsOnWire /\ a.end_anchor \in AnchorsOnWire
        /\ a.transitions \in SeqsUpTo(TransitionsOnWire, MaxPath)
        /\ encode_anchored_export_ok(o.major, a.start_anchor, a.transitions, a.rows,
                                     a.end_anchor, e)
        /\ a = encode_anchored_export(o.major, a.start_anchor, a.transitions, a.rows,
                                      a.end_anchor, e)
        /\ o.chunks = frame_count(a.transitions, a.rows)

\* the custodian signs nothing with a key that the suite of the chain cannot use
EvidenceUnderSuiteKeys ==
  /\ \A a \in anchors : SuiteKey(a.claims.v, a.signer)
  /\ \A t \in transitions : SuiteKey(t.claims.v, t.signer)

-----------------------------------------------------------------------------
(***************************************************************************)
(* The abstract specification: reports to auditors that start from a key   *)
(* that is not the custodian's map to stuttering.                          *)
(***************************************************************************)

ReportOf(x) ==
  [chain_id |-> x.facts.chain.chain_id, first |-> x.facts.chain.first_sequence,
   records |-> x.facts.digest.rows]

Ideal == INSTANCE TamperEvidentLog WITH
  chain    <- log,
  reported <- {ReportOf(x) : x \in {y \in verified : y.keys[1].public_key \in HonestKey}}

\* a writer, a custodian and an auditor who speak through this library keep a
\* log that is only appended to and reported as it is
ImplementsTamperEvidentLog == Ideal!Spec
=============================================================================
