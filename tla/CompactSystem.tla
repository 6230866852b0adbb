----------------------------- MODULE CompactSystem -----------------------------
(***************************************************************************)
(* Compacts of every kind side by side: producers make signing inputs,     *)
(* signers sign messages, anyone assembles and hosts verify.  A signing    *)
(* input is a plain record that passes through many hands: its kind and    *)
(* its segments can be exchanged, its signature be that of another, and    *)
(* bytes can be put together without an assembler.                         *)
(***************************************************************************)
EXTENDS CompactJws, FiniteSets

CONSTANTS
  HonestKey,   \* keys that sign what a producer made, and nothing else
  Forged,      \* what other keys sign
  \* bounds of the model
  MaxProduced, MaxSigned, MaxAssembled, MaxAccepted

ASSUME HonestAssumption == HonestKey \subseteq Key /\ Forged \subseteq Message

VARIABLES
  inputs,      \* [profile, message]: what producers made
  signed,      \* [message, key, scalar]: signatures
  assembled,   \* [profile, message, signature]: compacts, and who assembled them
  accepted     \* [profile, key, message]: what hosts accepted

vars == <<inputs, signed, assembled, accepted>>

Init == inputs = {} /\ signed = {} /\ assembled = {} /\ accepted = {}

\* grant_signing_input, proof_signing_input and their like
Produce ==
  /\ Cardinality(inputs) < MaxProduced
  /\ \E p \in Profile : \E keys \in payload_keys(p.kind) :
       inputs' = inputs \cup {[profile |-> p, message |-> produced(p, keys)]}
  /\ UNCHANGED <<signed, assembled, accepted>>

\* an honest key may be of the wrong suite; anyone can shift a scalar
Sign ==
  /\ Cardinality(signed) < MaxSigned
  /\ \E key \in Key, scalar \in {"canonical", "shifted"} :
       \E m \in IF key \in HonestKey THEN {i.message : i \in inputs} ELSE Forged :
         signed' = signed \cup {[message |-> m, key |-> key, scalar |-> scalar]}
  /\ UNCHANGED <<inputs, assembled, accepted>>

Assemble ==
  /\ Cardinality(assembled) < MaxAssembled
  /\ \E a \in Assembler, kind \in StandardKind \cup SiblingKind, m \in Message, s \in signed :
       /\ assemble(a, kind, m, s)
       /\ assembled' = assembled \cup
            {[profile |-> profile_of(a, kind), message |-> m, signature |-> s]}
  /\ UNCHANGED <<inputs, signed, accepted>>

\* verify_grant, check_envelope, verify_attestation and their like
Verify ==
  /\ Cardinality(accepted) < MaxAccepted
  /\ \E p \in Profile, key \in Key, s \in signed :
       \E m \in {s.message} \cup {c.message : c \in assembled} :
         /\ parse(p, m)
         /\ verify_signature(s, m, key, p.major)
         /\ accepted' = accepted \cup {[profile |-> p, key |-> key, message |-> m]}
  /\ UNCHANGED <<inputs, signed, assembled>>

Next ==
  \/ Produce
  \/ Sign
  \/ Assemble
  \/ Verify

Spec == Init /\ [][Next]_vars

-----------------------------------------------------------------------------
\* the type, the version and the suite: what an honest key signed is accepted as
\* what its producer made it for, by no other kind, major or profile, however
\* inputs, labels and signatures are exchanged on the way.
SignerMeantIt ==
  \A x \in accepted : x.key \in HonestKey =>
    [profile |-> x.profile, message |-> x.message] \in inputs

\* assembly: a compact that an assembler returns, of whatever input, has one
\* reader, that of the kind the input was said to be of.
OneReader ==
  \A c \in assembled : {p \in Profile : parse(p, c.message)} = {c.profile}

\* and what a producer made, once signed under its suite, is not refused by its
\* assembler or by its reader.
ProducedIsTaken ==
  \A i \in inputs, s \in signed :
    (/\ s.message = i.message
     /\ s.key \in suite_keys(i.profile.major)
     /\ s.scalar = "canonical")
    => /\ \E a \in Assembler : /\ major_of(a) = i.profile.major
                               /\ assemble(a, i.profile.kind, i.message, s)
       /\ parse(i.profile, i.message)
       /\ verify_signature(s, i.message, s.key, i.profile.major)

(***************************************************************************)
(* What makes them inductive.                                              *)
(***************************************************************************)

\* what an honest key signed was made by a producer
SignedWasProduced ==
  \A s \in signed : s.key \in HonestKey =>
    \E i \in inputs : i.message = s.message

\* and what a producer made is of the profile it made it for
InputsAreProduced ==
  \A i \in inputs : \E p \in Profile : \E keys \in payload_keys(p.kind) :
    i = [profile |-> p, message |-> produced(p, keys)]
=============================================================================
