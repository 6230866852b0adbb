--------------------------- MODULE HistoricalKeys ---------------------------
(***************************************************************************)
(* Keys with a window (HistoricalKey and ValidityUpperBound of             *)
(* src/sdks/rust/src/types.rs), as the verifiers of content assertions and *)
(* of role attestations read them.                                         *)
(***************************************************************************)
EXTENDS Integers, Signatures

CONSTANTS
  Unbounded,          \* ValidityUpperBound::Unbounded
  IntegerMagnitude    \* bounds.integer_magnitude

ASSUME MagnitudeAssumption == IntegerMagnitude \in Nat \ {0}

validate_magnitude(value) == value \in -IntegerMagnitude .. IntegerMagnitude

\* what a verifier asks of the record of a key it is given
historical_key(k) ==
  /\ validate_magnitude(k.valid_from)
  /\ k.valid_before # Unbounded =>
       /\ validate_magnitude(k.valid_before)
       /\ k.valid_before > k.valid_from

\* what the window of a key means: properties are stated with it
inside_window(time, k) ==
  /\ k.valid_from <= time
  /\ k.valid_before # Unbounded => time < k.valid_before
=============================================================================
