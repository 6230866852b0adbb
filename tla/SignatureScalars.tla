--------------------------- MODULE SignatureScalars ----------------------------
(***************************************************************************)
(* The bytes of signatures and keys that are looked at before any curve    *)
(* arithmetic: the range and low-s checks of es256.rs, big-endian, and the *)
(* canonical encodings and the scalar of ed25519.rs, little-endian.  The   *)
(* code has 32 bytes, of 128 and 128 values.                               *)
(***************************************************************************)
EXTENDS Integers, Sequences, SequencesExt

CONSTANTS
  SignBit, Width,     \* the highest bit of a byte, bytes of a number
  N,                  \* the order of P-256, big-endian
  GROUP_ORDER_LE,     \* the order of the Ed25519 base point, little-endian
  Deficit             \* by how much the field of Ed25519 misses a power of two

ByteSize == 2 * SignBit
Number == [1 .. Width -> 0 .. ByteSize - 1]

ASSUME ScalarAssumption ==
  /\ {SignBit, Width} \subseteq Nat \ {0, 1}
  /\ {N, GROUP_ORDER_LE} \subseteq Number
  /\ N[Width] % 2 = 1 /\ \E i \in 1 .. Width : GROUP_ORDER_LE[i] # 0
  /\ Deficit \in 2 .. ByteSize - 1

\* the value of the first i bytes
big_endian_value(b) ==
  LET value[i \in 0 .. Width] == IF i = 0 THEN 0 ELSE value[i - 1] * ByteSize + b[i]
  IN  value[Width]
little_endian_value(b) == big_endian_value(Reverse(b))

zero == [i \in 1 .. Width |-> 0]

\* arrays are ordered by the first byte that differs
byte_less(a, b) == \E i \in 1 .. Width : a[i] < b[i] /\ \A j \in 1 .. i - 1 : a[j] = b[j]

\* variant: the bit that leaves a byte is lost
shr1_dropping(v) == [i \in 1 .. Width |-> v[i] \div 2]

shr1(v) ==
  [i \in 1 .. Width |-> v[i] \div 2 + (IF i > 1 THEN (v[i - 1] % 2) * SignBit ELSE 0)]

HALF_N == shr1(N)

validate_rs_range(r, s) ==
  /\ r # zero /\ s # zero
  /\ byte_less(r, N) /\ byte_less(s, N)
  /\ ~ byte_less(HALF_N, s)

-----------------------------------------------------------------------------
Middle(b) == {b[i] : i \in 2 .. Width - 1}

Top == ByteSize - 1

\* variant: the sign of a point without an x is not looked at
canonical_signed_zero(b) ==
  ~ (b[Width] % SignBit = SignBit - 1 /\ Middle(b) \subseteq {Top} /\ b[1] >= ByteSize - Deficit)

\* the y coordinate is reduced, and a point without an x has no sign
canonical(b) ==
  /\ ~ (b[Width] % SignBit = SignBit - 1 /\ Middle(b) \subseteq {Top} /\ b[1] >= ByteSize - Deficit)
  /\ ~ (b[1] = 1 /\ Middle(b) \subseteq {0} /\ b[Width] = SignBit)
  /\ ~ (b[1] = ByteSize - Deficit - 1 /\ Middle(b) \subseteq {Top} /\ b[Width] = Top)

\* variant: bytes are compared from the first
scalar_below_from_first(s) == byte_less(s, GROUP_ORDER_LE)

\* from the last byte to the first; the order itself is not below it
scalar_below_group_order(s) == byte_less(Reverse(s), Reverse(GROUP_ORDER_LE))

-----------------------------------------------------------------------------
\* the point that an encoding stands for: y modulo p and the sign of x, which is
\* zero for y = 1 and y = p - 1
Signed == big_endian_value([zero EXCEPT ![1] = SignBit])
FieldSize == Signed - Deficit

point(b) ==
  LET y == (little_endian_value(b) % Signed) % FieldSize
  IN  <<y, IF y \in {1, FieldSize - 1} THEN 0 ELSE b[Width] \div SignBit>>
=============================================================================
