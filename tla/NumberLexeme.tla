----------------------------- MODULE NumberLexeme -----------------------------
(***************************************************************************)
(* The bound on numbers, decided on their digits before anything converts  *)
(* them: parse_number, decompose_number and magnitude_ok of json.rs.  A    *)
(* lexeme is its digits before and after the point and those of its        *)
(* exponent; the code's base is 10 and its exponents keep three digits.    *)
(* The sign of a number is left out: its bounds are symmetric.             *)
(***************************************************************************)
EXTENDS Integers, Sequences

CONSTANTS
  Base, ExponentDigits,
  IntegerMagnitude, FloatMagnitude, LexemeBytes   \* bounds of the library

ASSUME BaseAssumption ==
  /\ Base \in Nat /\ Base > 1
  /\ {ExponentDigits, IntegerMagnitude, FloatMagnitude, LexemeBytes} \subseteq Nat \ {0}

\* scan_number_lexeme: a zero that leads is the whole integer part
is_lexeme(l) ==
  /\ l.integer # << >> /\ (l.integer[1] = 0 => Len(l.integer) = 1)
  /\ \A digits \in {l.integer, l.fraction, l.exponent} :
       \A i \in DOMAIN digits : digits[i] \in 0 .. Base - 1
  /\ l.minus \in BOOLEAN /\ (l.minus => l.exponent # << >>)

\* bytes: digits, the point, the letter and the sign of an exponent
lexeme_len(l) ==
  Len(l.integer) + (IF l.fraction = << >> THEN 0 ELSE 1 + Len(l.fraction))
    + (IF l.exponent = << >> THEN 0 ELSE 1 + Len(l.exponent)) + (IF l.minus THEN 1 ELSE 0)

is_float(l) == l.fraction # << >> \/ l.exponent # << >>

digits_value(digits) ==
  LET value[i \in 0 .. Len(digits)] ==
        IF i = 0 THEN 0 ELSE value[i - 1] * Base + digits[i]
  IN  value[Len(digits)]

power(n) ==
  LET product[i \in 0 .. n] == IF i = 0 THEN 1 ELSE product[i - 1] * Base
  IN  product[n]

\* the exponent, saturated by its length and by its value
saturated(digits) ==
  IF Len(digits) > ExponentDigits THEN power(ExponentDigits) ELSE digits_value(digits)

decompose_number(l) ==
  [digits |-> l.integer \o l.fraction, frac_count |-> Len(l.fraction),
   exp |-> IF l.minus THEN - saturated(l.exponent) ELSE saturated(l.exponent)]

\* << >> for zero
strip_leading_zeros(digits) ==
  LET first == {i \in DOMAIN digits : digits[i] # 0}
  IN  IF first = {} THEN << >>
      ELSE SubSeq(digits, CHOOSE i \in first : \A j \in first : i <= j, Len(digits))

\* u64::to_string
bound_digits(bound) ==
  LET digits[n \in 0 .. bound] ==
        IF n < Base THEN <<n>> ELSE Append(digits[n \div Base], n % Base)
  IN  digits[bound]

zeros(n) == [i \in 1 .. n |-> 0]

\* of equally long strings of digits
at_most(s, t) ==
  s = t \/ \E i \in DOMAIN s : s[i] < t[i] /\ \A j \in 1 .. i - 1 : s[j] = t[j]

\* variant: fraction digits do not lengthen the bound
magnitude_ok_integral(digits, scale, bound) ==
  LET bs == bound_digits(bound)
      padded == digits \o zeros(IF scale > 0 THEN scale ELSE 0)
  IN  \/ digits = << >>
      \/ Len(digits) + scale < Len(bs)
      \/ Len(digits) + scale = Len(bs) /\ at_most(SubSeq(padded, 1, Len(bs)), bs)

\* the shorter of digits and bound gets the zeros
magnitude_ok(digits, scale, bound) ==
  LET bs == bound_digits(bound)
  IN  \/ digits = << >>
      \/ Len(digits) + scale < Len(bs)
      \/ /\ Len(digits) + scale = Len(bs)
         /\ IF scale >= 0 THEN at_most(digits \o zeros(scale), bs)
            ELSE at_most(digits, bs \o zeros(- scale))

magnitude_bound(l) == IF is_float(l) THEN FloatMagnitude ELSE IntegerMagnitude

\* parse_number
number_accepted(l) ==
  LET n == decompose_number(l)
  IN  /\ lexeme_len(l) <= LexemeBytes
      /\ magnitude_ok(strip_leading_zeros(n.digits), n.exp - n.frac_count, magnitude_bound(l))

-----------------------------------------------------------------------------
\* the number that a lexeme writes is within its bound
within_magnitude(l) ==
  LET digits == digits_value(l.integer \o l.fraction)
      written == digits_value(l.exponent)
      scale == (IF l.minus THEN - written ELSE written) - Len(l.fraction)
  IN  IF scale >= 0 THEN digits * power(scale) <= magnitude_bound(l)
      ELSE digits <= magnitude_bound(l) * power(- scale)
=============================================================================
