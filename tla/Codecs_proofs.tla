---------------------------- MODULE Codecs_proofs ----------------------------
(***************************************************************************)
(* Proofs about the wire, for bytes of any size and texts of any length: a *)
(* compact has one text, an archive one reading, a signature one scalar    *)
(* and a key one encoding, and the bound on numbers is exact; then what    *)
(* texts and their pieces are made of; and, at the end, no compact has two *)
(* meanings, for any keys, however many inputs and signatures there are.   *)
(***************************************************************************)
EXTENDS Codecs, CompactSystem, ChainLemmas, FiniteSetTheorems, SequenceTheorems

(***************************************************************************)
(* Arithmetic with a factor.                                               *)
(***************************************************************************)

LEMMA NextMultiple ==
  ASSUME NEW p \in Nat, NEW q \in Nat, NEW b \in Nat, p + 1 <= q
  PROVE  p * b + b <= q * b
OBVIOUS

LEMMA Division ==
  ASSUME NEW v \in Nat, NEW b \in Nat, b > 0
  PROVE  /\ v \div b \in Nat /\ v % b \in Nat /\ v % b < b
         /\ v = (v \div b) * b + (v % b)
OBVIOUS

LEMMA ShiftIsNat ==
  ASSUME NEW p \in Nat, NEW b \in Nat, NEW d \in Nat
  PROVE  p * b + d \in Nat
OBVIOUS

LEMMA OneDivision ==
  ASSUME NEW q \in Nat, NEW r \in Nat, NEW b \in Nat, r < b
  PROVE  (q * b + r) \div b = q /\ (q * b + r) % b = r
OBVIOUS

LEMMA FirstDiffers ==
  ASSUME NEW p \in Nat, NEW q \in Nat, NEW b \in Nat, NEW c \in Nat, NEW d \in Nat,
         c < b, d < b
  PROVE  p * b + c < q * b + d <=> p < q \/ (p = q /\ c < d)
<1> DEFINE x == p * b
           y == q * b
<1>1. p < q => x + b <= y
  BY NextMultiple
<1>2. q < p => y + b <= x
  BY NextMultiple
<1>3. p = q => x = y
  OBVIOUS
<1>4. x \in Nat /\ y \in Nat
  OBVIOUS
<1> HIDE DEF x, y
<1>5. x + c < y + d <=> p < q \/ (p = q /\ c < d)
  BY <1>1, <1>2, <1>3, <1>4
<1>6. QED
  BY <1>5 DEF x, y

(***************************************************************************)
(* Positional numbers.  A function of the places says what the digits up   *)
(* to each of them stand for.                                              *)
(***************************************************************************)

Numerals(b, n) == [1 .. n -> 0 .. b - 1]

Places(b, s, n, v) ==
  /\ v \in [0 .. n -> Nat] /\ v[0] = 0
  /\ \A i \in 1 .. n : v[i] = v[i - 1] * b + s[i]

LEMMA PlacesExist ==
  ASSUME NEW b \in Nat, NEW n \in Nat, NEW s \in [1 .. n -> Nat]
  PROVE  \E v : Places(b, s, n, v)
<1> DEFINE P == {k \in 0 .. n : \E v : Places(b, s, k, v)}
<1>1. 0 \in P
  <2>1. Places(b, s, 0, [i \in 0 .. 0 |-> 0])
    BY DEF Places
  <2>2. QED
    BY <2>1
<1>2. ASSUME NEW k \in 0 .. n - 1, k \in P PROVE k + 1 \in P
  <2>1. PICK v : Places(b, s, k, v)
    BY <1>2
  <2> DEFINE w == [i \in 0 .. k + 1 |-> IF i = k + 1 THEN v[k] * b + s[k + 1] ELSE v[i]]
  <2>2. v[k] * b + s[k + 1] \in Nat
    <3>1. v[k] \in Nat /\ s[k + 1] \in Nat
      BY <2>1 DEF Places
    <3>2. QED
      BY <3>1, ShiftIsNat
  <2>3. \A i \in 0 .. k + 1 : IF i = k + 1 THEN w[i] = v[k] * b + s[k + 1]
                               ELSE i \in 0 .. k /\ w[i] = v[i]
    OBVIOUS
  <2>4. w \in [0 .. k + 1 -> Nat]
    BY <2>1, <2>2 DEF Places
  <2> HIDE DEF w
  <2>5. \A i \in 1 .. k + 1 : w[i] = w[i - 1] * b + s[i]
    <3> SUFFICES ASSUME NEW i \in 1 .. k + 1 PROVE w[i] = w[i - 1] * b + s[i]
      OBVIOUS
    <3>1. i - 1 \in 0 .. k /\ w[i - 1] = v[i - 1]
      BY <2>3
    <3>2. CASE i = k + 1
      BY <2>3, <3>1, <3>2
    <3>3. CASE i \in 1 .. k
      <4>1. w[i] = v[i] /\ v[i] = v[i - 1] * b + s[i]
        BY <2>1, <2>3, <3>3 DEF Places
      <4>2. QED
        BY <3>1, <4>1
    <3>4. QED
      BY <3>2, <3>3
  <2>6. w[0] = 0
    BY <2>1, <2>3 DEF Places
  <2>7. Places(b, s, k + 1, w)
    BY <2>4, <2>5, <2>6 DEF Places
  <2>8. QED
    BY <2>7
<1> HIDE DEF P
<1>3. 0 .. n \subseteq P
  BY <1>1, <1>2, n \in Int, 0 \in Int, IntervalUp, Zenon
<1>4. QED
  BY <1>3 DEF P

Unfolds(b, s, n, f) == f = [i \in 0 .. n |-> IF i = 0 THEN 0 ELSE f[i - 1] * b + s[i]]

LEMMA PlacesUnfold ==
  ASSUME NEW b \in Nat, NEW n \in Nat, NEW s \in [1 .. n -> Nat], NEW f, Unfolds(b, s, n, f)
  PROVE  /\ DOMAIN f = 0 .. n /\ f[0] = 0
         /\ \A i \in 1 .. n : f[i] = f[i - 1] * b + s[i]
<1>1. DOMAIN f = 0 .. n
  BY DEF Unfolds
<1>2. \A i \in 0 .. n : f[i] = IF i = 0 THEN 0 ELSE f[i - 1] * b + s[i]
  BY DEF Unfolds
<1>3. f[0] = 0
  BY <1>2, 0 \in 0 .. n
<1>4. ASSUME NEW i \in 1 .. n PROVE f[i] = f[i - 1] * b + s[i]
  <2>1. i \in 0 .. n /\ i # 0
    OBVIOUS
  <2>2. QED
    BY <1>2, <2>1, Zenon
<1>5. QED
  BY <1>1, <1>3, <1>4, Zenon

LEMMA PlacesUnique ==
  ASSUME NEW b \in Nat, NEW n \in Nat, NEW s \in [1 .. n -> Nat], NEW f, NEW v,
         Unfolds(b, s, n, f), Places(b, s, n, v)
  PROVE  f = v
<1>1. /\ DOMAIN f = 0 .. n /\ f[0] = 0
      /\ \A i \in 1 .. n : f[i] = f[i - 1] * b + s[i]
  BY PlacesUnfold, SMTT(30)
<1>2. DOMAIN v = 0 .. n /\ v[0] = 0 /\ \A i \in 1 .. n : v[i] = v[i - 1] * b + s[i]
  BY DEF Places
<1> DEFINE P == {k \in 0 .. n : f[k] = v[k]}
<1>3. 0 \in P
  BY <1>1, <1>2
<1>4. ASSUME NEW k \in 0 .. n - 1, k \in P PROVE k + 1 \in P
  <2>1. PICK i \in 1 .. n : i = k + 1
    OBVIOUS
  <2>2. f[i] = f[i - 1] * b + s[i] /\ v[i] = v[i - 1] * b + s[i]
    BY <1>1, <1>2
  <2>3. i - 1 = k /\ f[k] = v[k]
    BY <1>4, <2>1
  <2>4. QED
    BY <2>1, <2>2, <2>3
<1> HIDE DEF P
<1>5. 0 .. n \subseteq P
  BY <1>3, <1>4, n \in Int, 0 \in Int, IntervalUp, Zenon
<1>6. \A i \in 0 .. n : f[i] = v[i]
  BY <1>5 DEF P
<1>7. f = [i \in 0 .. n |-> f[i]] /\ v = [i \in 0 .. n |-> v[i]]
  <2>1. v \in [0 .. n -> Nat]
    BY DEF Places
  <2>2. f = [i \in DOMAIN f |-> f[i]]
    BY DEF Unfolds
  <2>3. QED
    BY <1>1, <2>1, <2>2
<1>8. QED
  BY <1>6, <1>7

\* what the recursive definitions of Framing and SignatureScalars compute
LEMMA ValueHasPlaces ==
  ASSUME NEW b \in Nat, NEW n \in Nat, NEW s \in [1 .. n -> Nat], NEW f,
         f = CHOOSE g : Unfolds(b, s, n, g)
  PROVE  Places(b, s, n, f)
<1>1. PICK v : Places(b, s, n, v)
  BY PlacesExist
<1>2. Unfolds(b, s, n, v)
  BY <1>1 DEF Places, Unfolds
<1>3. Unfolds(b, s, n, f)
  BY <1>2, Zenon
<1>4. f = v
  BY <1>1, <1>3, PlacesUnique, Zenon
<1>5. QED
  BY <1>1, <1>4

LEMMA ScalarPlaces ==
  ASSUME NEW s \in Number
  PROVE  \E v : Places(ByteSize, s, Width, v) /\ big_endian_value(s) = v[Width]
<1> DEFINE f == CHOOSE g : Unfolds(ByteSize, s, Width, g)
<1>1. big_endian_value(s) = f[Width]
  BY DEF big_endian_value, Unfolds
<1>2. /\ ByteSize \in Nat /\ Width \in Nat /\ 0 .. ByteSize - 1 \subseteq Nat
  BY ScalarAssumption DEF ByteSize
<1>3. s \in [1 .. Width -> Nat]
  BY <1>2 DEF Number
<1>4. Places(ByteSize, s, Width, f)
  BY <1>2, <1>3, ValueHasPlaces
<1> HIDE DEF f
<1>5. QED
  BY <1>1, <1>4

LEMMA BytesPlaces ==
  ASSUME NEW s \in Seq(Nat)
  PROVE  \E v : Places(ByteBase, s, Len(s), v) /\ big_endian(s) = v[Len(s)]
<1> DEFINE f == CHOOSE g : Unfolds(ByteBase, s, Len(s), g)
<1>1. big_endian(s) = f[Len(s)]
  BY DEF big_endian, Unfolds
<1>2. /\ ByteBase \in Nat /\ Len(s) \in Nat /\ s \in [1 .. Len(s) -> Nat]
  BY FrameAssumption
<1>4. Places(ByteBase, s, Len(s), f)
  BY <1>2, ValueHasPlaces
<1> HIDE DEF f
<1>5. QED
  BY <1>1, <1>4

-----------------------------------------------------------------------------
(***************************************************************************)
(* Order: the first digit that differs decides.                            *)
(***************************************************************************)

\* the first of k digits that differs is lower in s
LowerWithin(s, t, k) == \E i \in 1 .. k : s[i] < t[i] /\ \A j \in 1 .. i - 1 : s[j] = t[j]

SameWithin(s, t, k) == \A j \in 1 .. k : s[j] = t[j]

LEMMA WithinStep ==
  ASSUME NEW k \in Nat, NEW s, NEW t
  PROVE  /\ SameWithin(s, t, k + 1) <=> SameWithin(s, t, k) /\ s[k + 1] = t[k + 1]
         /\ LowerWithin(s, t, k + 1) <=>
              LowerWithin(s, t, k) \/ (SameWithin(s, t, k) /\ s[k + 1] < t[k + 1])
<1>1. 1 .. k + 1 = (1 .. k) \cup {k + 1} /\ 1 .. (k + 1) - 1 = 1 .. k
  OBVIOUS
<1>2. QED
  BY <1>1 DEF SameWithin, LowerWithin

LEMMA OrderOfPlaces ==
  ASSUME NEW b \in Nat, NEW n \in Nat, NEW s \in Numerals(b, n), NEW t \in Numerals(b, n),
         NEW v, NEW w, Places(b, s, n, v), Places(b, t, n, w)
  PROVE  /\ v[n] \in Nat /\ w[n] \in Nat
         /\ v[n] = w[n] <=> SameWithin(s, t, n)
         /\ v[n] < w[n] <=> LowerWithin(s, t, n)
<1> DEFINE P == {k \in 0 .. n : /\ v[k] = w[k] <=> SameWithin(s, t, k)
                                /\ v[k] < w[k] <=> LowerWithin(s, t, k)}
<1>1. 0 \in P
  BY DEF Places, SameWithin, LowerWithin
<1>2. ASSUME NEW k \in 0 .. n - 1, k \in P PROVE k + 1 \in P
  <2>1. PICK i \in 1 .. n : i = k + 1
    OBVIOUS
  <2>2. k \in Nat /\ k \in 0 .. n /\ i - 1 = k
    BY <2>1
  <2>3. /\ v[i] = v[k] * b + s[i] /\ w[i] = w[k] * b + t[i]
        /\ v[k] \in Nat /\ w[k] \in Nat
    BY <2>2 DEF Places
  <2>4. s[i] \in Nat /\ t[i] \in Nat /\ s[i] < b /\ t[i] < b
    BY DEF Numerals
  <2>5. v[i] = w[i] <=> v[k] = w[k] /\ s[i] = t[i]
    <3>1. v[k] * b + s[i] < w[k] * b + t[i] <=> v[k] < w[k] \/ (v[k] = w[k] /\ s[i] < t[i])
      BY <2>3, <2>4, FirstDiffers
    <3>2. w[k] * b + t[i] < v[k] * b + s[i] <=> w[k] < v[k] \/ (w[k] = v[k] /\ t[i] < s[i])
      BY <2>3, <2>4, FirstDiffers
    <3>3. v[i] < w[i] <=> v[k] < w[k] \/ (v[k] = w[k] /\ s[i] < t[i])
      BY <2>3, <3>1, Zenon
    <3>4. w[i] < v[i] <=> w[k] < v[k] \/ (w[k] = v[k] /\ t[i] < s[i])
      BY <2>3, <3>2, Zenon
    <3>5. v[i] \in Nat /\ w[i] \in Nat
      BY DEF Places
    <3>6. QED
      BY <3>3, <3>4, <3>5, <2>3, <2>4
  <2>6. v[i] < w[i] <=> v[k] < w[k] \/ (v[k] = w[k] /\ s[i] < t[i])
    BY <2>3, <2>4, FirstDiffers
  <2>7. /\ v[k] = w[k] <=> SameWithin(s, t, k)
        /\ v[k] < w[k] <=> LowerWithin(s, t, k)
    BY <1>2
  <2>8. /\ SameWithin(s, t, i) <=> SameWithin(s, t, k) /\ s[i] = t[i]
        /\ LowerWithin(s, t, i) <=>
              LowerWithin(s, t, k) \/ (SameWithin(s, t, k) /\ s[i] < t[i])
    BY <2>1, <2>2, WithinStep
  <2>9. i \in 0 .. n /\ i = k + 1
    BY <2>1
  <2>10. QED
    BY <2>5, <2>6, <2>7, <2>8, <2>9
<1> HIDE DEF P
<1>3. 0 .. n \subseteq P
  BY <1>1, <1>2, n \in Int, 0 \in Int, IntervalUp, Zenon
<1>4. n \in P
  BY <1>3
<1>5. QED
  BY <1>4 DEF P, Places

\* whatever is below a number that digits can say can be said
LEMMA BelowHasDigits ==
  ASSUME NEW b \in Nat, b > 0, NEW n \in Nat, NEW s \in Numerals(b, n), NEW v, Places(b, s, n, v),
         NEW x \in 0 .. v[n]
  PROVE  \E t \in Numerals(b, n) : \E w : Places(b, t, n, w) /\ w[n] = x
<1> DEFINE Q(k, y) == \E t \in Numerals(b, k) : \E w : Places(b, t, k, w) /\ w[k] = y
           P == {k \in 0 .. n : \A y \in 0 .. v[k] : Q(k, y)}
<1>1. 0 \in P
  <2>1. << >> \in Numerals(b, 0)
    BY DEF Numerals
  <2>2. Places(b, << >>, 0, [i \in 0 .. 0 |-> 0])
    BY DEF Places
  <2>3. v[0] = 0
    BY DEF Places
  <2>4. SUFFICES ASSUME NEW y \in 0 .. 0 PROVE Q(0, y)
    BY <2>3
  <2>5. y = [i \in 0 .. 0 |-> 0][0]
    OBVIOUS
  <2>6. QED
    BY <2>1, <2>2, <2>5
<1>2. ASSUME NEW k \in 0 .. n - 1, k \in P PROVE k + 1 \in P
  <2> SUFFICES ASSUME NEW y \in 0 .. v[k + 1] PROVE Q(k + 1, y)
    OBVIOUS
  <2>1. PICK i \in 1 .. n : i = k + 1
    OBVIOUS
  <2>2. k \in Nat /\ k \in 0 .. n /\ i - 1 = k
    BY <2>1
  <2>3. v[i] = v[k] * b + s[i] /\ v[k] \in Nat
    BY <2>2 DEF Places
  <2>4. s[i] \in Nat /\ s[i] < b
    BY DEF Numerals
  <2>5. y \in Nat
    BY <2>1, <2>3, <2>4, ShiftIsNat
  <2>6. /\ y \div b \in Nat /\ y % b \in 0 .. b - 1 /\ y = (y \div b) * b + (y % b)
    BY <2>5, Division
  <2>7. y \div b \in 0 .. v[k]
    <3> DEFINE q == y \div b
               r == y % b
    <3>1. q \in Nat /\ r \in 0 .. b - 1 /\ y = q * b + r
      BY <2>6
    <3> HIDE DEF q, r
    <3>2. ~ (v[i] < y)
      BY <2>1, <2>3, <2>4, <2>5, ShiftIsNat
    <3>3. v[i] < y <=> v[k] < q \/ (v[k] = q /\ s[i] < r)
      <4>1. v[k] * b + s[i] < q * b + r <=> v[k] < q \/ (v[k] = q /\ s[i] < r)
        BY <2>3, <2>4, <3>1, FirstDiffers
      <4>2. QED
        BY <2>3, <3>1, <4>1, Zenon
    <3>4. q \in 0 .. v[k]
      BY <2>3, <3>1, <3>2, <3>3
    <3>5. QED
      BY <3>4 DEF q
  <2>lower. PICK t \in Numerals(b, k) : \E w : Places(b, t, k, w) /\ w[k] = y \div b
    BY <1>2, <2>7
  <2>8. PICK w : Places(b, t, k, w) /\ w[k] = y \div b
    BY <2>lower
  <2> DEFINE u == [j \in 1 .. i |-> IF j = i THEN y % b ELSE t[j]]
             z == [j \in 0 .. i |-> IF j = i THEN y ELSE w[j]]
  <2>9. \A j \in 1 .. i : j = i \/ j \in 1 .. k
    BY <2>1
  <2>10. u \in Numerals(b, i)
    BY <2>6, <2>8, <2>9 DEF Numerals
  <2>11. Places(b, u, i, z)
    <3>1. z[0] = 0
      BY <2>8 DEF Places
    <3>2. \A j \in 0 .. i : j = i \/ j \in 0 .. k
      BY <2>1
    <3>3. z \in [0 .. i -> Nat]
      BY <3>2, <2>5, <2>8 DEF Places
    <3>4. \A j \in 1 .. i : z[j] = z[j - 1] * b + u[j]
      <4> SUFFICES ASSUME NEW j \in 1 .. i PROVE z[j] = z[j - 1] * b + u[j]
        OBVIOUS
      <4>1. z[j - 1] = w[j - 1]
        BY <2>1
      <4>2. CASE j = i
        BY <4>1, <4>2, <2>2, <2>6, <2>8
      <4>3. CASE j \in 1 .. k
        BY <4>1, <4>3, <2>1, <2>8 DEF Places
      <4>4. QED
        BY <2>9, <4>2, <4>3
    <3>5. QED
      BY <3>1, <3>3, <3>4 DEF Places
  <2>12. z[i] = y
    OBVIOUS
  <2> HIDE DEF u, z
  <2>13. QED
    BY <2>1, <2>10, <2>11, <2>12
<1>3. 0 .. n \subseteq P
  <2> HIDE DEF P
  <2>1. QED
    BY <1>1, <1>2, n \in Int, 0 \in Int, IntervalUp, Zenon
<1>4. QED
  BY <1>3

-----------------------------------------------------------------------------
(***************************************************************************)
(* Numbers of a fixed width.                                               *)
(***************************************************************************)

LEMMA SizesAreNat ==
  /\ SignBit \in Nat /\ SignBit > 1 /\ Width \in Nat /\ Width > 1
  /\ ByteSize \in Nat /\ ByteSize = 2 * SignBit /\ ByteSize > 3
  /\ Number = Numerals(ByteSize, Width)
  /\ Deficit \in Nat /\ 1 < Deficit /\ Deficit < ByteSize
<1>1. SignBit \in Nat /\ SignBit > 1 /\ Width \in Nat /\ Width > 1
  BY ScalarAssumption
<1>2. ByteSize \in Nat /\ ByteSize = 2 * SignBit /\ ByteSize > 3
  BY <1>1 DEF ByteSize
<1>3. Number = Numerals(ByteSize, Width)
  BY DEF Number, Numerals
<1>4. Deficit \in Nat /\ 1 < Deficit /\ Deficit < ByteSize
  BY <1>2, ScalarAssumption
<1>5. QED
  BY <1>1, <1>2, <1>3, <1>4

LEMMA SameBytes ==
  ASSUME NEW s \in Number, NEW t \in Number, \A i \in 1 .. Width : s[i] = t[i]
  PROVE  s = t
<1>1. s = [i \in 1 .. Width |-> s[i]] /\ t = [i \in 1 .. Width |-> t[i]]
  BY DEF Number
<1>2. QED
  BY <1>1

LEMMA ValueOrder ==
  ASSUME NEW s \in Number, NEW t \in Number
  PROVE  /\ big_endian_value(s) \in Nat /\ big_endian_value(t) \in Nat
         /\ big_endian_value(s) = big_endian_value(t) <=> s = t
         /\ big_endian_value(s) < big_endian_value(t) <=> byte_less(s, t)
<1>1. PICK v : Places(ByteSize, s, Width, v) /\ big_endian_value(s) = v[Width]
  BY ScalarPlaces
<1>2. PICK w : Places(ByteSize, t, Width, w) /\ big_endian_value(t) = w[Width]
  BY ScalarPlaces
<1>3. /\ v[Width] \in Nat /\ w[Width] \in Nat
      /\ v[Width] = w[Width] <=> SameWithin(s, t, Width)
      /\ v[Width] < w[Width] <=> LowerWithin(s, t, Width)
  BY <1>1, <1>2, SizesAreNat, OrderOfPlaces
<1>4. SameWithin(s, t, Width) <=> s = t
  BY SizesAreNat DEF SameWithin, Number
<1>5. LowerWithin(s, t, Width) <=> byte_less(s, t)
  BY Zenon DEF LowerWithin, byte_less
<1>6. QED
  BY <1>1, <1>2, <1>3, <1>4, <1>5

LEMMA ValueBelow ==
  ASSUME NEW s \in Number, NEW x \in 0 .. big_endian_value(s)
  PROVE  \E t \in Number : big_endian_value(t) = x
<1>1. PICK v : Places(ByteSize, s, Width, v) /\ big_endian_value(s) = v[Width]
  BY ScalarPlaces
<1>digits. PICK t \in Numerals(ByteSize, Width) : \E w : Places(ByteSize, t, Width, w) /\ w[Width] = x
  BY <1>1, SizesAreNat, BelowHasDigits
<1>2. PICK w : Places(ByteSize, t, Width, w) /\ w[Width] = x
  BY <1>digits
<1>3. t \in Number
  BY SizesAreNat
<1>4. PICK u : Places(ByteSize, t, Width, u) /\ big_endian_value(t) = u[Width]
  BY <1>3, ScalarPlaces
<1>5. u[Width] = w[Width]
  BY <1>2, <1>4, SizesAreNat, OrderOfPlaces DEF SameWithin
<1>6. QED
  BY <1>2, <1>3, <1>4, <1>5

LEMMA ValueOfZero ==
  zero \in Number /\ big_endian_value(zero) = 0
<1>1. zero \in Number
  BY SizesAreNat DEF zero, Number
<1>2. PICK t \in Number : big_endian_value(t) = 0
  <2>1. 0 \in 0 .. big_endian_value(zero)
    BY <1>1, ValueOrder
  <2>2. QED
    BY <1>1, <2>1, ValueBelow
<1>3. ~ byte_less(t, zero)
  <2>1. \A i \in 1 .. Width : ~ (t[i] < zero[i])
    BY SizesAreNat DEF zero, Number
  <2>2. QED
    BY <2>1 DEF byte_less
<1>4. ~ byte_less(zero, t)
  BY <1>1, <1>2, ValueOrder
<1>5. big_endian_value(zero) = big_endian_value(t)
  BY <1>1, <1>3, <1>4, ValueOrder
<1>6. QED
  BY <1>1, <1>2, <1>5

-----------------------------------------------------------------------------
(***************************************************************************)
(* Half of the order, es256.rs.                                            *)
(***************************************************************************)

LEMMA HalfOfShift ==
  ASSUME NEW h \in Nat, NEW p \in Nat, NEW c \in {0, 1}, NEW d \in Nat
  PROVE  2 * (p * (2 * h) + (d \div 2 + c * h)) + (d % 2) = (2 * p + c) * (2 * h) + d
<1>1. 2 * (d \div 2) + (d % 2) = d
  OBVIOUS
<1>2. CASE c = 0
  <2>1. 2 * (p * (2 * h)) = (2 * p) * (2 * h)
    OBVIOUS
  <2>2. p * (2 * h) \in Nat
    OBVIOUS
  <2> DEFINE x == p * (2 * h)
             y == (2 * p) * (2 * h)
  <2>3. 2 * x = y /\ x \in Nat
    BY <2>1, <2>2
  <2> HIDE DEF x, y
  <2>4. 2 * (x + d \div 2) + (d % 2) = y + d
    BY <2>3, <1>1
  <2>5. QED
    BY <2>4, <1>2 DEF x, y
<1>3. CASE c = 1
  <2>1. 2 * (p * (2 * h)) + 2 * h = (2 * p + 1) * (2 * h)
    OBVIOUS
  <2>2. p * (2 * h) \in Nat
    OBVIOUS
  <2> DEFINE x == p * (2 * h)
             y == (2 * p + 1) * (2 * h)
  <2>3. 2 * x + 2 * h = y /\ x \in Nat
    BY <2>1, <2>2
  <2> HIDE DEF x, y
  <2>4. 2 * (x + (d \div 2 + h)) + (d % 2) = y + d
    BY <2>3, <1>1
  <2>5. QED
    BY <2>4, <1>3 DEF x, y
<1>4. QED
  BY <1>2, <1>3

LEMMA HalvedPlaces ==
  ASSUME NEW v, NEW w,
         Places(ByteSize, N, Width, v), Places(ByteSize, shr1(N), Width, w)
  PROVE  v[Width] = 2 * w[Width] + (N[Width] % 2)
<1> DEFINE P == {k \in 1 .. Width : v[k] = 2 * w[k] + (N[k] % 2)}
<1>0. \A k \in 1 .. Width : N[k] \in Nat
  BY ScalarAssumption, SizesAreNat DEF Number
<1>1. 1 \in P
  <2>1. 1 \in 1 .. Width /\ 1 - 1 = 0
    BY SizesAreNat
  <2>2. v[1] = v[0] * ByteSize + N[1] /\ w[1] = w[0] * ByteSize + shr1(N)[1]
    BY <2>1, Zenon DEF Places
  <2>3. v[1] = N[1] /\ w[1] = N[1] \div 2
    <3>1. shr1(N)[1] = N[1] \div 2
      BY <2>1, <1>0 DEF shr1
    <3>2. v[0] = 0 /\ w[0] = 0
      BY Zenon DEF Places
    <3>3. 0 * ByteSize = 0
      BY SizesAreNat
    <3>4. N[1] \in Nat /\ N[1] \div 2 \in Nat
      BY <1>0, <2>1
    <3>5. v[1] = 0 + N[1] /\ w[1] = 0 + N[1] \div 2
      BY <2>2, <3>1, <3>2, <3>3, Zenon
    <3>6. QED
      BY <3>4, <3>5
  <2>4. N[1] = 2 * (N[1] \div 2) + (N[1] % 2)
    BY <2>1, <1>0
  <2>5. QED
    BY <2>1, <2>3, <2>4
<1>2. ASSUME NEW k \in 1 .. Width - 1, k \in P PROVE k + 1 \in P
  <2>1. PICK i \in 1 .. Width : i = k + 1
    BY SizesAreNat
  <2>2. i - 1 = k /\ k \in 1 .. Width /\ k \in 0 .. Width /\ i > 1
    BY <2>1, SizesAreNat
  <2>3. /\ v[i] = v[k] * ByteSize + N[i] /\ w[i] = w[k] * ByteSize + shr1(N)[i]
        /\ w[k] \in Nat
    BY <2>2, Zenon DEF Places
  <2>4. shr1(N)[i] = N[i] \div 2 + (N[k] % 2) * SignBit
    BY <2>2 DEF shr1
  <2>5. N[k] % 2 \in {0, 1} /\ N[i] \in Nat
    BY <2>2, <1>0
  <2>6. 2 * (w[k] * (2 * SignBit) + (N[i] \div 2 + (N[k] % 2) * SignBit)) + (N[i] % 2)
          = (2 * w[k] + (N[k] % 2)) * (2 * SignBit) + N[i]
    BY <2>3, <2>5, SizesAreNat, HalfOfShift
  <2>7. ByteSize = 2 * SignBit /\ v[k] = 2 * w[k] + (N[k] % 2)
    BY <1>2, SizesAreNat
  <2>8. v[i] = 2 * w[i] + (N[i] % 2)
    BY <2>3, <2>4, <2>6, <2>7, Zenon
  <2>9. QED
    BY <2>1, <2>8
<1> HIDE DEF P
<1>3. 1 .. Width \subseteq P
  BY <1>1, <1>2, SizesAreNat, Width \in Int, 1 \in Int, IntervalUp, Zenon
<1>4. Width \in P
  BY <1>3, SizesAreNat
<1>5. QED
  BY <1>4 DEF P

LEMMA Halved ==
  /\ HALF_N \in Number
  /\ big_endian_value(N) = 2 * big_endian_value(HALF_N) + 1
<1>1. HALF_N \in Number
  <2>1. \A i \in 1 .. Width : N[i] \in 0 .. ByteSize - 1
    BY ScalarAssumption DEF Number
  <2>2. \A i \in 1 .. Width : shr1(N)[i] \in 0 .. ByteSize - 1
    <3> SUFFICES ASSUME NEW i \in 1 .. Width PROVE shr1(N)[i] \in 0 .. ByteSize - 1
      OBVIOUS
    <3>1. N[i] \div 2 \in 0 .. SignBit - 1
      BY <2>1, SizesAreNat
    <3>2. CASE i > 1
      <4>1. PICK k \in 1 .. Width : k = i - 1
        BY <3>2, SizesAreNat
      <4>2. N[k] % 2 \in {0, 1}
        BY <2>1, SizesAreNat
      <4>3. (N[k] % 2) * SignBit \in {0, SignBit}
        BY <4>2, SizesAreNat
      <4>4. shr1(N)[i] = N[i] \div 2 + (N[k] % 2) * SignBit
        BY <3>2, <4>1 DEF shr1
      <4> DEFINE x == (N[k] % 2) * SignBit
      <4>5. x \in {0, SignBit} /\ shr1(N)[i] = N[i] \div 2 + x
        BY <4>3, <4>4
      <4> HIDE DEF x
      <4>6. QED
        BY <3>1, <4>5, SizesAreNat
    <3>3. CASE ~ (i > 1)
      <4>1. shr1(N)[i] = N[i] \div 2 + 0
        BY <3>3 DEF shr1
      <4>2. QED
        BY <3>1, <4>1, SizesAreNat
    <3>4. QED
      BY <3>2, <3>3
  <2>3. QED
    BY <2>2 DEF HALF_N, shr1, Number
<1>2. PICK v : Places(ByteSize, N, Width, v) /\ big_endian_value(N) = v[Width]
  BY ScalarAssumption, ScalarPlaces
<1>3. PICK w : Places(ByteSize, HALF_N, Width, w) /\ big_endian_value(HALF_N) = w[Width]
  BY <1>1, ScalarPlaces
<1>4. v[Width] = 2 * w[Width] + (N[Width] % 2)
  BY <1>2, <1>3, HalvedPlaces DEF HALF_N
<1>5. N[Width] % 2 = 1
  BY ScalarAssumption
<1>6. QED
  BY <1>1, <1>2, <1>3, <1>4, <1>5

-----------------------------------------------------------------------------
(***************************************************************************)
(* What is called, once, is one of these functions.                        *)
(***************************************************************************)

\* the scalars that are looked at, and what is answered
SignatureAnswered(t, a) ==
  \E s \in Number :
    \/ \E r \in Number : /\ t = [of |-> "validate_rs_range", r |-> r, s |-> s]
                         /\ a = [ok |-> validate_rs_range(r, s)]
    \/ /\ t = [of |-> "scalar_below_group_order", s |-> s]
       /\ a = [ok |-> scalar_below_group_order(s)]
    \/ t = [of |-> "canonical", s |-> s] /\ a = [ok |-> canonical(s)]

\* the texts that are looked at, and what is answered
TextAnswered(t, a) ==
  \/ \E text \in TargetText :
       \/ /\ t = [of |-> "uri_normalize", text |-> text]
          /\ a = [forms |-> uri_normalize(text)]
       \/ /\ t = [of |-> "local_loopback_http_uri_normalize", text |-> text]
          /\ a = [forms |-> local_loopback_http_uri_normalize(text)]
  \/ \E text \in IdentifierText :
       \/ /\ t = [of |-> "validate_identifier", text |-> text]
          /\ a = [ok |-> validate_identifier(text)]
       \/ /\ t = [of |-> "validate_sibling_identifier", text |-> text]
          /\ a = [ok |-> validate_sibling_identifier(text)]

Answered(t, a) ==
  \/ t.of = "nothing"
  \/ \E l \in Lexeme :
       t = [of |-> "parse_number", lexeme |-> l] /\ a = [ok |-> number_accepted(l)]
  \/ \E bytes \in ArchiveBytes :
       t = [of |-> "read_archive", bytes |-> bytes] /\ a = read_archive(bytes)
  \/ \E frames \in Archive :
       /\ encodable_archive(frames)
       /\ t = [of |-> "write_archive", frames |-> frames]
       /\ a = [bytes |-> write_archive(frames)]
  \/ \E text \in CompactText :
       t = [of |-> "parse_compact", text |-> text] /\ a = parse_compact(text)
  \/ \E segments \in CompactSegments :
       /\ t = [of |-> "compose_compact", segments |-> segments]
       /\ a = [text |-> compose_compact(segments)]
  \/ SignatureAnswered(t, a)
  \/ TextAnswered(t, a)

\* an answer is what the function returns for what it was called with.
THEOREM AnswersAreReturned == CodecsSpec => []Answered(task, answer)
<1>1. CodecsInit => Answered(task, answer)
  BY DEF CodecsInit, Answered, NoTask
<1>2. Answered(task, answer) /\ [CodecsNext]_dvars => Answered(task, answer)'
  <2> SUFFICES ASSUME Answered(task, answer), [CodecsNext]_dvars
               PROVE  Answered(task', answer')
    BY Zenon
  <2>1. CASE ReadNumber
    BY <2>1, Zenon DEF ReadNumber, Call, Answered
  <2>2. CASE ReadArchive
    BY <2>2, Zenon DEF ReadArchive, Call, Answered
  <2>3. CASE WriteArchive
    BY <2>3, Zenon DEF WriteArchive, Call, Answered
  <2>4. CASE ParseCompact
    BY <2>4, Zenon DEF ParseCompact, Call, Answered
  <2>5. CASE ComposeCompact
    BY <2>5, Zenon DEF ComposeCompact, Call, Answered
  <2>6. CASE CheckSignature
    <3>1. SignatureAnswered(task', answer')
      BY <2>6, Zenon DEF CheckSignature, Call, SignatureAnswered
    <3>2. QED
      BY <3>1, Zenon DEF Answered
  <2>7. CASE NormaliseTarget
    <3>1. TextAnswered(task', answer')
      BY <2>7, Zenon DEF NormaliseTarget, Call, TextAnswered
    <3>2. QED
      BY <3>1, Zenon DEF Answered
  <2>8. CASE CheckIdentifier
    <3>1. TextAnswered(task', answer')
      BY <2>8, Zenon DEF CheckIdentifier, Call, TextAnswered
    <3>2. QED
      BY <3>1, Zenon DEF Answered
  <2>9. CASE UNCHANGED dvars
    <3>1. task' = task /\ answer' = answer
      BY <2>9 DEF dvars
    <3>2. QED
      BY <3>1, Zenon
  <2>10. QED
    BY <2>1, <2>2, <2>3, <2>4, <2>5, <2>6, <2>7, <2>8, <2>9 DEF CodecsNext
<1>3. QED
  BY <1>1, <1>2, PTL DEF CodecsSpec

-----------------------------------------------------------------------------
(***************************************************************************)
(* Scalars in range, es256.rs.                                             *)
(***************************************************************************)

LEMMA InRange ==
  ASSUME NEW r \in Number, NEW s \in Number
  PROVE  validate_rs_range(r, s) <=>
           /\ big_endian_value(r) \in 1 .. big_endian_value(N) - 1
           /\ big_endian_value(s) \in 1 .. big_endian_value(N) - 1
           /\ big_endian_value(s) <= big_endian_value(HALF_N)
<1>1. N \in Number /\ zero \in Number /\ HALF_N \in Number
  BY ScalarAssumption, ValueOfZero, Halved
<1>2. /\ r = zero <=> big_endian_value(r) = 0
      /\ s = zero <=> big_endian_value(s) = 0
  BY <1>1, ValueOrder, ValueOfZero
<1>3. /\ byte_less(r, N) <=> big_endian_value(r) < big_endian_value(N)
      /\ byte_less(s, N) <=> big_endian_value(s) < big_endian_value(N)
      /\ byte_less(HALF_N, s) <=> big_endian_value(HALF_N) < big_endian_value(s)
      /\ big_endian_value(r) \in Nat /\ big_endian_value(s) \in Nat
      /\ big_endian_value(N) \in Nat /\ big_endian_value(HALF_N) \in Nat
  BY <1>1, ValueOrder
<1>4. QED
  BY <1>2, <1>3 DEF validate_rs_range

LEMMA TwinOfScalar ==
  ASSUME NEW r \in Number, NEW s \in Number
  PROVE  IF {big_endian_value(r), big_endian_value(s)} \subseteq 1 .. big_endian_value(N) - 1
         THEN validate_rs_range(r, s) = ~ validate_rs_range(r, negated(s))
         ELSE ~ validate_rs_range(r, s)
<1>1. CASE {big_endian_value(r), big_endian_value(s)} \subseteq 1 .. big_endian_value(N) - 1
  <2>1. /\ N \in Number /\ HALF_N \in Number
        /\ big_endian_value(N) = 2 * big_endian_value(HALF_N) + 1
    BY ScalarAssumption, Halved
  <2>2. big_endian_value(N) \in Nat /\ big_endian_value(HALF_N) \in Nat
    BY <2>1, ValueOrder
  <2>3. big_endian_value(N) - big_endian_value(s) \in 0 .. big_endian_value(N)
    BY <1>1, <2>2
  <2>4. PICK t \in Number : big_endian_value(t) = big_endian_value(N) - big_endian_value(s)
    BY <2>1, <2>3, ValueBelow
  <2>5. big_endian_value(s) + big_endian_value(t) = big_endian_value(N)
    BY <1>1, <2>2, <2>4
  <2>6. /\ negated(s) \in Number
        /\ big_endian_value(s) + big_endian_value(negated(s)) = big_endian_value(N)
    BY <2>5, Zenon DEF negated
  <2>7. big_endian_value(negated(s)) \in Nat
    BY <2>6, ValueOrder
  <2>8. /\ validate_rs_range(r, s) <=> big_endian_value(s) <= big_endian_value(HALF_N)
        /\ validate_rs_range(r, negated(s)) <=>
              big_endian_value(negated(s)) <= big_endian_value(HALF_N)
    BY <1>1, <2>2, <2>6, <2>7, InRange
  <2>9. validate_rs_range(r, s) <=> ~ validate_rs_range(r, negated(s))
    BY <1>1, <2>1, <2>2, <2>6, <2>7, <2>8
  <2>10. validate_rs_range(r, s) \in BOOLEAN
    BY DEF validate_rs_range
  <2>11. QED
    BY <1>1, <2>9, <2>10
<1>2. CASE ~ ({big_endian_value(r), big_endian_value(s)} \subseteq 1 .. big_endian_value(N) - 1)
  BY <1>2, InRange
<1>3. QED
  BY <1>1, <1>2

\* of a signature and its twin, whose scalar is negated modulo the order,
\* validate_rs_range accepts exactly one, and no scalar out of range.
THEOREM TwinsAreRefused == CodecsSpec => []TwinRefused
<1>1. Answered(task, answer) => TwinRefused
  <2> SUFFICES ASSUME Answered(task, answer), task.of = "validate_rs_range" PROVE TwinRefused
    BY DEF TwinRefused
  <2>1. PICK r \in Number, s \in Number :
          /\ task = [of |-> "validate_rs_range", r |-> r, s |-> s]
          /\ answer = [ok |-> validate_rs_range(r, s)]
    BY DEF Answered, SignatureAnswered, TextAnswered
  <2>2. task.r = r /\ task.s = s /\ answer.ok = validate_rs_range(r, s)
    BY <2>1
  <2>3. QED
    BY <2>2, TwinOfScalar, Zenon DEF TwinRefused
<1>2. QED
  BY <1>1, AnswersAreReturned, PTL

-----------------------------------------------------------------------------
(***************************************************************************)
(* Scalars that are reduced, ed25519.rs.                                   *)
(***************************************************************************)

LEMMA Reversed ==
  ASSUME NEW s \in Number
  PROVE  /\ Reverse(s) \in Number /\ Reverse(Reverse(s)) = s
         /\ \A i \in 1 .. Width : Reverse(s)[i] = s[Width - i + 1]
<1>1. s \in Seq(0 .. ByteSize - 1) /\ Len(s) = Width
  BY SizesAreNat DEF Number
<1>2. Reverse(s) = [i \in 1 .. Width |-> s[(Width - i) + 1]]
  BY <1>1 DEF Reverse
<1>3. \A i \in 1 .. Width : Width - i + 1 \in 1 .. Width /\ Width - (Width - i + 1) + 1 = i
  BY SizesAreNat
<1>4. Reverse(s) \in Number
  BY <1>2, <1>3 DEF Number
<1>5. Reverse(s) \in Seq(0 .. ByteSize - 1) /\ Len(Reverse(s)) = Width
  BY <1>4, SizesAreNat DEF Number
<1>6. Reverse(Reverse(s)) = [i \in 1 .. Width |-> Reverse(s)[(Width - i) + 1]]
  BY <1>5 DEF Reverse
<1>7. Reverse(Reverse(s)) = [i \in 1 .. Width |-> s[i]]
  BY <1>2, <1>3, <1>6
<1>8. s = [i \in 1 .. Width |-> s[i]]
  BY DEF Number
<1>9. QED
  BY <1>2, <1>4, <1>7, <1>8

LEMMA LittleEndian ==
  ASSUME NEW s \in Number, NEW t \in Number
  PROVE  /\ little_endian_value(s) \in Nat /\ little_endian_value(t) \in Nat
         /\ little_endian_value(s) = little_endian_value(t) <=> s = t
         /\ little_endian_value(s) < little_endian_value(t) <=> byte_less(Reverse(s), Reverse(t))
<1>1. Reverse(s) = Reverse(t) <=> s = t
  BY Reversed
<1>2. QED
  BY <1>1, Reversed, ValueOrder DEF little_endian_value

LEMMA LittleEndianBelow ==
  ASSUME NEW s \in Number, NEW x \in 0 .. little_endian_value(s)
  PROVE  \E t \in Number : little_endian_value(t) = x
<1>1. PICK u \in Number : big_endian_value(u) = x
  BY Reversed, ValueBelow DEF little_endian_value
<1>2. Reverse(u) \in Number /\ little_endian_value(Reverse(u)) = x
  BY <1>1, Reversed DEF little_endian_value
<1>3. QED
  BY <1>2

LEMMA OrderIsPositive ==
  little_endian_value(GROUP_ORDER_LE) \in Nat \ {0}
<1>1. GROUP_ORDER_LE \in Number
  BY ScalarAssumption
<1>2. GROUP_ORDER_LE # zero
  BY ScalarAssumption DEF zero
<1>3. zero = Reverse(zero)
  <2>1. \A i \in 1 .. Width : Width - i + 1 \in 1 .. Width
    BY SizesAreNat
  <2>2. \A i \in 1 .. Width : Reverse(zero)[i] = zero[i]
    BY <2>1, ValueOfZero, Reversed DEF zero
  <2>3. zero \in Number /\ Reverse(zero) \in Number
    BY ValueOfZero, Reversed
  <2>4. QED
    BY <2>2, <2>3, SameBytes
<1>4. little_endian_value(zero) = 0
  BY <1>3, ValueOfZero DEF little_endian_value
<1>5. QED
  BY <1>1, <1>2, <1>4, ValueOfZero, LittleEndian

LEMMA Remainder ==
  ASSUME NEW x \in Nat, NEW m \in Nat \ {0}
  PROVE  x % m \in 0 .. m - 1
OBVIOUS

LEMMA RemainderBelow ==
  \A x \in Nat : \A m \in Nat : x < m => x % m = x
OBVIOUS

EqualScalars(s) ==
  LET order == little_endian_value(GROUP_ORDER_LE)
  IN  {t \in Number : little_endian_value(t) % order = little_endian_value(s) % order}

ReducedScalars(s) == {t \in EqualScalars(s) : scalar_below_group_order(t)}

\* of the scalars that are equal modulo the group order, one is below it
LEMMA OneScalar ==
  ASSUME NEW s \in Number
  PROVE  \E u \in Number : ReducedScalars(s) = {u} /\ (scalar_below_group_order(s) => u = s)
<1> DEFINE order == little_endian_value(GROUP_ORDER_LE)
           equal == {t \in Number : little_endian_value(t) % order = little_endian_value(s) % order}
           x == little_endian_value(s) % order
<1>1. order \in Nat /\ order > 0 /\ GROUP_ORDER_LE \in Number
  BY OrderIsPositive, ScalarAssumption
<1>2. \A t \in Number : /\ little_endian_value(t) \in Nat
                        /\ scalar_below_group_order(t) <=> little_endian_value(t) < order
  BY <1>1, LittleEndian DEF scalar_below_group_order
<1>3. x \in 0 .. order - 1
  BY <1>1, <1>2, Remainder
<1>4. PICK u \in Number : little_endian_value(u) = x
  BY <1>1, <1>3, LittleEndianBelow
<1>5. \A t \in Number : little_endian_value(t) < order =>
                          little_endian_value(t) % order = little_endian_value(t)
  <2> SUFFICES ASSUME NEW t \in Number, little_endian_value(t) < order
               PROVE  little_endian_value(t) % order = little_endian_value(t)
    OBVIOUS
  <2> DEFINE y == little_endian_value(t)
  <2>1. y \in Nat /\ y < order
    BY <1>2
  <2> HIDE DEF y, order
  <2>2. y % order = y
    BY <1>1, <2>1, RemainderBelow, Zenon
  <2>3. QED
    BY <2>2 DEF y, order
<1>6. u \in equal /\ scalar_below_group_order(u)
  BY <1>1, <1>2, <1>3, <1>4, <1>5
<1>7. ASSUME NEW t \in equal, scalar_below_group_order(t) PROVE t = u
  <2>1. little_endian_value(t) = x
    BY <1>2, <1>5, <1>7
  <2>2. QED
    BY <1>4, <1>7, <2>1, LittleEndian
<1>8. s \in equal
  OBVIOUS
<1> HIDE DEF order, equal, x
<1>9. QED
  BY <1>6, <1>7, <1>8 DEF order, equal, ReducedScalars, EqualScalars

\* of the scalars that are equal modulo the group order, scalar_below_group_order
\* accepts exactly one.
THEOREM ScalarsAreReduced == CodecsSpec => []ScalarReduced
<1>1. Answered(task, answer) => ScalarReduced
  <2> SUFFICES ASSUME Answered(task, answer), task.of = "scalar_below_group_order"
               PROVE  ScalarReduced
    BY DEF ScalarReduced
  <2>1. PICK s \in Number : /\ task = [of |-> "scalar_below_group_order", s |-> s]
                            /\ answer = [ok |-> scalar_below_group_order(s)]
    BY DEF Answered, SignatureAnswered, TextAnswered
  <2>2. task.s = s /\ answer.ok = scalar_below_group_order(s)
    BY <2>1
  <2>3. PICK u \in Number : ReducedScalars(s) = {u} /\ (scalar_below_group_order(s) => u = s)
    BY OneScalar
  <2>4. Cardinality(ReducedScalars(s)) = 1
    BY <2>3, FS_Singleton
  <2>5. answer.ok => ReducedScalars(s) = {s}
    BY <2>2, <2>3
  <2>6. QED
    BY <2>2, <2>4, <2>5, Zenon DEF ScalarReduced, ReducedScalars, EqualScalars
<1>2. QED
  BY <1>1, AnswersAreReturned, PTL

-----------------------------------------------------------------------------
(***************************************************************************)
(* Points that are canonical, ed25519.rs.  An encoding is its sign and,    *)
(* below it, a y coordinate.                                               *)
(***************************************************************************)

sign(b) == b[Width] \div SignBit

\* the bytes of y, the highest first
y_bytes(b) == [i \in 1 .. Width |-> IF i = 1 THEN b[Width] % SignBit ELSE b[Width - i + 1]]

y_value(b) == big_endian_value(y_bytes(b))

sign_bytes == [zero EXCEPT ![1] = SignBit]

field_bytes ==
  [i \in 1 .. Width |->
     IF i = 1 THEN SignBit - 1 ELSE IF i = Width THEN ByteSize - Deficit ELSE Top]

LEMMA DistributesOver ==
  ASSUME NEW p \in Nat, NEW q \in Nat, NEW b \in Nat
  PROVE  p * b \in Nat /\ q * b \in Nat /\ (p + q) * b = p * b + q * b
OBVIOUS

Adds(s, t, u, n) == \A i \in 1 .. n : u[i] = s[i] + t[i]

PlacesOfSum(b, n, s, t, u, v, w, z) ==
  /\ {s, t, u} \subseteq [1 .. n -> Nat] /\ Adds(s, t, u, n)
  /\ Places(b, s, n, v) /\ Places(b, t, n, w) /\ Places(b, u, n, z)

LEMMA PlacesAdd ==
  ASSUME NEW b \in Nat, NEW n \in Nat, NEW s, NEW t, NEW u, NEW v, NEW w, NEW z,
         PlacesOfSum(b, n, s, t, u, v, w, z)
  PROVE  z[n] = v[n] + w[n]
<1>0. /\ {s, t, u} \subseteq [1 .. n -> Nat] /\ Adds(s, t, u, n)
      /\ Places(b, s, n, v) /\ Places(b, t, n, w) /\ Places(b, u, n, z)
  BY DEF PlacesOfSum
<1> DEFINE P == {k \in 0 .. n : z[k] = v[k] + w[k]}
<1>1. 0 \in P
  BY <1>0 DEF Places
<1>2. ASSUME NEW k \in 0 .. n - 1, k \in P PROVE k + 1 \in P
  <2>1. PICK i \in 1 .. n : i = k + 1
    OBVIOUS
  <2>2. i - 1 = k /\ k \in 0 .. n
    BY <2>1
  <2>3. /\ v[i] = v[k] * b + s[i] /\ w[i] = w[k] * b + t[i] /\ z[i] = z[k] * b + u[i]
        /\ v[k] \in Nat /\ w[k] \in Nat
    BY <1>0, <2>2, Zenon DEF Places
  <2>4. v[k] * b \in Nat /\ w[k] * b \in Nat /\ (v[k] + w[k]) * b = v[k] * b + w[k] * b
    BY <2>3, DistributesOver
  <2>5. z[k] = v[k] + w[k] /\ u[i] = s[i] + t[i] /\ s[i] \in Nat /\ t[i] \in Nat
    BY <1>0, <1>2 DEF Adds
  <2> DEFINE x == v[k] * b
             y == w[k] * b
  <2>6. x \in Nat /\ y \in Nat /\ v[i] = x + s[i] /\ w[i] = y + t[i] /\ z[i] = x + y + (s[i] + t[i])
    BY <2>3, <2>4, <2>5
  <2> HIDE DEF x, y
  <2>7. z[i] = v[i] + w[i]
    BY <2>5, <2>6
  <2>8. QED
    BY <2>1, <2>7
<1> HIDE DEF P
<1>3. 0 .. n \subseteq P
  BY <1>1, <1>2, n \in Int, 0 \in Int, IntervalUp, Zenon
<1>4. n \in P
  BY <1>3
<1>5. QED
  BY <1>4 DEF P

LEMMA ValueAdd ==
  ASSUME NEW s \in Number, NEW t \in Number, NEW u \in Number,
         Adds(s, t, u, Width)
  PROVE  big_endian_value(u) = big_endian_value(s) + big_endian_value(t)
<1>1. PICK v : Places(ByteSize, s, Width, v) /\ big_endian_value(s) = v[Width]
  BY ScalarPlaces
<1>2. PICK w : Places(ByteSize, t, Width, w) /\ big_endian_value(t) = w[Width]
  BY ScalarPlaces
<1>3. PICK z : Places(ByteSize, u, Width, z) /\ big_endian_value(u) = z[Width]
  BY ScalarPlaces
<1>4. ByteSize \in Nat /\ Width \in Nat /\ 0 .. ByteSize - 1 \subseteq Nat
  BY SizesAreNat
<1>5. s \in [1 .. Width -> Nat] /\ t \in [1 .. Width -> Nat] /\ u \in [1 .. Width -> Nat]
  BY <1>4 DEF Number
<1>6. z[Width] = v[Width] + w[Width]
  <2>1. PlacesOfSum(ByteSize, Width, s, t, u, v, w, z)
    BY <1>1, <1>2, <1>3, <1>5 DEF PlacesOfSum
  <2>2. QED
    BY <1>4, <2>1, PlacesAdd
<1>7. QED
  BY <1>1, <1>2, <1>3, <1>6

LEMMA YBytes ==
  ASSUME NEW b \in Number
  PROVE  /\ y_bytes(b) \in Number /\ y_bytes(b)[1] < SignBit /\ sign(b) \in {0, 1}
         /\ b[Width] = sign(b) * SignBit + y_bytes(b)[1]
<1>1. \A i \in 1 .. Width : b[i] \in 0 .. ByteSize - 1
  BY DEF Number
<1>2. 1 \in 1 .. Width /\ Width \in 1 .. Width
  BY SizesAreNat
<1>3. b[Width] \in Nat /\ b[Width] < 2 * SignBit
  BY <1>1, <1>2, SizesAreNat
<1>4. /\ b[Width] \div SignBit \in Nat /\ b[Width] % SignBit \in Nat
      /\ b[Width] % SignBit < SignBit
      /\ b[Width] = (b[Width] \div SignBit) * SignBit + (b[Width] % SignBit)
  BY <1>3, SizesAreNat, Division
<1>5. y_bytes(b)[1] = b[Width] % SignBit
  BY <1>2 DEF y_bytes
<1>6. y_bytes(b) \in Number
  <2>1. \A i \in 1 .. Width : Width - i + 1 \in 1 .. Width
    BY SizesAreNat
  <2>2. b[Width] % SignBit \in 0 .. ByteSize - 1
    BY <1>4, SizesAreNat
  <2>3. QED
    BY <1>1, <2>1, <2>2 DEF y_bytes, Number
<1>7. b[Width] \div SignBit < 2
  <2> DEFINE q == b[Width] \div SignBit
             x == q * SignBit
  <2>1. SUFFICES ASSUME 2 <= q PROVE FALSE
    BY <1>4
  <2>2. 2 * SignBit <= x
    <3>1. q \in Nat /\ 1 + 1 <= q
      BY <1>4, <2>1
    <3> HIDE DEF q
    <3>2. 1 * SignBit + SignBit <= q * SignBit
      BY <3>1, SizesAreNat, NextMultiple
    <3>3. QED
      BY <3>2, SizesAreNat
  <2>3. b[Width] = x + (b[Width] % SignBit) /\ x \in Nat
    BY <1>4, SizesAreNat
  <2> HIDE DEF x
  <2>4. QED
    BY <1>3, <1>4, <2>2, <2>3, SizesAreNat
<1>8. QED
  BY <1>4, <1>5, <1>6, <1>7 DEF sign

LEMMA SignBytes ==
  /\ sign_bytes \in Number /\ Signed = big_endian_value(sign_bytes) /\ Signed \in Nat
  /\ sign_bytes[1] = SignBit /\ \A i \in 2 .. Width : sign_bytes[i] = 0
<1>1. 1 \in 1 .. Width /\ SignBit \in 0 .. ByteSize - 1 /\ 2 .. Width \subseteq 1 .. Width
  BY SizesAreNat
<1>2. zero \in Number /\ \A i \in 1 .. Width : zero[i] = 0
  BY ValueOfZero DEF zero
<1>3. sign_bytes \in Number
  BY <1>1, <1>2 DEF sign_bytes, Number
<1>4. sign_bytes[1] = SignBit /\ \A i \in 2 .. Width : sign_bytes[i] = 0
  BY <1>1, <1>2 DEF sign_bytes, Number
<1>5. Signed = big_endian_value(sign_bytes)
  BY DEF Signed, sign_bytes
<1>6. QED
  BY <1>3, <1>4, <1>5, ValueOrder

\* below the sign is what the first byte is below
LEMMA BelowSign ==
  ASSUME NEW s \in Number
  PROVE  big_endian_value(s) < Signed <=> s[1] < SignBit
<1>1. big_endian_value(s) < Signed <=> byte_less(s, sign_bytes)
  BY SignBytes, ValueOrder
<1>2. ASSUME s[1] < SignBit PROVE byte_less(s, sign_bytes)
  <2>1. 1 \in 1 .. Width /\ 1 .. 1 - 1 = {}
    BY SizesAreNat
  <2>2. QED
    BY <1>2, <2>1, SignBytes DEF byte_less
<1>3. ASSUME byte_less(s, sign_bytes) PROVE s[1] < SignBit
  <2>1. PICK i \in 1 .. Width : s[i] < sign_bytes[i]
    BY <1>3 DEF byte_less
  <2>2. i = 1 \/ i \in 2 .. Width
    BY SizesAreNat
  <2>3. s[i] \in Nat
    BY SizesAreNat DEF Number
  <2>4. QED
    BY <2>1, <2>2, <2>3, SignBytes
<1>4. QED
  BY <1>1, <1>2, <1>3

\* an encoding is the value of its y, and that of its sign
LEMMA EncodingValue ==
  ASSUME NEW b \in Number
  PROVE  /\ y_value(b) \in 0 .. Signed - 1
         /\ little_endian_value(b) = y_value(b) + (IF sign(b) = 1 THEN Signed ELSE 0)
<1>1. /\ y_bytes(b) \in Number /\ y_bytes(b)[1] < SignBit /\ sign(b) \in {0, 1}
      /\ b[Width] = sign(b) * SignBit + y_bytes(b)[1]
  BY YBytes
<1>2. y_value(b) \in 0 .. Signed - 1
  <2>1. y_value(b) < Signed /\ y_value(b) \in Nat
    BY <1>1, BelowSign, ValueOrder DEF y_value
  <2>2. QED
    BY <2>1, SignBytes
<1>3. /\ Reverse(b) \in Number /\ Reverse(b)[1] = b[Width]
      /\ \A i \in 2 .. Width : Reverse(b)[i] = y_bytes(b)[i]
  <2>1. 1 \in 1 .. Width /\ Width - 1 + 1 = Width
    BY SizesAreNat
  <2>2. Reverse(b)[1] = b[Width]
    <3>1. Reverse(b)[1] = b[Width - 1 + 1]
      BY <2>1, Reversed
    <3>2. QED
      BY <2>1, <3>1
  <2>3. \A i \in 2 .. Width : i \in 1 .. Width /\ i # 1
    BY SizesAreNat
  <2>4. \A i \in 2 .. Width : Reverse(b)[i] = b[Width - i + 1] /\ y_bytes(b)[i] = b[Width - i + 1]
    BY <2>3, Reversed DEF y_bytes
  <2>5. QED
    BY <2>2, <2>4, Reversed
<1>4. \A i \in 1 .. Width : i = 1 \/ i \in 2 .. Width
  BY SizesAreNat
<1>5. y_bytes(b)[1] \in Nat /\ \A i \in 2 .. Width : y_bytes(b)[i] \in Nat
  BY <1>1, SizesAreNat DEF Number
<1>6. CASE sign(b) = 0
  <2>1. Reverse(b)[1] = y_bytes(b)[1]
    BY <1>1, <1>3, <1>5, <1>6, SizesAreNat
  <2>2. \A i \in 1 .. Width : Reverse(b)[i] = y_bytes(b)[i]
    BY <2>1, <1>3, <1>4
  <2>3. Reverse(b) = y_bytes(b)
    BY <2>2, <1>1, <1>3, SameBytes
  <2>4. QED
    BY <2>3, <1>2, <1>6 DEF little_endian_value, y_value
<1>7. CASE sign(b) = 1
  <2>1. Reverse(b)[1] = y_bytes(b)[1] + sign_bytes[1]
    BY <1>1, <1>3, <1>5, <1>7, SizesAreNat, SignBytes
  <2>2. \A i \in 2 .. Width : Reverse(b)[i] = y_bytes(b)[i] + sign_bytes[i]
    BY <1>3, <1>5, SignBytes
  <2>3. Adds(y_bytes(b), sign_bytes, Reverse(b), Width)
    BY <2>1, <2>2, <1>4 DEF Adds
  <2>4. big_endian_value(Reverse(b)) = big_endian_value(y_bytes(b)) + big_endian_value(sign_bytes)
    BY <1>1, <1>3, <2>3, SignBytes, ValueAdd
  <2>5. QED
    BY <2>4, <1>2, <1>7, SignBytes DEF little_endian_value, y_value
<1>8. QED
  BY <1>1, <1>2, <1>6, <1>7

LEMMA OneEncoding ==
  ASSUME NEW s \in Number, NEW t \in Number, y_value(s) = y_value(t), sign(s) = sign(t)
  PROVE  s = t
<1>1. little_endian_value(s) = little_endian_value(t)
  BY EncodingValue
<1>2. QED
  BY <1>1, LittleEndian

LEMMA EncodingExists ==
  ASSUME NEW y \in 0 .. Signed - 1, NEW q \in {0, 1}
  PROVE  \E b \in Number : y_value(b) = y /\ sign(b) = q
<1>1. PICK c \in Number : big_endian_value(c) = y
  <2>1. y \in 0 .. big_endian_value(sign_bytes)
    BY SignBytes
  <2>2. QED
    BY <2>1, SignBytes, ValueBelow
<1>2. c[1] < SignBit
  <2>1. y < Signed
    BY SignBytes
  <2>2. QED
    BY <1>1, <2>1, BelowSign
<1>3. 1 \in 1 .. Width /\ Width \in 1 .. Width
  BY SizesAreNat
<1>4. c[1] \in Nat
  BY <1>3, SizesAreNat DEF Number
<1> DEFINE top == q * SignBit + c[1]
           b == [i \in 1 .. Width |-> IF i = Width THEN top ELSE c[Width - i + 1]]
<1>5. top \in 0 .. ByteSize - 1
  BY <1>2, <1>4, SizesAreNat
<1>6. /\ \A i \in 1 .. Width : Width - i + 1 \in 1 .. Width /\ Width - (Width - i + 1) + 1 = i
      /\ \A i \in 1 .. Width : i # 1 => Width - i + 1 # Width
  BY SizesAreNat
<1>7. b \in Number
  BY <1>5, <1>6 DEF Number
<1>8. b[Width] = top
  BY <1>3
<1>9. \A i \in 1 .. Width : i # 1 => b[Width - i + 1] = c[i]
  BY <1>6
<1>10. top \div SignBit = q /\ top % SignBit = c[1]
  <2>1. q \in Nat /\ SignBit \in Nat
    BY SizesAreNat
  <2> DEFINE r == c[1]
             h == SignBit
  <2>2. r \in Nat /\ r < h /\ h \in Nat /\ top = q * h + r
    BY <1>2, <1>4, <2>1
  <2> HIDE DEF r, h, top
  <2>3. (q * h + r) \div h = q /\ (q * h + r) % h = r
    BY <2>1, <2>2, OneDivision
  <2>4. top \div h = q /\ top % h = r
    BY <2>2, <2>3
  <2>5. QED
    BY <2>4 DEF r, h
<1> HIDE DEF b, top
<1>11. \A i \in 1 .. Width : y_bytes(b)[i] = c[i]
  BY <1>8, <1>9, <1>10 DEF y_bytes
<1>12. y_bytes(b) = c
  BY <1>7, <1>11, YBytes, SameBytes
<1>13. QED
  BY <1>1, <1>7, <1>8, <1>10, <1>12 DEF y_value, sign

LEMMA MultipleOfNext ==
  ASSUME NEW p \in Nat, NEW q \in Nat, NEW b \in Nat, p + 1 = q
  PROVE  p * b \in Nat /\ p * b + b = q * b
OBVIOUS

\* the bytes of the field are what is Deficit below the sign
LEMMA FieldPlaces ==
  ASSUME NEW v, NEW w,
         Places(ByteSize, field_bytes, Width, v), Places(ByteSize, sign_bytes, Width, w)
  PROVE  v[Width] + Deficit = w[Width]
<1> DEFINE P == {k \in 1 .. Width - 1 : v[k] + 1 = w[k]}
<1>0. /\ \A k \in 1 .. Width : v[k] = v[k - 1] * ByteSize + field_bytes[k]
      /\ \A k \in 1 .. Width : w[k] = w[k - 1] * ByteSize + sign_bytes[k]
      /\ \A k \in 0 .. Width : v[k] \in Nat /\ w[k] \in Nat
      /\ v[0] = 0 /\ w[0] = 0
  BY DEF Places
<1>1. 1 \in P
  <2>1. 1 \in 1 .. Width /\ 1 - 1 = 0 /\ 1 \in 1 .. Width - 1
    BY SizesAreNat
  <2>2. v[1] = v[0] * ByteSize + field_bytes[1] /\ w[1] = w[0] * ByteSize + sign_bytes[1]
    BY <2>1, <1>0, Zenon
  <2>3. field_bytes[1] = SignBit - 1 /\ sign_bytes[1] = SignBit
    BY <2>1, SignBytes DEF field_bytes
  <2>4. v[0] * ByteSize = 0 /\ w[0] * ByteSize = 0
    BY <1>0, SizesAreNat
  <2>5. v[1] = 0 + (SignBit - 1) /\ w[1] = 0 + SignBit
    BY <2>2, <2>3, <2>4
  <2>6. QED
    BY <2>1, <2>5, SizesAreNat
<1> DEFINE Step(k, d) ==
      /\ v[k + 1] = v[k] * ByteSize + d /\ w[k + 1] = w[k] * ByteSize
      /\ v[k] * ByteSize + ByteSize = w[k] * ByteSize
      /\ v[k] * ByteSize \in Nat
<1>2. ASSUME NEW k \in 1 .. Width - 1, k \in P
      PROVE  Step(k, field_bytes[k + 1])
  <2>1. PICK i \in 2 .. Width : i = k + 1
    BY SizesAreNat
  <2>2. i - 1 = k /\ i \in 1 .. Width /\ k \in 0 .. Width
    BY <2>1, SizesAreNat
  <2>3. /\ v[i] = v[k] * ByteSize + field_bytes[i] /\ w[i] = w[k] * ByteSize + sign_bytes[i]
        /\ v[k] \in Nat /\ w[k] \in Nat
    BY <2>2, <1>0, Zenon
  <2>4. sign_bytes[i] = 0 /\ w[k] * ByteSize \in Nat
    BY <2>3, SignBytes, SizesAreNat
  <2>5. w[i] = w[k] * ByteSize
    <3> DEFINE x == w[k] * ByteSize
    <3>1. w[i] = x + 0 /\ x \in Nat
      BY <2>3, <2>4
    <3> HIDE DEF x
    <3>2. w[i] = x
      BY <3>1
    <3>3. QED
      BY <3>2 DEF x
  <2>6. v[k] + 1 = w[k]
    BY <1>2
  <2>7. v[k] * ByteSize \in Nat /\ v[k] * ByteSize + ByteSize = w[k] * ByteSize
    BY <2>3, <2>6, SizesAreNat, MultipleOfNext
  <2>8. QED
    BY <2>1, <2>3, <2>5, <2>7
<1>3. ASSUME NEW k \in 1 .. (Width - 1) - 1, k \in P PROVE k + 1 \in P
  <2>1. k \in 1 .. Width - 1 /\ k + 1 \in 1 .. Width - 1
    BY SizesAreNat
  <2>2. field_bytes[k + 1] = ByteSize - 1
    BY <2>1, SizesAreNat DEF field_bytes, Top
  <2>3. Step(k, field_bytes[k + 1])
    BY <2>1, <1>2, <1>3, Zenon
  <2> DEFINE x == v[k] * ByteSize
             y == w[k] * ByteSize
  <2>4. v[k + 1] = x + (ByteSize - 1) /\ w[k + 1] = y /\ x + ByteSize = y /\ x \in Nat
    BY <2>2, <2>3
  <2> HIDE DEF x, y
  <2>5. v[k + 1] + 1 = w[k + 1]
    BY <2>4, SizesAreNat
  <2>6. QED
    BY <2>1, <2>5
<1>4. Width - 1 \in P
  <2> HIDE DEF P, Step
  <2>1. Width - 1 \in Int /\ 1 \in Int /\ Width - 1 \in 1 .. Width - 1
    BY SizesAreNat
  <2>2. 1 .. Width - 1 \subseteq P
    BY <1>1, <1>3, <2>1, IntervalUp, Zenon
  <2>3. QED
    BY <2>1, <2>2
<1>5. PICK k \in 1 .. Width - 1 : k + 1 = Width
  BY SizesAreNat
<1>6. Step(k, field_bytes[k + 1])
  <2>1. k = Width - 1
    BY <1>5, SizesAreNat
  <2>2. k \in P
    BY <2>1, <1>4
  <2> HIDE DEF P, Step
  <2>3. QED
    BY <2>2, <1>2
<1>7. field_bytes[Width] = ByteSize - Deficit
  BY SizesAreNat DEF field_bytes
<1> DEFINE x == v[k] * ByteSize
           y == w[k] * ByteSize
<1>8. v[Width] = x + (ByteSize - Deficit) /\ w[Width] = y /\ x + ByteSize = y /\ x \in Nat
  BY <1>5, <1>6, <1>7
<1> HIDE DEF x, y
<1>9. QED
  BY <1>8, SizesAreNat

LEMMA FieldBytes ==
  /\ field_bytes \in Number
  /\ big_endian_value(field_bytes) = FieldSize /\ FieldSize \in Nat \ {0} /\ FieldSize < Signed
<1>1. field_bytes \in Number
  BY SizesAreNat DEF field_bytes, Number, Top
<1>2. PICK v : Places(ByteSize, field_bytes, Width, v) /\ big_endian_value(field_bytes) = v[Width]
  BY <1>1, ScalarPlaces
<1>3. PICK w : Places(ByteSize, sign_bytes, Width, w) /\ Signed = w[Width]
  BY SignBytes, ScalarPlaces
<1>4. v[Width] + Deficit = w[Width]
  BY <1>2, <1>3, FieldPlaces
<1>5. big_endian_value(field_bytes) \in Nat
  BY <1>1, ValueOrder
<1>6. big_endian_value(field_bytes) = FieldSize
  BY <1>2, <1>3, <1>4, <1>5, SizesAreNat DEF FieldSize
<1>7. field_bytes # zero
  <2>1. field_bytes[1] # 0 /\ zero[1] = 0
    BY SizesAreNat DEF field_bytes, zero
  <2>2. QED
    BY <2>1
<1>8. FieldSize # 0
  BY <1>1, <1>6, <1>7, ValueOfZero, ValueOrder
<1>9. QED
  BY <1>1, <1>5, <1>6, <1>8, SizesAreNat, SignBytes DEF FieldSize

LEMMA PointOfEncoding ==
  ASSUME NEW b \in Number
  PROVE  point(b) = <<y_value(b) % FieldSize,
                      IF y_value(b) % FieldSize \in {1, FieldSize - 1} THEN 0 ELSE sign(b)>>
<1>1. /\ y_value(b) \in 0 .. Signed - 1 /\ sign(b) \in {0, 1}
      /\ little_endian_value(b) = y_value(b) + (IF sign(b) = 1 THEN Signed ELSE 0)
  BY EncodingValue, YBytes
<1>2. y_value(b) \in Nat /\ y_value(b) < Signed /\ Signed \in Nat
  BY <1>1, SignBytes
<1>3. y_value(b) % Signed = y_value(b)
  BY <1>2, RemainderBelow, Zenon
<1>4. (y_value(b) + Signed) % Signed = y_value(b)
  <2>1. (1 * Signed + y_value(b)) % Signed = y_value(b)
    BY <1>2, OneDivision
  <2>2. 1 * Signed + y_value(b) = y_value(b) + Signed
    BY <1>2
  <2>3. QED
    BY <2>1, <2>2, Zenon
<1>5. little_endian_value(b) % Signed = y_value(b)
  <2>1. CASE sign(b) = 1
    BY <2>1, <1>1, <1>4
  <2>2. CASE sign(b) = 0
    <3>1. little_endian_value(b) = y_value(b)
      BY <2>2, <1>1, <1>2
    <3>2. QED
      BY <3>1, <1>3, Zenon
  <2>3. QED
    BY <1>1, <2>1, <2>2
<1>6. QED
  BY <1>5 DEF point, sign

one == [zero EXCEPT ![Width] = 1]
field_less_one == [field_bytes EXCEPT ![Width] = ByteSize - Deficit - 1]

LEMMA One ==
  /\ one \in Number /\ big_endian_value(one) = 1
  /\ one[Width] = 1 /\ \A i \in 1 .. Width : i # Width => one[i] = 0
<1>1. Width \in 1 .. Width /\ 1 \in 0 .. ByteSize - 1
  BY SizesAreNat
<1>2. zero \in Number /\ \A i \in 1 .. Width : zero[i] = 0
  BY ValueOfZero DEF zero
<1>3. /\ one \in Number
      /\ one[Width] = 1 /\ \A i \in 1 .. Width : i # Width => one[i] = 0
  BY <1>1, <1>2 DEF one, Number
<1>4. one # zero
  BY <1>1, <1>2, <1>3
<1>5. big_endian_value(one) \in Nat \ {0}
  BY <1>2, <1>3, <1>4, ValueOfZero, ValueOrder
<1>6. PICK t \in Number : big_endian_value(t) = 1
  <2>1. 1 \in 0 .. big_endian_value(one)
    BY <1>5
  <2>2. QED
    BY <2>1, <1>3, ValueBelow
<1>7. ~ byte_less(t, one)
  <2>1. SUFFICES ASSUME byte_less(t, one) PROVE FALSE
    OBVIOUS
  <2>2. PICK i \in 1 .. Width : t[i] < one[i] /\ \A j \in 1 .. i - 1 : t[j] = one[j]
    BY <2>1 DEF byte_less
  <2>3. t[i] \in Nat
    BY SizesAreNat DEF Number
  <2>4. i = Width
    BY <2>2, <2>3, <1>3
  <2>5. \A j \in 1 .. Width : j = Width \/ j \in 1 .. Width - 1
    BY SizesAreNat
  <2>6. \A j \in 1 .. Width : t[j] = zero[j]
    BY <2>2, <2>3, <2>4, <2>5, <1>2, <1>3
  <2>7. t = zero
    BY <2>6, <1>2, SameBytes
  <2>8. QED
    BY <2>7, <1>6, ValueOfZero
<1>8. QED
  BY <1>3, <1>5, <1>6, <1>7, ValueOrder

LEMMA FieldLessOne ==
  field_less_one \in Number /\ big_endian_value(field_less_one) = FieldSize - 1
<1>1. Width \in 1 .. Width /\ ByteSize - Deficit - 1 \in 0 .. ByteSize - 1
  BY SizesAreNat
<1>2. field_less_one \in Number
  BY <1>1, FieldBytes DEF field_less_one, Number
<1>3. Adds(field_less_one, one, field_bytes, Width)
  <2> SUFFICES ASSUME NEW i \in 1 .. Width PROVE field_bytes[i] = field_less_one[i] + one[i]
    BY DEF Adds
  <2>1. field_bytes[i] \in Nat /\ field_bytes \in [1 .. Width -> 0 .. ByteSize - 1]
    BY FieldBytes, SizesAreNat DEF Number
  <2>2. CASE i = Width
    <3>1. field_bytes[i] = ByteSize - Deficit
      BY <2>2, SizesAreNat DEF field_bytes
    <3>2. field_less_one[i] = ByteSize - Deficit - 1
      BY <2>1, <2>2 DEF field_less_one
    <3>3. QED
      BY <3>1, <3>2, <2>2, One, SizesAreNat
  <2>3. CASE i # Width
    BY <2>1, <2>3, One DEF field_less_one
  <2>4. QED
    BY <2>2, <2>3
<1>4. big_endian_value(field_bytes) = big_endian_value(field_less_one) + big_endian_value(one)
  BY <1>2, <1>3, FieldBytes, One, ValueAdd
<1>5. big_endian_value(field_less_one) \in Nat
  BY <1>2, ValueOrder
<1>6. QED
  BY <1>2, <1>4, <1>5, FieldBytes, One

LEMMA MiddleOfY ==
  ASSUME NEW b \in Number, NEW d
  PROVE  /\ Middle(b) \subseteq {d} <=> \A i \in 2 .. Width - 1 : y_bytes(b)[i] = d
         /\ y_bytes(b)[Width] = b[1] /\ y_bytes(b)[1] = b[Width] % SignBit
<1>1. Width \in 1 .. Width /\ 1 \in 1 .. Width /\ Width # 1 /\ Width - Width + 1 = 1
  BY SizesAreNat
<1>2. y_bytes(b)[Width] = b[1] /\ y_bytes(b)[1] = b[Width] % SignBit
  BY <1>1 DEF y_bytes
<1>3. \A i \in 2 .. Width - 1 : /\ i \in 1 .. Width /\ i # 1
                               /\ Width - i + 1 \in 2 .. Width - 1
                               /\ Width - (Width - i + 1) + 1 = i
  BY SizesAreNat
<1>4. \A i \in 2 .. Width - 1 : y_bytes(b)[i] = b[Width - i + 1]
  BY <1>3 DEF y_bytes
<1>5. \A i \in 2 .. Width - 1 : y_bytes(b)[Width - i + 1] = b[i]
  <2> SUFFICES ASSUME NEW i \in 2 .. Width - 1 PROVE y_bytes(b)[Width - i + 1] = b[i]
    OBVIOUS
  <2>1. PICK j \in 2 .. Width - 1 : j = Width - i + 1
    BY <1>3
  <2>2. Width - j + 1 = i
    BY <2>1, SizesAreNat
  <2>3. QED
    BY <2>1, <2>2, <1>4
<1>6. Middle(b) \subseteq {d} <=> \A i \in 2 .. Width - 1 : b[i] = d
  BY DEF Middle
<1>7. QED
  BY <1>2, <1>3, <1>4, <1>5, <1>6

LEMMA FieldReached ==
  ASSUME NEW b \in Number
  PROVE  y_value(b) < FieldSize <=>
           ~ (b[Width] % SignBit = SignBit - 1 /\ Middle(b) \subseteq {Top}
                /\ b[1] >= ByteSize - Deficit)
<1> DEFINE y == y_bytes(b)
<1>1. /\ y \in Number /\ y[1] < SignBit
  BY YBytes
<1>2. \A i \in 1 .. Width : y[i] \in Nat /\ y[i] < ByteSize
  BY <1>1, SizesAreNat DEF Number
<1>3. /\ Middle(b) \subseteq {Top} <=> \A i \in 2 .. Width - 1 : y[i] = Top
      /\ y[Width] = b[1] /\ y[1] = b[Width] % SignBit
  BY MiddleOfY
<1>4. /\ field_bytes[1] = SignBit - 1 /\ field_bytes[Width] = ByteSize - Deficit
      /\ \A i \in 2 .. Width - 1 : field_bytes[i] = Top
      /\ field_bytes \in Number
  BY SizesAreNat, FieldBytes DEF field_bytes
<1>5. 1 \in 1 .. Width - 1 /\ Width \in 1 .. Width /\ \A i \in 2 .. Width - 1 : i \in 1 .. Width - 1
  BY SizesAreNat
<1>6. \A i \in 1 .. Width : i = 1 \/ i \in 2 .. Width - 1 \/ i = Width
  BY SizesAreNat
<1>7. y_value(b) < FieldSize <=> byte_less(y, field_bytes)
  BY <1>1, <1>4, FieldBytes, ValueOrder DEF y_value
<1>8. y_value(b) = FieldSize <=> y = field_bytes
  BY <1>1, <1>4, FieldBytes, ValueOrder DEF y_value
<1>9. y_value(b) > FieldSize <=> byte_less(field_bytes, y)
  <2>1. FieldSize < y_value(b) <=> byte_less(field_bytes, y)
    BY <1>1, <1>4, FieldBytes, ValueOrder DEF y_value
  <2>2. y_value(b) \in Nat
    BY <1>1, ValueOrder DEF y_value
  <2>3. QED
    BY <2>1, <2>2, FieldBytes
<1>10. y_value(b) \in Nat
  BY <1>1, ValueOrder DEF y_value
<1> HIDE DEF y
<1>11. ASSUME y[1] = SignBit - 1, \A i \in 2 .. Width - 1 : y[i] = Top, y[Width] >= ByteSize - Deficit
       PROVE  ~ byte_less(y, field_bytes)
  <2> SUFFICES ASSUME NEW i \in 1 .. Width, y[i] < field_bytes[i] PROVE FALSE
    BY DEF byte_less
  <2>1. QED
    BY <1>2, <1>4, <1>6, <1>11, SizesAreNat DEF Top
<1>12. ASSUME ~ byte_less(y, field_bytes)
       PROVE  y[1] = SignBit - 1 /\ (\A i \in 2 .. Width - 1 : y[i] = Top) /\ y[Width] >= ByteSize - Deficit
  <2>1. CASE y = field_bytes
    BY <2>1, <1>4, SizesAreNat
  <2>2. CASE byte_less(field_bytes, y)
    <3>1. PICK i \in 1 .. Width :
            field_bytes[i] < y[i] /\ \A j \in 1 .. i - 1 : field_bytes[j] = y[j]
      BY <2>2 DEF byte_less
    <3>2. i # 1
      BY <3>1, <1>1, <1>2, <1>4, SizesAreNat
    <3>3. i \notin 2 .. Width - 1
      <4>1. SUFFICES ASSUME i \in 2 .. Width - 1 PROVE FALSE
        OBVIOUS
      <4>2. field_bytes[i] = ByteSize - 1
        BY <4>1, <1>4 DEF Top
      <4>3. QED
        BY <3>1, <4>2, <1>2, SizesAreNat
    <3>4. i = Width
      BY <3>2, <3>3, <1>6
    <3>5. \A j \in 1 .. Width - 1 : y[j] = field_bytes[j]
      BY <3>1, <3>4
    <3>6. y[1] = SignBit - 1 /\ \A j \in 2 .. Width - 1 : y[j] = Top
      BY <3>5, <1>4, <1>5
    <3>7. ByteSize - Deficit < y[Width]
      BY <3>1, <3>4, <1>4
    <3>8. QED
      BY <3>6, <3>7, <1>2, <1>5, SizesAreNat
  <2>3. y = field_bytes \/ byte_less(field_bytes, y)
    BY <1>7, <1>8, <1>9, <1>10, <1>12, FieldBytes
  <2>4. QED
    BY <2>1, <2>2, <2>3
<1>13. QED
  BY <1>3, <1>7, <1>11, <1>12

LEMMA TopBytes ==
  ASSUME NEW b \in Number
  PROVE  /\ b[Width] = SignBit <=> b[Width] % SignBit = 0 /\ sign(b) = 1
         /\ b[Width] = Top <=> b[Width] % SignBit = SignBit - 1 /\ sign(b) = 1
<1>1. /\ y_bytes(b)[1] < SignBit /\ sign(b) \in {0, 1}
      /\ b[Width] = sign(b) * SignBit + y_bytes(b)[1]
  BY YBytes
<1>2. y_bytes(b)[1] = b[Width] % SignBit /\ b[Width] % SignBit \in Nat
  <2>1. b[Width] \in Nat
    BY SizesAreNat DEF Number
  <2>2. QED
    BY <2>1, MiddleOfY, SizesAreNat, Division
<1>3. sign(b) = 0 => b[Width] = b[Width] % SignBit
  BY <1>1, <1>2, SizesAreNat
<1>4. sign(b) = 1 => b[Width] = SignBit + (b[Width] % SignBit)
  BY <1>1, <1>2, SizesAreNat
<1> DEFINE c == b[Width] % SignBit
<1>5. c \in Nat /\ c < SignBit /\ (sign(b) = 0 => b[Width] = c) /\ (sign(b) = 1 => b[Width] = SignBit + c)
  BY <1>1, <1>2, <1>3, <1>4
<1> HIDE DEF c
<1>6. /\ b[Width] = SignBit <=> c = 0 /\ sign(b) = 1
      /\ b[Width] = Top <=> c = SignBit - 1 /\ sign(b) = 1
  BY <1>1, <1>5, SizesAreNat DEF Top
<1>7. QED
  BY <1>6 DEF c

LEMMA YEquals ==
  ASSUME NEW b \in Number, NEW s \in Number, NEW d, \A i \in 2 .. Width - 1 : s[i] = d
  PROVE  y_value(b) = big_endian_value(s) <=>
           b[Width] % SignBit = s[1] /\ Middle(b) \subseteq {d} /\ b[1] = s[Width]
<1>1. y_bytes(b) \in Number
  BY YBytes
<1>2. y_value(b) = big_endian_value(s) <=> y_bytes(b) = s
  BY <1>1, ValueOrder DEF y_value
<1>3. /\ Middle(b) \subseteq {d} <=> \A i \in 2 .. Width - 1 : y_bytes(b)[i] = d
      /\ y_bytes(b)[Width] = b[1] /\ y_bytes(b)[1] = b[Width] % SignBit
  BY MiddleOfY
<1>4. \A i \in 1 .. Width : i = 1 \/ i \in 2 .. Width - 1 \/ i = Width
  BY SizesAreNat
<1>5. ASSUME y_bytes(b)[1] = s[1], \A i \in 2 .. Width - 1 : y_bytes(b)[i] = d, y_bytes(b)[Width] = s[Width]
      PROVE  y_bytes(b) = s
  <2>1. \A i \in 1 .. Width : y_bytes(b)[i] = s[i]
    BY <1>4, <1>5
  <2>2. QED
    BY <1>1, <2>1, SameBytes
<1>6. QED
  BY <1>2, <1>3, <1>5

LEMMA CanonicalEncoding ==
  ASSUME NEW b \in Number
  PROVE  canonical(b) <=> /\ y_value(b) < FieldSize
                          /\ y_value(b) \in {1, FieldSize - 1} => sign(b) # 1
<1>1. y_value(b) = 1 <=> b[Width] % SignBit = 0 /\ Middle(b) \subseteq {0} /\ b[1] = 1
  <2>1. one[1] = 0 /\ one[Width] = 1 /\ one \in Number /\ \A i \in 2 .. Width - 1 : one[i] = 0
    BY One, SizesAreNat
  <2>2. big_endian_value(one) = 1
    BY One
  <2>3. y_value(b) = big_endian_value(one) <=>
          b[Width] % SignBit = one[1] /\ Middle(b) \subseteq {0} /\ b[1] = one[Width]
    BY <2>1, YEquals
  <2>4. QED
    BY <2>1, <2>2, <2>3
<1>2. y_value(b) = FieldSize - 1 <=>
        /\ b[Width] % SignBit = SignBit - 1 /\ Middle(b) \subseteq {Top}
        /\ b[1] = ByteSize - Deficit - 1
  <2>1. /\ field_bytes[1] = SignBit - 1 /\ \A i \in 2 .. Width - 1 : field_bytes[i] = Top
        /\ field_bytes \in [1 .. Width -> 0 .. ByteSize - 1]
    <3>1. field_bytes[1] = SignBit - 1 /\ \A i \in 2 .. Width - 1 : field_bytes[i] = Top
      BY SizesAreNat DEF field_bytes
    <3>2. QED
      BY <3>1, FieldBytes DEF Number
  <2>2. /\ field_less_one[1] = SignBit - 1 /\ field_less_one[Width] = ByteSize - Deficit - 1
        /\ \A i \in 2 .. Width - 1 : field_less_one[i] = Top
    BY <2>1, SizesAreNat DEF field_less_one
  <2>3. field_less_one \in Number /\ big_endian_value(field_less_one) = FieldSize - 1
    BY FieldLessOne
  <2>4. y_value(b) = big_endian_value(field_less_one) <=>
          /\ b[Width] % SignBit = field_less_one[1] /\ Middle(b) \subseteq {Top}
          /\ b[1] = field_less_one[Width]
    BY <2>2, <2>3, YEquals
  <2>5. QED
    BY <2>2, <2>3, <2>4
<1>3. QED
  BY <1>1, <1>2, FieldReached, TopBytes DEF canonical

EqualPoints(s) == {t \in Number : point(t) = point(s)}

CanonicalPoints(s) == {t \in EqualPoints(s) : canonical(t)}

\* of the encodings that decode to the same point, one is canonical
LEMMA OnePoint ==
  ASSUME NEW s \in Number
  PROVE  \E u \in Number : CanonicalPoints(s) = {u} /\ (canonical(s) => u = s)
<1> DEFINE Unsigned == {1, FieldSize - 1}
           y == y_value(s) % FieldSize
           q == IF y \in Unsigned THEN 0 ELSE sign(s)
<1>1. FieldSize \in Nat \ {0} /\ FieldSize < Signed /\ Signed \in Nat
  BY FieldBytes, SignBytes
<1>2. \A t \in Number : y_value(t) \in Nat /\ sign(t) \in {0, 1}
  BY EncodingValue, YBytes, SignBytes
<1>3. y \in 0 .. FieldSize - 1
  <2>1. y_value(s) \in Nat
    BY <1>2
  <2>2. QED
    BY <1>1, <2>1, Remainder
<1>4. q \in {0, 1} /\ (y \in Unsigned => q = 0)
  BY <1>2
<1>5. point(s) = <<y, q>>
  BY PointOfEncoding
<1>6. \A t \in Number : canonical(t) =>
        /\ point(t) = <<y_value(t), sign(t)>>
        /\ y_value(t) < FieldSize
  <2> SUFFICES ASSUME NEW t \in Number, canonical(t)
               PROVE  point(t) = <<y_value(t), sign(t)>> /\ y_value(t) < FieldSize
    OBVIOUS
  <2>1. y_value(t) < FieldSize /\ (y_value(t) \in Unsigned => sign(t) # 1)
    BY CanonicalEncoding
  <2>2. y_value(t) \in Nat /\ FieldSize \in Nat
    BY <1>1, <1>2
  <2>3. y_value(t) % FieldSize = y_value(t)
    BY <2>1, <2>2, RemainderBelow, Zenon
  <2>4. sign(t) \in {0, 1}
    BY <1>2
  <2>5. point(t) = <<y_value(t), IF y_value(t) \in Unsigned THEN 0 ELSE sign(t)>>
    BY <2>3, PointOfEncoding
  <2>6. QED
    BY <2>1, <2>4, <2>5
<1>7. PICK u \in Number : y_value(u) = y /\ sign(u) = q
  <2>1. y \in 0 .. Signed - 1
    BY <1>1, <1>3
  <2> HIDE DEF y, q
  <2>2. QED
    BY <2>1, <1>4, EncodingExists
<1> HIDE DEF y, q
<1>8. canonical(u)
  BY <1>1, <1>3, <1>4, <1>7, CanonicalEncoding
<1>9. point(u) = point(s)
  BY <1>5, <1>6, <1>7, <1>8
<1>10. ASSUME NEW t \in Number, canonical(t), point(t) = point(s) PROVE t = u
  <2>1. <<y_value(t), sign(t)>> = <<y, q>>
    BY <1>5, <1>6, <1>10
  <2>2. y_value(t) = y_value(u) /\ sign(t) = sign(u)
    BY <2>1, <1>7
  <2>3. QED
    BY <2>2, OneEncoding
<1>11. CanonicalPoints(s) = {u}
  BY <1>8, <1>9, <1>10 DEF CanonicalPoints, EqualPoints
<1>12. QED
  BY <1>10, <1>11

\* of the encodings that decode to the same point, canonical accepts exactly one.
THEOREM PointsAreCanonical == CodecsSpec => []PointCanonical
<1>1. Answered(task, answer) => PointCanonical
  <2> SUFFICES ASSUME Answered(task, answer), task.of = "canonical" PROVE PointCanonical
    BY DEF PointCanonical
  <2>1. PICK s \in Number : task = [of |-> "canonical", s |-> s] /\ answer = [ok |-> canonical(s)]
    BY DEF Answered, SignatureAnswered, TextAnswered
  <2>2. task.s = s /\ answer.ok = canonical(s)
    BY <2>1
  <2>3. PICK u \in Number : CanonicalPoints(s) = {u} /\ (canonical(s) => u = s)
    BY OnePoint
  <2>4. Cardinality(CanonicalPoints(s)) = 1
    BY <2>3, FS_Singleton
  <2>5. answer.ok => CanonicalPoints(s) = {s}
    BY <2>2, <2>3
  <2>6. QED
    BY <2>2, <2>4, <2>5, Zenon DEF PointCanonical, CanonicalPoints, EqualPoints
<1>2. QED
  BY <1>1, AnswersAreReturned, PTL

\* a message has one signature per key that passes the gates of the two suites,
\* and a key one encoding.
THEOREM SpellingsAreOne == CodecsSpec => []OneSpelling
BY TwinsAreRefused, ScalarsAreReduced, PointsAreCanonical, PTL DEF OneSpelling

-----------------------------------------------------------------------------
(***************************************************************************)
(* A function that is defined from what it is one place before.            *)
(***************************************************************************)

Steps(f, a, h, n) == f[0] = a /\ \A i \in 1 .. n : f[i] = h[<<f[i - 1], i>>]

LEMMA StepsExist ==
  ASSUME NEW X, NEW a \in X, NEW n \in Nat, NEW h \in [X \X (1 .. n) -> X]
  PROVE  \E f \in [0 .. n -> X] : Steps(f, a, h, n)
<1> DEFINE P == {k \in 0 .. n : \E f \in [0 .. k -> X] : Steps(f, a, h, k)}
<1>1. 0 \in P
  <2>1. [i \in 0 .. 0 |-> a] \in [0 .. 0 -> X] /\ Steps([i \in 0 .. 0 |-> a], a, h, 0)
    BY DEF Steps
  <2>2. QED
    BY <2>1
<1>2. ASSUME NEW k \in 0 .. n - 1, k \in P PROVE k + 1 \in P
  <2>1. PICK f \in [0 .. k -> X] : Steps(f, a, h, k)
    BY <1>2
  <2>2. PICK m \in 1 .. n : m = k + 1
    OBVIOUS
  <2> DEFINE g == [i \in 0 .. m |-> IF i = m THEN h[<<f[k], m>>] ELSE f[i]]
  <2>3. f[k] \in X /\ h[<<f[k], m>>] \in X
    BY <2>1, <2>2
  <2>4. \A i \in 0 .. m : IF i = m THEN g[i] = h[<<f[k], m>>] ELSE i \in 0 .. k /\ g[i] = f[i]
    BY <2>2
  <2>5. g \in [0 .. m -> X]
    BY <2>2, <2>3
  <2> HIDE DEF g
  <2>6. \A i \in 1 .. m : g[i] = h[<<g[i - 1], i>>]
    <3> SUFFICES ASSUME NEW i \in 1 .. m PROVE g[i] = h[<<g[i - 1], i>>]
      OBVIOUS
    <3>1. i - 1 \in 0 .. k /\ g[i - 1] = f[i - 1]
      BY <2>2, <2>4
    <3>2. CASE i = m
      BY <2>2, <2>4, <3>1, <3>2
    <3>3. CASE i # m
      <4>1. i \in 1 .. k /\ g[i] = f[i]
        BY <2>2, <2>4, <3>3
      <4>2. f[i] = h[<<f[i - 1], i>>]
        BY <2>1, <4>1 DEF Steps
      <4>3. QED
        BY <3>1, <4>1, <4>2
    <3>4. QED
      BY <3>2, <3>3
  <2>7. g[0] = a
    BY <2>1, <2>2, <2>4 DEF Steps
  <2>8. Steps(g, a, h, m)
    BY <2>6, <2>7 DEF Steps
  <2>9. QED
    BY <2>2, <2>5, <2>8
<1> HIDE DEF P
<1>3. 0 .. n \subseteq P
  BY <1>1, <1>2, n \in Int, 0 \in Int, IntervalUp, Zenon
<1>4. QED
  BY <1>3 DEF P

-----------------------------------------------------------------------------
(***************************************************************************)
(* Groups: a sequence in pieces of w, the last one shorter.                *)
(***************************************************************************)

\* where the j-th of the k-th piece is
At(w, k, j) == w * (k - 1) + j

\* w - 1 pieces of w, and one that is not empty
Pieces(S, w, ss) ==
  /\ ss \in Seq(Seq(S)) /\ ss # << >>
  /\ \A k \in 1 .. Len(ss) - 1 : Len(ss[k]) = w
  /\ Len(ss[Len(ss)]) \in 1 .. w

LEMMA PlaceOrder ==
  ASSUME NEW w \in {3, 4}, NEW k \in Nat \ {0}, NEW j \in 1 .. w
  PROVE  /\ At(w, k, j) \in Nat \ {0} /\ At(w, 1, j) = j
         /\ At(w, k + 1, j) = At(w, k, w) + j
         /\ \A i \in Nat \ {0}, l \in 1 .. w : k < i => At(w, k, j) < At(w, i, l)
         /\ (At(w, k, j) + w - 1) \div w = k
<1>1. CASE w = 3
  BY <1>1 DEF At
<1>2. CASE w = 4
  BY <1>2 DEF At
<1>3. QED
  BY <1>1, <1>2

LEMMA PlaceNext ==
  ASSUME NEW w \in {3, 4}, NEW k \in Nat \ {0}, NEW i, i = k + 1, NEW j \in 1 .. w
  PROVE  At(w, i, j) = At(w, k, w) + j
<1>1. CASE w = 3
  BY <1>1 DEF At
<1>2. CASE w = 4
  BY <1>2 DEF At
<1>3. QED
  BY <1>1, <1>2

LEMMA PlaceBefore ==
  ASSUME NEW w \in {3, 4}, NEW k \in Nat \ {0}, NEW j \in 1 .. w,
         NEW i \in Nat \ {0}, NEW l \in 1 .. w, k < i
  PROVE  At(w, k, j) < At(w, i, l)
BY PlaceOrder

Located(w, m, l, p) ==
  \E k \in 1 .. m : \E j \in 1 .. (IF k = m THEN l ELSE w) : p = At(w, k, j)

LEMMA PlaceExists ==
  ASSUME NEW w \in {3, 4}, NEW m \in Nat \ {0}, NEW l \in 1 .. w, NEW p \in 1 .. At(w, m, l)
  PROVE  Located(w, m, l, p)
<1>1. CASE w = 3
  <2>1. /\ (p + 2) \div 3 \in 1 .. m
        /\ p - 3 * ((p + 2) \div 3 - 1) \in 1 .. (IF (p + 2) \div 3 = m THEN l ELSE 3)
        /\ p = At(3, (p + 2) \div 3, p - 3 * ((p + 2) \div 3 - 1))
    BY <1>1 DEF At
  <2>2. QED
    BY <1>1, <2>1 DEF Located
<1>2. CASE w = 4
  <2>1. /\ (p + 3) \div 4 \in 1 .. m
        /\ p - 4 * ((p + 3) \div 4 - 1) \in 1 .. (IF (p + 3) \div 4 = m THEN l ELSE 4)
        /\ p = At(4, (p + 3) \div 4, p - 4 * ((p + 3) \div 4 - 1))
    BY <1>2 DEF At
  <2>2. QED
    BY <1>2, <2>1 DEF Located
<1>3. QED
  BY <1>1, <1>2

FlatUnfolds(ss, f) ==
  f = [i \in 1 .. Len(ss) |-> IF i = 1 THEN ss[i] ELSE f[i - 1] \o ss[i]]

LEMMA FlattenUnfolds ==
  ASSUME NEW S, NEW ss \in Seq(Seq(S)), ss # << >>
  PROVE  \E f : /\ f[1] = ss[1] /\ \A i \in 2 .. Len(ss) : f[i] = f[i - 1] \o ss[i]
                /\ FlattenSeq(ss) = f[Len(ss)]
<1> DEFINE n == Len(ss)
           X == Seq(S)
           h == [p \in X \X (1 .. n) |-> p[1] \o ss[p[2]]]
<1>1. n \in Nat \ {0} /\ << >> \in X /\ \A i \in 1 .. n : ss[i] \in X
  BY EmptySeq, ElementOfSeq
<1>2. h \in [X \X (1 .. n) -> X]
  <2>1. \A x \in X : \A i \in 1 .. n : x \o ss[i] \in X
    BY <1>1, ConcatProperties
  <2>2. QED
    BY <2>1
<1>3. \A x \in X : \A i \in 1 .. n : h[<<x, i>>] = x \o ss[i]
  OBVIOUS
<1> HIDE DEF h
<1>4. PICK f \in [0 .. n -> X] : Steps(f, << >>, h, n)
  <2>1. n \in Nat
    BY <1>1
  <2> HIDE DEF n, X
  <2>2. QED
    BY <1>1, <1>2, <2>1, StepsExist, Zenon
<1> DEFINE g == [i \in 1 .. n |-> f[i]]
<1>5. \A i \in 1 .. n : i - 1 \in 0 .. n /\ f[i - 1] \in X /\ f[i] = f[i - 1] \o ss[i]
  <2> SUFFICES ASSUME NEW i \in 1 .. n
               PROVE  i - 1 \in 0 .. n /\ f[i - 1] \in X /\ f[i] = f[i - 1] \o ss[i]
    OBVIOUS
  <2> HIDE DEF n, X
  <2>1. i - 1 \in 0 .. n
    BY <1>1
  <2>2. f[i - 1] \in X /\ f[i] = h[<<f[i - 1], i>>]
    BY <1>4, <2>1 DEF Steps
  <2>3. QED
    BY <1>3, <2>1, <2>2, Zenon
<1>6. \A i \in 1 .. n : g[i] = IF i = 1 THEN ss[i] ELSE g[i - 1] \o ss[i]
  <2> SUFFICES ASSUME NEW i \in 1 .. n PROVE g[i] = IF i = 1 THEN ss[i] ELSE g[i - 1] \o ss[i]
    OBVIOUS
  <2>1. CASE i = 1
    <3>1. f[i] = << >> \o ss[i]
      <4>1. f[i] = f[i - 1] \o ss[i] /\ i - 1 = 0
        BY SMTT(30), <1>5, <2>1
      <4>2. f[0] = << >>
        BY <1>4 DEF Steps
      <4>3. QED
        BY <4>1, <4>2, Zenon
    <3>2. f[i] = ss[i]
      BY <1>1, <3>1, ConcatEmptySeq
    <3>3. QED
      BY <2>1, <3>2
  <2>2. CASE i # 1
    <3>1. i - 1 \in 1 .. n
      BY <2>2, <1>1
    <3>2. g[i - 1] = f[i - 1] /\ g[i] = f[i]
      BY <3>1
    <3>3. QED
      BY <2>2, <3>2, <1>5
  <2>3. QED
    BY <2>1, <2>2
<1>7. FlatUnfolds(ss, g)
  <2>1. g = [i \in 1 .. n |-> g[i]]
    OBVIOUS
  <2> HIDE DEF g
  <2>2. QED
    BY <1>6, <2>1, Zenon DEF FlatUnfolds
<1> DEFINE c == CHOOSE x : FlatUnfolds(ss, x)
<1>8. FlatUnfolds(ss, c)
  BY <1>7, Zenon
<1>9. FlattenSeq(ss) = c[n]
  BY <1>1 DEF FlattenSeq, FlatUnfolds
<1> HIDE DEF c
<1>10. \A i \in 1 .. n : c[i] = IF i = 1 THEN ss[i] ELSE c[i - 1] \o ss[i]
  BY <1>8 DEF FlatUnfolds
<1>11. c[1] = ss[1] /\ \A i \in 2 .. n : c[i] = c[i - 1] \o ss[i]
  <2>1. 1 \in 1 .. n /\ \A i \in 2 .. n : i \in 1 .. n /\ i # 1
    BY <1>1
  <2>2. QED
    BY <1>10, <2>1, Zenon
<1>12. QED
  BY <1>9, <1>11

\* each piece is where its number says
Laid(S, w, ss, m, F) ==
  /\ F \in Seq(S) /\ Len(F) = At(w, m, Len(ss[m]))
  /\ \A k \in 1 .. m : \A j \in 1 .. Len(ss[k]) : F[At(w, k, j)] = ss[k][j]

LEMMA LaidNext ==
  ASSUME NEW S, NEW w \in {3, 4}, NEW ss, Pieces(S, w, ss),
         NEW m \in 1 .. Len(ss) - 1, NEW F, Laid(S, w, ss, m, F)
  PROVE  Laid(S, w, ss, m + 1, F \o ss[m + 1])
<1>1. /\ ss \in Seq(Seq(S)) /\ m \in Nat \ {0} /\ m + 1 \in 1 .. Len(ss) /\ m \in 1 .. Len(ss)
      /\ Len(ss) \in Nat
  BY DEF Pieces
<1>2. ss[m] \in Seq(S) /\ ss[m + 1] \in Seq(S) /\ Len(ss[m]) = w
  BY <1>1, ElementOfSeq DEF Pieces
<1>3. \A k \in 1 .. Len(ss) : Len(ss[k]) \in 1 .. w
  BY <1>1 DEF Pieces
<1>4. F \in Seq(S) /\ Len(F) = At(w, m, w) /\ Len(F) \in Nat
  BY <1>2 DEF Laid
<1> DEFINE G == F \o ss[m + 1]
           n == Len(ss[m + 1])
<1>5. /\ G \in Seq(S) /\ Len(G) = Len(F) + n
      /\ \A i \in 1 .. Len(F) + n : G[i] = IF i <= Len(F) THEN F[i] ELSE ss[m + 1][i - Len(F)]
  BY <1>2, <1>4, ConcatProperties
<1>6. n \in 1 .. w
  BY <1>1, <1>3
<1> HIDE DEF G, n
<1>7. Len(G) = At(w, m + 1, n)
  <2>1. At(w, m + 1, n) = At(w, m, w) + n
    <3> DEFINE i == m + 1
    <3>1. i = m + 1
      OBVIOUS
    <3> HIDE DEF i
    <3>2. At(w, i, n) = At(w, m, w) + n
      BY <1>1, <1>6, <3>1, PlaceNext, Zenon
    <3>3. QED
      BY <3>2 DEF i
  <2>2. QED
    BY <1>4, <1>5, <2>1, SMTT(30)
<1>8. ASSUME NEW k \in 1 .. m, NEW j \in 1 .. Len(ss[k]) PROVE G[At(w, k, j)] = ss[k][j]
  <2>1. k \in Nat \ {0} /\ j \in 1 .. w /\ w \in 1 .. w
    BY SMTT(30), <1>1, <1>3
  <2>2. At(w, k, j) \in Nat \ {0}
    BY <2>1, PlaceOrder
  <2>3. At(w, k, j) <= At(w, m, w)
    <3>1. CASE k < m
      <4>1. At(w, k, j) < At(w, m, w)
        BY <2>1, <3>1, <1>1, PlaceOrder
      <4>2. At(w, m, w) \in Nat
        BY <1>4
      <4>3. QED
        BY <2>2, <4>1, <4>2
    <3>2. CASE k = m
      BY <2>1, <3>2 DEF At
    <3>3. QED
      BY <3>1, <3>2, <1>1
  <2>4. G[At(w, k, j)] = F[At(w, k, j)]
    BY <1>4, <1>5, <1>6, <2>2, <2>3
  <2>5. F[At(w, k, j)] = ss[k][j]
    BY DEF Laid
  <2>6. QED
    BY <2>4, <2>5
<1>9. ASSUME NEW j \in 1 .. n PROVE G[At(w, m + 1, j)] = ss[m + 1][j]
  <2>1. At(w, m + 1, j) = At(w, m, w) + j
    <3>1. j \in 1 .. w
      BY <1>6
    <3> DEFINE i == m + 1
    <3>2. i = m + 1
      OBVIOUS
    <3> HIDE DEF i
    <3>3. At(w, i, j) = At(w, m, w) + j
      BY <1>1, <3>1, <3>2, PlaceNext, Zenon
    <3>4. QED
      BY <3>3 DEF i
  <2>2. At(w, m + 1, j) = Len(F) + j
    BY <2>1, <1>4
  <2>3. Len(F) + j \in 1 .. Len(F) + n /\ ~ (Len(F) + j <= Len(F)) /\ (Len(F) + j) - Len(F) = j
    BY <1>4, <1>6
  <2>4. QED
    BY <1>5, <2>2, <2>3
<1>10. \A k \in 1 .. m + 1 : k \in 1 .. m \/ k = m + 1
  BY <1>1
<1>11. \A k \in 1 .. m + 1 : \A j \in 1 .. Len(ss[k]) : G[At(w, k, j)] = ss[k][j]
  BY <1>8, <1>9, <1>10 DEF n
<1>12. QED
  BY <1>5, <1>7, <1>11 DEF Laid, G, n

LEMMA FlattenLays ==
  ASSUME NEW S, NEW w \in {3, 4}, NEW ss, Pieces(S, w, ss)
  PROVE  Laid(S, w, ss, Len(ss), FlattenSeq(ss))
<1> DEFINE n == Len(ss)
<1>1. ss \in Seq(Seq(S)) /\ ss # << >> /\ n \in Nat \ {0}
  BY EmptySeq DEF Pieces
<1>2. PICK f : /\ f[1] = ss[1] /\ \A i \in 2 .. n : f[i] = f[i - 1] \o ss[i]
               /\ FlattenSeq(ss) = f[n]
  BY <1>1, FlattenUnfolds
<1> DEFINE P == {k \in 1 .. n : Laid(S, w, ss, k, f[k])}
<1>3. 1 \in P
  <2>1. 1 \in 1 .. n /\ ss[1] \in Seq(S) /\ Len(ss[1]) \in 1 .. w
    BY <1>1, ElementOfSeq DEF Pieces
  <2>2. \A j \in 1 .. w : At(w, 1, j) = j
    BY DEF At
  <2>3. QED
    BY <1>2, <2>1, <2>2 DEF Laid
<1>4. ASSUME NEW k \in 1 .. n - 1, k \in P PROVE k + 1 \in P
  <2>1. k + 1 \in 2 .. n /\ k + 1 \in 1 .. n /\ (k + 1) - 1 = k
    BY <1>1
  <2>2. f[k + 1] = f[k] \o ss[k + 1]
    BY <1>2, <2>1
  <2>3. Laid(S, w, ss, k + 1, f[k] \o ss[k + 1])
    BY <1>4, LaidNext
  <2>4. QED
    BY <2>1, <2>2, <2>3
<1> HIDE DEF P
<1>5. 1 .. n \subseteq P
  <2>1. n \in Int /\ 1 \in Int
    BY <1>1
  <2> HIDE DEF n
  <2>2. QED
    BY <1>3, <1>4, <2>1, IntervalUp, Zenon
<1>6. n \in P
  BY SMTT(30), <1>1, <1>5
<1>7. QED
  BY <1>2, <1>6 DEF P

\* what is laid out in pieces falls into these pieces
LEMMA GroupsOfLaid ==
  ASSUME NEW S, NEW w \in {3, 4}, NEW ss, Pieces(S, w, ss),
         NEW F, Laid(S, w, ss, Len(ss), F)
  PROVE  groups(F, w) = ss
<1> DEFINE n == Len(ss)
           gs == groups(F, w)
<1>1. ss \in Seq(Seq(S)) /\ n \in Nat \ {0}
  BY EmptySeq DEF Pieces
<1>2. \A k \in 1 .. n : /\ ss[k] \in Seq(S) /\ Len(ss[k]) \in 1 .. w
                        /\ k # n => Len(ss[k]) = w
  BY <1>1, ElementOfSeq DEF Pieces
<1>3. F \in Seq(S) /\ Len(F) = At(w, n, Len(ss[n])) /\ Len(F) \in Nat
  BY DEF Laid
<1>4. (Len(F) + w - 1) \div w = n
  <2> DEFINE l == Len(ss[n])
  <2>1. l \in 1 .. w /\ Len(F) = At(w, n, l)
    BY <1>1, <1>2, <1>3
  <2> HIDE DEF l, n
  <2>2. (At(w, n, l) + w - 1) \div w = n
    BY <1>1, <2>1, PlaceOrder, Zenon
  <2>3. QED
    BY <2>1, <2>2
<1>5. gs = [k \in 1 .. n |->
              SubSeq(F, w * (k - 1) + 1, IF w * k < Len(F) THEN w * k ELSE Len(F))]
  BY <1>4 DEF groups
<1>6. ASSUME NEW k \in 1 .. n PROVE gs[k] = ss[k]
  <2> DEFINE a == w * (k - 1)
             l == Len(ss[k])
             z == IF w * k < Len(F) THEN w * k ELSE Len(F)
  <2>1. l \in 1 .. w /\ a \in Nat /\ z = a + l /\ z <= Len(F)
    <3>1. l \in 1 .. w
      BY <1>2
    <3>2. a \in Nat /\ w * k = a + w
      BY <1>1
    <3>3. CASE k = n
      <4>1. Len(F) = a + l
        BY <3>3, <1>3 DEF At
      <4> HIDE DEF a, l
      <4>2. QED
        BY <3>1, <3>2, <4>1
    <3>4. CASE k # n
      <4>1. l = w
        BY <3>4, <1>2
      <4>2. At(w, k, w) < At(w, n, Len(ss[n]))
        <5>1. k \in Nat \ {0} /\ n \in Nat \ {0} /\ k < n /\ Len(ss[n]) \in 1 .. w /\ w \in 1 .. w
          BY <3>4, <1>1, <1>2
        <5> HIDE DEF n
        <5>2. QED
          BY <5>1, PlaceBefore
      <4>3. At(w, k, w) = a + w
        BY DEF At
      <4>4. a + w < Len(F)
        BY <4>2, <4>3, <1>3
      <4> HIDE DEF a, l
      <4>5. QED
        BY <3>1, <3>2, <4>1, <4>4
    <3>5. QED
      BY <3>3, <3>4
  <2>2. \A j \in 1 .. l : F[a + j] = ss[k][j]
    BY DEF Laid, At
  <2>3. gs[k] = SubSeq(F, a + 1, z)
    BY <1>5
  <2> HIDE DEF a, z, l, gs
  <2>4. \A i \in a + 1 .. z : F[i] \in S
    BY <1>3, <2>1
  <2>5. /\ SubSeq(F, a + 1, z) \in Seq(S) /\ Len(SubSeq(F, a + 1, z)) = l
        /\ \A i \in 1 .. l : SubSeq(F, a + 1, z)[i] = F[a + i]
    <3>1. /\ SubSeq(F, a + 1, z) \in Seq(S)
          /\ Len(SubSeq(F, a + 1, z)) = IF a + 1 <= z THEN z - (a + 1) + 1 ELSE 0
          /\ \A i \in 1 .. z - (a + 1) + 1 : SubSeq(F, a + 1, z)[i] = F[a + 1 + i - 1]
      BY <2>1, <2>4, SubSeqProperties
    <3>2. z - (a + 1) + 1 = l /\ a + 1 <= z /\ \A i \in 1 .. l : a + 1 + i - 1 = a + i
      BY <2>1
    <3>3. QED
      BY <3>1, <3>2
  <2>6. SubSeq(F, a + 1, z) = ss[k]
    <3>1. ss[k] \in Seq(S) /\ Len(ss[k]) = l
      BY <1>2 DEF l
    <3> DEFINE x == SubSeq(F, a + 1, z)
               y == ss[k]
    <3>2. x \in Seq(S) /\ y \in Seq(S) /\ Len(x) = Len(y) /\ \A i \in 1 .. Len(x) : x[i] = y[i]
      BY <2>2, <2>5, <3>1
    <3> HIDE DEF x, y
    <3>3. x = y
      BY <3>2, SeqEqual
    <3>4. QED
      BY <3>3 DEF x, y
  <2>7. QED
    BY <2>3, <2>6
<1>7. gs = [k \in 1 .. n |-> gs[k]]
  BY <1>5
<1>8. ss = [k \in 1 .. n |-> ss[k]]
  BY <1>1
<1> HIDE DEF gs, n
<1>9. gs = ss
  BY <1>6, <1>7, <1>8
<1>10. QED
  BY <1>9 DEF gs

LEMMA LaidOnce ==
  ASSUME NEW S, NEW w \in {3, 4}, NEW ss, Pieces(S, w, ss),
         NEW F, Laid(S, w, ss, Len(ss), F), NEW G, Laid(S, w, ss, Len(ss), G)
  PROVE  F = G
<1> DEFINE n == Len(ss)
           l == Len(ss[n])
<1>1. n \in Nat \ {0} /\ l \in 1 .. w /\ \A k \in 1 .. n : k # n => Len(ss[k]) = w
  BY EmptySeq DEF Pieces
<1>2. /\ F \in Seq(S) /\ Len(F) = At(w, n, l) /\ G \in Seq(S) /\ Len(G) = At(w, n, l)
      /\ \A k \in 1 .. n : \A j \in 1 .. Len(ss[k]) : F[At(w, k, j)] = G[At(w, k, j)]
  BY DEF Laid
<1> HIDE DEF n, l
<1>3. ASSUME NEW p \in 1 .. Len(F) PROVE F[p] = G[p]
  <2>1. p \in 1 .. At(w, n, l)
    BY <1>2
  <2>2. Located(w, n, l, p)
    BY <1>1, <2>1, PlaceExists
  <2>3. PICK k \in 1 .. n : \E j \in 1 .. (IF k = n THEN l ELSE w) : p = At(w, k, j)
    BY <2>2 DEF Located
  <2>4. PICK j \in 1 .. (IF k = n THEN l ELSE w) : p = At(w, k, j)
    BY <2>3
  <2>5. j \in 1 .. Len(ss[k])
    BY <1>1 DEF l
  <2>6. QED
    BY <1>2, <2>4, <2>5
<1>4. QED
  BY <1>2, <1>3, SeqEqual

LEMMA GroupsLay ==
  ASSUME NEW S, NEW w \in {3, 4}, NEW s \in Seq(S), s # << >>
  PROVE  LET gs == groups(s, w) IN Pieces(S, w, gs) /\ Laid(S, w, gs, Len(gs), s)
<1> DEFINE gs == groups(s, w)
           n == (Len(s) + w - 1) \div w
           z(k) == IF w * k < Len(s) THEN w * k ELSE Len(s)
<1>1. Len(s) \in Nat \ {0}
  BY EmptySeq
<1>2. /\ n \in Nat \ {0} /\ w * (n - 1) < Len(s) /\ Len(s) <= w * n
      /\ \A k \in 1 .. n : /\ w * (k - 1) \in Nat /\ w * k = w * (k - 1) + w
                          /\ w * (k - 1) < Len(s) /\ (k # n => w * k < Len(s))
  <2>1. CASE w = 3
    BY <1>1, <2>1
  <2>2. CASE w = 4
    BY <1>1, <2>2
  <2>3. QED
    BY <2>1, <2>2
<1>3. gs = [k \in 1 .. n |-> SubSeq(s, w * (k - 1) + 1, z(k))]
  BY DEF groups
<1> HIDE DEF gs, n, z
<1>4. ASSUME NEW k \in 1 .. n
      PROVE  /\ gs[k] \in Seq(S) /\ Len(gs[k]) = z(k) - w * (k - 1) /\ Len(gs[k]) \in 1 .. w
             /\ k # n => Len(gs[k]) = w
             /\ \A j \in 1 .. Len(gs[k]) : s[At(w, k, j)] = gs[k][j]
  <2> DEFINE a == w * (k - 1)
             y == z(k)
  <2>1. a \in Nat /\ w * k = a + w /\ a < Len(s) /\ (k # n => a + w < Len(s))
    BY <1>2
  <2>2. y = (IF a + w < Len(s) THEN a + w ELSE Len(s))
    BY <2>1 DEF z
  <2>3. gs[k] = SubSeq(s, a + 1, y)
    BY <1>3
  <2>4. \A j : At(w, k, j) = a + j
    BY DEF At
  <2>5. k \in Nat
    OBVIOUS
  <2> HIDE DEF a, y
  <2>6. /\ y \in Nat /\ a + 1 <= y /\ y <= Len(s) /\ y <= a + w /\ (k # n => y = a + w)
    BY <1>1, <2>1, <2>2
  <2>7. \A i \in a + 1 .. y : s[i] \in S
    BY <2>1, <2>6
  <2>8. /\ SubSeq(s, a + 1, y) \in Seq(S)
        /\ Len(SubSeq(s, a + 1, y)) = IF a + 1 <= y THEN y - (a + 1) + 1 ELSE 0
        /\ \A i \in 1 .. y - (a + 1) + 1 : SubSeq(s, a + 1, y)[i] = s[a + 1 + i - 1]
    BY <2>1, <2>6, <2>7, SubSeqProperties
  <2>9. y - (a + 1) + 1 = y - a /\ \A i \in 1 .. y - a : a + 1 + i - 1 = a + i
    BY <2>1, <2>6
  <2>10. /\ gs[k] \in Seq(S) /\ Len(gs[k]) = y - a
         /\ \A i \in 1 .. y - a : gs[k][i] = s[a + i]
    BY <2>3, <2>6, <2>8, <2>9
  <2>11. y - a \in 1 .. w /\ (k # n => y - a = w)
    BY <2>1, <2>6
  <2>12. Len(gs[k]) \in 1 .. w /\ (k # n => Len(gs[k]) = w)
    BY <2>10, <2>11
  <2>13. \A j \in 1 .. Len(gs[k]) : s[At(w, k, j)] = gs[k][j]
    BY <2>4, <2>10, Zenon
  <2>14. Len(gs[k]) = z(k) - w * (k - 1)
    BY <2>10 DEF a, y
  <2>15. QED
    BY <2>10, <2>12, <2>13, <2>14
<1>5. gs = [k \in 1 .. n |-> gs[k]]
  BY <1>3
<1>6. gs \in Seq(Seq(S)) /\ Len(gs) = n
  BY <1>2, <1>4, <1>5
<1>7. Pieces(S, w, gs)
  <2>1. gs # << >>
    BY <1>2, <1>6, EmptySeq
  <2>2. n \in 1 .. n /\ \A k \in 1 .. n - 1 : k \in 1 .. n /\ k # n
    BY <1>2
  <2>3. QED
    BY <2>1, <2>2, <1>4, <1>6 DEF Pieces
<1>8. Len(s) = At(w, n, Len(gs[n]))
  <2>1. n \in 1 .. n /\ n \in Nat
    BY <1>2
  <2>2. Len(gs[n]) = z(n) - w * (n - 1) /\ w * (n - 1) \in Nat
    BY <1>2, <1>4, <2>1
  <2>3. z(n) = Len(s)
    BY <1>1, <1>2 DEF z
  <2>4. QED
    BY <2>2, <2>3, <1>1 DEF At
<1>9. Laid(S, w, gs, n, s)
  BY <1>4, <1>8 DEF Laid
<1>10. QED
  BY <1>6, <1>7, <1>9 DEF gs

LEMMA FlattenGroups ==
  ASSUME NEW S, NEW w \in {3, 4}, NEW s \in Seq(S), s # << >>
  PROVE  FlattenSeq(groups(s, w)) = s
BY GroupsLay, FlattenLays, LaidOnce

-----------------------------------------------------------------------------
(***************************************************************************)
(* base64url.rs: what is encoded is decoded.                               *)
(***************************************************************************)

LEMMA TupleTypes ==
  ASSUME NEW S, NEW x \in S, NEW y \in S, NEW z \in S, NEW u \in S
  PROVE  /\ <<x>> \in Seq(S) /\ Len(<<x>>) = 1
         /\ <<x, y>> \in Seq(S) /\ Len(<<x, y>>) = 2
         /\ <<x, y, z>> \in Seq(S) /\ Len(<<x, y, z>>) = 3
         /\ <<x, y, z, u>> \in Seq(S) /\ Len(<<x, y, z, u>>) = 4
OBVIOUS

LEMMA Tuples ==
  ASSUME NEW x, NEW y, NEW z
  PROVE  /\ SubSeq(<<x>> \o << >> \o << >>, 1, 1) = <<x>>
         /\ SubSeq(<<x>> \o <<y>> \o << >>, 1, 2) = <<x, y>>
         /\ SubSeq(<<x>> \o <<y>> \o <<z>>, 1, 3) = <<x, y, z>>
<1> DEFINE S == {x, y, z}
<1>1. /\ <<x>> \in Seq(S) /\ Len(<<x>>) = 1 /\ <<y>> \in Seq(S) /\ Len(<<y>>) = 1
      /\ <<z>> \in Seq(S) /\ Len(<<z>>) = 1
      /\ <<x, y>> \in Seq(S) /\ Len(<<x, y>>) = 2
      /\ <<x, y, z>> \in Seq(S) /\ Len(<<x, y, z>>) = 3
  <2>1. x \in S /\ y \in S /\ z \in S
    OBVIOUS
  <2> HIDE DEF S
  <2>2. QED
    BY <2>1, TupleTypes
<1> HIDE DEF S
<1>2. <<x>> \o << >> = <<x>> /\ <<x, y>> \o << >> = <<x, y>>
  BY <1>1, ConcatEmptySeq
<1>3. <<x>> \o <<y>> = <<x, y>>
  <2>1. /\ <<x>> \o <<y>> \in Seq(S) /\ Len(<<x>> \o <<y>>) = 2
        /\ (<<x>> \o <<y>>)[1] = x /\ (<<x>> \o <<y>>)[2] = y
    BY <1>1, ConcatProperties
  <2>2. <<x, y>>[1] = x /\ <<x, y>>[2] = y /\ 1 .. 2 = {1, 2}
    OBVIOUS
  <2> DEFINE a == <<x>> \o <<y>>
             b == <<x, y>>
  <2>3. /\ a \in Seq(S) /\ b \in Seq(S) /\ Len(a) = Len(b)
        /\ \A i \in 1 .. Len(a) : a[i] = b[i]
    BY <1>1, <2>1, <2>2
  <2> HIDE DEF a, b
  <2>4. a = b
    BY <2>3, SeqEqual
  <2>5. QED
    BY <2>4 DEF a, b
<1>4. <<x, y>> \o <<z>> = <<x, y, z>>
  <2>1. /\ <<x, y>> \o <<z>> \in Seq(S) /\ Len(<<x, y>> \o <<z>>) = 3
        /\ (<<x, y>> \o <<z>>)[1] = x /\ (<<x, y>> \o <<z>>)[2] = y /\ (<<x, y>> \o <<z>>)[3] = z
    BY <1>1, ConcatProperties
  <2>2. <<x, y, z>>[1] = x /\ <<x, y, z>>[2] = y /\ <<x, y, z>>[3] = z /\ 1 .. 3 = {1, 2, 3}
    OBVIOUS
  <2> DEFINE a == <<x, y>> \o <<z>>
             b == <<x, y, z>>
  <2>3. /\ a \in Seq(S) /\ b \in Seq(S) /\ Len(a) = Len(b)
        /\ \A i \in 1 .. Len(a) : a[i] = b[i]
    BY <1>1, <2>1, <2>2
  <2> HIDE DEF a, b
  <2>4. a = b
    BY <2>3, SeqEqual
  <2>5. QED
    BY <2>4 DEF a, b
<1>5. /\ SubSeq(<<x>>, 1, 1) = <<x>> /\ SubSeq(<<x, y>>, 1, 2) = <<x, y>>
      /\ SubSeq(<<x, y, z>>, 1, 3) = <<x, y, z>>
  BY <1>1, SubSeqFull
<1>6. QED
  BY <1>2, <1>3, <1>4, <1>5, Zenon

LEMMA DecodedGroup ==
  ASSUME NEW c
  PROVE  /\ Len(c) = 2 => decode_group(c) = <<(c[1] * 4 + c[2] \div 16) % 256>>
         /\ Len(c) = 3 => decode_group(c) = <<(c[1] * 4 + c[2] \div 16) % 256,
                                              (c[2] % 16) * 16 + c[3] \div 4>>
         /\ Len(c) = 4 => decode_group(c) = <<(c[1] * 4 + c[2] \div 16) % 256,
                                              (c[2] % 16) * 16 + c[3] \div 4,
                                              (c[3] % 4) * 64 + c[4]>>
<1> DEFINE x == (c[1] * 4 + c[2] \div 16) % 256
           y == (c[2] % 16) * 16 + c[3] \div 4
           z == (c[3] % 4) * 64 + c[4]
<1>1. decode_group(c) = SubSeq(<<x>> \o (IF Len(c) > 2 THEN <<y>> ELSE << >>)
                                    \o (IF Len(c) > 3 THEN <<z>> ELSE << >>), 1, Len(c) - 1)
  BY Zenon DEF decode_group
<1> HIDE DEF x, y, z
<1>2. Len(c) = 2 => decode_group(c) = SubSeq(<<x>> \o << >> \o << >>, 1, 1)
  BY <1>1
<1>3. Len(c) = 3 => decode_group(c) = SubSeq(<<x>> \o <<y>> \o << >>, 1, 2)
  BY <1>1
<1>4. Len(c) = 4 => decode_group(c) = SubSeq(<<x>> \o <<y>> \o <<z>>, 1, 3)
  BY <1>1
<1>5. /\ Len(c) = 2 => decode_group(c) = <<x>>
      /\ Len(c) = 3 => decode_group(c) = <<x, y>>
      /\ Len(c) = 4 => decode_group(c) = <<x, y, z>>
  BY <1>2, <1>3, <1>4, Tuples
<1>6. QED
  BY <1>5 DEF x, y, z

LEMMA OneMore ==
  ASSUME NEW l \in 1 .. 3, NEW a, a = l + 1
  PROVE  a \in 2 .. 4 /\ (l = 3 => a = 4)
OBVIOUS

LEMMA EncodedGroup ==
  ASSUME NEW g \in Seq(0 .. 255), Len(g) \in 1 .. 3
  PROVE  /\ encode_group(g) \in Seq(0 .. 63) /\ Len(encode_group(g)) = Len(g) + 1
         /\ decode_group(encode_group(g)) = g
<1> DEFINE e == encode_group(g)
<1>0. \A i \in 1 .. Len(g) : g[i] \in 0 .. 255
  BY ElementOfSeq
<1>1. CASE Len(g) = 1
  <2>1. PICK a \in 0 .. 255 : a = g[1]
    BY <1>0, <1>1
  <2>2. g = <<a>>
    BY <1>1, <2>1
  <2>3. PICK p \in 0 .. 63, q \in 0 .. 63 :
          /\ p = a \div 4
          /\ q = (a % 4) * 16
    <3>1. /\ a \div 4 \in 0 .. 63
          /\ (a % 4) * 16 \in 0 .. 63
      OBVIOUS
    <3>2. QED
      BY <3>1
  <2>4. e = <<p, q>>
    BY <1>1, <2>1, <2>3 DEF encode_group
  <2>5. e \in Seq(0 .. 63) /\ Len(e) = 2
    BY <2>4, TupleTypes
  <2>6. /\ (p * 4 + q \div 16) % 256 = a
    <3>1. /\ ((a \div 4) * 4 + ((a % 4) * 16) \div 16) % 256 = a
      OBVIOUS
    <3>2. QED
      BY <2>3, <3>1, Zenon
  <2>7. e[1] = p /\ e[2] = q
    BY <2>4
  <2>8. decode_group(e) = <<(p * 4 + q \div 16) % 256>>
    BY <2>5, <2>7, DecodedGroup
  <2>9. decode_group(e) = <<a>>
    BY <2>6, <2>8
  <2>10. QED
    BY <1>1, <2>2, <2>5, <2>9
<1>2. CASE Len(g) = 2
  <2>1. PICK a \in 0 .. 255, b \in 0 .. 255 : a = g[1] /\ b = g[2]
    <3>1. g[1] \in 0 .. 255 /\ g[2] \in 0 .. 255
      BY <1>0, <1>2
    <3>2. QED
      BY <3>1
  <2>2. g = <<a, b>>
    BY <1>2, <2>1
  <2>3. PICK p \in 0 .. 63, q \in 0 .. 63, r \in 0 .. 63 :
          /\ p = a \div 4
          /\ q = (a % 4) * 16 + b \div 16
          /\ r = (b % 16) * 4
    <3>1. /\ a \div 4 \in 0 .. 63
          /\ (a % 4) * 16 + b \div 16 \in 0 .. 63
          /\ (b % 16) * 4 \in 0 .. 63
      OBVIOUS
    <3>2. QED
      BY <3>1
  <2>4. e = <<p, q, r>>
    BY <1>2, <2>1, <2>3 DEF encode_group
  <2>5. e \in Seq(0 .. 63) /\ Len(e) = 3
    BY <2>4, TupleTypes
  <2>6. /\ (p * 4 + q \div 16) % 256 = a
        /\ (q % 16) * 16 + r \div 4 = b
    <3>1. /\ ((a \div 4) * 4 + ((a % 4) * 16 + b \div 16) \div 16) % 256 = a
          /\ (((a % 4) * 16 + b \div 16) % 16) * 16 + ((b % 16) * 4) \div 4 = b
      OBVIOUS
    <3>2. QED
      BY <2>3, <3>1, Zenon
  <2>7. e[1] = p /\ e[2] = q /\ e[3] = r
    BY <2>4
  <2>8. decode_group(e) = <<(p * 4 + q \div 16) % 256,
                              (q % 16) * 16 + r \div 4>>
    BY <2>5, <2>7, DecodedGroup
  <2>9. decode_group(e) = <<a, b>>
    BY <2>6, <2>8
  <2>10. QED
    BY <1>2, <2>2, <2>5, <2>9
<1>3. CASE Len(g) = 3
  <2>1. PICK a \in 0 .. 255, b \in 0 .. 255, c \in 0 .. 255 : a = g[1] /\ b = g[2] /\ c = g[3]
    <3>1. g[1] \in 0 .. 255 /\ g[2] \in 0 .. 255 /\ g[3] \in 0 .. 255
      BY <1>0, <1>3
    <3>2. QED
      BY <3>1
  <2>2. g = <<a, b, c>>
    BY <1>3, <2>1
  <2>3. PICK p \in 0 .. 63, q \in 0 .. 63, r \in 0 .. 63, t \in 0 .. 63 :
          /\ p = a \div 4
          /\ q = (a % 4) * 16 + b \div 16
          /\ r = (b % 16) * 4 + c \div 64
          /\ t = c % 64
    <3>1. /\ a \div 4 \in 0 .. 63
          /\ (a % 4) * 16 + b \div 16 \in 0 .. 63
          /\ (b % 16) * 4 + c \div 64 \in 0 .. 63
          /\ c % 64 \in 0 .. 63
      OBVIOUS
    <3>2. QED
      BY <3>1
  <2>4. e = <<p, q, r, t>>
    BY <1>3, <2>1, <2>3 DEF encode_group
  <2>5. e \in Seq(0 .. 63) /\ Len(e) = 4
    BY <2>4, TupleTypes
  <2>6. /\ (p * 4 + q \div 16) % 256 = a
        /\ (q % 16) * 16 + r \div 4 = b
        /\ (r % 4) * 64 + t = c
    <3>1. /\ ((a \div 4) * 4 + ((a % 4) * 16 + b \div 16) \div 16) % 256 = a
          /\ (((a % 4) * 16 + b \div 16) % 16) * 16 + ((b % 16) * 4 + c \div 64) \div 4 = b
          /\ (((b % 16) * 4 + c \div 64) % 4) * 64 + (c % 64) = c
      BY SMTT(30)
    <3>2. QED
      BY <2>3, <3>1, Zenon
  <2>7. e[1] = p /\ e[2] = q /\ e[3] = r /\ e[4] = t
    BY <2>4
  <2>8. decode_group(e) = <<(p * 4 + q \div 16) % 256,
                              (q % 16) * 16 + r \div 4,
                              (r % 4) * 64 + t>>
    <3>1. decode_group(e) = <<(e[1] * 4 + e[2] \div 16) % 256,
                                (e[2] % 16) * 16 + e[3] \div 4,
                                (e[3] % 4) * 64 + e[4]>>
      <4> HIDE DEF e
      <4>1. QED
        BY <2>5, DecodedGroup
    <3>2. QED
      BY <2>7, <3>1
  <2>9. decode_group(e) = <<a, b, c>>
    BY <2>6, <2>8
  <2>10. QED
    BY <1>3, <2>2, <2>5, <2>9
<1>4. QED
  BY <1>1, <1>2, <1>3

\* what base64url_encode makes of bytes is decoded, as these bytes.
LEMMA EncodedIsDecoded ==
  ASSUME NEW s \in Seq(0 .. 255), s # << >>
  PROVE  /\ base64url_encode(s) \in Seq(0 .. 63) /\ base64url_encode(s) # << >>
         /\ base64url_decode(base64url_encode(s)) = [read |-> TRUE, bytes |-> s]
<1> DEFINE gs == groups(s, 3)
           n == Len(gs)
           es == [k \in 1 .. n |-> encode_group(gs[k])]
           E == FlattenSeq(es)
<1>1. Pieces(0 .. 255, 3, gs) /\ FlattenSeq(gs) = s
  BY GroupsLay, FlattenGroups
<1>2. /\ gs \in Seq(Seq(0 .. 255)) /\ n \in Nat \ {0} /\ DOMAIN gs = 1 .. n
      /\ \A k \in 1 .. n : gs[k] \in Seq(0 .. 255) /\ Len(gs[k]) \in 1 .. 3
      /\ \A k \in 1 .. n - 1 : Len(gs[k]) = 3
  BY <1>1, EmptySeq, ElementOfSeq DEF Pieces
<1> HIDE DEF gs, n
<1>3. \A k \in 1 .. n : /\ es[k] \in Seq(0 .. 63) /\ Len(es[k]) = Len(gs[k]) + 1
                        /\ decode_group(es[k]) = gs[k]
  BY <1>2, EncodedGroup
<1>4. es \in Seq(Seq(0 .. 63)) /\ Len(es) = n /\ DOMAIN es = 1 .. n
  BY <1>2, <1>3
<1>5. base64url_encode(s) = E
  BY <1>2 DEF base64url_encode, gs
<1> HIDE DEF es, E
<1>6. Pieces(0 .. 63, 4, es)
  <2>1. es # << >>
    BY <1>2, <1>4, EmptySeq
  <2>2. n \in 1 .. n /\ \A k \in 1 .. n - 1 : k \in 1 .. n
    BY <1>2
  <2>3. \A k \in 1 .. n : Len(es[k]) \in 2 .. 4 /\ (Len(gs[k]) = 3 => Len(es[k]) = 4)
    <3> SUFFICES ASSUME NEW k \in 1 .. n
                 PROVE  Len(es[k]) \in 2 .. 4 /\ (Len(gs[k]) = 3 => Len(es[k]) = 4)
      OBVIOUS
    <3>1. Len(gs[k]) \in 1 .. 3 /\ Len(es[k]) = Len(gs[k]) + 1
      BY <1>2, <1>3
    <3>2. QED
      BY <3>1, OneMore
  <2>4. \A k \in 1 .. n - 1 : Len(es[k]) = 4
    BY <1>2, <2>2, <2>3
  <2>5. Len(es[n]) \in 1 .. 4
    BY <2>2, <2>3
  <2>6. QED
    BY <1>4, <2>1, <2>4, <2>5 DEF Pieces
<1>7. Laid(0 .. 63, 4, es, Len(es), E)
  BY <1>6, FlattenLays DEF E
<1>8. groups(E, 4) = es
  BY <1>6, <1>7, GroupsOfLaid
<1>9. E \in Seq(0 .. 63) /\ Len(E) % 4 # 1 /\ Len(E) > 0
  <2>1. E \in Seq(0 .. 63) /\ Len(E) = At(4, n, Len(es[n]))
    BY <1>4, <1>7 DEF Laid
  <2>2. Len(es[n]) \in 2 .. 4
    <3>1. n \in 1 .. n
      BY <1>2
    <3>2. Len(gs[n]) \in 1 .. 3 /\ Len(es[n]) = Len(gs[n]) + 1
      BY <1>2, <1>3, <3>1
    <3>3. QED
      BY <3>2, OneMore
  <2>3. Len(E) = 4 * (n - 1) + Len(es[n])
    BY <2>1 DEF At
  <2>4. Len(E) % 4 # 1 /\ Len(E) > 0
    <3> DEFINE l == Len(es[n])
               m == Len(E)
    <3>1. l \in 2 .. 4 /\ m = 4 * (n - 1) + l /\ n \in Nat \ {0}
      BY <1>2, <2>2, <2>3
    <3> HIDE DEF l, m, n
    <3>2. m % 4 # 1 /\ m > 0
      BY <3>1
    <3>3. QED
      BY <3>2 DEF m
  <2>5. QED
    BY <2>1, <2>4
<1>10. E # << >>
  BY <1>9, EmptySeq
<1>11. [k \in DOMAIN es |-> decode_group(es[k])] = gs
  <2>1. gs = [k \in 1 .. n |-> gs[k]]
    BY <1>2
  <2>2. QED
    BY <1>3, <1>4, <2>1
<1>12. \A i \in DOMAIN E : E[i] \in 0 .. 63
  BY <1>9, ElementOfSeq, LenProperties
<1>13. base64url_decode(E) = [read |-> TRUE, bytes |-> s]
  BY <1>1, <1>5, <1>8, <1>9, <1>11, <1>12, Zenon DEF base64url_decode
<1>14. QED
  BY <1>5, <1>9, <1>10, <1>13

-----------------------------------------------------------------------------
(***************************************************************************)
(* compact.rs: three segments, and a dot between them.                     *)
(***************************************************************************)

LEMMA DecodedIsEncoded ==
  ASSUME NEW chars, base64url_decode(chars).read
  PROVE  base64url_encode(base64url_decode(chars).bytes) = chars
<1> DEFINE gs == groups(chars, 4)
           bytes == FlattenSeq([k \in DOMAIN gs |-> decode_group(gs[k])])
           well == /\ Len(chars) % 4 # 1 /\ \A i \in DOMAIN chars : chars[i] \in 0 .. 63
                   /\ base64url_encode(bytes) = chars
<1>1. base64url_decode(chars) = IF well THEN [read |-> TRUE, bytes |-> bytes] ELSE Unreadable
  BY Zenon DEF base64url_decode
<1>2. well => base64url_encode(bytes) = chars
  OBVIOUS
<1> HIDE DEF well, bytes
<1>3. ~ Unreadable.read
  BY DEF Unreadable
<1>4. well
  <2>1. ~ well => base64url_decode(chars) = Unreadable
    BY <1>1
  <2>2. QED
    BY <1>3, <2>1, Zenon
<1>5. base64url_decode(chars).bytes = bytes
  BY <1>1, <1>4
<1>6. QED
  BY <1>2, <1>4, <1>5

LEMMA FirstAndLast ==
  ASSUME NEW dots \in SUBSET Nat, IsFiniteSet(dots), Cardinality(dots) = 2
  PROVE  LET first == CHOOSE i \in dots : \A j \in dots : i <= j
             last == CHOOSE i \in dots : \A j \in dots : j <= i
         IN  first \in dots /\ last \in dots /\ first < last
<1>1. PICK a \in dots : TRUE
  <2>1. dots = {} => Cardinality(dots) = 0
    BY FS_EmptySet, Zenon
  <2>2. dots # {}
    BY <2>1
  <2>3. QED
    BY <2>2
<1>2. Cardinality(dots \ {a}) = 1 /\ IsFiniteSet(dots \ {a})
  BY <1>1, FS_RemoveElement
<1>3. PICK b : dots \ {a} = {b}
  BY <1>2, FS_Singleton
<1>4. dots = {a, b} /\ a # b /\ a \in Nat /\ b \in Nat
  BY <1>1, <1>3
<1>5. /\ \E i \in dots : \A j \in dots : i <= j
      /\ \E i \in dots : \A j \in dots : j <= i
  <2>1. CASE a < b
    BY <1>4, <2>1
  <2>2. CASE b < a
    BY <1>4, <2>2
  <2>3. QED
    BY <1>4, <2>1, <2>2
<1> DEFINE first == CHOOSE i \in dots : \A j \in dots : i <= j
           last == CHOOSE i \in dots : \A j \in dots : j <= i
<1>6. first \in dots /\ \A j \in dots : first <= j
  BY <1>5
<1>7. last \in dots /\ \A j \in dots : j <= last
  BY <1>5
<1> HIDE DEF first, last
<1>8. first < last
  BY <1>4, <1>6, <1>7
<1>9. QED
  BY <1>6, <1>7, <1>8 DEF first, last

CutAt(text, first, last) ==
  SubSeq(text, 1, first - 1) \o <<Dot>> \o SubSeq(text, first + 1, last - 1) \o <<Dot>>
    \o SubSeq(text, last + 1, Len(text))

LEMMA CutAtDots ==
  ASSUME NEW text \in Seq(Int), NEW first \in 1 .. Len(text), NEW last \in 1 .. Len(text),
         first < last, text[first] = Dot, text[last] = Dot
  PROVE  CutAt(text, first, last) = text
<1>0. Len(text) \in Nat
  OBVIOUS
<1>1. SubSeq(text, first, first) = <<Dot>> /\ SubSeq(text, last, last) = <<Dot>>
  <2>1. \A i \in 1 .. Len(text) : SubSeq(text, i, i) = <<text[i]>>
    <3> SUFFICES ASSUME NEW i \in 1 .. Len(text) PROVE SubSeq(text, i, i) = <<text[i]>>
      OBVIOUS
    <3>1. i \in Int /\ i \in i .. Len(text) /\ \A j \in i .. i : text[j] \in Int
      BY <1>0
    <3>2. /\ SubSeq(text, i, i) \in Seq(Int)
          /\ Len(SubSeq(text, i, i)) = 1
          /\ \A j \in 1 .. 1 : SubSeq(text, i, i)[j] = text[i + j - 1]
      <4>1. i <= i /\ i - i + 1 = 1
        OBVIOUS
      <4>2. QED
        BY <3>1, <4>1, SubSeqProperties
    <3>3. Len(SubSeq(text, i, i)) = 1 /\ SubSeq(text, i, i)[1] = text[i] /\ text[i] \in Int
      BY <3>2
    <3> DEFINE x == SubSeq(text, i, i)
               y == <<text[i]>>
    <3>4. y \in Seq(Int) /\ Len(y) = 1 /\ y[1] = text[i]
      BY <3>3
    <3>5. x \in Seq(Int) /\ Len(x) = Len(y) /\ \A j \in 1 .. Len(x) : x[j] = y[j]
      BY <3>2, <3>3, <3>4
    <3> HIDE DEF x, y
    <3>6. x = y
      BY <3>4, <3>5, SeqEqual
    <3>7. QED
      BY <3>6 DEF x, y
  <2>2. QED
    BY <2>1
<1> DEFINE Cut(m, n) == SubSeq(text, m, n)
<1>2. ASSUME NEW k \in 0 .. Len(text), NEW n \in k .. Len(text)
      PROVE  Cut(1, k) \o Cut(k + 1, n) = Cut(1, n)
  <2>1. 1 \in 1 .. Len(text) + 1 /\ k \in 1 - 1 .. Len(text)
    BY <1>0
  <2>2. QED
    BY <2>1, ConcatAdjacentSubSeq
<1>3. Cut(1, first - 1) \o Cut(first, first) = Cut(1, first)
  <2>1. first - 1 \in 0 .. Len(text) /\ first \in first - 1 .. Len(text) /\ (first - 1) + 1 = first
    BY <1>0
  <2> HIDE DEF Cut
  <2>2. QED
    BY <1>2, <2>1
<1>4. Cut(1, first) \o Cut(first + 1, last - 1) = Cut(1, last - 1)
  <2>1. first \in 0 .. Len(text) /\ last - 1 \in first .. Len(text)
    BY <1>0
  <2> HIDE DEF Cut
  <2>2. QED
    BY <1>2, <2>1
<1>5. Cut(1, last - 1) \o Cut(last, last) = Cut(1, last)
  <2>1. last - 1 \in 0 .. Len(text) /\ last \in last - 1 .. Len(text) /\ (last - 1) + 1 = last
    BY <1>0
  <2> HIDE DEF Cut
  <2>2. QED
    BY <1>2, <2>1
<1>6. Cut(1, last) \o Cut(last + 1, Len(text)) = Cut(1, Len(text))
  <2>1. last \in 0 .. Len(text) /\ Len(text) \in last .. Len(text)
    BY <1>0
  <2> HIDE DEF Cut
  <2>2. QED
    BY <1>2, <2>1
<1>7. Cut(1, Len(text)) = text
  BY SubSeqFull
<1>8. QED
  BY <1>1, <1>3, <1>4, <1>5, <1>6, <1>7, Zenon DEF CutAt

\* what parse_compact accepts is what compose_compact makes of what it read.
LEMMA ParsedIsComposed ==
  ASSUME NEW text \in Seq(Int), parse_compact(text).read
  PROVE  compose_compact(parse_compact(text).segments) = text
<1> DEFINE dots == {i \in DOMAIN text : text[i] = Dot}
           first == CHOOSE i \in dots : \A j \in dots : i <= j
           last == CHOOSE i \in dots : \A j \in dots : j <= i
           s1 == SubSeq(text, 1, first - 1)
           s2 == SubSeq(text, first + 1, last - 1)
           s3 == SubSeq(text, last + 1, Len(text))
           segments == <<s1, s2, s3>>
           well == /\ Cardinality(dots) = 2
                   /\ \A i \in 1 .. 3 : Len(segments[i]) <= SegmentBytes /\ validate_segment(segments[i])
           bytes == [i \in 1 .. 3 |-> base64url_decode(segments[i]).bytes]
<1>1. parse_compact(text) = IF well THEN [read |-> TRUE, segments |-> bytes] ELSE Unreadable
  BY Zenon DEF parse_compact
<1>2. well /\ parse_compact(text).segments = bytes
  <2> HIDE DEF well, bytes
  <2>1. ~ well => parse_compact(text) = Unreadable
    BY <1>1
  <2>2. ~ Unreadable.read
    BY DEF Unreadable
  <2>3. well
    BY <2>1, <2>2, Zenon
  <2>4. QED
    BY <1>1, <2>3
<1>3. /\ first \in dots /\ last \in dots /\ first < last
  <2>1. DOMAIN text = 1 .. Len(text) /\ Len(text) \in Nat
    BY LenProperties
  <2>2. IsFiniteSet(1 .. Len(text))
    BY <2>1, FS_Interval
  <2>3. dots \in SUBSET (1 .. Len(text)) /\ dots \in SUBSET Nat
    BY <2>1
  <2>4. IsFiniteSet(dots)
    BY <2>2, <2>3, FS_Subset
  <2>5. Cardinality(dots) = 2
    BY <1>2
  <2> HIDE DEF dots
  <2>6. QED
    BY <2>3, <2>4, <2>5, FirstAndLast
<1>4. s1 \o <<Dot>> \o s2 \o <<Dot>> \o s3 = text
  <2>1. first \in 1 .. Len(text) /\ last \in 1 .. Len(text) /\ text[first] = Dot /\ text[last] = Dot
    <3>1. DOMAIN text = 1 .. Len(text)
      BY LenProperties
    <3> HIDE DEF first, last
    <3>2. \A i \in dots : i \in 1 .. Len(text) /\ text[i] = Dot
      BY <3>1
    <3> HIDE DEF dots
    <3>3. QED
      BY <1>3, <3>2
  <2> HIDE DEF first, last
  <2>2. first < last
    BY <1>3
  <2> HIDE DEF dots
  <2>3. CutAt(text, first, last) = text
    BY <2>1, <2>2, CutAtDots
  <2>4. QED
    BY <2>3, Zenon DEF CutAt
<1>5. /\ base64url_encode(bytes[1]) = s1 /\ base64url_encode(bytes[2]) = s2
      /\ base64url_encode(bytes[3]) = s3
  <2>1. validate_segment(s1) /\ validate_segment(s2) /\ validate_segment(s3)
    <3>1. \A i \in 1 .. 3 : validate_segment(segments[i])
      BY <1>2
    <3>2. segments[1] = s1 /\ segments[2] = s2 /\ segments[3] = s3
      OBVIOUS
    <3>3. 1 \in 1 .. 3 /\ 2 \in 1 .. 3 /\ 3 \in 1 .. 3
      OBVIOUS
    <3> HIDE DEF segments, s1, s2, s3
    <3>4. QED
      BY <3>1, <3>2, <3>3
  <2>2. /\ bytes[1] = base64url_decode(s1).bytes /\ bytes[2] = base64url_decode(s2).bytes
        /\ bytes[3] = base64url_decode(s3).bytes
    <3>1. segments[1] = s1 /\ segments[2] = s2 /\ segments[3] = s3
      OBVIOUS
    <3> HIDE DEF segments, s1, s2, s3
    <3>2. QED
      BY <3>1
  <2> HIDE DEF bytes, s1, s2, s3
  <2>3. QED
    BY <2>1, <2>2, DecodedIsEncoded DEF validate_segment
<1> HIDE DEF bytes, s1, s2, s3
<1>6. QED
  BY <1>2, <1>4, <1>5 DEF compose_compact

LEMMA CutIs ==
  ASSUME NEW S, NEW text \in Seq(S), NEW part \in Seq(S), NEW a \in Nat, NEW b, NEW z,
         b = a + 1, z = a + Len(part), z <= Len(text),
         \A j \in 1 .. Len(part) : text[a + j] = part[j]
  PROVE  SubSeq(text, b, z) = part
<1> DEFINE l == Len(part)
<1>1. l \in Nat /\ z = a + l /\ Len(text) \in Nat /\ \A j \in 1 .. l : text[a + j] = part[j]
  BY LenProperties
<1> HIDE DEF l
<1>2. b \in Int /\ z \in Int
  BY <1>1
<1>3. \A i \in b .. z : text[i] \in S
  <2>1. \A i \in b .. z : i \in 1 .. Len(text)
    BY <1>1
  <2>2. QED
    BY <2>1, ElementOfSeq
<1>4. /\ SubSeq(text, b, z) \in Seq(S)
      /\ Len(SubSeq(text, b, z)) = IF b <= z THEN z - b + 1 ELSE 0
      /\ \A i \in 1 .. z - b + 1 : SubSeq(text, b, z)[i] = text[b + i - 1]
  BY <1>2, <1>3, SubSeqProperties
<1>5. z - b + 1 = l /\ (IF b <= z THEN z - b + 1 ELSE 0) = l /\ \A i \in 1 .. l : b + i - 1 = a + i
  BY <1>1
<1> DEFINE x == SubSeq(text, b, z)
<1>6. x \in Seq(S) /\ Len(x) = l /\ \A i \in 1 .. l : x[i] = text[a + i]
  BY <1>4, <1>5
<1> HIDE DEF x
<1>7. Len(x) = Len(part) /\ \A i \in 1 .. Len(x) : x[i] = part[i]
  BY <1>1, <1>6 DEF l
<1>8. x = part
  BY <1>6, <1>7, SeqEqual
<1>9. QED
  BY <1>8 DEF x

Appends(S, s, m, t, n, u) ==
  /\ u \in Seq(S) /\ Len(u) = m + n
  /\ \A i \in 1 .. m : u[i] = s[i]
  /\ \A j \in 1 .. n : u[m + j] = t[j]

LEMMA Appended ==
  ASSUME NEW S, NEW s \in Seq(S), NEW t \in Seq(S), NEW m, NEW n, m = Len(s), n = Len(t),
         NEW u, u = s \o t
  PROVE  Appends(S, s, m, t, n, u)
<1>1. /\ u \in Seq(S) /\ Len(u) = m + n
      /\ \A i \in 1 .. m + n : u[i] = IF i <= m THEN s[i] ELSE t[i - m]
  BY ConcatProperties
<1>2. m \in Nat /\ n \in Nat
  BY LenProperties
<1>3. /\ \A j \in 1 .. n : m + j \in 1 .. m + n /\ ~ (m + j <= m) /\ (m + j) - m = j
      /\ \A i \in 1 .. m : i \in 1 .. m + n /\ i <= m
  BY <1>2
<1>4. QED
  BY <1>1, <1>3 DEF Appends

Joining(s1, l1, s2, l2, s3, l3, text) ==
  /\ text \in Seq(Int) /\ Len(text) = l1 + l2 + l3 + 2
  /\ text[l1 + 1] = Dot /\ text[l1 + l2 + 2] = Dot
  /\ \A j \in 1 .. l1 : text[0 + j] = s1[j]
  /\ \A j \in 1 .. l2 : text[l1 + 1 + j] = s2[j]
  /\ \A j \in 1 .. l3 : text[l1 + l2 + 2 + j] = s3[j]

LEMMA Joined ==
  ASSUME NEW s1 \in Seq(Int), NEW s2 \in Seq(Int), NEW s3 \in Seq(Int),
         NEW l1, NEW l2, NEW l3, l1 = Len(s1), l2 = Len(s2), l3 = Len(s3),
         NEW text, text = s1 \o <<Dot>> \o s2 \o <<Dot>> \o s3
  PROVE  Joining(s1, l1, s2, l2, s3, l3, text)
<1>0. /\ l1 \in Nat /\ l2 \in Nat /\ l3 \in Nat
      /\ <<Dot>> \in Seq(Int) /\ 1 = Len(<<Dot>>) /\ <<Dot>>[1] = Dot /\ 1 \in 1 .. 1
  BY LenProperties DEF Dot
<1> DEFINE u == s1 \o <<Dot>>
           v == u \o s2
           x == v \o <<Dot>>
           m == l1 + 1 + l2
           n == m + 1
<1>1. Appends(Int, s1, l1, <<Dot>>, 1, u)
  <2> DEFINE d == <<Dot>>
  <2>1. d \in Seq(Int) /\ 1 = Len(d) /\ u = s1 \o d
    BY <1>0
  <2> HIDE DEF d, u
  <2>2. Appends(Int, s1, l1, d, 1, u)
    BY <2>1, Appended
  <2>3. QED
    BY <2>2 DEF d
<1>2. Appends(Int, u, l1 + 1, s2, l2, v)
  <2>1. u \in Seq(Int) /\ l1 + 1 = Len(u) /\ v = u \o s2
    BY <1>1 DEF Appends
  <2> HIDE DEF u, v
  <2>2. QED
    BY <2>1, Appended
<1>3. Appends(Int, v, m, <<Dot>>, 1, x)
  <2> DEFINE d == <<Dot>>
  <2>1. d \in Seq(Int) /\ 1 = Len(d) /\ v \in Seq(Int) /\ m = Len(v) /\ x = v \o d
    BY <1>0, <1>2 DEF Appends
  <2> HIDE DEF d, v, x, m
  <2>2. Appends(Int, v, m, d, 1, x)
    BY <2>1, Appended
  <2>3. QED
    BY <2>2 DEF d
<1>4. Appends(Int, x, n, s3, l3, text)
  <2>1. x \in Seq(Int) /\ n = Len(x) /\ text = x \o s3
    BY <1>3 DEF Appends
  <2> HIDE DEF x, n
  <2>2. QED
    BY <2>1, Appended
<1> HIDE DEF u, v, x
<1>5. /\ m \in Nat /\ n \in Nat /\ n = l1 + l2 + 2 /\ n + l3 = l1 + l2 + l3 + 2
      /\ \A i \in 1 .. m : i \in 1 .. n
      /\ \A j \in 1 .. l1 : 0 + j = j /\ j \in 1 .. m /\ j \in 1 .. l1 + 1
      /\ \A j \in 1 .. l2 : l1 + 1 + j \in 1 .. m
      /\ l1 + 1 \in 1 .. m /\ l1 + 1 \in 1 .. l1 + 1
      /\ n \in 1 .. n /\ n = m + 1
  BY <1>0
<1> HIDE DEF m, n
<1>6. \A i \in 1 .. m : text[i] = v[i]
  BY <1>3, <1>4, <1>5 DEF Appends
<1>7. text[l1 + 1] = Dot
  BY <1>0, <1>1, <1>2, <1>5, <1>6 DEF Appends
<1>8. text[n] = Dot
  BY <1>0, <1>3, <1>4, <1>5 DEF Appends
<1>9. \A j \in 1 .. l1 : text[0 + j] = s1[j]
  BY <1>1, <1>2, <1>5, <1>6 DEF Appends
<1>10. \A j \in 1 .. l2 : text[l1 + 1 + j] = s2[j]
  BY <1>2, <1>5, <1>6 DEF Appends
<1>11. /\ text \in Seq(Int) /\ Len(text) = n + l3 /\ \A j \in 1 .. l3 : text[n + j] = s3[j]
  BY <1>4 DEF Appends
<1>12. QED
  BY <1>5, <1>7, <1>8, <1>9, <1>10, <1>11 DEF Joining

DotsAt(text, a, b) == {i \in DOMAIN text : text[i] = Dot} = {a, b}

\* the dots of three joined segments are those that join them.
LEMMA OnlyDots ==
  ASSUME NEW s1 \in Seq(0 .. 63), NEW s2 \in Seq(0 .. 63), NEW s3 \in Seq(0 .. 63),
         NEW l1, NEW l2, NEW l3, l1 = Len(s1), l2 = Len(s2), l3 = Len(s3),
         NEW text, Joining(s1, l1, s2, l2, s3, l3, text)
  PROVE  DotsAt(text, l1 + 1, l1 + l2 + 2)
<1>0. l1 \in Nat /\ l2 \in Nat /\ l3 \in Nat /\ DOMAIN text = 1 .. l1 + l2 + l3 + 2
  BY LenProperties DEF Joining
<1>1. /\ \A j \in 1 .. l1 : s1[j] # Dot
      /\ \A j \in 1 .. l2 : s2[j] # Dot
      /\ \A j \in 1 .. l3 : s3[j] # Dot
  <2>1. \A x \in 0 .. 63 : x # Dot
    BY DEF Dot
  <2>2. QED
    BY <2>1, ElementOfSeq
<1>2. ASSUME NEW i \in 1 .. l1 + l2 + l3 + 2, i # l1 + 1, i # l1 + l2 + 2
      PROVE  text[i] # Dot
  <2>1. CASE i < l1 + 1
    <3>1. i \in 1 .. l1 /\ 0 + i = i
      BY <1>0, <2>1
    <3>2. QED
      BY <1>1, <3>1 DEF Joining
  <2>2. CASE l1 + 1 < i /\ i < l1 + l2 + 2
    <3>1. PICK j \in 1 .. l2 : i = l1 + 1 + j
      <4>1. i - (l1 + 1) \in 1 .. l2 /\ i = l1 + 1 + (i - (l1 + 1))
        BY <1>0, <2>2
      <4>2. QED
        BY <4>1
    <3>2. QED
      BY <1>1, <3>1 DEF Joining
  <2>3. CASE l1 + l2 + 2 < i
    <3>1. PICK j \in 1 .. l3 : i = l1 + l2 + 2 + j
      <4>1. i - (l1 + l2 + 2) \in 1 .. l3 /\ i = l1 + l2 + 2 + (i - (l1 + l2 + 2))
        BY <1>0, <2>3
      <4>2. QED
        BY <4>1
    <3>2. QED
      BY <1>1, <3>1 DEF Joining
  <2>4. i < l1 + 1 \/ (l1 + 1 < i /\ i < l1 + l2 + 2) \/ l1 + l2 + 2 < i
    BY SMTT(30), <1>0, <1>2
  <2>5. QED
    BY <2>1, <2>2, <2>3, <2>4
<1>3. l1 + 1 \in 1 .. l1 + l2 + l3 + 2 /\ l1 + l2 + 2 \in 1 .. l1 + l2 + l3 + 2
  BY <1>0
<1>4. QED
  BY <1>0, <1>2, <1>3 DEF Joining, DotsAt

LEMMA TwoElements ==
  ASSUME NEW a \in Nat, NEW b \in Nat, a < b
  PROVE  /\ Cardinality({a, b}) = 2
         /\ (CHOOSE i \in {a, b} : \A j \in {a, b} : i <= j) = a
         /\ (CHOOSE i \in {a, b} : \A j \in {a, b} : j <= i) = b
<1>1. Cardinality({a, b}) = 2
  <2>1. IsFiniteSet({a}) /\ Cardinality({a}) = 1 /\ b \notin {a}
    BY FS_Singleton
  <2>2. Cardinality({a} \cup {b}) = 1 + 1
    BY <2>1, FS_AddElement
  <2>3. {a} \cup {b} = {a, b}
    OBVIOUS
  <2>4. QED
    BY <2>2, <2>3
<1>2. (CHOOSE i \in {a, b} : \A j \in {a, b} : i <= j) = a
  OBVIOUS
<1>3. (CHOOSE i \in {a, b} : \A j \in {a, b} : j <= i) = b
  OBVIOUS
<1>4. QED
  BY <1>1, <1>2, <1>3

\* what compose_compact makes of nonempty bytes is what parse_compact reads, as
\* these bytes.
LEMMA ComposedIsParsed ==
  ASSUME NEW bytes \in [1 .. 3 -> Seq(0 .. 255)],
         \A i \in 1 .. 3 : bytes[i] # << >> /\ Len(base64url_encode(bytes[i])) <= SegmentBytes
  PROVE  parse_compact(compose_compact(bytes)) = [read |-> TRUE, segments |-> bytes]
<1> DEFINE E(i) == base64url_encode(bytes[i])
           s1 == E(1)
           s2 == E(2)
           s3 == E(3)
           l1 == Len(s1)
           l2 == Len(s2)
           l3 == Len(s3)
           text == s1 \o <<Dot>> \o s2 \o <<Dot>> \o s3
<1>1. \A i \in 1 .. 3 :
        /\ E(i) \in Seq(0 .. 63) /\ E(i) # << >> /\ Len(E(i)) <= SegmentBytes
        /\ base64url_decode(E(i)) = [read |-> TRUE, bytes |-> bytes[i]]
  <2> SUFFICES ASSUME NEW i \in 1 .. 3
               PROVE /\ E(i) \in Seq(0 .. 63) /\ E(i) # << >> /\ Len(E(i)) <= SegmentBytes
                     /\ base64url_decode(E(i)) = [read |-> TRUE, bytes |-> bytes[i]]
    OBVIOUS
  <2>1. bytes[i] \in Seq(0 .. 255) /\ bytes[i] # << >>
    OBVIOUS
  <2>2. QED
    BY <2>1, EncodedIsDecoded
<1>2. compose_compact(bytes) = text
  BY DEF compose_compact
<1>3. /\ s1 \in Seq(0 .. 63) /\ s2 \in Seq(0 .. 63) /\ s3 \in Seq(0 .. 63)
      /\ s1 \in Seq(Int) /\ s2 \in Seq(Int) /\ s3 \in Seq(Int)
  <2>1. 1 \in 1 .. 3 /\ 2 \in 1 .. 3 /\ 3 \in 1 .. 3
    OBVIOUS
  <2> HIDE DEF E
  <2>2. /\ s1 \in Seq(0 .. 63) /\ s2 \in Seq(0 .. 63) /\ s3 \in Seq(0 .. 63)
    BY <1>1, <2>1
  <2>3. Seq(0 .. 63) \subseteq Seq(Int)
    <3>1. 0 .. 63 \subseteq Int
      OBVIOUS
    <3>2. QED
      BY <3>1, SeqMonotonic
  <2>4. QED
    BY <2>2, <2>3
<1> HIDE DEF E, text
<1>4. Joining(s1, l1, s2, l2, s3, l3, text)
  <2>1. text = s1 \o <<Dot>> \o s2 \o <<Dot>> \o s3
    BY DEF text
  <2>2. l1 = Len(s1) /\ l2 = Len(s2) /\ l3 = Len(s3)
    OBVIOUS
  <2> HIDE DEF s1, s2, s3, l1, l2, l3
  <2>3. QED
    BY <1>3, <2>1, <2>2, Joined
<1> HIDE DEF s1, s2, s3
<1>5. DotsAt(text, l1 + 1, l1 + l2 + 2)
  <2>1. l1 = Len(s1) /\ l2 = Len(s2) /\ l3 = Len(s3)
    OBVIOUS
  <2> HIDE DEF l1, l2, l3
  <2>2. QED
    BY <1>3, <1>4, <2>1, OnlyDots
<1>6. l1 \in Nat /\ l2 \in Nat /\ l3 \in Nat
  BY <1>3, LenProperties
<1> HIDE DEF l1, l2, l3
<1> DEFINE dots == {i \in DOMAIN text : text[i] = Dot}
           first == CHOOSE i \in dots : \A j \in dots : i <= j
           last == CHOOSE i \in dots : \A j \in dots : j <= i
<1>7. Cardinality(dots) = 2 /\ first = l1 + 1 /\ last = l1 + l2 + 2
  <2> DEFINE a == l1 + 1
             b == l1 + l2 + 2
  <2>1. a \in Nat /\ b \in Nat /\ a < b
    BY <1>6
  <2>2. dots = {a, b}
    BY <1>5 DEF DotsAt
  <2> HIDE DEF a, b, dots
  <2>3. /\ Cardinality({a, b}) = 2
        /\ (CHOOSE i \in {a, b} : \A j \in {a, b} : i <= j) = a
        /\ (CHOOSE i \in {a, b} : \A j \in {a, b} : j <= i) = b
    BY <2>1, TwoElements
  <2>4. Cardinality(dots) = 2 /\ first = a /\ last = b
    BY <2>2, <2>3
  <2>5. QED
    BY <2>4 DEF a, b
<1> DEFINE c1 == SubSeq(text, 1, first - 1)
           c2 == SubSeq(text, first + 1, last - 1)
           c3 == SubSeq(text, last + 1, Len(text))
           segments == <<c1, c2, c3>>
           well == /\ Cardinality(dots) = 2
                   /\ \A i \in 1 .. 3 : Len(segments[i]) <= SegmentBytes /\ validate_segment(segments[i])
           decoded == [i \in 1 .. 3 |-> base64url_decode(segments[i]).bytes]
<1>8. parse_compact(text) = IF well THEN [read |-> TRUE, segments |-> decoded] ELSE Unreadable
  BY Zenon DEF parse_compact
<1> HIDE DEF dots, first, last
<1>9. c1 = s1
  <2> DEFINE z == first - 1
  <2>1. 0 \in Nat /\ 1 = 0 + 1 /\ z = 0 + Len(s1) /\ z <= Len(text)
        /\ \A j \in 1 .. Len(s1) : text[0 + j] = s1[j]
    BY <1>4, <1>6, <1>7 DEF l1, Joining
  <2> HIDE DEF z
  <2>2. SubSeq(text, 1, z) = s1
    BY <1>3, <1>4, <2>1, CutIs DEF Joining
  <2>3. QED
    BY <2>2 DEF z
<1>10. c2 = s2
  <2> DEFINE a == l1 + 1
             b == first + 1
             z == last - 1
  <2>1. a \in Nat /\ b = a + 1 /\ z = a + Len(s2) /\ z <= Len(text)
        /\ \A j \in 1 .. Len(s2) : text[a + j] = s2[j]
    BY <1>4, <1>6, <1>7 DEF l2, Joining
  <2> HIDE DEF a, b, z
  <2>2. SubSeq(text, b, z) = s2
    BY SMTT(30), <1>3, <1>4, <2>1, CutIs DEF Joining
  <2>3. QED
    BY <2>2 DEF b, z
<1>11. c3 = s3
  <2> DEFINE a == l1 + l2 + 2
             b == last + 1
             z == Len(text)
  <2>1. a \in Nat /\ b = a + 1 /\ z = a + Len(s3) /\ z <= Len(text) /\ z = Len(text)
        /\ \A j \in 1 .. Len(s3) : text[a + j] = s3[j]
    <3>1. l3 = Len(s3)
      BY DEF l3
    <3>2. Len(text) = l1 + l2 + l3 + 2
      BY <1>4 DEF Joining
    <3>3. \A j \in 1 .. l3 : text[l1 + l2 + 2 + j] = s3[j]
      BY <1>4 DEF Joining
    <3> HIDE DEF first, last
    <3>4. a \in Nat /\ b = a + 1 /\ z = a + l3
      BY <1>6, <1>7, <3>2
    <3>5. QED
      BY <3>1, <3>3, <3>4, <1>6
  <2> HIDE DEF a, b, z
  <2>2. z = Len(text)
    BY <2>1
  <2>3. SubSeq(text, b, z) = s3
    BY <1>3, <1>4, <2>1, CutIs DEF Joining
  <2>4. QED
    BY <2>2, <2>3 DEF b
<1>12. \A i \in 1 .. 3 : segments[i] = E(i)
  <2>1. segments[1] = c1 /\ segments[2] = c2 /\ segments[3] = c3
    OBVIOUS
  <2> HIDE DEF segments, c1, c2, c3
  <2>2. segments[1] = E(1) /\ segments[2] = E(2) /\ segments[3] = E(3)
    BY <1>9, <1>10, <1>11, <2>1 DEF s1, s2, s3
  <2>3. \A i \in 1 .. 3 : i = 1 \/ i = 2 \/ i = 3
    OBVIOUS
  <2>4. QED
    BY <2>2, <2>3
<1> HIDE DEF segments
<1>13. well
  BY <1>1, <1>7, <1>12 DEF validate_segment
<1>14. decoded = bytes
  BY <1>1, <1>12
<1> HIDE DEF well, decoded
<1>15. QED
  BY <1>2, <1>8, <1>13, <1>14

\* compact.rs: a compact has one text, whatever its segments; what parse_compact
\* accepts is what compose_compact makes of what was read, and what
\* compose_compact makes of nonempty segments is read as these.
THEOREM TextsAreOne == CodecsSpec => []OneText
<1>1. Answered(task, answer) => OneText
  <2>1. ASSUME Answered(task, answer), task.of = "parse_compact", answer.read
        PROVE  compose_compact(answer.segments) = task.text
    <3>1. task.text \in CompactText /\ answer = parse_compact(task.text)
      BY <2>1 DEF Answered, SignatureAnswered, TextAnswered
    <3>2. task.text \in Seq(Int)
      BY <3>1, CodecAssumption
    <3>3. QED
      BY <2>1, <3>1, <3>2, ParsedIsComposed
  <2>2. ASSUME Answered(task, answer), task.of = "compose_compact"
        PROVE  parse_compact(answer.text) = [read |-> TRUE, segments |-> task.segments]
    <3>1. task.segments \in CompactSegments /\ answer.text = compose_compact(task.segments)
      BY <2>2 DEF Answered, SignatureAnswered, TextAnswered
    <3>2. /\ task.segments \in [1 .. 3 -> Seq(0 .. 255)]
          /\ \A i \in 1 .. 3 : /\ task.segments[i] # << >>
                               /\ Len(base64url_encode(task.segments[i])) <= SegmentBytes
      BY <3>1, CodecAssumption
    <3>3. QED
      BY <3>1, <3>2, ComposedIsParsed
  <2>3. QED
    BY <2>1, <2>2 DEF OneText
<1>2. QED
  BY <1>1, AnswersAreReturned, PTL

-----------------------------------------------------------------------------
(***************************************************************************)
(* Lengths of frames: to_be_bytes and big_endian are inverses.             *)
(***************************************************************************)

Byte == 0 .. ByteBase - 1

\* what the recursive definition of to_be_bytes computes
Shifts(n, f) ==
  f = [i \in 1 .. LengthBytes |-> IF i = LengthBytes THEN n ELSE f[i + 1] \div ByteBase]

LEMMA ShiftsExist ==
  ASSUME NEW n \in Nat
  PROVE  \E f : Shifts(n, f)
<1> DEFINE L == LengthBytes
           m == L - 1
           h == [p \in Nat \X (1 .. m) |-> p[1] \div ByteBase]
<1>1. L \in Nat \ {0} /\ m \in Nat /\ ByteBase \in Nat /\ ByteBase > 1
  BY FrameAssumption
<1>2. h \in [Nat \X (1 .. m) -> Nat] /\ \A x \in Nat : \A i \in 1 .. m : h[<<x, i>>] = x \div ByteBase
  BY <1>1
<1> HIDE DEF h
<1>3. PICK f \in [0 .. m -> Nat] : Steps(f, n, h, m)
  <2> HIDE DEF m
  <2>1. QED
    BY <1>1, <1>2, StepsExist, Zenon
<1> DEFINE g == [i \in 1 .. L |-> f[L - i]]
<1>4. \A i \in 1 .. L : g[i] = IF i = L THEN n ELSE g[i + 1] \div ByteBase
  <2> SUFFICES ASSUME NEW i \in 1 .. L
               PROVE  g[i] = IF i = L THEN n ELSE g[i + 1] \div ByteBase
    OBVIOUS
  <2>1. g[i] = f[L - i]
    OBVIOUS
  <2>2. CASE i = L
    <3>1. L - i = 0
      BY <1>1, <2>2
    <3>2. QED
      BY <1>3, <2>1, <2>2, <3>1 DEF Steps
  <2>3. CASE i # L
    <3>1. PICK k \in 1 .. m : k = L - i
      BY <1>1, <2>3
    <3>2. k - 1 \in 0 .. m /\ i + 1 \in 1 .. L /\ L - (i + 1) = k - 1
      BY <1>1, <2>3, <3>1
    <3>3. f[k] = h[<<f[k - 1], k>>] /\ f[k - 1] \in Nat
      BY <1>3, <3>2 DEF Steps
    <3>4. f[k] = f[k - 1] \div ByteBase
      BY <1>2, <3>3
    <3>5. g[i + 1] = f[k - 1]
      BY <3>2
    <3> HIDE DEF g
    <3>6. QED
      BY <2>1, <2>3, <3>1, <3>4, <3>5
  <2>4. QED
    BY <2>2, <2>3
<1>5. g = [i \in 1 .. L |-> g[i]]
  OBVIOUS
<1> HIDE DEF g
<1>6. Shifts(n, g)
  BY <1>4, <1>5, Zenon DEF Shifts
<1>7. QED
  BY <1>6

\* to_be_bytes returns the digits of a number that has so many
LEMMA DigitsOf ==
  ASSUME NEW t \in Numerals(ByteBase, LengthBytes), NEW w, Places(ByteBase, t, LengthBytes, w)
  PROVE  to_be_bytes(w[LengthBytes]) = t
<1> DEFINE L == LengthBytes
           n == w[L]
           f == CHOOSE g : Shifts(n, g)
<1>1. L \in Nat \ {0} /\ ByteBase \in Nat /\ ByteBase > 1
  BY FrameAssumption
<1>2. n \in Nat
  BY <1>1 DEF Places
<1>3. to_be_bytes(n) = [i \in 1 .. L |-> f[i] % ByteBase]
  BY DEF to_be_bytes, Shifts
<1>4. Shifts(n, f)
  BY <1>2, ShiftsExist, Zenon
<1> HIDE DEF f
<1>5. \A i \in 1 .. L : f[i] = IF i = L THEN n ELSE f[i + 1] \div ByteBase
  BY <1>4, Zenon DEF Shifts
<1>6. \A i \in 1 .. L : w[i] \div ByteBase = w[i - 1] /\ w[i] % ByteBase = t[i]
  <2> SUFFICES ASSUME NEW i \in 1 .. L
               PROVE  w[i] \div ByteBase = w[i - 1] /\ w[i] % ByteBase = t[i]
    OBVIOUS
  <2>1. i - 1 \in 0 .. L /\ i \in 0 .. L
    BY <1>1
  <2>2. w[i - 1] \in Nat /\ w[i] = w[i - 1] * ByteBase + t[i]
    BY <2>1 DEF Places
  <2>3. t[i] \in Nat /\ t[i] < ByteBase
    <3>1. t[i] \in 0 .. ByteBase - 1
      BY DEF Numerals
    <3>2. QED
      BY <1>1, <3>1
  <2>4. QED
    <3> DEFINE q == w[i - 1]
               r == t[i]
               b == ByteBase
    <3>1. q \in Nat /\ r \in Nat /\ b \in Nat /\ r < b /\ w[i] = q * b + r
      BY <1>1, <2>2, <2>3
    <3> HIDE DEF q, r, b
    <3>2. (q * b + r) \div b = q /\ (q * b + r) % b = r
      BY <3>1, OneDivision
    <3>3. w[i] \div b = q /\ w[i] % b = r
      BY <3>1, <3>2
    <3>4. QED
      BY <3>3 DEF q, r, b
<1> DEFINE P == {i \in 1 .. L : f[i] = w[i]}
<1>7. L \in P
  <2>1. L \in 1 .. L
    BY <1>1
  <2>2. QED
    BY <1>5, <2>1
<1>8. ASSUME NEW k \in 1 + 1 .. L, k \in P PROVE k - 1 \in P
  <2>1. PICK i \in 1 .. L : i = k - 1
    BY <1>1
  <2>2. k \in 1 .. L /\ i + 1 = k /\ i # L
    BY <1>1, <2>1
  <2>3. f[i] = f[k] \div ByteBase
    BY <1>5, <2>2
  <2>4. f[k] = w[k] /\ w[k] \div ByteBase = w[i]
    BY <1>6, <1>8, <2>1, <2>2
  <2>5. QED
    BY <2>1, <2>3, <2>4
<1> HIDE DEF P
<1>9. 1 .. L \subseteq P
  BY <1>1, <1>7, <1>8, IntervalDown
<1>10. \A i \in 1 .. L : f[i] % ByteBase = t[i]
  BY <1>6, <1>9 DEF P
<1>11. t = [i \in 1 .. L |-> t[i]]
  BY DEF Numerals
<1>12. QED
  BY <1>3, <1>10, <1>11

LEMMA BytesAreDigits ==
  ASSUME NEW s \in Seq(Byte)
  PROVE  /\ s \in Numerals(ByteBase, Len(s)) /\ s \in Seq(Nat) /\ Len(s) \in Nat
<1>1. Byte \subseteq Nat /\ Len(s) \in Nat
  BY LenProperties, FrameAssumption DEF Byte
<1>2. s \in Seq(Nat)
  BY <1>1, SeqMonotonic
<1>3. s \in [1 .. Len(s) -> Byte]
  BY LenProperties
<1>4. QED
  BY <1>1, <1>2, <1>3 DEF Numerals, Byte

LEMMA LengthIsWritten ==
  ASSUME NEW s \in Seq(Byte), Len(s) = LengthBytes
  PROVE  big_endian(s) \in Nat /\ to_be_bytes(big_endian(s)) = s
<1>1. s \in Numerals(ByteBase, LengthBytes) /\ s \in Seq(Nat) /\ LengthBytes \in Nat
  BY BytesAreDigits
<1>2. PICK v : Places(ByteBase, s, LengthBytes, v) /\ big_endian(s) = v[LengthBytes]
  BY <1>1, BytesPlaces
<1>3. v[LengthBytes] \in Nat
  BY <1>1, <1>2 DEF Places
<1>4. QED
  BY <1>1, <1>2, <1>3, DigitsOf

\* the longest length that can be said
Longest == big_endian([i \in 1 .. LengthBytes |-> ByteBase - 1])

LEMMA LongestIsNat == Longest \in Nat
<1> DEFINE s == [i \in 1 .. LengthBytes |-> ByteBase - 1]
<1>1. LengthBytes \in Nat /\ ByteBase \in Nat /\ ByteBase > 0 /\ ByteBase - 1 \in Byte
  BY FrameAssumption DEF Byte
<1>2. s \in Seq(Byte) /\ Len(s) = LengthBytes
  BY <1>1
<1>3. s \in Seq(Nat)
  BY <1>2, BytesAreDigits
<1> HIDE DEF s
<1>4. PICK v : Places(ByteBase, s, LengthBytes, v) /\ big_endian(s) = v[LengthBytes]
  BY <1>2, <1>3, BytesPlaces
<1>5. big_endian(s) \in Nat
  BY <1>1, <1>4 DEF Places
<1>6. QED
  BY <1>5 DEF s, Longest

LEMMA LengthIsRead ==
  ASSUME NEW n \in 0 .. Longest
  PROVE  /\ to_be_bytes(n) \in Seq(Byte) /\ Len(to_be_bytes(n)) = LengthBytes
         /\ big_endian(to_be_bytes(n)) = n
<1> DEFINE L == LengthBytes
           s == [i \in 1 .. L |-> ByteBase - 1]
<1>1. L \in Nat /\ ByteBase \in Nat /\ ByteBase > 0 /\ ByteBase - 1 \in Byte
  BY FrameAssumption DEF Byte
<1>2. s \in Seq(Byte) /\ Len(s) = L
  BY <1>1
<1>3. s \in Numerals(ByteBase, L) /\ s \in Seq(Nat)
  BY <1>2, BytesAreDigits
<1>4. PICK v : Places(ByteBase, s, L, v) /\ big_endian(s) = v[L]
  BY <1>2, <1>3, BytesPlaces
<1>5. n \in 0 .. v[L]
  BY <1>4 DEF Longest
<1> HIDE DEF s
<1>digits. PICK t \in Numerals(ByteBase, L) : \E w : Places(ByteBase, t, L, w) /\ w[L] = n
  BY <1>1, <1>3, <1>4, <1>5, BelowHasDigits
<1>6. PICK w : Places(ByteBase, t, L, w) /\ w[L] = n
  BY <1>digits
<1>7. to_be_bytes(n) = t
  BY <1>6, DigitsOf
<1>8. t \in Seq(Byte) /\ Len(t) = L
  BY <1>1 DEF Numerals, Byte
<1>9. PICK u : Places(ByteBase, t, L, u) /\ big_endian(t) = u[L]
  <2>1. t \in Seq(Nat)
    BY <1>8, BytesAreDigits
  <2>2. QED
    BY <1>8, <2>1, BytesPlaces
<1>10. u[L] = w[L]
  <2>1. SameWithin(t, t, L)
    BY DEF SameWithin
  <2>2. QED
    BY <1>1, <1>6, <1>9, <2>1, OrderOfPlaces
<1>11. QED
  BY <1>6, <1>7, <1>8, <1>9, <1>10

-----------------------------------------------------------------------------
(***************************************************************************)
(* Frames of an archive: what is read from where, and to where.            *)
(***************************************************************************)

\* behind place c of buf is the frame f, which ends at d
Reaches(buf, c, f, d) ==
  /\ c \in Nat /\ d \in Nat /\ f \in Seq(Byte) /\ Len(f) > 0
  /\ d = c + LengthBytes + Len(f) /\ d <= Len(buf)
  /\ SubSeq(buf, c + 1, c + LengthBytes) = to_be_bytes(Len(f))
  /\ SubSeq(buf, c + LengthBytes + 1, d) = f

LEMMA CutOfBytes ==
  ASSUME NEW buf \in Seq(Byte), NEW a \in Nat, NEW b \in Nat, NEW c, NEW l,
         b = a + 1, c = a + l, l \in Nat, c <= Len(buf)
  PROVE  /\ SubSeq(buf, b, c) \in Seq(Byte) /\ Len(SubSeq(buf, b, c)) = l
         /\ \A j \in 1 .. l : SubSeq(buf, b, c)[j] = buf[a + j]
<1>1. Len(buf) \in Nat /\ b \in Int /\ c \in Int
  BY LenProperties
<1>2. \A i \in b .. c : i \in 1 .. Len(buf)
  BY <1>1
<1>3. \A i \in b .. c : buf[i] \in Byte
  BY <1>2, ElementOfSeq
<1>4. /\ SubSeq(buf, b, c) \in Seq(Byte)
      /\ Len(SubSeq(buf, b, c)) = IF b <= c THEN c - b + 1 ELSE 0
      /\ \A i \in 1 .. c - b + 1 : SubSeq(buf, b, c)[i] = buf[b + i - 1]
  BY <1>1, <1>3, SubSeqProperties
<1>5. c - b + 1 = l /\ (IF b <= c THEN c - b + 1 ELSE 0) = l /\ \A j \in 1 .. l : b + j - 1 = a + j
  BY <1>1
<1>6. QED
  BY <1>4, <1>5

\* read_frame_bounded returns a frame that is there, or a cursor beyond the end
LEMMA FrameIsThere ==
  ASSUME NEW buf \in Seq(Byte), NEW c \in 0 .. Len(buf) + 1, NEW k \in Nat
  PROVE  /\ read_frame_bounded(buf, c, k) \in [frame : Seq(Byte), cursor : 0 .. Len(buf) + 1]
         /\ read_frame_bounded(buf, c, k).cursor <= Len(buf) =>
              Reaches(buf, c, read_frame_bounded(buf, c, k).frame, read_frame_bounded(buf, c, k).cursor)
<1> DEFINE L == LengthBytes
           p == c + L
           bytes == SubSeq(buf, c + 1, p)
           len == big_endian(bytes)
           q == p + len
           there == p <= Len(buf) /\ len > 0 /\ q <= Len(buf) /\ len <= k
           frame == SubSeq(buf, p + 1, q)
           r == read_frame_bounded(buf, c, k)
<1>1. r = IF there THEN [frame |-> frame, cursor |-> q] ELSE [frame |-> << >>, cursor |-> Len(buf) + 1]
  BY DEF read_frame_bounded
<1>2. L \in Nat \ {0} /\ Len(buf) \in Nat /\ c \in Nat /\ p \in Nat
  BY LenProperties, FrameAssumption
<1> HIDE DEF r
<1>3. CASE there
  <2>1. bytes \in Seq(Byte) /\ Len(bytes) = L
    <3> DEFINE b == c + 1
    <3>1. b \in Nat /\ b = c + 1 /\ p <= Len(buf)
      BY <1>2, <1>3
    <3>2. p = c + L
      OBVIOUS
    <3> HIDE DEF b, p
    <3>3. SubSeq(buf, b, p) \in Seq(Byte) /\ Len(SubSeq(buf, b, p)) = L
      BY <1>2, <3>1, <3>2, CutOfBytes
    <3>4. QED
      BY <3>3 DEF b
  <2>2. len \in Nat /\ to_be_bytes(len) = bytes
    BY <2>1, LengthIsWritten
  <2>3. frame \in Seq(Byte) /\ Len(frame) = len
    <3> DEFINE b == p + 1
    <3>1. b \in Nat /\ b = p + 1 /\ q <= Len(buf) /\ q = p + len
      BY <1>2, <1>3
    <3> HIDE DEF b, p, q, len
    <3>2. SubSeq(buf, b, q) \in Seq(Byte) /\ Len(SubSeq(buf, b, q)) = len
      BY <1>2, <2>2, <3>1, CutOfBytes
    <3>3. QED
      BY <3>2 DEF b
  <2>4. q \in 0 .. Len(buf) + 1 /\ q \in Nat /\ len > 0 /\ q <= Len(buf) /\ q = c + L + len
    BY <1>2, <1>3, <2>2
  <2>5. r = [frame |-> frame, cursor |-> q]
    BY <1>1, <1>3
  <2>6. r \in [frame : Seq(Byte), cursor : 0 .. Len(buf) + 1] /\ r.frame = frame /\ r.cursor = q
    <3> HIDE DEF frame, q
    <3>1. QED
      BY <2>3, <2>4, <2>5
  <2>7. Reaches(buf, c, frame, q)
    <3>1. SubSeq(buf, c + 1, c + LengthBytes) = bytes /\ SubSeq(buf, c + LengthBytes + 1, q) = frame
      OBVIOUS
    <3> HIDE DEF frame, q, len, bytes
    <3>2. QED
      BY <1>2, <2>2, <2>3, <2>4, <3>1 DEF Reaches
  <2> HIDE DEF frame, q
  <2>8. QED
    BY <2>6, <2>7 DEF r
<1>4. CASE ~ there
  <2> HIDE DEF there
  <2>1. r = [frame |-> << >>, cursor |-> Len(buf) + 1]
    BY <1>1, <1>4
  <2>2. r \in [frame : Seq(Byte), cursor : 0 .. Len(buf) + 1] /\ ~ (r.cursor <= Len(buf))
    BY <1>2, <2>1, EmptySeq
  <2>3. QED
    BY <2>2 DEF r
<1>5. QED
  BY <1>3, <1>4

\* a frame that is there is read, if it is no longer than it may be
LEMMA FrameIsRead ==
  ASSUME NEW buf \in Seq(Byte), NEW c, NEW f, NEW d, Reaches(buf, c, f, d),
         NEW k, Len(f) <= k, Len(f) <= Longest
  PROVE  read_frame_bounded(buf, c, k) = [frame |-> f, cursor |-> d]
<1> DEFINE L == LengthBytes
           p == c + L
           bytes == SubSeq(buf, c + 1, p)
           len == big_endian(bytes)
           q == p + len
           there == p <= Len(buf) /\ len > 0 /\ q <= Len(buf) /\ len <= k
           frame == SubSeq(buf, p + 1, q)
<1>1. read_frame_bounded(buf, c, k)
        = IF there THEN [frame |-> frame, cursor |-> q]
          ELSE [frame |-> << >>, cursor |-> Len(buf) + 1]
  BY DEF read_frame_bounded
<1>2. /\ L \in Nat \ {0} /\ Len(buf) \in Nat /\ c \in Nat /\ d \in Nat /\ p \in Nat
      /\ f \in Seq(Byte) /\ Len(f) \in Nat /\ Len(f) > 0 /\ d = p + Len(f) /\ d <= Len(buf)
  BY LenProperties, FrameAssumption DEF Reaches
<1>3. len = Len(f)
  <2>1. bytes = to_be_bytes(Len(f))
    BY DEF Reaches
  <2>2. Longest \in Nat
    BY LongestIsNat
  <2>3. Len(f) \in 0 .. Longest
    BY <1>2, <2>2
  <2>4. big_endian(to_be_bytes(Len(f))) = Len(f)
    BY <2>3, LengthIsRead
  <2>5. QED
    BY <2>1, <2>4
<1> HIDE DEF len
<1>4. q = d /\ there
  BY <1>2, <1>3
<1>5. frame = f
  <2>1. SubSeq(buf, p + 1, d) = f
    BY DEF Reaches
  <2> HIDE DEF p, q
  <2>2. QED
    BY <1>4, <2>1
<1> HIDE DEF there, frame, q
<1>6. QED
  BY <1>1, <1>4, <1>5

\* frames one after another: C says where each of them ends
Trail(buf, frames, C) ==
  /\ frames \in Seq(Seq(Byte)) /\ C \in [0 .. Len(frames) -> 0 .. Len(buf)]
  /\ \A i \in 1 .. Len(frames) : Reaches(buf, C[i - 1], frames[i], C[i])

TrailTo(buf, c, frames, n, d) ==
  \E C : Trail(buf, frames, C) /\ Len(frames) = n /\ C[0] = c /\ C[n] = d

LEMMA TrailNext ==
  ASSUME NEW buf \in Seq(Byte), NEW c, NEW frames, NEW n \in Nat, NEW d,
         TrailTo(buf, c, frames, n, d), NEW f, NEW e, Reaches(buf, d, f, e)
  PROVE  TrailTo(buf, c, Append(frames, f), n + 1, e)
<1>1. PICK C : Trail(buf, frames, C) /\ Len(frames) = n /\ C[0] = c /\ C[n] = d
  BY DEF TrailTo
<1> DEFINE D == [i \in 0 .. n + 1 |-> IF i = n + 1 THEN e ELSE C[i]]
           g == Append(frames, f)
<1>2. Len(buf) \in Nat /\ e \in 0 .. Len(buf) /\ f \in Seq(Byte)
  BY LenProperties DEF Reaches
<1>3. frames \in Seq(Seq(Byte)) /\ C \in [0 .. n -> 0 .. Len(buf)]
  BY <1>1 DEF Trail
<1>4. g \in Seq(Seq(Byte)) /\ Len(g) = n + 1 /\ g[n + 1] = f /\ \A i \in 1 .. n : g[i] = frames[i]
  BY <1>1, <1>2, <1>3, AppendProperties
<1>5. /\ \A i \in 0 .. n : i # n + 1 /\ i \in 0 .. n + 1
      /\ n + 1 \in 0 .. n + 1 /\ \A i \in 0 .. n + 1 : i \in 0 .. n \/ i = n + 1
      /\ (n + 1) - 1 = n
  OBVIOUS
<1>6. /\ D[n + 1] = e /\ \A i \in 0 .. n : D[i] = C[i]
  BY <1>5
<1>7. D \in [0 .. n + 1 -> 0 .. Len(buf)]
  BY <1>2, <1>3, <1>5
<1> HIDE DEF D, g
<1>8. ASSUME NEW i \in 1 .. n + 1 PROVE Reaches(buf, D[i - 1], g[i], D[i])
  <2>1. CASE i = n + 1
    <3>1. i - 1 = n /\ n \in 0 .. n
      BY <2>1
    <3>2. D[i - 1] = d /\ g[i] = f /\ D[i] = e
      BY <1>1, <1>4, <1>6, <2>1, <3>1
    <3>3. QED
      BY <3>2
  <2>2. CASE i # n + 1
    <3>1. i \in 1 .. n /\ i \in 0 .. n /\ i - 1 \in 0 .. n
      BY <2>2
    <3>2. Reaches(buf, C[i - 1], frames[i], C[i])
      BY <1>1, <3>1 DEF Trail
    <3>3. D[i - 1] = C[i - 1] /\ g[i] = frames[i] /\ D[i] = C[i]
      BY <1>4, <1>6, <3>1
    <3>4. QED
      BY <3>2, <3>3
  <2>3. QED
    BY <2>1, <2>2
<1>9. Trail(buf, g, D)
  BY <1>4, <1>7, <1>8 DEF Trail
<1>10. D[0] = c /\ D[n + 1] = e
  BY <1>1, <1>6
<1>11. TrailTo(buf, c, g, n + 1, e)
  BY <1>4, <1>9, <1>10 DEF TrailTo
<1>12. QED
  BY <1>11 DEF g

\* a reader that read r goes on with the next ceiling k
ReadOn(buf, r, k) ==
  [frames |-> Append(r.frames, read_frame_bounded(buf, r.cursor, k).frame),
   cursor |-> read_frame_bounded(buf, r.cursor, k).cursor]

\* what the recursive definition of read_frames computes
Reads(buf, c, ceilings, R) ==
  R = [i \in 0 .. Len(ceilings) |->
         IF i = 0 THEN [frames |-> << >>, cursor |-> c]
         ELSE [frames |-> Append(R[i - 1].frames,
                                 read_frame_bounded(buf, R[i - 1].cursor, ceilings[i]).frame),
               cursor |-> read_frame_bounded(buf, R[i - 1].cursor, ceilings[i]).cursor]]

ReadState(buf) == [frames : Seq(Seq(Byte)), cursor : 0 .. Len(buf) + 1]

LEMMA ReadOnType ==
  ASSUME NEW buf \in Seq(Byte), NEW r \in ReadState(buf), NEW k \in Nat
  PROVE  ReadOn(buf, r, k) \in ReadState(buf)
<1> DEFINE f == read_frame_bounded(buf, r.cursor, k)
<1>1. r.cursor \in 0 .. Len(buf) + 1 /\ r.frames \in Seq(Seq(Byte))
  BY DEF ReadState
<1>2. f \in [frame : Seq(Byte), cursor : 0 .. Len(buf) + 1]
  BY <1>1, FrameIsThere
<1> HIDE DEF f
<1>3. f.frame \in Seq(Byte) /\ f.cursor \in 0 .. Len(buf) + 1
  BY <1>2
<1>4. Append(r.frames, f.frame) \in Seq(Seq(Byte))
  BY <1>1, <1>3, AppendProperties
<1>5. ReadOn(buf, r, k) = [frames |-> Append(r.frames, f.frame), cursor |-> f.cursor]
  BY DEF ReadOn, f
<1>6. QED
  BY <1>3, <1>4, <1>5 DEF ReadState

LEMMA ReadsUnfold ==
  ASSUME NEW buf \in Seq(Byte), NEW c \in 0 .. Len(buf) + 1, NEW ceilings \in Seq(Nat)
  PROVE  \E R :
           /\ R[0] = [frames |-> << >>, cursor |-> c]
           /\ \A i \in 1 .. Len(ceilings) : /\ R[i - 1] \in ReadState(buf)
                                            /\ R[i] = ReadOn(buf, R[i - 1], ceilings[i])
           /\ read_frames(buf, c, ceilings) = R[Len(ceilings)]
<1> DEFINE n == Len(ceilings)
           X == ReadState(buf)
           a == [frames |-> << >>, cursor |-> c]
           h == [p \in X \X (1 .. n) |-> ReadOn(buf, p[1], ceilings[p[2]])]
<1>1. n \in Nat /\ a \in X /\ \A i \in 1 .. n : ceilings[i] \in Nat
  BY EmptySeq, ElementOfSeq, LenProperties DEF ReadState
<1>2. h \in [X \X (1 .. n) -> X] /\ \A x \in X : \A i \in 1 .. n : h[<<x, i>>] = ReadOn(buf, x, ceilings[i])
  <2>1. \A x \in X : \A i \in 1 .. n : ReadOn(buf, x, ceilings[i]) \in X
    BY <1>1, ReadOnType
  <2> HIDE DEF X, n
  <2>2. QED
    BY <2>1
<1> HIDE DEF h
<1>3. PICK f \in [0 .. n -> X] : Steps(f, a, h, n)
  <2> HIDE DEF n, X, a
  <2>1. QED
    BY <1>1, <1>2, StepsExist, Zenon
<1>4. f[0] = a /\ \A i \in 1 .. n : f[i] = ReadOn(buf, f[i - 1], ceilings[i])
  <2> HIDE DEF X, n, a
  <2>1. \A i \in 1 .. n : i - 1 \in 0 .. n /\ f[i - 1] \in X
    <3>1. \A i \in 1 .. n : i - 1 \in 0 .. n
      BY <1>1
    <3>2. \A j \in 0 .. n : f[j] \in X
      BY <1>3
    <3>3. QED
      BY <3>1, <3>2
  <2>2. f[0] = a /\ \A i \in 1 .. n : f[i] = h[<<f[i - 1], i>>]
    BY <1>3 DEF Steps
  <2>3. QED
    BY <1>2, <2>1, <2>2, Zenon
<1>5. Reads(buf, c, ceilings, f)
  <2>1. \A i \in 0 .. n : i \in 1 .. n \/ i = 0
    BY <1>1
  <2>2. \A i \in 1 .. n : i # 0
    BY <1>1
  <2>3. \A i \in 0 .. n : f[i] = IF i = 0 THEN a ELSE ReadOn(buf, f[i - 1], ceilings[i])
    BY <1>4, <2>1, <2>2, Zenon
  <2>4. f = [i \in 0 .. n |-> IF i = 0 THEN a ELSE ReadOn(buf, f[i - 1], ceilings[i])]
    <3>1. f = [i \in 0 .. n |-> f[i]]
      OBVIOUS
    <3> HIDE DEF n, a
    <3>2. QED
      BY <2>3, <3>1, Zenon
  <2>5. QED
    BY <2>4, Zenon DEF Reads, ReadOn
<1> DEFINE R == CHOOSE x : Reads(buf, c, ceilings, x)
<1>6. Reads(buf, c, ceilings, R)
  BY <1>5, Zenon
<1>7. read_frames(buf, c, ceilings) = R[n]
  BY Zenon DEF read_frames, Reads
<1> HIDE DEF R
<1>8. R[0] = a /\ \A i \in 1 .. n : R[i] = ReadOn(buf, R[i - 1], ceilings[i])
  <2>1. R = [i \in 0 .. n |-> IF i = 0 THEN a ELSE ReadOn(buf, R[i - 1], ceilings[i])]
    BY <1>6, Zenon DEF Reads, ReadOn
  <2> HIDE DEF a, n
  <2>2. \A i \in 0 .. n : R[i] = IF i = 0 THEN a ELSE ReadOn(buf, R[i - 1], ceilings[i])
    BY <2>1, Zenon
  <2>3. 0 \in 0 .. n /\ \A i \in 1 .. n : i \in 0 .. n /\ i # 0
    BY <1>1
  <2>4. QED
    BY <2>2, <2>3, Zenon
<1> DEFINE P == {i \in 0 .. n : R[i] \in X}
<1> HIDE DEF X, a
<1>9. 0 \in P
  BY <1>1, <1>8
<1>10. ASSUME NEW k \in 0 .. n - 1, k \in P PROVE k + 1 \in P
  <2> HIDE DEF n
  <2>1. PICK i \in 1 .. n : i = k + 1
    BY <1>1
  <2>2. i - 1 = k /\ i \in 0 .. n
    BY <1>1, <2>1
  <2>3. R[i] = ReadOn(buf, R[k], ceilings[i]) /\ R[k] \in X /\ ceilings[i] \in Nat
    BY <1>1, <1>8, <1>10, <2>2
  <2>4. R[i] \in X
    BY <2>3, ReadOnType DEF X
  <2>5. QED
    BY <2>1, <2>2, <2>4
<1> HIDE DEF P
<1>11. 0 .. n \subseteq P
  <2> HIDE DEF n
  <2>1. QED
    BY <1>1, <1>9, <1>10, n \in Int, 0 \in Int, IntervalUp, Zenon
<1>12. \A i \in 1 .. n : R[i - 1] \in X
  <2>1. \A i \in 1 .. n : i - 1 \in 0 .. n
    BY <1>1
  <2>2. QED
    BY <1>11, <2>1 DEF P
<1>13. QED
  BY <1>7, <1>8, <1>12 DEF X, a

LEMMA StartNext ==
  ASSUME NEW S, NEW s \in Seq(S), NEW k, NEW i \in 1 .. Len(s), k = i - 1
  PROVE  Append(SubSeq(s, 1, k), s[i]) = SubSeq(s, 1, i)
<1>1. Len(s) \in Nat /\ 1 \in 1 .. Len(s) /\ i \in 1 .. Len(s) /\ s[i] \in S
  BY LenProperties, ElementOfSeq
<1>2. SubSeq(s, 1, i) = SubSeq(s, 1, i - 1) \o <<s[i]>>
  BY <1>1, SubSeqRecursiveSecond
<1>3. SubSeq(s, 1, k) \in Seq(S)
  <2>1. \A j \in 1 .. k : j \in 1 .. Len(s)
    BY <1>1
  <2>2. \A j \in 1 .. k : s[j] \in S
    BY <2>1, ElementOfSeq
  <2>3. k \in Int
    OBVIOUS
  <2>4. QED
    BY <2>2, <2>3, SubSeqProperties
<1>4. Append(SubSeq(s, 1, k), s[i]) = SubSeq(s, 1, k) \o <<s[i]>>
  BY <1>1, <1>3, AppendIsConcat
<1>5. QED
  BY <1>2, <1>4

\* what read_frames returns is there, if the cursor is within the bytes
LEMMA FramesAreThere ==
  ASSUME NEW buf \in Seq(Byte), NEW c \in 0 .. Len(buf) + 1, NEW ceilings \in Seq(Nat)
  PROVE  /\ read_frames(buf, c, ceilings) \in ReadState(buf)
         /\ read_frames(buf, c, ceilings).cursor <= Len(buf) =>
              TrailTo(buf, c, read_frames(buf, c, ceilings).frames, Len(ceilings),
                      read_frames(buf, c, ceilings).cursor)
<1> DEFINE n == Len(ceilings)
           Good(r, i) == /\ r \in ReadState(buf)
                         /\ r.cursor <= Len(buf) => TrailTo(buf, c, r.frames, i, r.cursor)
<1>1. PICK R : /\ R[0] = [frames |-> << >>, cursor |-> c]
               /\ \A i \in 1 .. n : /\ R[i - 1] \in ReadState(buf)
                                    /\ R[i] = ReadOn(buf, R[i - 1], ceilings[i])
               /\ read_frames(buf, c, ceilings) = R[n]
  BY ReadsUnfold
<1>2. n \in Nat /\ Len(buf) \in Nat /\ \A i \in 1 .. n : ceilings[i] \in Nat
  BY LenProperties, ElementOfSeq
<1> DEFINE P == {i \in 0 .. n : Good(R[i], i)}
<1>3. 0 \in P
  <2>1. R[0].frames = << >> /\ R[0].cursor = c /\ R[0] \in ReadState(buf)
    BY <1>1, EmptySeq DEF ReadState
  <2>2. ASSUME c <= Len(buf) PROVE TrailTo(buf, c, << >>, 0, c)
    <3> DEFINE C == [i \in 0 .. 0 |-> c]
    <3>1. C \in [0 .. 0 -> 0 .. Len(buf)] /\ C[0] = c /\ << >> \in Seq(Seq(Byte)) /\ Len(<< >>) = 0
      BY <1>2, <2>2, EmptySeq
    <3> HIDE DEF C
    <3>2. Trail(buf, << >>, C)
      BY <3>1 DEF Trail
    <3>3. QED
      BY <3>1, <3>2 DEF TrailTo
  <2>3. 0 \in 0 .. n
    BY <1>2
  <2>4. QED
    BY <2>1, <2>2, <2>3
<1>4. ASSUME NEW k \in 0 .. n - 1, k \in P PROVE k + 1 \in P
  <2> HIDE DEF n
  <2>1. PICK i \in 1 .. n : i = k + 1
    BY <1>2
  <2>2. i - 1 = k /\ i \in 0 .. n /\ k \in Nat
    BY <1>2, <2>1
  <2> DEFINE r == R[k]
             x == read_frame_bounded(buf, r.cursor, ceilings[i])
  <2>3. r \in ReadState(buf) /\ R[i] = ReadOn(buf, r, ceilings[i]) /\ ceilings[i] \in Nat
    BY <1>1, <1>2, <2>2
  <2>4. r.cursor \in 0 .. Len(buf) + 1
    BY <2>3 DEF ReadState
  <2>5. /\ x \in [frame : Seq(Byte), cursor : 0 .. Len(buf) + 1]
        /\ x.cursor <= Len(buf) => Reaches(buf, r.cursor, x.frame, x.cursor)
    BY <2>3, <2>4, FrameIsThere
  <2>6. R[i].frames = Append(r.frames, x.frame) /\ R[i].cursor = x.cursor
    BY <2>3 DEF ReadOn
  <2>7. R[i] \in ReadState(buf)
    BY <2>3, ReadOnType
  <2>8. Good(r, k)
    BY <1>4
  <2> HIDE DEF r, x
  <2>9. ASSUME x.cursor <= Len(buf)
        PROVE  TrailTo(buf, c, Append(r.frames, x.frame), k + 1, x.cursor)
    <3>1. Reaches(buf, r.cursor, x.frame, x.cursor)
      BY <2>5, <2>9
    <3>2. r.cursor <= Len(buf)
      <4>1. /\ r.cursor \in Nat /\ x.cursor \in Nat /\ Len(x.frame) \in Nat
            /\ x.cursor = r.cursor + LengthBytes + Len(x.frame) /\ LengthBytes \in Nat
        BY <3>1, FrameAssumption, LenProperties DEF Reaches
      <4>2. QED
        BY <1>2, <2>9, <4>1
    <3>3. TrailTo(buf, c, r.frames, k, r.cursor)
      BY <2>8, <3>2
    <3>4. QED
      BY <2>2, <3>1, <3>3, TrailNext
  <2>10. Good(R[i], i)
    BY <2>1, <2>6, <2>7, <2>9
  <2>11. QED
    BY <2>1, <2>2, <2>10
<1> HIDE DEF P
<1>5. 0 .. n \subseteq P
  <2> HIDE DEF n
  <2>1. QED
    BY <1>2, <1>3, <1>4, n \in Int, 0 \in Int, IntervalUp, Zenon
<1>6. Good(R[n], n)
  <2>1. n \in 0 .. n
    BY <1>2
  <2>2. QED
    BY <1>5, <2>1 DEF P
<1>7. QED
  BY <1>1, <1>6

\* frames that are there are read, if none is longer than it may be
LEMMA FramesAreRead ==
  ASSUME NEW buf \in Seq(Byte), NEW frames, NEW C, Trail(buf, frames, C),
         NEW ceilings \in Seq(Nat), Len(ceilings) = Len(frames),
         \A i \in 1 .. Len(frames) : Len(frames[i]) <= ceilings[i] /\ Len(frames[i]) <= Longest
  PROVE  read_frames(buf, C[0], ceilings) = [frames |-> frames, cursor |-> C[Len(frames)]]
<1> DEFINE n == Len(frames)
           Start(i) == SubSeq(frames, 1, i)
<1>1. /\ n \in Nat /\ Len(buf) \in Nat /\ frames \in Seq(Seq(Byte)) /\ C \in [0 .. n -> 0 .. Len(buf)]
  BY LenProperties DEF Trail
<1>2. C[0] \in 0 .. Len(buf) + 1
  <2> HIDE DEF n
  <2>1. C[0] \in 0 .. Len(buf)
    BY <1>1
  <2>2. QED
    BY <1>1, <2>1
<1>3. PICK R : /\ R[0] = [frames |-> << >>, cursor |-> C[0]]
               /\ \A i \in 1 .. n : R[i] = ReadOn(buf, R[i - 1], ceilings[i])
               /\ read_frames(buf, C[0], ceilings) = R[n]
  BY <1>2, ReadsUnfold
<1> DEFINE P == {i \in 0 .. n : R[i] = [frames |-> Start(i), cursor |-> C[i]]}
<1>4. 0 \in P
  <2>1. Start(0) = << >>
    BY <1>1, SubSeqEmpty
  <2>2. 0 \in 0 .. n
    BY <1>1
  <2>3. QED
    BY <1>3, <2>1, <2>2
<1>5. ASSUME NEW k \in 0 .. n - 1, k \in P PROVE k + 1 \in P
  <2> HIDE DEF n
  <2>1. PICK i \in 1 .. n : i = k + 1
    BY <1>1
  <2>2. i - 1 = k /\ i \in 0 .. n
    BY <1>1, <2>1
  <2>3. Append(Start(k), frames[i]) = Start(i)
    <3>1. i \in 1 .. Len(frames) /\ k = i - 1
      BY <2>1 DEF n
    <3>2. QED
      BY <1>1, <3>1, StartNext
  <2>4. Reaches(buf, C[k], frames[i], C[i])
    BY <2>2 DEF Trail, n
  <2>5. Len(frames[i]) <= ceilings[i] /\ Len(frames[i]) <= Longest
    BY DEF n
  <2>6. read_frame_bounded(buf, C[k], ceilings[i]) = [frame |-> frames[i], cursor |-> C[i]]
    BY <2>4, <2>5, FrameIsRead
  <2>7. R[k] = [frames |-> Start(k), cursor |-> C[k]] /\ R[i] = ReadOn(buf, R[k], ceilings[i])
    BY <1>3, <1>5, <2>2
  <2> HIDE DEF Start
  <2>8. R[i] = [frames |-> Append(Start(k), frames[i]), cursor |-> C[i]]
    <3> DEFINE x == read_frame_bounded(buf, C[k], ceilings[i])
    <3>1. R[k].frames = Start(k) /\ R[k].cursor = C[k]
      BY <2>7
    <3>2. R[i] = [frames |-> Append(R[k].frames, read_frame_bounded(buf, R[k].cursor, ceilings[i]).frame),
                  cursor |-> read_frame_bounded(buf, R[k].cursor, ceilings[i]).cursor]
      BY <2>7, Zenon DEF ReadOn
    <3>3. R[i] = [frames |-> Append(Start(k), x.frame), cursor |-> x.cursor]
      BY <3>1, <3>2, Zenon
    <3>4. x.frame = frames[i] /\ x.cursor = C[i]
      BY <2>6
    <3>5. QED
      BY <3>3, <3>4, Zenon
  <2>9. QED
    BY <2>1, <2>2, <2>3, <2>8
<1> HIDE DEF P
<1>6. 0 .. n \subseteq P
  <2> HIDE DEF n
  <2>1. QED
    BY <1>1, <1>4, <1>5, n \in Int, 0 \in Int, IntervalUp, Zenon
<1>7. R[n] = [frames |-> Start(n), cursor |-> C[n]]
  <2>1. n \in 0 .. n
    BY <1>1
  <2>2. QED
    BY <1>6, <2>1 DEF P
<1>8. Start(n) = frames
  BY <1>1, SubSeqFull
<1>9. QED
  BY <1>3, <1>7, <1>8

-----------------------------------------------------------------------------
(***************************************************************************)
(* Archives that are written.                                              *)
(***************************************************************************)

\* what the recursive definition of write_archive computes
Writes(frames, W) ==
  W = [i \in 0 .. Len(frames) |-> IF i = 0 THEN Magic ELSE frame_into(frames[i], W[i - 1])]

LEMMA WritesUnfold ==
  ASSUME NEW frames, Len(frames) \in Nat, NEW V, Writes(frames, V)
  PROVE  write_archive(frames) = V[Len(frames)]
<1> DEFINE n == Len(frames)
           W == CHOOSE x : Writes(frames, x)
<1>1. write_archive(frames) = W[n]
  BY Zenon DEF write_archive, Writes
<1>2. Writes(frames, W)
  BY Zenon
<1> HIDE DEF W
<1>3. \A i \in 0 .. n : W[i] = IF i = 0 THEN Magic ELSE frame_into(frames[i], W[i - 1])
  BY <1>2, Zenon DEF Writes
<1>4. \A i \in 0 .. n : V[i] = IF i = 0 THEN Magic ELSE frame_into(frames[i], V[i - 1])
  BY Zenon DEF Writes
<1> DEFINE P == {i \in 0 .. n : W[i] = V[i]}
<1>5. 0 \in P
  BY <1>3, <1>4
<1>6. ASSUME NEW k \in 0 .. n - 1, k \in P PROVE k + 1 \in P
  <2> HIDE DEF n
  <2>1. PICK i \in 0 .. n : i = k + 1
    BY DEF n
  <2>2. i # 0 /\ i - 1 = k
    BY <2>1
  <2>3. W[i] = frame_into(frames[i], W[i - 1]) /\ V[i] = frame_into(frames[i], V[i - 1])
    BY <1>3, <1>4, <2>2, Zenon
  <2>4. W[i - 1] = V[i - 1]
    BY <1>6, <2>2
  <2>5. W[i] = V[i]
    BY <2>3, <2>4, Zenon
  <2>6. QED
    BY <2>1, <2>5
<1> HIDE DEF P
<1>7. 0 .. n \subseteq P
  <2>1. n \in Int
    OBVIOUS
  <2> HIDE DEF n
  <2>2. QED
    BY <1>5, <1>6, <2>1, 0 \in Int, IntervalUp, Zenon
<1>8. n \in 0 .. n
  OBVIOUS
<1>9. W[n] = V[n]
  BY <1>7, <1>8 DEF P
<1>10. QED
  BY <1>1, <1>9

\* frames that are there, one after another behind the magic, are what write_archive
\* makes of them, as far as they go
LEMMA TrailIsWritten ==
  ASSUME NEW buf \in Seq(Byte), NEW frames, NEW C, Trail(buf, frames, C),
         SubSeq(buf, 1, C[0]) = Magic
  PROVE  write_archive(frames) = SubSeq(buf, 1, C[Len(frames)])
<1> DEFINE n == Len(frames)
           V == [i \in 0 .. n |-> SubSeq(buf, 1, C[i])]
<1>1. /\ n \in Nat /\ Len(buf) \in Nat /\ C \in [0 .. n -> 0 .. Len(buf)]
  BY LenProperties DEF Trail
<1>2. ASSUME NEW i \in 1 .. n PROVE V[i] = frame_into(frames[i], V[i - 1])
  <2> DEFINE c == C[i - 1]
             d == C[i]
             p == c + LengthBytes
             f == frames[i]
  <2>1. Reaches(buf, c, f, d)
    BY DEF Trail
  <2>2. /\ i - 1 \in 0 .. n /\ i \in 0 .. n
    BY <1>1
  <2>3. V[i] = SubSeq(buf, 1, d) /\ V[i - 1] = SubSeq(buf, 1, c)
    BY <2>2
  <2>4. /\ c \in Nat /\ d \in Nat /\ Len(f) \in Nat /\ d = p + Len(f) /\ d <= Len(buf)
        /\ SubSeq(buf, c + 1, p) = to_be_bytes(Len(f)) /\ SubSeq(buf, p + 1, d) = f
    BY <2>1, LenProperties DEF Reaches
  <2>5. c \in 1 - 1 .. Len(buf) /\ p \in c .. Len(buf) /\ p \in 1 - 1 .. Len(buf) /\ d \in p .. Len(buf)
        /\ 1 \in 1 .. Len(buf) + 1
    <3> DEFINE l == Len(f)
               m == Len(buf)
    <3>1. m \in Nat /\ c \in Nat /\ d \in Nat /\ l \in Nat /\ d = p + l /\ d <= m
      BY <1>1, <2>4
    <3>2. LengthBytes \in Nat
      BY FrameAssumption
    <3> HIDE DEF c, d, l, m
    <3>3. c \in 1 - 1 .. m /\ p \in c .. m /\ p \in 1 - 1 .. m /\ d \in p .. m /\ 1 \in 1 .. m + 1
      BY <3>1, <3>2
    <3>4. QED
      BY <3>3 DEF m
  <2> HIDE DEF c, d, p, f, V, n
  <2>6. SubSeq(buf, 1, c) \o SubSeq(buf, c + 1, p) = SubSeq(buf, 1, p)
    BY <2>5, ConcatAdjacentSubSeq
  <2>7. SubSeq(buf, 1, p) \o SubSeq(buf, p + 1, d) = SubSeq(buf, 1, d)
    BY <2>5, ConcatAdjacentSubSeq
  <2>8. SubSeq(buf, 1, d) = frame_into(f, SubSeq(buf, 1, c))
    BY <2>4, <2>6, <2>7 DEF frame_into
  <2>9. QED
    BY <2>3, <2>8 DEF f
<1>3. V[0] = Magic
  BY <1>1
<1>4. V = [i \in 0 .. n |-> V[i]]
  OBVIOUS
<1>5. V[n] = SubSeq(buf, 1, C[n])
  BY SMTT(30), <1>1
<1> HIDE DEF V
<1>6. \A i \in 0 .. n : V[i] = IF i = 0 THEN Magic ELSE frame_into(frames[i], V[i - 1])
  <2>1. \A i \in 0 .. n : i = 0 \/ i \in 1 .. n
    BY <1>1
  <2>2. \A i \in 1 .. n : i # 0
    OBVIOUS
  <2> HIDE DEF n
  <2>3. QED
    BY <1>2, <1>3, <2>1, <2>2, Zenon
<1>7. Writes(frames, V)
  BY <1>4, <1>6, Zenon DEF Writes
<1>8. QED
  BY <1>1, <1>5, <1>7, WritesUnfold

StartsWith(buf, w) == w \in Seq(Byte) /\ Len(w) <= Len(buf) /\ \A j \in 1 .. Len(w) : buf[j] = w[j]

Framed(out, m, f, n, w) ==
  /\ w \in Seq(Byte) /\ Len(w) = m + LengthBytes + n
  /\ \A j \in 1 .. m : w[j] = out[j]
  /\ to_be_bytes(n) \in Seq(Byte) /\ Len(to_be_bytes(n)) = LengthBytes
  /\ \A j \in 1 .. LengthBytes : w[m + j] = to_be_bytes(n)[j]
  /\ \A j \in 1 .. n : w[m + LengthBytes + j] = f[j]

LEMMA FramedBytes ==
  ASSUME NEW out \in Seq(Byte), NEW f \in Seq(Byte), Len(f) <= Longest,
         NEW m, NEW n, NEW w, m = Len(out), n = Len(f), w = frame_into(f, out)
  PROVE  Framed(out, m, f, n, w)
<1> DEFINE L == LengthBytes
           t == to_be_bytes(n)
           u == out \o t
           p == m + L
<1>1. m \in Nat /\ n \in Nat /\ L \in Nat /\ p \in Nat
  BY LenProperties, FrameAssumption
<1>2. t \in Seq(Byte) /\ Len(t) = L
  <2>1. n \in 0 .. Longest
    BY <1>1, LongestIsNat
  <2>2. QED
    BY <2>1, LengthIsRead
<1>3. w = u \o f
  BY DEF frame_into
<1> HIDE DEF t
<1>4. Appends(Byte, out, m, t, L, u)
  <2> HIDE DEF L, u
  <2>1. u = out \o t
    BY DEF u
  <2>2. QED
    BY <1>2, <2>1, Appended
<1> HIDE DEF u
<1>5. u \in Seq(Byte) /\ p = Len(u)
  BY <1>4 DEF Appends
<1>6. Appends(Byte, u, p, f, n, w)
  <2> HIDE DEF p
  <2>1. QED
    BY <1>3, <1>5, Appended
<1>7. /\ \A j \in 1 .. m : j \in 1 .. p
      /\ \A j \in 1 .. L : m + j \in 1 .. p
  BY <1>1
<1>8. \A i \in 1 .. p : w[i] = u[i]
  BY <1>6 DEF Appends
<1>9. \A j \in 1 .. m : w[j] = out[j]
  BY <1>4, <1>7, <1>8 DEF Appends
<1>10. \A j \in 1 .. L : w[m + j] = t[j]
  BY <1>4, <1>7, <1>8 DEF Appends
<1>11. w \in Seq(Byte) /\ Len(w) = p + n /\ \A j \in 1 .. n : w[p + j] = f[j]
  BY <1>6 DEF Appends
<1>12. QED
  BY <1>2, <1>9, <1>10, <1>11 DEF t, Framed

LEMMA StartsBefore ==
  ASSUME NEW buf \in Seq(Byte), NEW out \in Seq(Byte), NEW f \in Seq(Byte), Len(f) \in 1 .. Longest,
         NEW w, w = frame_into(f, out), StartsWith(buf, w)
  PROVE  StartsWith(buf, out) /\ Reaches(buf, Len(out), f, Len(w))
<1> DEFINE L == LengthBytes
           m == Len(out)
           n == Len(f)
           t == to_be_bytes(n)
           d == Len(w)
           p == m + L
<1>1. /\ m \in Nat /\ n \in Nat /\ L \in Nat /\ Len(buf) \in Nat /\ n > 0 /\ n <= Longest
  BY LenProperties, FrameAssumption
<1>2. Framed(out, m, f, n, w)
  <2>1. m = Len(out) /\ n = Len(f)
    OBVIOUS
  <2>2. n <= Longest
    BY <1>1
  <2> HIDE DEF m, n
  <2>3. QED
    BY <2>1, <2>2, FramedBytes
<1> HIDE DEF t, m, n, d
<1>3. d = p + n /\ d <= Len(buf) /\ \A j \in 1 .. d : buf[j] = w[j]
  BY <1>2 DEF StartsWith, d, Framed
<1>4. d \in Nat /\ p \in Nat
  BY <1>1, <1>3
<1>5. /\ \A j \in 1 .. m : j \in 1 .. d
      /\ \A j \in 1 .. L : m + j \in 1 .. d
      /\ \A j \in 1 .. n : p + j \in 1 .. d
      /\ m <= Len(buf) /\ p <= Len(buf)
  BY <1>1, <1>3
<1>6. /\ \A j \in 1 .. m : buf[j] = out[j]
      /\ \A j \in 1 .. L : buf[m + j] = t[j]
      /\ \A j \in 1 .. n : buf[p + j] = f[j]
  BY <1>2, <1>3, <1>5 DEF t, Framed
<1>7. StartsWith(buf, out)
  BY <1>5, <1>6 DEF StartsWith, m
<1>8. SubSeq(buf, m + 1, p) = t
  <2> DEFINE b == m + 1
             z == p
  <2>1. b = m + 1 /\ z = m + Len(t) /\ z <= Len(buf) /\ t \in Seq(Byte)
        /\ \A j \in 1 .. Len(t) : buf[m + j] = t[j]
    BY <1>2, <1>5, <1>6 DEF t, Framed
  <2> HIDE DEF b, z
  <2>2. SubSeq(buf, b, z) = t
    BY <1>1, <2>1, CutIs
  <2>3. QED
    BY <2>2 DEF b, z
<1>9. SubSeq(buf, p + 1, d) = f
  <2> DEFINE a == p
             b == p + 1
  <2>1. a \in Nat /\ b = a + 1 /\ d = a + Len(f) /\ d <= Len(buf)
        /\ \A j \in 1 .. Len(f) : buf[a + j] = f[j]
    BY <1>3, <1>4, <1>6 DEF n
  <2> HIDE DEF a, b
  <2>2. SubSeq(buf, b, d) = f
    BY <2>1, CutIs
  <2>3. QED
    BY <2>2 DEF b
<1>10. Reaches(buf, m, f, d)
  BY <1>1, <1>3, <1>4, <1>8, <1>9 DEF Reaches, n, t
<1>11. QED
  BY <1>7, <1>10 DEF m, d

\* what write_archive makes of frames has them there, one after another, to its end
LEMMA WrittenTrail ==
  ASSUME NEW frames \in Seq(Seq(Byte)), \A i \in 1 .. Len(frames) : Len(frames[i]) \in 1 .. Longest,
         NEW buf, buf = write_archive(frames)
  PROVE  /\ buf \in Seq(Byte) /\ StartsWith(buf, Magic)
         /\ TrailTo(buf, Len(Magic), frames, Len(frames), Len(buf))
<1> DEFINE n == Len(frames)
           X == Seq(Byte)
           h == [p \in X \X (1 .. n) |-> frame_into(frames[p[2]], p[1])]
<1>1. n \in Nat /\ Magic \in X /\ \A i \in 1 .. n : frames[i] \in X /\ Len(frames[i]) <= Longest
  BY CodecAssumption, ElementOfSeq, LenProperties, LongestIsNat DEF Byte
<1>2. /\ h \in [X \X (1 .. n) -> X]
      /\ \A x \in X : \A i \in 1 .. n : h[<<x, i>>] = frame_into(frames[i], x)
  <2>1. \A x \in X : \A i \in 1 .. n : frame_into(frames[i], x) \in X
    <3> SUFFICES ASSUME NEW x \in X, NEW i \in 1 .. n PROVE frame_into(frames[i], x) \in X
      OBVIOUS
    <3> HIDE DEF n
    <3>1. frames[i] \in Seq(Byte) /\ Len(frames[i]) <= Longest
      BY <1>1
    <3>2. QED
      BY <3>1, FramedBytes DEF Framed
  <2> HIDE DEF X, n
  <2>2. QED
    BY <2>1
<1> HIDE DEF h
<1>3. PICK W \in [0 .. n -> X] : Steps(W, Magic, h, n)
  <2> HIDE DEF n, X
  <2>1. QED
    BY <1>1, <1>2, StepsExist, Zenon
<1> HIDE DEF n, X
<1>4. W[0] = Magic /\ \A i \in 1 .. n : /\ i - 1 \in 0 .. n /\ i \in 0 .. n
                                        /\ W[i] = frame_into(frames[i], W[i - 1])
  <2>1. \A i \in 1 .. n : i - 1 \in 0 .. n /\ i \in 0 .. n
    BY <1>1
  <2>2. \A i \in 1 .. n : W[i - 1] \in X
    BY <1>3, <2>1
  <2>3. W[0] = Magic /\ \A i \in 1 .. n : W[i] = h[<<W[i - 1], i>>]
    BY <1>3 DEF Steps
  <2>4. QED
    BY <1>2, <2>1, <2>2, <2>3, Zenon
<1>5. Writes(frames, W)
  <2>1. \A i \in 0 .. n : i = 0 \/ i \in 1 .. n
    BY <1>1
  <2>2. \A i \in 1 .. n : i # 0
    BY <1>1
  <2>3. \A i \in 0 .. n : W[i] = IF i = 0 THEN Magic ELSE frame_into(frames[i], W[i - 1])
    BY <1>4, <2>1, <2>2, Zenon
  <2>4. W = [i \in 0 .. n |-> W[i]]
    BY <1>3
  <2>5. QED
    BY <2>3, <2>4, Zenon DEF Writes, n
<1>6. buf = W[n]
  BY <1>1, <1>5, WritesUnfold DEF n
<1>7. buf \in X /\ n \in 0 .. n /\ 0 \in 0 .. n
  BY <1>1, <1>3, <1>6
<1> DEFINE P == {i \in 0 .. n : StartsWith(buf, W[i])}
<1>8. n \in P
  <2>1. Len(buf) <= Len(buf)
    BY <1>7, LenProperties DEF X
  <2>2. QED
    BY <1>6, <1>7, <2>1 DEF StartsWith, X
<1>9. \A i \in 1 .. n : StartsWith(buf, W[i]) => /\ StartsWith(buf, W[i - 1])
                                                 /\ Reaches(buf, Len(W[i - 1]), frames[i], Len(W[i]))
  <2> SUFFICES ASSUME NEW i \in 1 .. n, StartsWith(buf, W[i])
               PROVE  /\ StartsWith(buf, W[i - 1])
                      /\ Reaches(buf, Len(W[i - 1]), frames[i], Len(W[i]))
    OBVIOUS
  <2> DEFINE out == W[i - 1]
             f == frames[i]
             w == W[i]
  <2>1. out \in Seq(Byte) /\ w = frame_into(f, out) /\ f \in Seq(Byte) /\ Len(f) \in 1 .. Longest
    BY <1>1, <1>3, <1>4 DEF n, X
  <2> HIDE DEF out, f, w
  <2>2. StartsWith(buf, w)
    BY DEF w
  <2>3. StartsWith(buf, out) /\ Reaches(buf, Len(out), f, Len(w))
    BY <1>7, <2>1, <2>2, StartsBefore DEF X
  <2>4. QED
    BY <2>3 DEF out, f, w
<1>10. ASSUME NEW k \in 0 + 1 .. n, k \in P PROVE k - 1 \in P
  <2>1. k \in 1 .. n
    OBVIOUS
  <2>2. QED
    BY <1>4, <1>9, <1>10, <2>1
<1> HIDE DEF P
<1>11. 0 .. n \subseteq P
  <2>1. n \in Int /\ 0 \in Int
    BY <1>1
  <2>2. QED
    BY <1>8, <1>10, <2>1, IntervalDown
<1>12. \A i \in 0 .. n : StartsWith(buf, W[i])
  BY <1>11 DEF P
<1> DEFINE C == [i \in 0 .. n |-> Len(W[i])]
<1>13. C \in [0 .. n -> 0 .. Len(buf)] /\ C[0] = Len(Magic) /\ C[n] = Len(buf)
  <2>1. \A i \in 0 .. n : Len(W[i]) \in 0 .. Len(buf)
    <3> SUFFICES ASSUME NEW i \in 0 .. n PROVE Len(W[i]) \in 0 .. Len(buf)
      OBVIOUS
    <3>1. W[i] \in Seq(Byte) /\ Len(W[i]) <= Len(buf) /\ buf \in Seq(Byte)
      BY <1>7, <1>12 DEF StartsWith, X
    <3>2. Len(W[i]) \in Nat /\ Len(buf) \in Nat
      BY <3>1, LenProperties
    <3>3. QED
      BY <3>1, <3>2
  <2>2. QED
    BY <1>4, <1>6, <1>7, <2>1
<1>14. \A i \in 1 .. n : C[i - 1] = Len(W[i - 1]) /\ C[i] = Len(W[i])
  BY <1>4
<1> HIDE DEF C
<1>15. \A i \in 1 .. n : Reaches(buf, C[i - 1], frames[i], C[i])
  BY <1>4, <1>9, <1>12, <1>14
<1>16. Trail(buf, frames, C)
  BY <1>13, <1>15 DEF Trail, n
<1>17. QED
  BY <1>4, <1>7, <1>12, <1>13, <1>16 DEF TrailTo, n, X

-----------------------------------------------------------------------------
(***************************************************************************)
(* The first two frames of an archive, and the rest.                       *)
(***************************************************************************)

LEMMA TrailsJoin ==
  ASSUME NEW buf \in Seq(Byte), NEW c, NEW f, NEW m \in Nat, NEW d, TrailTo(buf, c, f, m, d),
         NEW g, NEW n \in Nat, NEW e, TrailTo(buf, d, g, n, e)
  PROVE  TrailTo(buf, c, f \o g, m + n, e)
<1>1. PICK C : Trail(buf, f, C) /\ Len(f) = m /\ C[0] = c /\ C[m] = d
  BY DEF TrailTo
<1>2. PICK D : Trail(buf, g, D) /\ Len(g) = n /\ D[0] = d /\ D[n] = e
  BY DEF TrailTo
<1>3. f \in Seq(Seq(Byte)) /\ C \in [0 .. m -> 0 .. Len(buf)]
  BY <1>1 DEF Trail
<1>4. g \in Seq(Seq(Byte)) /\ D \in [0 .. n -> 0 .. Len(buf)]
  BY <1>2 DEF Trail
<1> DEFINE k == m + n
           u == f \o g
           E == [i \in 0 .. k |-> IF i <= m THEN C[i] ELSE D[i - m]]
<1>5. Appends(Seq(Byte), f, m, g, n, u)
  <2> HIDE DEF u
  <2>1. m = Len(f) /\ n = Len(g) /\ u = f \o g
    BY <1>1, <1>2 DEF u
  <2>2. QED
    BY <1>3, <1>4, <2>1, Appended
<1>6. u \in Seq(Seq(Byte)) /\ Len(u) = k
  BY <1>5 DEF Appends
<1>7. \A i \in 0 .. m : i \in 0 .. k /\ E[i] = C[i]
  OBVIOUS
<1>8. \A i \in 0 .. n : m + i \in 0 .. k /\ E[m + i] = D[i]
  <2> SUFFICES ASSUME NEW i \in 0 .. n PROVE m + i \in 0 .. k /\ E[m + i] = D[i]
    OBVIOUS
  <2>1. m + i \in 0 .. k /\ (m + i) - m = i
    OBVIOUS
  <2>2. CASE i = 0
    <3>1. m + i = m /\ m \in 0 .. m
      BY <2>2
    <3>2. E[m] = C[m]
      BY <1>7, <3>1
    <3>3. QED
      BY <1>1, <1>2, <2>1, <2>2, <3>1, <3>2
  <2>3. CASE i # 0
    <3>1. ~ (m + i <= m)
      BY <2>3
    <3>2. QED
      BY <2>1, <3>1
  <2>4. QED
    BY <2>2, <2>3
<1>9. E \in [0 .. k -> 0 .. Len(buf)]
  <2>1. \A i \in 0 .. k : i \in 0 .. m \/ \E j \in 0 .. n : i = m + j
    <3> SUFFICES ASSUME NEW i \in 0 .. k, i \notin 0 .. m PROVE \E j \in 0 .. n : i = m + j
      OBVIOUS
    <3>1. i - m \in 0 .. n /\ i = m + (i - m)
      OBVIOUS
    <3>2. QED
      BY <3>1
  <2>2. E = [i \in 0 .. k |-> E[i]]
    OBVIOUS
  <2> HIDE DEF E, k
  <2>3. \A i \in 0 .. k : E[i] \in 0 .. Len(buf)
    BY <1>3, <1>4, <1>7, <1>8, <2>1
  <2>4. QED
    BY <2>2, <2>3
<1> HIDE DEF E, u
<1>10. ASSUME NEW i \in 1 .. k PROVE Reaches(buf, E[i - 1], u[i], E[i])
  <2>1. CASE i <= m
    <3>1. i \in 1 .. m /\ i - 1 \in 0 .. m /\ i \in 0 .. m
      BY <2>1
    <3>2. E[i - 1] = C[i - 1] /\ E[i] = C[i] /\ u[i] = f[i]
      BY <1>5, <1>7, <3>1 DEF Appends
    <3>3. Reaches(buf, C[i - 1], f[i], C[i])
      BY <1>1, <3>1 DEF Trail
    <3>4. QED
      BY <3>2, <3>3
  <2>2. CASE ~ (i <= m)
    <3>1. PICK j \in 1 .. n : i = m + j
      <4>1. i - m \in 1 .. n /\ i = m + (i - m)
        BY <2>2
      <4>2. QED
        BY <4>1
    <3>2. j - 1 \in 0 .. n /\ j \in 0 .. n /\ i - 1 = m + (j - 1)
      BY <3>1
    <3>3. E[i - 1] = D[j - 1] /\ E[i] = D[j] /\ u[i] = g[j]
      BY <1>5, <1>8, <3>1, <3>2 DEF Appends
    <3>4. Reaches(buf, D[j - 1], g[j], D[j])
      BY <1>2 DEF Trail
    <3>5. QED
      BY <3>3, <3>4
  <2>3. QED
    BY <2>1, <2>2
<1>11. Trail(buf, u, E)
  BY <1>6, <1>9, <1>10 DEF Trail
<1>12. E[0] = c /\ E[k] = e
  <2>1. 0 \in 0 .. m /\ n \in 0 .. n
    OBVIOUS
  <2>2. QED
    BY <1>1, <1>2, <1>7, <1>8, <2>1
<1>13. TrailTo(buf, c, u, k, e)
  BY <1>6, <1>11, <1>12 DEF TrailTo
<1>14. QED
  BY <1>13 DEF u

Parts(buf, frames, C, m, n, k, b) ==
  /\ Trail(buf, SubSeq(frames, 1, m), [i \in 0 .. m |-> C[i]])
  /\ Trail(buf, SubSeq(frames, b, k), [i \in 0 .. n |-> C[m + i]])
  /\ Len(SubSeq(frames, 1, m)) = m /\ Len(SubSeq(frames, b, k)) = n
  /\ \A i \in 1 .. m : SubSeq(frames, 1, m)[i] = frames[i]
  /\ \A i \in 1 .. n : SubSeq(frames, b, k)[i] = frames[m + i]
  /\ SubSeq(frames, 1, m) \o SubSeq(frames, b, k) = frames

LEMMA TrailParts ==
  ASSUME NEW buf \in Seq(Byte), NEW frames, NEW C, Trail(buf, frames, C),
         NEW m \in Nat, NEW n \in Nat, NEW k, k = m + n, Len(frames) = k, NEW b, b = m + 1
  PROVE  Parts(buf, frames, C, m, n, k, b)
<1> DEFINE f == SubSeq(frames, 1, m)
           g == SubSeq(frames, b, k)
           D == [i \in 0 .. m |-> C[i]]
           E == [i \in 0 .. n |-> C[m + i]]
<1>1. frames \in Seq(Seq(Byte)) /\ C \in [0 .. k -> 0 .. Len(buf)] /\ k \in Nat
  BY DEF Trail
<1>2. \A i \in 1 .. k : frames[i] \in Seq(Byte) /\ Reaches(buf, C[i - 1], frames[i], C[i])
  BY <1>1, ElementOfSeq DEF Trail
<1>3. f \in Seq(Seq(Byte)) /\ Len(f) = m /\ \A i \in 1 .. m : f[i] = frames[i]
  <2>1. \A i \in 1 .. m : i \in 1 .. k
    BY <1>1
  <2>2. \A i \in 1 .. m : frames[i] \in Seq(Byte)
    BY <1>2, <2>1
  <2>3. /\ f \in Seq(Seq(Byte)) /\ Len(f) = IF 1 <= m THEN m - 1 + 1 ELSE 0
        /\ \A i \in 1 .. m - 1 + 1 : f[i] = frames[1 + i - 1]
    BY <2>2, m \in Int, 1 \in Int, SubSeqProperties
  <2>4. (IF 1 <= m THEN m - 1 + 1 ELSE 0) = m /\ m - 1 + 1 = m /\ \A i \in 1 .. m : 1 + i - 1 = i
    OBVIOUS
  <2>5. QED
    BY <2>3, <2>4
<1>4. g \in Seq(Seq(Byte)) /\ Len(g) = n /\ \A i \in 1 .. n : g[i] = frames[m + i]
  <2>1. \A i \in b .. k : i \in 1 .. k
    BY <1>1
  <2>2. \A i \in b .. k : frames[i] \in Seq(Byte)
    BY <1>2, <2>1
  <2>3. /\ g \in Seq(Seq(Byte)) /\ Len(g) = IF b <= k THEN k - b + 1 ELSE 0
        /\ \A i \in 1 .. k - b + 1 : g[i] = frames[b + i - 1]
    BY <1>1, <2>2, b \in Int, k \in Int, SubSeqProperties
  <2>4. (IF b <= k THEN k - b + 1 ELSE 0) = n /\ k - b + 1 = n /\ \A i \in 1 .. n : b + i - 1 = m + i
    OBVIOUS
  <2>5. QED
    BY <2>3, <2>4
<1>5. f \o g = frames
  <2>1. 1 \in 1 .. Len(frames) + 1 /\ m \in 1 - 1 .. Len(frames) /\ k \in m .. Len(frames)
    BY <1>1
  <2>2. f \o SubSeq(frames, m + 1, k) = SubSeq(frames, 1, k)
    BY <1>1, <2>1, ConcatAdjacentSubSeq
  <2>3. SubSeq(frames, 1, k) = frames
    BY <1>1, SubSeqFull
  <2>4. QED
    BY <2>2, <2>3
<1> HIDE DEF f, g
<1>6. Trail(buf, f, D)
  <2>1. \A i \in 0 .. m : i \in 0 .. k /\ D[i] = C[i]
    BY <1>1
  <2>2. \A i \in 0 .. m : C[i] \in 0 .. Len(buf)
    BY <1>1, <2>1
  <2>3. D \in [0 .. m -> 0 .. Len(buf)]
    BY <2>2
  <2>4. \A i \in 1 .. m : i - 1 \in 0 .. m /\ i \in 0 .. m /\ i \in 1 .. k
    BY <1>1
  <2> HIDE DEF D
  <2>5. \A i \in 1 .. m : Reaches(buf, D[i - 1], f[i], D[i])
    BY <1>2, <1>3, <2>1, <2>4
  <2>6. QED
    BY <1>3, <2>3, <2>5 DEF Trail
<1>7. Trail(buf, g, E)
  <2>1. \A i \in 0 .. n : m + i \in 0 .. k /\ E[i] = C[m + i]
    BY <1>1
  <2>2. \A i \in 0 .. n : C[m + i] \in 0 .. Len(buf)
    BY <1>1, <2>1
  <2>3. E \in [0 .. n -> 0 .. Len(buf)]
    BY <2>2
  <2>4. \A i \in 1 .. n : i - 1 \in 0 .. n /\ i \in 0 .. n /\ m + i \in 1 .. k /\ (m + i) - 1 = m + (i - 1)
    BY <1>1
  <2> HIDE DEF E
  <2>5. \A i \in 1 .. n : Reaches(buf, E[i - 1], g[i], E[i])
    <3> SUFFICES ASSUME NEW i \in 1 .. n PROVE Reaches(buf, E[i - 1], g[i], E[i])
      OBVIOUS
    <3>1. Reaches(buf, C[(m + i) - 1], frames[m + i], C[m + i])
      BY <1>2, <2>4
    <3>2. E[i - 1] = C[(m + i) - 1] /\ E[i] = C[m + i] /\ g[i] = frames[m + i]
      BY <1>4, <2>1, <2>4
    <3>3. QED
      BY <3>1, <3>2
  <2>6. QED
    BY <1>4, <2>3, <2>5 DEF Trail
<1>8. QED
  BY <1>3, <1>4, <1>5, <1>6, <1>7 DEF f, g, Parts

\* the ceilings of what follows the first two frames
LEMMA CeilingsAre ==
  ASSUME NEW h, h[1] \in Nat, h[2] \in Nat
  PROVE  /\ Ceilings(h) \in Seq({AnchorBytes, RowBytes})
         /\ Ceilings(h) \in Seq(Nat) /\ Len(Ceilings(h)) \in Nat
<1> DEFINE S == {AnchorBytes, RowBytes}
           x == [i \in 1 .. h[1] |-> AnchorBytes]
           y == [i \in 1 .. h[2] |-> RowBytes]
           z == <<AnchorBytes>>
<1>1. x \in Seq(S) /\ y \in Seq(S) /\ z \in Seq(S)
  OBVIOUS
<1>2. Ceilings(h) = x \o y \o z
  BY DEF Ceilings
<1> HIDE DEF x, y, z, S
<1>3. Ceilings(h) \in Seq(S)
  BY <1>1, <1>2, ConcatProperties
<1>4. S \subseteq Nat
  <2>1. Longest \in Nat /\ AnchorBytes \in 1 .. Longest /\ RowBytes \in 1 .. Longest
    BY FrameAssumption, LongestIsNat DEF Longest
  <2>2. QED
    BY <2>1 DEF S
<1>5. Ceilings(h) \in Seq(Nat)
  BY <1>3, <1>4, SeqMonotonic
<1>6. QED
  BY <1>3, <1>5, LenProperties DEF S

\* what read_archive accepts is what write_archive makes of the frames it read
LEMMA AcceptedIsWritten ==
  ASSUME NEW buf \in Seq(Byte), read_archive(buf).read
  PROVE  write_archive(read_archive(buf).frames) = buf
<1> DEFINE two == read_frames(buf, Len(Magic), <<Len(buf), AnchorBytes>>)
           h == two.frames[1]
           rest == read_frames(buf, two.cursor, Ceilings(h))
           whole == /\ IsPrefix(Magic, buf)
                    /\ two.cursor <= Len(buf) /\ decode_archive_header(h)
                    /\ at_end(rest.cursor, buf)
           frames == two.frames \o rest.frames
<1>1. read_archive(buf) = IF whole THEN [read |-> TRUE, frames |-> frames] ELSE Unreadable
  BY Zenon DEF read_archive
<1>2. whole /\ read_archive(buf).frames = frames
  <2> HIDE DEF whole, frames
  <2>1. ~ whole => read_archive(buf) = Unreadable
    BY <1>1
  <2>2. ~ Unreadable.read
    BY DEF Unreadable
  <2>3. whole
    BY <2>1, <2>2, Zenon
  <2>4. QED
    BY <1>1, <2>3
<1>3. /\ Len(buf) \in Nat /\ Magic \in Seq(Byte) /\ Len(Magic) \in Nat /\ AnchorBytes \in Nat
      /\ <<Len(buf), AnchorBytes>> \in Seq(Nat) /\ Len(<<Len(buf), AnchorBytes>>) = 2
  <2>1. Longest \in Nat /\ AnchorBytes \in 1 .. Longest
    BY FrameAssumption, LongestIsNat DEF Longest
  <2>2. AnchorBytes \in Nat /\ Len(buf) \in Nat /\ Magic \in Seq(Byte)
    BY <2>1, CodecAssumption, LenProperties DEF Byte
  <2> DEFINE x == Len(buf)
             a == AnchorBytes
  <2>3. x \in Nat /\ a \in Nat
    BY <2>2
  <2> HIDE DEF x, a
  <2>4. <<x, a>> \in Seq(Nat) /\ Len(<<x, a>>) = 2
    BY <2>3
  <2>5. QED
    BY <2>2, <2>4, LenProperties DEF x, a
<1>4. Len(Magic) <= Len(buf) /\ SubSeq(buf, 1, Len(Magic)) = Magic
  BY <1>2, <1>3, SubSeqFull DEF IsPrefix
<1>5. Len(Magic) \in 0 .. Len(buf) + 1
  BY <1>3, <1>4
<1>6. two \in ReadState(buf) /\ TrailTo(buf, Len(Magic), two.frames, 2, two.cursor)
  BY <1>2, <1>3, <1>5, FramesAreThere
<1> HIDE DEF two
<1>7. two.cursor \in 0 .. Len(buf) + 1 /\ two.frames \in Seq(Seq(Byte)) /\ Len(two.frames) = 2
  BY <1>6 DEF ReadState, TrailTo
<1>8. h[1] \in Nat /\ h[2] \in Nat
  <2>1. h \in Seq(Byte)
    <3>1. 1 \in 1 .. 2
      OBVIOUS
    <3>2. QED
      BY <1>7, <3>1, ElementOfSeq
  <2>2. Len(h) = 2
    BY <1>2 DEF decode_archive_header
  <2> HIDE DEF h
  <2>3. h[1] \in Byte /\ h[2] \in Byte
    <3>1. 1 \in 1 .. 2 /\ 2 \in 1 .. 2
      OBVIOUS
    <3>2. QED
      BY <2>1, <2>2, <3>1, ElementOfSeq
  <2>4. QED
    BY <2>3, FrameAssumption DEF Byte
<1> HIDE DEF h
<1>9. Ceilings(h) \in Seq(Nat) /\ Len(Ceilings(h)) \in Nat
  BY <1>8, CeilingsAre
<1>10. rest.cursor = Len(buf) /\ rest.cursor <= Len(buf)
  BY <1>2, <1>3 DEF at_end
<1>11. TrailTo(buf, two.cursor, rest.frames, Len(Ceilings(h)), rest.cursor)
  BY <1>7, <1>9, <1>10, FramesAreThere
<1> HIDE DEF rest
<1>12. TrailTo(buf, Len(Magic), frames, 2 + Len(Ceilings(h)), Len(buf))
  <2> DEFINE n == Len(Ceilings(h))
             d == two.cursor
             e == rest.cursor
             f == two.frames
             g == rest.frames
  <2>1. 2 \in Nat /\ n \in Nat /\ TrailTo(buf, Len(Magic), f, 2, d) /\ TrailTo(buf, d, g, n, e)
    BY <1>6, <1>9, <1>11
  <2>2. e = Len(buf) /\ frames = f \o g
    BY <1>10
  <2> HIDE DEF n, d, e, f, g, frames
  <2>3. TrailTo(buf, Len(Magic), f \o g, 2 + n, e)
    BY <2>1, TrailsJoin
  <2>4. QED
    BY <2>2, <2>3 DEF n
<1> HIDE DEF frames
<1>13. PICK C : Trail(buf, frames, C) /\ C[0] = Len(Magic) /\ C[Len(frames)] = Len(buf)
  BY <1>12 DEF TrailTo
<1>14. write_archive(frames) = SubSeq(buf, 1, Len(buf))
  BY <1>4, <1>13, TrailIsWritten
<1>15. SubSeq(buf, 1, Len(buf)) = buf
  BY SubSeqFull
<1>16. QED
  BY <1>2, <1>14, <1>15

\* what write_archive makes of frames that may be encoded is what read_archive reads,
\* as these frames
LEMMA WrittenIsAccepted ==
  ASSUME NEW frames \in Seq(Seq(Byte)), encodable_archive(frames)
  PROVE  read_archive(write_archive(frames)) = [read |-> TRUE, frames |-> frames]
<1> DEFINE h == frames[1]
           first == <<HeaderBytes, AnchorBytes>>
           others == Ceilings(h)
           ceilings == first \o others
           n == Len(others)
           k == Len(frames)
           buf == write_archive(frames)
<1>1. /\ k > 2 /\ decode_archive_header(h) /\ k = Len(ceilings)
      /\ \A i \in DOMAIN frames : Len(frames[i]) \in 1 .. ceilings[i]
  BY Zenon DEF encodable_archive
<1>2. /\ Longest \in Nat /\ HeaderBytes \in 1 .. Longest /\ AnchorBytes \in 1 .. Longest
      /\ RowBytes \in 1 .. Longest
  BY FrameAssumption, LongestIsNat DEF Longest
<1>3. k \in Nat /\ DOMAIN frames = 1 .. k
  BY LenProperties
<1>4. h \in Seq(Byte) /\ Len(h) = 2 /\ h[1] \in Nat /\ h[2] \in Nat
  <2>1. h \in Seq(Byte)
    <3>1. 1 \in 1 .. k
      BY <1>1, <1>3
    <3>2. QED
      BY <3>1, ElementOfSeq
  <2>2. Len(h) = 2
    BY <1>1 DEF decode_archive_header
  <2> HIDE DEF h
  <2>3. h[1] \in Byte /\ h[2] \in Byte
    <3>1. 1 \in 1 .. 2 /\ 2 \in 1 .. 2
      OBVIOUS
    <3>2. QED
      BY <2>1, <2>2, <3>1, ElementOfSeq
  <2>4. QED
    BY <2>1, <2>2, <2>3, FrameAssumption DEF Byte
<1>5. others \in Seq({AnchorBytes, RowBytes}) /\ others \in Seq(Nat) /\ n \in Nat
  BY <1>4, CeilingsAre
<1>6. /\ first \in Seq(Nat) /\ Len(first) = 2 /\ first[1] = HeaderBytes /\ first[2] = AnchorBytes
  <2>1. HeaderBytes \in Nat /\ AnchorBytes \in Nat
    BY <1>2
  <2>2. QED
    BY <2>1
<1> HIDE DEF h, first, others
<1>7. Appends(Nat, first, 2, others, n, ceilings)
  <2> HIDE DEF ceilings, n
  <2>1. 2 = Len(first) /\ n = Len(others) /\ ceilings = first \o others
    BY <1>6 DEF ceilings, n
  <2>2. QED
    BY <1>5, <1>6, <2>1, Appended
<1>8. k = 2 + n /\ k = n + 2
  BY <1>1, <1>5, <1>7 DEF Appends
<1>9. /\ \A i \in 1 .. 2 : ceilings[i] = first[i]
      /\ \A i \in 1 .. n : ceilings[2 + i] = others[i]
  BY <1>7 DEF Appends
<1> HIDE DEF ceilings, n, k
<1>10. \A i \in 1 .. k : ceilings[i] \in 1 .. Longest
  <2> SUFFICES ASSUME NEW i \in 1 .. k PROVE ceilings[i] \in 1 .. Longest
    OBVIOUS
  <2>1. CASE i \in 1 .. 2
    <3>1. i = 1 \/ i = 2
      BY <2>1
    <3>2. QED
      BY <1>2, <1>6, <1>9, <2>1, <3>1
  <2>2. CASE i \notin 1 .. 2
    <3>1. PICK j \in 1 .. n : i = 2 + j
      <4>1. i - 2 \in 1 .. n /\ i = 2 + (i - 2)
        BY <1>5, <1>8, <2>2
      <4>2. QED
        BY <4>1
    <3>2. others[j] \in {AnchorBytes, RowBytes}
      BY <1>5, ElementOfSeq DEF n
    <3>3. QED
      BY <1>2, <1>9, <3>1, <3>2
  <2>3. QED
    BY <2>1, <2>2
<1>11. \A i \in 1 .. k : /\ Len(frames[i]) \in 1 .. Longest /\ Len(frames[i]) <= Longest
                         /\ Len(frames[i]) <= ceilings[i]
  <2> SUFFICES ASSUME NEW i \in 1 .. k
               PROVE  /\ Len(frames[i]) \in 1 .. Longest /\ Len(frames[i]) <= Longest
                      /\ Len(frames[i]) <= ceilings[i]
    OBVIOUS
  <2> DEFINE l == Len(frames[i])
             c == ceilings[i]
  <2>1. l \in 1 .. c /\ c \in 1 .. Longest
    BY <1>1, <1>3, <1>10 DEF k
  <2> HIDE DEF l, c
  <2>2. l \in 1 .. Longest /\ l <= Longest /\ l <= c
    BY <1>2, <2>1
  <2>3. QED
    BY <2>2 DEF l, c
<1>12. /\ buf \in Seq(Byte) /\ StartsWith(buf, Magic)
       /\ TrailTo(buf, Len(Magic), frames, k, Len(buf))
  <2>1. buf = write_archive(frames)
    OBVIOUS
  <2> HIDE DEF buf
  <2>2. QED
    BY <1>11, <2>1, WrittenTrail DEF k
<1> HIDE DEF buf
<1>13. PICK C : Trail(buf, frames, C) /\ Len(frames) = k /\ C[0] = Len(Magic) /\ C[k] = Len(buf)
  BY <1>12 DEF TrailTo
<1> DEFINE f == SubSeq(frames, 1, 2)
           g == SubSeq(frames, 3, k)
           D == [i \in 0 .. 2 |-> C[i]]
           E == [i \in 0 .. n |-> C[2 + i]]
           d == C[2]
<1>14. /\ Trail(buf, f, D) /\ Trail(buf, g, E)
       /\ Len(f) = 2 /\ Len(g) = n
       /\ \A i \in 1 .. 2 : f[i] = frames[i]
       /\ \A i \in 1 .. n : g[i] = frames[2 + i]
       /\ f \o g = frames
  <2>1. 3 = 2 + 1 /\ 2 \in Nat /\ n \in Nat /\ k = 2 + n
    BY <1>5, <1>8 DEF n
  <2>2. Parts(buf, frames, C, 2, n, k, 3)
    BY <1>12, <1>13, <2>1, TrailParts
  <2>3. QED
    BY <2>2 DEF Parts
<1>15. D[0] = Len(Magic) /\ D[2] = d /\ E[0] = d /\ E[n] = Len(buf)
  <2>1. 0 \in 0 .. 2 /\ 2 \in 0 .. 2 /\ 0 \in 0 .. n /\ n \in 0 .. n /\ 2 + 0 = 2
    BY <1>5 DEF n
  <2>2. QED
    BY <1>8, <1>13, <2>1
<1> HIDE DEF f, g, D, E, d
<1> DEFINE two == read_frames(buf, Len(Magic), <<Len(buf), AnchorBytes>>)
           rest == read_frames(buf, two.cursor, Ceilings(two.frames[1]))
<1>16. two = [frames |-> f, cursor |-> d]
  <2> DEFINE cs == <<Len(buf), AnchorBytes>>
  <2>1. Len(buf) \in Nat /\ AnchorBytes \in Nat
    BY <1>2, <1>12, LenProperties
  <2>2. cs \in Seq(Nat) /\ Len(cs) = 2 /\ cs[1] = Len(buf) /\ cs[2] = AnchorBytes
    <3> DEFINE x == Len(buf)
               a == AnchorBytes
    <3>1. x \in Nat /\ a \in Nat
      BY <2>1
    <3> HIDE DEF x, a
    <3>2. <<x, a>> \in Seq(Nat) /\ Len(<<x, a>>) = 2 /\ <<x, a>>[1] = x /\ <<x, a>>[2] = a
      BY <3>1
    <3>3. QED
      BY <3>2 DEF x, a
  <2>3. \A i \in 1 .. 2 : Len(f[i]) <= cs[i] /\ Len(f[i]) <= Longest
    <3>1. 1 \in 1 .. k /\ 2 \in 1 .. k /\ 1 \in 1 .. 2 /\ 2 \in 1 .. 2
      BY <1>5, <1>8, <1>1 DEF n, k
    <3>2. Len(f[1]) <= Longest /\ Len(f[2]) <= Longest /\ Len(f[2]) <= AnchorBytes
      BY <1>6, <1>9, <1>11, <1>14, <3>1
    <3>3. Len(f[1]) <= Len(buf)
      <4>1. Reaches(buf, D[0], f[1], D[1])
        <5>1. Reaches(buf, D[1 - 1], f[1], D[1])
          BY <1>14, <3>1 DEF Trail
        <5>2. QED
          BY <5>1
      <4>2. D[0] \in Nat /\ D[1] = D[0] + LengthBytes + Len(f[1]) /\ D[1] <= Len(buf)
            /\ Len(f[1]) \in Nat /\ LengthBytes \in Nat
        BY <4>1, LenProperties, FrameAssumption DEF Reaches
      <4>3. QED
        BY <2>1, <4>2
    <3>4. \A i \in 1 .. 2 : i = 1 \/ i = 2
      OBVIOUS
    <3> HIDE DEF cs
    <3>5. QED
      BY <2>2, <3>2, <3>3, <3>4
  <2> HIDE DEF cs
  <2>4. read_frames(buf, D[0], cs) = [frames |-> f, cursor |-> D[Len(f)]]
    <3>1. /\ buf \in Seq(Byte) /\ Trail(buf, f, D) /\ cs \in Seq(Nat) /\ Len(cs) = Len(f)
          /\ \A i \in 1 .. Len(f) : Len(f[i]) <= cs[i] /\ Len(f[i]) <= Longest
      BY <1>12, <1>14, <2>2, <2>3
    <3>2. QED
      BY <3>1, FramesAreRead
  <2>5. QED
    BY <1>14, <1>15, <2>4 DEF cs
<1>17. two.frames = f /\ two.cursor = d
  BY <1>16
<1>18. two.frames[1] = h /\ Ceilings(two.frames[1]) = others
  <2>1. 1 \in 1 .. 2
    OBVIOUS
  <2> HIDE DEF two
  <2>2. two.frames[1] = h
    BY <1>14, <1>17, <2>1 DEF h
  <2>3. QED
    BY <2>2 DEF others
<1> HIDE DEF two
<1>19. rest = [frames |-> g, cursor |-> Len(buf)]
  <2>1. \A i \in 1 .. n : Len(g[i]) <= others[i] /\ Len(g[i]) <= Longest
    <3> SUFFICES ASSUME NEW i \in 1 .. n PROVE Len(g[i]) <= others[i] /\ Len(g[i]) <= Longest
      OBVIOUS
    <3>1. 2 + i \in 1 .. k
      BY <1>5, <1>8 DEF n
    <3>2. g[i] = frames[2 + i] /\ others[i] = ceilings[2 + i]
      BY <1>9, <1>14
    <3>3. QED
      BY <1>11, <3>1, <3>2
  <2>2. others \in Seq(Nat) /\ Len(others) = Len(g)
    BY <1>5, <1>14 DEF n
  <2>3. read_frames(buf, E[0], others) = [frames |-> g, cursor |-> E[Len(g)]]
    <3>1. /\ buf \in Seq(Byte) /\ Trail(buf, g, E) /\ Len(g) = n
          /\ \A i \in 1 .. Len(g) : Len(g[i]) <= others[i] /\ Len(g[i]) <= Longest
      BY <1>12, <1>14, <2>1, Zenon
    <3>2. QED
      BY <2>2, <3>1, FramesAreRead
  <2>4. QED
    BY <1>14, <1>15, <1>17, <1>18, <2>3, SMTT(30)
<1>20. rest.frames = g /\ rest.cursor = Len(buf)
  BY <1>19
<1> HIDE DEF rest
<1>21. IsPrefix(Magic, buf)
  <2> DEFINE l == Len(Magic)
  <2>1. Magic \in Seq(Byte) /\ l <= Len(buf) /\ \A j \in 1 .. l : buf[j] = Magic[j]
    BY <1>12 DEF StartsWith
  <2>2. l \in Nat /\ l = 0 + l /\ 1 = 0 + 1 /\ 0 \in Nat /\ \A j \in 1 .. l : 0 + j = j
    BY <2>1, LenProperties
  <2>3. \A j \in 1 .. Len(Magic) : buf[0 + j] = Magic[j]
    BY <2>1, <2>2
  <2>4. SubSeq(buf, 1, l) = Magic
    BY <1>12, <2>1, <2>2, <2>3, CutIs
  <2>5. SubSeq(Magic, 1, l) = Magic
    BY <2>1, SubSeqFull
  <2>6. QED
    BY <2>1, <2>4, <2>5 DEF IsPrefix
<1>22. two.cursor <= Len(buf)
  <2>1. d \in 0 .. Len(buf)
    <3>1. C \in [0 .. k -> 0 .. Len(buf)] /\ 2 \in 0 .. k
      BY <1>5, <1>8, <1>13 DEF Trail, n
    <3>2. QED
      BY <3>1 DEF d
  <2>2. Len(buf) \in Nat
    BY <1>12, LenProperties
  <2>3. QED
    BY <1>17, <2>1, <2>2
<1> DEFINE whole == /\ IsPrefix(Magic, buf)
                    /\ two.cursor <= Len(buf) /\ decode_archive_header(two.frames[1])
                    /\ at_end(rest.cursor, buf)
<1>23. read_archive(buf) = IF whole THEN [read |-> TRUE, frames |-> two.frames \o rest.frames]
                           ELSE Unreadable
  BY Zenon DEF read_archive, two, rest
<1>24. whole
  BY <1>1, <1>18, <1>20, <1>21, <1>22 DEF at_end
<1>25. two.frames \o rest.frames = frames
  BY <1>14, <1>17, <1>20
<1> HIDE DEF whole
<1>26. QED
  BY <1>23, <1>24, <1>25 DEF buf

\* verify_anchored_export and encode_anchored_export: an archive has one reading,
\* whatever its frames; what is accepted is, to the last byte, what is written for the
\* frames that were read, and what may be written is read as what it was written for.
THEOREM ReadingsAreOne == CodecsSpec => []OneReading
<1>1. Answered(task, answer) => OneReading
  <2>1. ASSUME Answered(task, answer), task.of = "read_archive", answer.read
        PROVE  write_archive(answer.frames) = task.bytes
    <3>1. task.bytes \in ArchiveBytes /\ answer = read_archive(task.bytes)
      BY <2>1 DEF Answered, SignatureAnswered, TextAnswered
    <3>2. task.bytes \in Seq(Byte)
      BY <3>1, CodecAssumption DEF Byte
    <3>3. QED
      BY <2>1, <3>1, <3>2, AcceptedIsWritten
  <2>2. ASSUME Answered(task, answer), task.of = "write_archive"
        PROVE  read_archive(answer.bytes) = [read |-> TRUE, frames |-> task.frames]
    <3>1. /\ task.frames \in Archive /\ encodable_archive(task.frames)
          /\ answer.bytes = write_archive(task.frames)
      BY <2>2 DEF Answered, SignatureAnswered, TextAnswered
    <3>2. task.frames \in Seq(Seq(Byte))
      BY <3>1, CodecAssumption DEF Byte
    <3>3. QED
      BY <3>1, <3>2, WrittenIsAccepted
  <2>3. QED
    BY <2>1, <2>2 DEF OneReading
<1>2. QED
  BY <1>1, AnswersAreReturned, PTL

-----------------------------------------------------------------------------
(****************************************************************************)
(* Numerals: what a sequence of them stands for.                             *)
(****************************************************************************)

DigitSeq == Seq(0 .. Base - 1)

LEMMA BaseIsNat == Base \in Nat /\ Base > 1 /\ DigitSeq \subseteq Seq(Nat)
<1>1. Base \in Nat /\ Base > 1
  BY BaseAssumption
<1>2. 0 .. Base - 1 \subseteq Nat
  BY <1>1
<1>3. QED
  BY <1>1, <1>2 DEF DigitSeq

LEMMA FunctionIsSequence ==
  ASSUME NEW S, NEW n \in Nat, NEW s \in [1 .. n -> S]
  PROVE  s \in Seq(S) /\ Len(s) = n
OBVIOUS

LEMMA SequenceIsFunction ==
  ASSUME NEW S, NEW s \in Seq(S)
  PROVE  Len(s) \in Nat /\ \A j \in 1 .. Len(s) : s[j] \in S
OBVIOUS

LEMMA SequenceOfDigits ==
  ASSUME NEW n \in Nat, NEW s \in Numerals(Base, n)
  PROVE  s \in DigitSeq /\ Len(s) = n
BY FunctionIsSequence, Zenon DEF DigitSeq, Numerals

LEMMA DigitsOfSequence ==
  ASSUME NEW s \in DigitSeq
  PROVE  Len(s) \in Nat /\ \A j \in 1 .. Len(s) : s[j] \in 0 .. Base - 1
BY SequenceIsFunction, Zenon DEF DigitSeq

LEMMA DigitsArePlaces ==
  ASSUME NEW s \in DigitSeq
  PROVE  /\ s \in Numerals(Base, Len(s))
         /\ \E v : Places(Base, s, Len(s), v) /\ digits_value(s) = v[Len(s)]
<1> DEFINE f == CHOOSE g : Unfolds(Base, s, Len(s), g)
<1>1. digits_value(s) = f[Len(s)]
  BY DEF digits_value, Unfolds
<1>2. Base \in Nat /\ Len(s) \in Nat /\ s \in [1 .. Len(s) -> 0 .. Base - 1]
  BY BaseIsNat DEF DigitSeq
<1>3. s \in [1 .. Len(s) -> Nat]
  BY <1>2
<1>4. Places(Base, s, Len(s), f)
  BY <1>2, <1>3, ValueHasPlaces
<1> HIDE DEF f
<1>5. QED
  BY <1>1, <1>2, <1>4 DEF Numerals

\* what stands before a place does not depend on what follows it
LEMMA PlacesAgree ==
  ASSUME NEW b \in Nat, NEW n \in Nat, NEW m \in Nat, NEW k \in Nat, k <= n, k <= m,
         NEW s, NEW t, SameWithin(s, t, k),
         NEW v, NEW w, Places(b, s, n, v), Places(b, t, m, w)
  PROVE  v[k] = w[k]
<1> DEFINE P == {i \in 0 .. k : v[i] = w[i]}
<1>1. 0 \in P
  BY DEF Places
<1>2. ASSUME NEW i \in 0 .. k - 1, i \in P PROVE i + 1 \in P
  <2>1. PICK j \in 1 .. k : j = i + 1
    OBVIOUS
  <2>2. j \in 1 .. n /\ j \in 1 .. m /\ j - 1 = i /\ s[j] = t[j]
    BY <2>1 DEF SameWithin
  <2>3. v[j] = v[j - 1] * b + s[j] /\ w[j] = w[j - 1] * b + t[j]
    BY <2>2, Zenon DEF Places
  <2>4. v[i] = w[i]
    BY <1>2
  <2>5. QED
    BY <2>1, <2>2, <2>3, <2>4
<1> HIDE DEF P
<1>3. 0 .. k \subseteq P
  BY <1>1, <1>2, k \in Int, 0 \in Int, IntervalUp, Zenon
<1>4. QED
  BY <1>3 DEF P

\* what can be seen of it from any function of the places
LEMMA ValueFromPlaces ==
  ASSUME NEW s \in DigitSeq, NEW w, Places(Base, s, Len(s), w)
  PROVE  digits_value(s) = w[Len(s)] /\ digits_value(s) \in Nat
<1>1. PICK v : Places(Base, s, Len(s), v) /\ digits_value(s) = v[Len(s)]
  BY DigitsArePlaces
<1>2. Len(s) \in Nat /\ SameWithin(s, s, Len(s))
  BY DEF DigitSeq, SameWithin
<1>3. v[Len(s)] = w[Len(s)]
  BY <1>1, <1>2, BaseIsNat, PlacesAgree
<1>4. Len(s) \in 0 .. Len(s)
  BY <1>2
<1>5. w[Len(s)] \in Nat
  BY <1>4 DEF Places
<1>6. QED
  BY <1>1, <1>3, <1>5

LEMMA ValueIsNat ==
  ASSUME NEW s \in DigitSeq
  PROVE  digits_value(s) \in Nat
BY DigitsArePlaces, ValueFromPlaces

LEMMA ValueOfAppend ==
  ASSUME NEW s \in DigitSeq, NEW d \in 0 .. Base - 1
  PROVE  /\ Append(s, d) \in DigitSeq
         /\ digits_value(Append(s, d)) = digits_value(s) * Base + d
<1> DEFINE t == Append(s, d)
           n == Len(s)
           m == n + 1
<1>1. t \in DigitSeq /\ Len(t) = m /\ t[m] = d /\ n \in Nat /\ \A j \in 1 .. n : s[j] = t[j]
  BY DEF DigitSeq
<1> HIDE DEF t
<1>2. PICK v : Places(Base, t, m, v) /\ digits_value(t) = v[m]
  BY <1>1, DigitsArePlaces
<1>3. PICK w : Places(Base, s, n, w) /\ digits_value(s) = w[n]
  BY DigitsArePlaces
<1>4. v[n] = w[n]
  <2>1. n <= m /\ m \in Nat /\ n <= n /\ SameWithin(t, s, n)
    BY <1>1 DEF SameWithin
  <2>2. QED
    BY <1>1, <1>2, <1>3, <2>1, BaseIsNat, PlacesAgree
<1>5. m \in 1 .. m /\ m - 1 = n
  BY <1>1
<1>6. v[m] = v[m - 1] * Base + t[m]
  BY <1>2, <1>5, Zenon DEF Places
<1>7. digits_value(t) = digits_value(s) * Base + d
  BY <1>1, <1>2, <1>3, <1>4, <1>5, <1>6
<1>8. QED
  BY <1>1, <1>7 DEF t

\* leading zeros add nothing
LEMMA ValuePadded ==
  ASSUME NEW s \in DigitSeq, NEW t \in DigitSeq, NEW d \in Nat, Len(t) = d + Len(s),
         \A j \in 1 .. d : t[j] = 0, \A j \in 1 .. Len(s) : t[d + j] = s[j]
  PROVE  digits_value(t) = digits_value(s)
<1> DEFINE n == Len(s)
           m == Len(t)
<1>1. n \in Nat /\ m \in Nat /\ m = d + n /\ t \in [1 .. m -> Nat]
  BY BaseIsNat DEF DigitSeq
<1>2. PICK v : Places(Base, s, n, v) /\ digits_value(s) = v[n]
  BY DigitsArePlaces
<1> DEFINE w == [j \in 0 .. m |-> IF j <= d THEN 0 ELSE v[j - d]]
<1>3. v[0] = 0 /\ \A j \in 0 .. n : v[j] \in Nat
  BY <1>2 DEF Places
<1> HIDE DEF n, m
<1>4. w \in [0 .. m -> Nat]
  BY <1>1, <1>3
<1>5. w[0] = 0
  BY <1>1
<1>6. ASSUME NEW j \in 1 .. m PROVE w[j] = w[j - 1] * Base + t[j]
  <2>1. CASE j <= d
    <3>1. w[j] = 0 /\ w[j - 1] = 0 /\ t[j] = 0
      BY <1>1, <2>1
    <3>2. 0 * Base + 0 = 0
      BY BaseIsNat
    <3>3. QED
      BY <3>1, <3>2
  <2>2. CASE ~ (j <= d)
    <3>1. PICK i \in 1 .. n : i = j - d
      BY <1>1, <2>2
    <3>2. j = d + i /\ t[j] = s[i] /\ w[j] = v[i]
      BY <1>1, <2>2, <3>1 DEF n
    <3>3. w[j - 1] = v[i - 1]
      <4>1. j - 1 = d + (i - 1) /\ j - 1 \in 0 .. m /\ i - 1 \in 0 .. n
        BY <1>1, <3>1, <3>2
      <4>2. CASE i = 1
        BY <1>1, <1>3, <4>1, <4>2
      <4>3. CASE i # 1
        <5>1. ~ (j - 1 <= d) /\ (j - 1) - d = i - 1
          BY <1>1, <3>1, <4>1, <4>3
        <5>2. QED
          BY <4>1, <5>1
      <4>4. QED
        BY <4>2, <4>3
    <3>4. v[i] = v[i - 1] * Base + s[i]
      BY <1>2, <3>1 DEF Places
    <3>5. QED
      BY <3>2, <3>3, <3>4
  <2>3. QED
    BY <2>1, <2>2
<1>7. Places(Base, t, m, w)
  BY <1>4, <1>5, <1>6 DEF Places
<1>8. w[m] = v[n]
  BY <1>1, <1>3
<1> HIDE DEF w
<1>9. digits_value(t) = w[m]
  BY <1>7, ValueFromPlaces DEF m
<1>10. QED
  BY <1>2, <1>8, <1>9

\* of two numbers without leading zeros, the longer one is greater, and of those
\* that are equally long at_most tells
LEMMA ValueOrderOfDigits ==
  ASSUME NEW s \in DigitSeq, NEW t \in DigitSeq, Len(s) = Len(t)
  PROVE  /\ digits_value(s) <= digits_value(t) <=> at_most(s, t)
         /\ digits_value(s) < digits_value(t) <=> LowerWithin(s, t, Len(t))
<1> DEFINE n == Len(t)
<1>1. n \in Nat /\ s \in Numerals(Base, n) /\ t \in Numerals(Base, n)
  BY DigitsArePlaces DEF DigitSeq
<1>2. PICK v : Places(Base, s, n, v) /\ digits_value(s) = v[n]
  BY DigitsArePlaces
<1>3. PICK w : Places(Base, t, n, w) /\ digits_value(t) = w[n]
  BY DigitsArePlaces
<1>4. /\ v[n] \in Nat /\ w[n] \in Nat
      /\ v[n] = w[n] <=> SameWithin(s, t, n)
      /\ v[n] < w[n] <=> LowerWithin(s, t, n)
  BY <1>1, <1>2, <1>3, BaseIsNat, OrderOfPlaces
<1>5. SameWithin(s, t, n) <=> s = t
  <2>1. s = [i \in 1 .. n |-> s[i]] /\ t = [i \in 1 .. n |-> t[i]]
    BY <1>1 DEF Numerals
  <2>2. QED
    BY <2>1 DEF SameWithin
<1>6. DOMAIN s = 1 .. n
  BY <1>1 DEF Numerals
<1>7. at_most(s, t) <=> s = t \/ LowerWithin(s, t, n)
  BY <1>6, Zenon DEF at_most, LowerWithin
<1>8. QED
  BY <1>2, <1>3, <1>4, <1>5, <1>7

NoLeadingZero(s) == s # << >> /\ s[1] # 0

LEMMA ShorterIsLower ==
  ASSUME NEW s \in DigitSeq, NEW t \in DigitSeq, NoLeadingZero(t), Len(s) < Len(t)
  PROVE  digits_value(s) < digits_value(t)
<1> DEFINE n == Len(s)
           m == Len(t)
           d == m - n
           u == [j \in 1 .. m |-> IF j <= d THEN 0 ELSE s[j - d]]
<1>1. n \in Nat /\ m \in Nat /\ d \in Nat /\ 0 < d /\ m = d + n /\ 1 \in 1 .. m
  BY DEF DigitSeq
<1>2. \A j \in 1 .. n : s[j] \in 0 .. Base - 1
  BY DigitsOfSequence
<1>3. u \in DigitSeq /\ Len(u) = m
  <2> HIDE DEF n, m, d
  <2>1. u \in Numerals(Base, m)
    BY <1>1, <1>2, BaseIsNat DEF Numerals
  <2>2. QED
    BY <1>1, <2>1, SequenceOfDigits
<1>4. /\ \A j \in 1 .. d : u[j] = 0
      /\ \A j \in 1 .. n : u[d + j] = s[j]
  <2> HIDE DEF n, m, d
  <2>1. QED
    BY <1>1
<1> HIDE DEF u
<1>5. digits_value(u) = digits_value(s)
  BY <1>1, <1>3, <1>4, ValuePadded
<1>6. LowerWithin(u, t, m)
  <2>1. u[1] = 0
    BY <1>1, <1>4
  <2>2. t[1] \in 0 .. Base - 1 /\ t[1] # 0
    BY <1>1, DigitsOfSequence DEF NoLeadingZero
  <2>3. u[1] < t[1] /\ \A j \in 1 .. 1 - 1 : u[j] = t[j]
    BY <2>1, <2>2, BaseIsNat
  <2>4. QED
    BY <1>1, <2>3 DEF LowerWithin
<1>7. QED
  BY <1>3, <1>5, <1>6, ValueOrderOfDigits

LEMMA LengthThenOrder ==
  ASSUME NEW s \in DigitSeq, NEW t \in DigitSeq, NoLeadingZero(s), NoLeadingZero(t)
  PROVE  digits_value(s) <= digits_value(t) <=>
           Len(s) < Len(t) \/ (Len(s) = Len(t) /\ at_most(s, t))
<1>1. Len(s) \in Nat /\ Len(t) \in Nat /\ digits_value(s) \in Nat /\ digits_value(t) \in Nat
  BY ValueIsNat DEF DigitSeq
<1>2. Len(s) < Len(t) => digits_value(s) < digits_value(t)
  BY ShorterIsLower
<1>3. Len(t) < Len(s) => digits_value(t) < digits_value(s)
  BY ShorterIsLower
<1>4. Len(s) = Len(t) => (digits_value(s) <= digits_value(t) <=> at_most(s, t))
  BY ValueOrderOfDigits
<1>5. QED
  BY <1>1, <1>2, <1>3, <1>4

-----------------------------------------------------------------------------
(****************************************************************************)
(* Zeros, before a number and behind it.                                   *)
(****************************************************************************)

LEMMA FirstOf ==
  ASSUME NEW n \in Nat, NEW S \in SUBSET (1 .. n), S # {}
  PROVE  \E i \in S : \A j \in S : i <= j
<1> DEFINE P == {k \in 0 .. n : (\E i \in S : i <= k) => \E i \in S : \A j \in S : i <= j}
<1>1. 0 \in P
  OBVIOUS
<1>2. ASSUME NEW k \in 0 .. n - 1, k \in P PROVE k + 1 \in P
  <2>1. k + 1 \in 0 .. n
    OBVIOUS
  <2>2. CASE \E i \in S : i <= k
    BY <1>2, <2>1, <2>2
  <2>3. CASE ~ \E i \in S : i <= k
    <3>1. \A j \in S : k + 1 <= j
      BY <2>3
    <3>2. ASSUME NEW i \in S, i <= k + 1 PROVE i = k + 1
      BY <3>1, <3>2
    <3>3. QED
      BY <2>1, <3>1, <3>2
  <2>4. QED
    BY <2>2, <2>3
<1> HIDE DEF P
<1>3. 0 .. n \subseteq P
  BY <1>1, <1>2, n \in Int, 0 \in Int, IntervalUp, Zenon
<1>4. n \in P
  BY <1>3
<1>5. \E i \in S : i <= n
  <2>1. PICK i \in S : i \in 1 .. n
    OBVIOUS
  <2>2. QED
    BY <2>1
<1>6. QED
  BY <1>4, <1>5 DEF P

\* strip_leading_zeros keeps the value
LEMMA Stripped ==
  ASSUME NEW s \in DigitSeq
  PROVE  /\ strip_leading_zeros(s) \in DigitSeq
         /\ digits_value(strip_leading_zeros(s)) = digits_value(s)
         /\ strip_leading_zeros(s) = << >> \/ NoLeadingZero(strip_leading_zeros(s))
<1> DEFINE n == Len(s)
           first == {i \in DOMAIN s : s[i] # 0}
<1>1. n \in Nat /\ DOMAIN s = 1 .. n /\ \A j \in 1 .. n : s[j] \in 0 .. Base - 1
  BY DigitsOfSequence DEF DigitSeq
<1>2. CASE first = {}
  <2>1. strip_leading_zeros(s) = << >>
    BY <1>2 DEF strip_leading_zeros
  <2>2. << >> \in DigitSeq /\ Len(<< >>) = 0 /\ n = n + 0
    BY <1>1 DEF DigitSeq
  <2>3. \A j \in 1 .. n : s[j] = 0
    BY <1>1, <1>2
  <2>4. digits_value(s) = digits_value(<< >>)
    BY <1>1, <2>2, <2>3, ValuePadded
  <2>5. QED
    BY <2>1, <2>2, <2>4
<1>3. CASE first # {}
  <2> DEFINE i == CHOOSE i \in first : \A j \in first : i <= j
             t == SubSeq(s, i, n)
             d == i - 1
  <2>1. i \in first /\ \A j \in first : i <= j
    BY <1>1, <1>3, FirstOf
  <2>2. strip_leading_zeros(s) = t
    BY <1>3 DEF strip_leading_zeros
  <2> HIDE DEF i
  <2>3. i \in 1 .. n /\ s[i] # 0 /\ d \in Nat /\ n = d + (n - d) /\ n - d \in Nat /\ n - d > 0
    BY <1>1, <2>1
  <2>4. t = [j \in 1 .. n - d |-> s[j + d]]
    BY <1>1, <2>3, SubSeqIsFunction DEF DigitSeq
  <2> HIDE DEF t
  <2>5. t \in Numerals(Base, n - d)
    BY <1>1, <2>3, <2>4 DEF Numerals
  <2>6. t \in DigitSeq /\ Len(t) = n - d
    BY <2>3, <2>5, SequenceOfDigits
  <2>7. \A j \in 1 .. d : s[j] = 0
    <3> SUFFICES ASSUME NEW j \in 1 .. d PROVE s[j] = 0
      OBVIOUS
    <3>1. j \in 1 .. n /\ ~ (i <= j)
      BY <2>3
    <3>2. QED
      BY <1>1, <2>1, <3>1
  <2>8. \A j \in 1 .. n - d : s[d + j] = t[j]
    BY <2>3, <2>4
  <2>9. digits_value(s) = digits_value(t)
    BY <2>3, <2>6, <2>7, <2>8, ValuePadded
  <2>10. NoLeadingZero(t)
    <3>1. 1 \in 1 .. n - d /\ 1 + d = i
      BY <2>3
    <3>2. t[1] = s[i]
      BY <2>4, <3>1
    <3>3. t # << >>
      BY <2>3, <2>6
    <3>4. QED
      BY <2>3, <3>2, <3>3 DEF NoLeadingZero
  <2>11. QED
    BY <2>2, <2>6, <2>9, <2>10
<1>4. QED
  BY <1>2, <1>3

Powers(k, f) == f = [i \in 0 .. k |-> IF i = 0 THEN 1 ELSE f[i - 1] * Base]

LEMMA PowerUnfolds ==
  ASSUME NEW k \in Nat
  PROVE  \E f \in [0 .. k -> Nat] :
           /\ f[0] = 1 /\ \A i \in 1 .. k : f[i] = f[i - 1] * Base
           /\ power(k) = f[k]
<1> DEFINE h == [p \in Nat \X (1 .. k) |-> p[1] * Base]
           f == CHOOSE g : Powers(k, g)
<1>1. h \in [Nat \X (1 .. k) -> Nat] /\ \A x \in Nat : \A i \in 1 .. k : h[<<x, i>>] = x * Base
  BY BaseIsNat
<1> HIDE DEF h
<1>2. PICK g \in [0 .. k -> Nat] : Steps(g, 1, h, k)
  BY <1>1, StepsExist, 1 \in Nat, Zenon
<1>3. g[0] = 1 /\ \A i \in 1 .. k : g[i] = g[i - 1] * Base
  <2>1. ASSUME NEW i \in 1 .. k PROVE g[i] = g[i - 1] * Base
    <3>1. i - 1 \in 0 .. k
      OBVIOUS
    <3>2. g[i - 1] \in Nat /\ g[i] = h[<<g[i - 1], i>>]
      BY <1>2, <3>1 DEF Steps
    <3>3. QED
      BY <1>1, <3>2
  <2>2. QED
    BY <1>2, <2>1 DEF Steps
<1>4. Powers(k, g)
  <2>1. \A i \in 0 .. k : g[i] = IF i = 0 THEN 1 ELSE g[i - 1] * Base
    BY <1>3
  <2>2. g = [i \in 0 .. k |-> g[i]]
    OBVIOUS
  <2>3. QED
    BY <2>1, <2>2 DEF Powers
<1>5. Powers(k, f)
  BY <1>4, Zenon
<1>6. power(k) = f[k]
  BY DEF power, Powers
<1> HIDE DEF f
<1>7. \A i \in 0 .. k : f[i] = IF i = 0 THEN 1 ELSE f[i - 1] * Base
  BY <1>5, Zenon DEF Powers
<1>8. f[0] = 1 /\ \A i \in 1 .. k : f[i] = f[i - 1] * Base
  <2>1. 0 \in 0 .. k /\ \A i \in 1 .. k : i \in 0 .. k /\ i # 0
    OBVIOUS
  <2>2. QED
    BY <1>7, <2>1, Zenon
<1>9. f \in [0 .. k -> Nat]
  <2> DEFINE P == {i \in 0 .. k : f[i] \in Nat}
  <2>1. 0 \in P
    BY <1>8
  <2>2. ASSUME NEW i \in 0 .. k - 1, i \in P PROVE i + 1 \in P
    <3>1. PICK j \in 1 .. k : j = i + 1
      OBVIOUS
    <3>2. f[j] = f[i] * Base
      BY <1>8, <3>1
    <3>3. QED
      BY <2>2, <3>1, <3>2, BaseIsNat
  <2> HIDE DEF P
  <2>3. 0 .. k \subseteq P
    BY <2>1, <2>2, k \in Int, 0 \in Int, IntervalUp, Zenon
  <2>4. \A i \in 0 .. k : f[i] \in Nat
    BY <2>3 DEF P
  <2>5. f = [i \in 0 .. k |-> f[i]]
    <3>1. DOMAIN f = 0 .. k /\ f = [i \in DOMAIN f |-> f[i]]
      BY <1>5 DEF Powers
    <3>2. QED
      BY <3>1
  <2>6. QED
    BY <2>4, <2>5
<1>10. QED
  BY <1>6, <1>8, <1>9

\* zeros behind a number shift it
LEMMA ValueShifted ==
  ASSUME NEW s \in DigitSeq, NEW k \in Nat
  PROVE  /\ s \o zeros(k) \in DigitSeq /\ Len(s \o zeros(k)) = Len(s) + k
         /\ digits_value(s \o zeros(k)) = digits_value(s) * power(k)
<1> DEFINE n == Len(s)
           m == n + k
           t == s \o zeros(k)
<1>1. n \in Nat /\ m \in Nat
  BY DigitsOfSequence
<1>2. zeros(k) \in DigitSeq /\ Len(zeros(k)) = k /\ \A i \in 1 .. k : zeros(k)[i] = 0
  BY BaseIsNat, SequenceOfDigits DEF zeros, Numerals
<1>3. t \in DigitSeq /\ Len(t) = m
  BY <1>2 DEF DigitSeq
<1>4. \A j \in 1 .. n : t[j] = s[j]
  BY <1>1, <1>2 DEF DigitSeq
<1>5. \A i \in 1 .. k : t[n + i] = 0
  BY <1>1, <1>2 DEF DigitSeq
<1> HIDE DEF t
<1>6. PICK v : Places(Base, s, n, v) /\ digits_value(s) = v[n]
  BY DigitsArePlaces
<1>7. PICK w : Places(Base, t, m, w) /\ digits_value(t) = w[m]
  BY <1>3, DigitsArePlaces
<1>8. v[n] = w[n] /\ v[n] \in Nat
  <2>1. n <= m /\ n <= n /\ SameWithin(s, t, n) /\ n \in 0 .. n
    BY <1>1, <1>4 DEF SameWithin
  <2>2. v[n] = w[n]
    BY <1>1, <1>6, <1>7, <2>1, BaseIsNat, PlacesAgree
  <2>3. QED
    BY <1>6, <2>1, <2>2 DEF Places
<1>9. PICK f \in [0 .. k -> Nat] : /\ f[0] = 1 /\ \A i \in 1 .. k : f[i] = f[i - 1] * Base
                                   /\ power(k) = f[k]
  BY PowerUnfolds
<1> DEFINE P == {i \in 0 .. k : w[n + i] = v[n] * f[i]}
<1>10. 0 \in P
  BY <1>1, <1>8, <1>9
<1>11. ASSUME NEW i \in 0 .. k - 1, i \in P PROVE i + 1 \in P
  <2>1. PICK j \in 1 .. k : j = i + 1
    OBVIOUS
  <2>2. n + j \in 1 .. m /\ (n + j) - 1 = n + i
    BY <1>1, <2>1
  <2>3. w[n + j] = w[(n + j) - 1] * Base + t[n + j]
    BY <1>7, <2>2, Zenon DEF Places
  <2>4. w[n + j] = (v[n] * f[i]) * Base + 0
    BY <1>5, <1>11, <2>2, <2>3
  <2>5. f[j] = f[i] * Base /\ f[i] \in Nat
    BY <1>9, <2>1
  <2>6. (v[n] * f[i]) * Base + 0 = v[n] * (f[i] * Base)
    <3> DEFINE x == v[n]
               y == f[i]
    <3>1. x \in Nat /\ y \in Nat
      BY <1>8, <2>5
    <3> HIDE DEF x, y
    <3>2. (x * y) * Base + 0 = x * (y * Base)
      BY <3>1, BaseIsNat
    <3>3. QED
      BY <3>2 DEF x, y
  <2>7. QED
    BY <2>1, <2>4, <2>5, <2>6
<1> HIDE DEF P
<1>12. 0 .. k \subseteq P
  BY <1>10, <1>11, k \in Int, 0 \in Int, IntervalUp, Zenon
<1>13. k \in P
  BY <1>12
<1>14. w[n + k] = v[n] * f[k]
  BY <1>13 DEF P
<1>15. digits_value(t) = digits_value(s) * power(k)
  BY <1>6, <1>7, <1>9, <1>14
<1>16. QED
  BY <1>3, <1>15 DEF t

-----------------------------------------------------------------------------
(****************************************************************************)
(* The bound, written out, and what is compared with it.                   *)
(****************************************************************************)

\* what the recursive definition of bound_digits computes
Decimals(bound, f) ==
  f = [n \in 0 .. bound |-> IF n < Base THEN <<n>> ELSE Append(f[n \div Base], n % Base)]

DecimalsOf(bound, f) ==
  \A n \in 0 .. bound : f[n] = IF n < Base THEN <<n>> ELSE Append(f[n \div Base], n % Base)

LEMMA Quotient ==
  ASSUME NEW n \in Nat, ~ (n < Base)
  PROVE  /\ n \div Base \in 1 .. n - 1 /\ n % Base \in 0 .. Base - 1
         /\ n = (n \div Base) * Base + (n % Base)
<1> DEFINE q == n \div Base
           r == n % Base
<1>1. q \in Nat /\ r \in 0 .. Base - 1 /\ n = q * Base + r
  BY BaseIsNat, Division
<1> HIDE DEF q, r
<1>2. q # 0
  <2>1. 0 * Base = 0
    BY BaseIsNat
  <2>2. QED
    BY <1>1, <2>1, BaseIsNat
<1>3. q < n
  <2>1. Base >= 2
    BY BaseIsNat
  <2>2. q * Base >= q * 2
    <3>1. ASSUME NEW c \in Nat PROVE q * (c + 2) >= q * 2
      <4>1. q * (c + 2) = q * c + q * 2 /\ q * c \in Nat
        BY <1>1
      <4>2. QED
        BY <1>1, <4>1
    <3>2. PICK c \in Nat : Base = c + 2
      <4>1. Base - 2 \in Nat /\ Base = (Base - 2) + 2
        BY BaseIsNat
      <4>2. QED
        BY <4>1
    <3>3. QED
      BY <3>1, <3>2
  <2> DEFINE x == q * Base
  <2>3. x \in Nat /\ x >= q * 2 /\ n = x + r
    BY <1>1, <2>2, BaseIsNat
  <2> HIDE DEF x
  <2>4. QED
    BY <1>1, <1>2, <2>3
<1>4. QED
  BY <1>1, <1>2, <1>3 DEF q, r

LEMMA DecimalsExist ==
  ASSUME NEW bound \in Nat
  PROVE  \E f : Decimals(bound, f)
<1> DEFINE P == {k \in 0 .. bound : \E f : DOMAIN f = 0 .. k /\ DecimalsOf(k, f)}
<1>1. 0 \in P
  <2> DEFINE f == [n \in 0 .. 0 |-> <<0>>]
  <2>1. DOMAIN f = 0 .. 0 /\ DecimalsOf(0, f)
    <3>1. \A n \in 0 .. 0 : n = 0 /\ n < Base /\ f[n] = <<n>>
      BY BaseIsNat
    <3>2. QED
      BY <3>1 DEF DecimalsOf
  <2>2. QED
    BY <2>1
<1>2. ASSUME NEW k \in 0 .. bound - 1, k \in P PROVE k + 1 \in P
  <2>1. PICK f : DOMAIN f = 0 .. k /\ DecimalsOf(k, f)
    BY <1>2
  <2> DEFINE m == k + 1
             x == IF m < Base THEN <<m>> ELSE Append(f[m \div Base], m % Base)
             g == [n \in 0 .. m |-> IF n = m THEN x ELSE f[n]]
  <2>2. m \in 0 .. bound /\ m \in Nat
    OBVIOUS
  <2>3. \A n \in 0 .. m : IF n = m THEN g[n] = x ELSE n \in 0 .. k /\ g[n] = f[n]
    OBVIOUS
  <2>4. DOMAIN g = 0 .. m
    OBVIOUS
  <2> HIDE DEF g
  <2>5. DecimalsOf(m, g)
    <3> SUFFICES ASSUME NEW n \in 0 .. m
                 PROVE  g[n] = IF n < Base THEN <<n>> ELSE Append(g[n \div Base], n % Base)
      BY DEF DecimalsOf
    <3>1. g[n] = IF n < Base THEN <<n>> ELSE Append(f[n \div Base], n % Base)
      <4>1. CASE n = m
        BY <2>3, <4>1
      <4>2. CASE n # m
        <5>1. n \in 0 .. k /\ g[n] = f[n]
          BY <2>3, <4>2
        <5>2. QED
          BY <2>1, <5>1 DEF DecimalsOf
      <4>3. QED
        BY <4>1, <4>2
    <3>2. CASE n < Base
      BY <3>1, <3>2
    <3>3. CASE ~ (n < Base)
      <4>1. n \div Base \in 1 .. n - 1
        BY <3>3, Quotient
      <4>2. n \div Base \in 0 .. m /\ n \div Base # m
        BY <4>1
      <4>3. g[n \div Base] = f[n \div Base]
        BY <2>3, <4>2
      <4>4. QED
        BY <3>1, <3>3, <4>3
    <3>4. QED
      BY <3>2, <3>3
  <2>6. QED
    BY <2>2, <2>4, <2>5
<1> HIDE DEF P
<1>3. 0 .. bound \subseteq P
  BY <1>1, <1>2, bound \in Int, 0 \in Int, IntervalUp, Zenon
<1>4. PICK f : DOMAIN f = 0 .. bound /\ DecimalsOf(bound, f)
  <2>1. bound \in P
    BY <1>3
  <2>2. QED
    BY <2>1 DEF P
<1> DEFINE g == [n \in 0 .. bound |-> f[n]]
<1>5. Decimals(bound, g)
  <2>1. ASSUME NEW n \in 0 .. bound
        PROVE  f[n] = IF n < Base THEN <<n>> ELSE Append(g[n \div Base], n % Base)
    <3>1. CASE n < Base
      BY <1>4, <3>1 DEF DecimalsOf
    <3>2. CASE ~ (n < Base)
      <4>1. n \div Base \in 1 .. n - 1
        BY <3>2, Quotient
      <4>2. n \div Base \in 0 .. bound
        BY <4>1
      <4>3. g[n \div Base] = f[n \div Base]
        BY <4>2
      <4>4. f[n] = Append(f[n \div Base], n % Base)
        BY <1>4, <3>2 DEF DecimalsOf
      <4> HIDE DEF g
      <4>5. QED
        BY <3>2, <4>3, <4>4
    <3>3. QED
      BY <3>1, <3>2
  <2>2. QED
    BY <2>1 DEF Decimals
<1>6. QED
  BY <1>5

LEMMA EmptyValue ==
  << >> \in DigitSeq /\ digits_value(<< >>) = 0
<1>1. << >> \in DigitSeq
  BY DEF DigitSeq
<1>2. Places(Base, << >>, Len(<< >>), [i \in 0 .. 0 |-> 0])
  BY DEF Places
<1>3. digits_value(<< >>) = [i \in 0 .. 0 |-> 0][Len(<< >>)]
  BY <1>1, <1>2, ValueFromPlaces
<1>4. QED
  BY <1>1, <1>3

\* to_string writes a number without leading zeros
LEMMA BoundDigits ==
  ASSUME NEW bound \in Nat \ {0}
  PROVE  /\ bound_digits(bound) \in DigitSeq /\ NoLeadingZero(bound_digits(bound))
         /\ digits_value(bound_digits(bound)) = bound
<1> DEFINE f == CHOOSE g : Decimals(bound, g)
           Q(n) == /\ f[n] \in DigitSeq /\ f[n] # << >> /\ (n # 0 => f[n][1] # 0)
                   /\ digits_value(f[n]) = n
           P == {k \in 0 .. bound : \A n \in 0 .. k : Q(n)}
<1>1. bound_digits(bound) = f[bound]
  BY DEF bound_digits, Decimals
<1>2. Decimals(bound, f)
  BY DecimalsExist, Zenon
<1> HIDE DEF f
<1>3. \A n \in 0 .. bound : f[n] = IF n < Base THEN <<n>> ELSE Append(f[n \div Base], n % Base)
  BY <1>2, Zenon DEF Decimals
<1>4. ASSUME NEW n \in 0 .. bound, n < Base PROVE Q(n)
  <2>1. f[n] = <<n>>
    BY <1>3, <1>4
  <2>2. n \in 0 .. Base - 1
    BY <1>4, BaseIsNat
  <2>3. << >> \in DigitSeq /\ <<n>> = Append(<< >>, n) /\ <<n>> # << >> /\ <<n>>[1] = n
    BY DEF DigitSeq
  <2>4. digits_value(<< >>) = 0
    BY EmptyValue
  <2>5. 0 * Base + n = n
    BY <2>2, BaseIsNat
  <2>6. <<n>> \in DigitSeq /\ digits_value(<<n>>) = digits_value(<< >>) * Base + n
    BY <2>2, <2>3, ValueOfAppend
  <2>7. QED
    BY <2>1, <2>3, <2>4, <2>5, <2>6
<1>5. 0 \in P
  <2>1. 0 \in 0 .. bound /\ 0 < Base /\ \A n \in 0 .. 0 : n = 0
    BY BaseIsNat
  <2>2. Q(0)
    BY <1>4, <2>1
  <2>3. QED
    BY <2>1, <2>2
<1>6. ASSUME NEW k \in 0 .. bound - 1, k \in P PROVE k + 1 \in P
  <2>1. PICK m \in 0 .. bound : m = k + 1
    OBVIOUS
  <2>2. Q(m)
    <3>1. CASE m < Base
      BY <1>4, <3>1
    <3>2. CASE ~ (m < Base)
      <4> DEFINE q == m \div Base
                 r == m % Base
      <4>1. q \in 1 .. m - 1 /\ r \in 0 .. Base - 1 /\ m = q * Base + r
        BY <3>2, Quotient
      <4>2. f[m] = Append(f[q], r)
        BY <1>3, <3>2
      <4> HIDE DEF q, r
      <4>3. q \in 0 .. k /\ q # 0
        BY <2>1, <4>1
      <4>4. Q(q)
        BY <1>6, <4>3
      <4>5. Append(f[q], r) \in DigitSeq /\ digits_value(Append(f[q], r)) = q * Base + r
        BY <4>1, <4>4, ValueOfAppend
      <4>6. Append(f[q], r) # << >> /\ Append(f[q], r)[1] = f[q][1]
        BY <4>4 DEF DigitSeq
      <4>7. f[q][1] # 0
        BY <4>3, <4>4
      <4>8. QED
        BY <4>1, <4>2, <4>5, <4>6, <4>7
    <3>3. QED
      BY <3>1, <3>2
  <2>3. \A n \in 0 .. m : n = m \/ n \in 0 .. k
    BY <2>1
  <2> HIDE DEF Q
  <2>4. QED
    BY <1>6, <2>1, <2>2, <2>3
<1> HIDE DEF P
<1>7. 0 .. bound \subseteq P
  BY <1>5, <1>6, bound \in Int, 0 \in Int, IntervalUp, Zenon
<1>8. bound \in P /\ bound \in 0 .. bound
  BY <1>7
<1>9. Q(bound)
  BY <1>8 DEF P
<1>10. QED
  BY <1>1, <1>9 DEF NoLeadingZero

LEMMA ValueOfZeros ==
  ASSUME NEW k \in Nat
  PROVE  digits_value(<< >> \o zeros(k)) = 0
<1>1. << >> \in DigitSeq /\ Len(<< >>) = 0 /\ k = k + 0
  BY DEF DigitSeq
<1>2. << >> \o zeros(k) \in DigitSeq /\ Len(<< >> \o zeros(k)) = Len(<< >>) + k
  BY <1>1, ValueShifted
<1>3. << >> \o zeros(k) = zeros(k)
  BY DEF zeros
<1>4. \A j \in 1 .. k : zeros(k)[j] = 0
  BY DEF zeros
<1>5. digits_value(zeros(k)) = digits_value(<< >>)
  BY <1>1, <1>2, <1>3, <1>4, ValuePadded
<1>6. digits_value(<< >>) = 0
  BY EmptyValue
<1>7. QED
  BY <1>3, <1>5, <1>6

LEMMA LeadsOfShifted ==
  ASSUME NEW s \in DigitSeq, NoLeadingZero(s), NEW k \in Nat
  PROVE  NoLeadingZero(s \o zeros(k))
<1>1. zeros(k) \in Seq(Nat) /\ Len(zeros(k)) = k
  BY DEF zeros
<1>2. Len(s) \in Nat /\ Len(s) > 0
  BY DEF NoLeadingZero, DigitSeq
<1>3. Len(s \o zeros(k)) = Len(s) + k /\ (s \o zeros(k))[1] = s[1]
  BY <1>1, <1>2 DEF DigitSeq
<1>4. QED
  BY <1>1, <1>2, <1>3 DEF NoLeadingZero, DigitSeq

\* magnitude_ok compares the number with its bound
LEMMA MagnitudeOk ==
  ASSUME NEW s \in DigitSeq, s = << >> \/ NoLeadingZero(s), NEW scale \in Int,
         NEW bound \in Nat \ {0}
  PROVE  magnitude_ok(s, scale, bound) <=>
           IF scale >= 0 THEN digits_value(s) * power(scale) <= bound
           ELSE digits_value(s) <= bound * power(- scale)
<1> DEFINE bs == bound_digits(bound)
<1>1. bs \in DigitSeq /\ NoLeadingZero(bs) /\ digits_value(bs) = bound
  BY BoundDigits
<1>2. magnitude_ok(s, scale, bound) <=>
        \/ s = << >>
        \/ Len(s) + scale < Len(bs)
        \/ /\ Len(s) + scale = Len(bs)
           /\ IF scale >= 0 THEN at_most(s \o zeros(scale), bs)
              ELSE at_most(s, bs \o zeros(- scale))
  BY Zenon DEF magnitude_ok
<1> HIDE DEF bs
<1>3. Len(s) \in Nat /\ Len(bs) \in Nat
  BY <1>1, DigitsOfSequence
<1>4. CASE scale >= 0
  <2>1. scale \in Nat
    BY <1>4
  <2> DEFINE t == s \o zeros(scale)
  <2>2. /\ t \in DigitSeq /\ Len(t) = Len(s) + scale
        /\ digits_value(t) = digits_value(s) * power(scale)
    BY <2>1, ValueShifted
  <2>3. CASE s = << >>
    <3>1. magnitude_ok(s, scale, bound)
      BY <1>2, <2>3
    <3>2. digits_value(t) = 0
      BY <2>1, <2>3, ValueOfZeros
    <3>3. digits_value(s) * power(scale) <= bound
      BY <2>2, <3>2
    <3>4. QED
      BY <1>4, <3>1, <3>3
  <2>4. CASE NoLeadingZero(s)
    <3>1. NoLeadingZero(t)
      BY <2>1, <2>4, LeadsOfShifted
    <3>2. digits_value(t) <= bound <=> Len(t) < Len(bs) \/ (Len(t) = Len(bs) /\ at_most(t, bs))
      BY <1>1, <2>2, <3>1, LengthThenOrder
    <3>3. s # << >>
      BY <2>4 DEF NoLeadingZero
    <3> HIDE DEF t
    <3>4. at_most(s \o zeros(scale), bs) <=> at_most(t, bs)
      BY DEF t
    <3>5. QED
      BY <1>2, <1>4, <2>2, <3>2, <3>3, <3>4
  <2>5. QED
    BY <2>3, <2>4
<1>5. CASE ~ (scale >= 0)
  <2>1. - scale \in Nat
    BY <1>5
  <2> DEFINE t == bs \o zeros(- scale)
  <2>2. /\ t \in DigitSeq /\ Len(t) = Len(bs) + (- scale)
        /\ digits_value(t) = bound * power(- scale)
    BY <1>1, <2>1, ValueShifted
  <2>3. NoLeadingZero(t)
    BY <1>1, <2>1, LeadsOfShifted
  <2>4. CASE s = << >>
    <3>1. magnitude_ok(s, scale, bound)
      BY <1>2, <2>4
    <3>2. Len(s) = 0 /\ Len(t) > 0
      BY <2>2, <2>3, <2>4 DEF NoLeadingZero, DigitSeq
    <3>3. digits_value(s) < digits_value(t)
      BY <2>2, <2>3, <3>2, ShorterIsLower
    <3>4. digits_value(s) \in Nat /\ digits_value(t) \in Nat
      BY <2>2, ValueIsNat
    <3>5. QED
      BY <1>5, <2>2, <3>1, <3>3, <3>4
  <2>5. CASE NoLeadingZero(s)
    <3>1. digits_value(s) <= digits_value(t) <=>
            Len(s) < Len(t) \/ (Len(s) = Len(t) /\ at_most(s, t))
      BY <2>2, <2>3, <2>5, LengthThenOrder
    <3>2. Len(s) < Len(t) <=> Len(s) + scale < Len(bs)
      BY <1>3, <2>2
    <3>3. Len(s) = Len(t) <=> Len(s) + scale = Len(bs)
      BY <1>3, <2>2
    <3>4. s # << >>
      BY <2>5 DEF NoLeadingZero
    <3> HIDE DEF t
    <3>5. at_most(s, bs \o zeros(- scale)) <=> at_most(s, t)
      BY DEF t
    <3>6. QED
      BY <1>2, <1>5, <2>2, <3>1, <3>2, <3>3, <3>4, <3>5
  <2>6. QED
    BY <2>4, <2>5
<1>6. QED
  BY <1>4, <1>5

-----------------------------------------------------------------------------
(****************************************************************************)
(* Magnitudes, json.rs.                                                    *)
(****************************************************************************)

LexemeType ==
  [integer : Seq(0 .. Base - 1), fraction : Seq(0 .. Base - 1),
   exponent : Seq(0 .. Base - 1), minus : BOOLEAN]

LEMMA NumberAccepted ==
  ASSUME NEW l \in LexemeType, Len(l.exponent) <= ExponentDigits
  PROVE  number_accepted(l) <=> lexeme_len(l) <= LexemeBytes /\ within_magnitude(l)
<1> DEFINE digits == l.integer \o l.fraction
           n == decompose_number(l)
           written == digits_value(l.exponent)
           scale == (IF l.minus THEN - written ELSE written) - Len(l.fraction)
           bound == magnitude_bound(l)
           s == strip_leading_zeros(digits)
<1>1. /\ l.integer \in DigitSeq /\ l.fraction \in DigitSeq /\ l.exponent \in DigitSeq
      /\ l.minus \in BOOLEAN
  BY DEF LexemeType, DigitSeq
<1>2. digits \in DigitSeq /\ Len(l.fraction) \in Nat
  BY <1>1 DEF DigitSeq
<1>3. written \in Nat
  BY <1>1, ValueIsNat
<1>4. scale \in Int
  <2> HIDE DEF written
  <2>1. QED
    BY <1>1, <1>2, <1>3
<1>5. saturated(l.exponent) = written
  <2>1. Len(l.exponent) \in Nat /\ ExponentDigits \in Nat
    BY <1>1, BaseAssumption DEF DigitSeq
  <2>2. ~ (Len(l.exponent) > ExponentDigits)
    BY <2>1
  <2>3. QED
    BY <2>2, Zenon DEF saturated
<1>6. n.digits = digits /\ n.exp - n.frac_count = scale
  BY <1>5 DEF decompose_number
<1>7. bound \in Nat \ {0}
  BY BaseAssumption DEF magnitude_bound
<1>8. /\ s \in DigitSeq /\ digits_value(s) = digits_value(digits)
      /\ s = << >> \/ NoLeadingZero(s)
  BY <1>2, Stripped
<1>9. magnitude_ok(s, scale, bound) <=>
        IF scale >= 0 THEN digits_value(s) * power(scale) <= bound
        ELSE digits_value(s) <= bound * power(- scale)
  <2> HIDE DEF s, scale, bound
  <2>1. QED
    BY <1>4, <1>7, <1>8, MagnitudeOk
<1>10. within_magnitude(l) <=>
         IF scale >= 0 THEN digits_value(digits) * power(scale) <= bound
         ELSE digits_value(digits) <= bound * power(- scale)
  BY Zenon DEF within_magnitude
<1>11. number_accepted(l) <=> lexeme_len(l) <= LexemeBytes /\ magnitude_ok(s, scale, bound)
  <2>1. number_accepted(l) <=>
          /\ lexeme_len(l) <= LexemeBytes
          /\ magnitude_ok(strip_leading_zeros(n.digits), n.exp - n.frac_count, bound)
    BY Zenon DEF number_accepted
  <2> HIDE DEF n, scale, bound, digits
  <2>2. QED
    BY <1>6, <2>1
<1> HIDE DEF s, scale, bound, digits
<1>12. QED
  BY <1>8, <1>9, <1>10, <1>11

\* a number is accepted exactly when it is within its bound, whatever its length,
\* its fraction and its exponent, as long as the exponent has no more digits than
\* decompose_number keeps.
THEOREM MagnitudesAreExact == CodecsSpec => []MagnitudeExact
<1>1. Answered(task, answer) => MagnitudeExact
  <2> SUFFICES ASSUME Answered(task, answer), task.of = "parse_number",
                      Len(task.lexeme.exponent) <= ExponentDigits
               PROVE  answer.ok <=> /\ lexeme_len(task.lexeme) <= LexemeBytes
                                    /\ within_magnitude(task.lexeme)
    BY DEF MagnitudeExact
  <2>1. PICK l \in Lexeme : /\ task = [of |-> "parse_number", lexeme |-> l]
                            /\ answer = [ok |-> number_accepted(l)]
    BY DEF Answered, SignatureAnswered, TextAnswered
  <2>2. task.lexeme = l /\ answer.ok = number_accepted(l)
    BY <2>1
  <2>3. l \in LexemeType
    BY CodecAssumption DEF LexemeType
  <2>4. number_accepted(l) <=> lexeme_len(l) <= LexemeBytes /\ within_magnitude(l)
    BY <2>2, <2>3, NumberAccepted
  <2>5. QED
    BY <2>2, <2>4, Zenon
<1>2. QED
  BY <1>1, AnswersAreReturned, PTL

-----------------------------------------------------------------------------
(***************************************************************************)
(* Texts: the places of characters, and pieces of texts.                   *)
(***************************************************************************)

\* the strings; the backends do not know that a literal is one
Character ==
  STRING \cup Unreserved \cup SubDelim \cup UriPunct \cup DOMAIN Escape \cup {"https://", "http://"}

Text == Seq(Character)

LEMMA StringsAreText ==
  ASSUME NEW s \in Seq(STRING)
  PROVE  s \in Text
<1>1. STRING \subseteq Character
  BY DEF Character
<1>2. QED
  BY <1>1, SeqMonotonic DEF Text

LEMMA PieceOf ==
  ASSUME NEW S, NEW s \in Seq(S), NEW a \in Nat \ {0}, NEW b \in Nat, a <= b + 1, b <= Len(s)
  PROVE  /\ SubSeq(s, a, b) \in Seq(S) /\ Len(SubSeq(s, a, b)) = b - a + 1
         /\ DOMAIN SubSeq(s, a, b) = 1 .. b - a + 1
         /\ \A i \in 1 .. b - a + 1 : SubSeq(s, a, b)[i] = s[a + i - 1]
<1>1. Len(s) \in Nat /\ \A i \in 1 .. Len(s) : s[i] \in S
  BY LenProperties, ElementOfSeq
<1>2. \A i \in a .. b : s[i] \in S
  BY <1>1
<1>3. /\ SubSeq(s, a, b) \in Seq(S)
      /\ Len(SubSeq(s, a, b)) = IF a <= b THEN b - a + 1 ELSE 0
      /\ \A i \in 1 .. b - a + 1 : SubSeq(s, a, b)[i] = s[a + i - 1]
  BY <1>2, SubSeqProperties
<1>4. QED
  BY <1>3, LenProperties

LEMMA PrefixOf ==
  ASSUME NEW S, NEW s \in Seq(S), NEW b \in Nat, b <= Len(s)
  PROVE  /\ SubSeq(s, 1, b) \in Seq(S) /\ Len(SubSeq(s, 1, b)) = b
         /\ DOMAIN SubSeq(s, 1, b) = 1 .. b
         /\ \A i \in 1 .. b : SubSeq(s, 1, b)[i] = s[i]
<1>1. /\ SubSeq(s, 1, b) \in Seq(S) /\ Len(SubSeq(s, 1, b)) = b - 1 + 1
      /\ DOMAIN SubSeq(s, 1, b) = 1 .. b - 1 + 1
      /\ \A i \in 1 .. b - 1 + 1 : SubSeq(s, 1, b)[i] = s[1 + i - 1]
  BY PieceOf
<1>2. b - 1 + 1 = b /\ \A i \in 1 .. b : 1 + i - 1 = i
  OBVIOUS
<1>3. QED
  BY <1>1, <1>2

LEMMA PositionIs ==
  ASSUME NEW s \in Text, NEW c
  PROVE  /\ position(s, c) \in 1 .. Len(s) + 1
         /\ \A i \in 1 .. position(s, c) - 1 : s[i] # c
         /\ position(s, c) <= Len(s) => s[position(s, c)] = c
<1>1. Len(s) \in Nat /\ DOMAIN s = 1 .. Len(s)
  BY LenProperties DEF Text
<1>2. CASE \A i \in DOMAIN s : s[i] # c
  <2>1. position(s, c) = Len(s) + 1
    BY <1>2, Zenon DEF position
  <2>2. QED
    BY <1>1, <1>2, <2>1
<1>3. CASE \E i \in DOMAIN s : s[i] = c
  <2> DEFINE S == {i \in 1 .. Len(s) : s[i] = c}
  <2>1. PICK i \in S : \A j \in S : i <= j
    BY <1>1, <1>3, FirstOf
  <2>2. i \in DOMAIN s /\ s[i] = c /\ \A j \in 1 .. i - 1 : s[j] # c
    BY <1>1, <2>1
  <2>3. /\ position(s, c) \in DOMAIN s /\ s[position(s, c)] = c
        /\ \A j \in 1 .. position(s, c) - 1 : s[j] # c
    BY <1>3, <2>2, Zenon DEF position
  <2>4. QED
    BY <1>1, <2>3
<1>4. QED
  BY <1>2, <1>3

LEMMA FirstOfIs ==
  ASSUME NEW s \in Text, NEW cs
  PROVE  /\ first_of(s, cs) \in 1 .. Len(s) + 1
         /\ \A i \in 1 .. first_of(s, cs) - 1 : s[i] \notin cs
         /\ first_of(s, cs) <= Len(s) => s[first_of(s, cs)] \in cs
<1> DEFINE ends == {i \in DOMAIN s : s[i] \in cs}
<1>1. Len(s) \in Nat /\ DOMAIN s = 1 .. Len(s) /\ ends \in SUBSET (1 .. Len(s))
  BY LenProperties DEF Text
<1>2. CASE ends = {}
  BY <1>1, <1>2 DEF first_of
<1>3. CASE ends # {}
  <2>1. \E i \in ends : \A j \in ends : i <= j
    BY <1>1, <1>3, FirstOf
  <2>2. first_of(s, cs) \in ends /\ \A j \in ends : first_of(s, cs) <= j
    BY <1>3, <2>1 DEF first_of
  <2>3. QED
    BY <1>1, <2>2
<1>4. QED
  BY <1>2, <1>3

LEMMA LastIn ==
  ASSUME NEW n \in Nat, NEW S \in SUBSET (1 .. n), S # {}
  PROVE  \E i \in S : \A j \in S : j <= i
<1> DEFINE T == {n + 1 - i : i \in S}
<1>1. T \in SUBSET (1 .. n) /\ T # {}
  <2>1. \A i \in S : n + 1 - i \in 1 .. n
    OBVIOUS
  <2>2. QED
    BY <2>1
<1>2. PICK t \in T : \A u \in T : t <= u
  BY <1>1, FirstOf
<1>3. PICK i \in S : t = n + 1 - i
  BY <1>2
<1>4. \A j \in S : n + 1 - j \in T
  OBVIOUS
<1>5. \A j \in S : j <= i
  BY <1>2, <1>3, <1>4
<1>6. QED
  BY <1>5

LEMMA LastColonIs ==
  ASSUME NEW s \in Text
  PROVE  /\ last_colon(s) \in 0 .. Len(s)
         /\ \A i \in last_colon(s) + 1 .. Len(s) : s[i] # ":"
         /\ last_colon(s) # 0 => s[last_colon(s)] = ":"
<1> DEFINE colons == {i \in DOMAIN s : s[i] = ":"}
<1>1. Len(s) \in Nat /\ DOMAIN s = 1 .. Len(s) /\ colons \in SUBSET (1 .. Len(s))
  BY LenProperties DEF Text
<1>2. CASE colons = {}
  BY <1>1, <1>2 DEF last_colon
<1>3. CASE colons # {}
  <2>1. \E i \in colons : \A j \in colons : j <= i
    BY <1>1, <1>3, LastIn
  <2>2. last_colon(s) \in colons /\ \A j \in colons : j <= last_colon(s)
    BY <1>3, <2>1 DEF last_colon
  <2>3. QED
    BY <1>1, <2>2
<1>4. QED
  BY <1>2, <1>3

\* the characters of a piece
LEMMA PieceIn ==
  ASSUME NEW s \in Text, NEW a \in Nat \ {0}, NEW b \in Int, b <= Len(s), NEW T
  PROVE  /\ Range(SubSeq(s, a, b)) \subseteq T <=> \A i \in a .. b : s[i] \in T
         /\ Range(SubSeq(s, a, b)) \cap T = {} <=> \A i \in a .. b : s[i] \notin T
<1>1. Len(s) \in Nat
  BY LenProperties DEF Text
<1>2. CASE a <= b
  <2>1. /\ DOMAIN SubSeq(s, a, b) = 1 .. b - a + 1
        /\ \A i \in 1 .. b - a + 1 : SubSeq(s, a, b)[i] = s[a + i - 1]
    BY <1>1, <1>2, PieceOf DEF Text
  <2>2. \A i \in a .. b : i - a + 1 \in 1 .. b - a + 1 /\ a + (i - a + 1) - 1 = i
    BY <1>1, <1>2
  <2>3. \A i \in 1 .. b - a + 1 : a + i - 1 \in a .. b
    BY <1>1, <1>2
  <2> DEFINE t == SubSeq(s, a, b)
  <2>4. \A i \in a .. b : i - a + 1 \in DOMAIN t /\ t[i - a + 1] = s[i]
    BY <2>1, <2>2
  <2>5. \A i \in DOMAIN t : a + i - 1 \in a .. b /\ t[i] = s[a + i - 1]
    BY <2>1, <2>3
  <2> HIDE DEF t
  <2>6. \A x : x \in Range(t) <=> \E i \in a .. b : x = s[i]
    <3>1. ASSUME NEW i \in a .. b PROVE s[i] \in Range(t)
      BY <2>4, Zenon DEF Range
    <3>2. ASSUME NEW x \in Range(t) PROVE \E i \in a .. b : x = s[i]
      <4>1. PICK j \in DOMAIN t : x = t[j]
        BY DEF Range
      <4>2. QED
        BY <2>5, <4>1, Zenon
    <3>3. QED
      BY <3>1, <3>2, Zenon
  <2>7. QED
    BY <2>6 DEF t
<1>3. CASE b < a
  <2>1. DOMAIN SubSeq(s, a, b) = {}
    BY <1>1, <1>3
  <2>2. QED
    BY <1>3, <2>1 DEF Range
<1>4. QED
  BY <1>1, <1>2, <1>3

LEMMA TextIn ==
  ASSUME NEW s \in Text, NEW T
  PROVE  /\ Range(s) \subseteq T <=> \A i \in 1 .. Len(s) : s[i] \in T
         /\ Range(s) \cap T = {} <=> \A i \in 1 .. Len(s) : s[i] \notin T
BY LenProperties DEF Range, Text

LEMMA PieceOfPiece ==
  ASSUME NEW s \in Text, NEW a \in Nat \ {0}, NEW b \in Nat, a <= b + 1, b <= Len(s),
         NEW c \in Nat \ {0}, NEW d \in Int, d <= b - a + 1
  PROVE  SubSeq(SubSeq(s, a, b), c, d) = SubSeq(s, a + c - 1, a + d - 1)
<1>1. Len(s) \in Nat
  BY LenProperties DEF Text
<1> DEFINE t == SubSeq(s, a, b)
<1>2. \A i \in 1 .. b - a + 1 : t[i] = s[a + i - 1]
  BY PieceOf DEF Text
<1> HIDE DEF t
<1>3. SubSeq(t, c, d) = [i \in 1 .. d - c + 1 |-> t[c + i - 1]]
  OBVIOUS
<1>4. SubSeq(s, a + c - 1, a + d - 1) = [i \in 1 .. d - c + 1 |-> s[a + c - 1 + i - 1]]
  OBVIOUS
<1>5. \A i \in 1 .. d - c + 1 : t[c + i - 1] = s[a + c - 1 + i - 1]
  <2> SUFFICES ASSUME NEW i \in 1 .. d - c + 1 PROVE t[c + i - 1] = s[a + c - 1 + i - 1]
    OBVIOUS
  <2>1. c + i - 1 \in 1 .. b - a + 1 /\ a + (c + i - 1) - 1 = a + c - 1 + i - 1
    BY <1>1
  <2>2. QED
    BY <1>2, <2>1
<1>6. QED
  BY <1>3, <1>4, <1>5 DEF t

LEMMA AtMostOnce ==
  ASSUME NEW s \in Text, NEW c
  PROVE  /\ occurrences(s, c) <= 1 <=>
              \A i, j \in 1 .. Len(s) : s[i] = c /\ s[j] = c => i = j
         /\ occurrences(s, c) = 1 <=> occurrences(s, c) <= 1 /\ \E i \in 1 .. Len(s) : s[i] = c
<1> DEFINE S == {i \in DOMAIN s : s[i] = c}
<1>1. Len(s) \in Nat /\ DOMAIN s = 1 .. Len(s)
  BY LenProperties DEF Text
<1>2. IsFiniteSet(S)
  <2>1. IsFiniteSet(1 .. Len(s)) /\ S \subseteq 1 .. Len(s)
    BY <1>1, FS_Interval
  <2>2. QED
    BY <2>1, FS_Subset
<1>3. Cardinality(S) \in Nat /\ (Cardinality(S) = 0 <=> S = {})
  BY <1>2, FS_CardinalityType, FS_EmptySet
<1>4. Cardinality(S) = 1 <=> \E x : S = {x}
  BY <1>2, FS_Singleton
<1>5. occurrences(s, c) = Cardinality(S)
  BY DEF occurrences
<1>6. S = {i \in 1 .. Len(s) : s[i] = c}
  BY <1>1
<1> HIDE DEF S
<1>7. Cardinality(S) <= 1 <=> S = {} \/ \E x : S = {x}
  BY <1>3, <1>4
<1>8. (S = {} \/ \E x : S = {x}) <=> \A i, j \in S : i = j
  <2>1. ASSUME NEW i \in S, \A j, k \in S : j = k PROVE S = {i}
    BY <2>1
  <2>2. QED
    BY <2>1
<1>9. S # {} <=> \E i \in 1 .. Len(s) : s[i] = c
  BY <1>6
<1>10. (\A i, j \in S : i = j) <=> \A i, j \in 1 .. Len(s) : s[i] = c /\ s[j] = c => i = j
  BY <1>6
<1>11. \A x \in Nat : x = 1 <=> x <= 1 /\ x # 0
  OBVIOUS
<1>12. QED
  BY <1>3, <1>5, <1>7, <1>8, <1>9, <1>10, <1>11

LEMMA BeginsWith ==
  ASSUME NEW S, NEW p \in Seq(S), NEW s \in Text
  PROVE  IsPrefix(p, s) <=> Len(p) <= Len(s) /\ \A i \in 1 .. Len(p) : s[i] = p[i]
<1>1. Len(s) \in Nat /\ Len(p) \in Nat
  BY LenProperties DEF Text
<1>2. SubSeq(p, 1, Len(p)) = [i \in 1 .. Len(p) |-> p[i]]
  BY <1>1
<1>3. SubSeq(s, 1, Len(p)) = [i \in 1 .. Len(p) |-> s[i]]
  BY <1>1
<1>4. QED
  BY <1>1, <1>2, <1>3 DEF IsPrefix

LEMMA BeginsWithTwo ==
  ASSUME NEW s \in Text, NEW a, NEW b
  PROVE  /\ IsPrefix(<<a>>, s) <=> Len(s) >= 1 /\ s[1] = a
         /\ IsPrefix(<<a, b>>, s) <=> Len(s) >= 2 /\ s[1] = a /\ s[2] = b
<1>1. Len(s) \in Nat
  BY LenProperties DEF Text
<1>2. <<a>> \in Seq({a}) /\ Len(<<a>>) = 1 /\ <<a>>[1] = a
  OBVIOUS
<1>3. <<a, b>> \in Seq({a, b}) /\ Len(<<a, b>>) = 2 /\ <<a, b>>[1] = a /\ <<a, b>>[2] = b
  OBVIOUS
<1>4. 1 .. 1 = {1} /\ 1 .. 2 = {1, 2}
  OBVIOUS
<1>5. IsPrefix(<<a>>, s) <=> Len(s) >= 1 /\ s[1] = a
  <2>1. IsPrefix(<<a>>, s) <=> Len(<<a>>) <= Len(s) /\ \A i \in 1 .. Len(<<a>>) : s[i] = <<a>>[i]
    BY <1>2, BeginsWith, Zenon
  <2>2. QED
    BY <1>1, <1>2, <1>4, <2>1
<1>6. IsPrefix(<<a, b>>, s) <=> Len(s) >= 2 /\ s[1] = a /\ s[2] = b
  BY <1>1, <1>3, <1>4, BeginsWith
<1>7. QED
  BY <1>5, <1>6

-----------------------------------------------------------------------------
(***************************************************************************)
(* The parts of a text between separators.                                 *)
(***************************************************************************)

\* one character more, in the parts
SplitOn(parts, e, c) ==
  IF e = c THEN Append(parts, << >>)
  ELSE Append(Front(parts), Append(Last(parts), e))

Splits(s, c, x) ==
  x = [i \in 0 .. Len(s) |->
        IF i = 0 THEN <<<< >>>>
        ELSE IF s[i] = c THEN Append(x[i - 1], << >>)
             ELSE Append(Front(x[i - 1]), Append(Last(x[i - 1]), s[i]))]

SomeParts == Seq(Text) \ {<< >>}

LEMMA SplitOnType ==
  ASSUME NEW parts \in SomeParts, NEW e \in Character, NEW c
  PROVE  /\ SplitOn(parts, e, c) \in SomeParts
         /\ Front(parts) \in Seq(Text) /\ Last(parts) \in Text
<1>1. parts \in Seq(Text) /\ Len(parts) \in Nat /\ Len(parts) # 0
  BY LenProperties, EmptySeq DEF SomeParts
<1>2. Front(parts) \in Seq(Text) /\ Last(parts) \in Text
  <2>1. parts[Len(parts)] \in Text
    BY <1>1, ElementOfSeq
  <2>2. SubSeq(parts, 1, Len(parts) - 1) \in Seq(Text)
    BY <1>1
  <2>3. QED
    BY <2>1, <2>2, Zenon DEF Front, Last
<1>3. << >> \in Text /\ Append(Last(parts), e) \in Text
  BY <1>2, EmptySeq, AppendProperties DEF Text
<1>4. Append(parts, << >>) \in SomeParts
  BY <1>1, <1>3 DEF SomeParts
<1>5. Append(Front(parts), Append(Last(parts), e)) \in SomeParts
  <2> DEFINE w == Append(Last(parts), e)
  <2>1. w \in Text
    BY <1>3
  <2> HIDE DEF w
  <2>2. Append(Front(parts), w) \in Seq(Text) /\ Append(Front(parts), w) # << >>
    BY <1>2, <2>1, AppendProperties
  <2>3. QED
    BY <2>2 DEF SomeParts, w
<1>6. QED
  BY <1>2, <1>4, <1>5 DEF SplitOn

LEMMA SplitIs ==
  ASSUME NEW s \in Text, NEW c
  PROVE  \E R : /\ R[0] = <<<< >>>> /\ R[0] \in SomeParts
                /\ \A i \in 1 .. Len(s) : /\ R[i - 1] \in SomeParts
                                          /\ R[i] = SplitOn(R[i - 1], s[i], c)
                                          /\ R[i] \in SomeParts
                /\ split(s, c) = R[Len(s)]
<1> DEFINE n == Len(s)
           X == SomeParts
           a == <<<< >>>>
           h == [p \in X \X (1 .. n) |-> SplitOn(p[1], s[p[2]], c)]
<1>1. n \in Nat /\ a \in X /\ \A i \in 1 .. n : s[i] \in Character
  BY LenProperties, ElementOfSeq DEF Text, SomeParts
<1>2. h \in [X \X (1 .. n) -> X] /\ \A x \in X : \A i \in 1 .. n : h[<<x, i>>] = SplitOn(x, s[i], c)
  <2>1. \A x \in X : \A i \in 1 .. n : SplitOn(x, s[i], c) \in X
    BY <1>1, SplitOnType
  <2> HIDE DEF X, n
  <2>2. QED
    BY <2>1
<1> HIDE DEF h, X, n, a
<1>3. PICK f \in [0 .. n -> X] : Steps(f, a, h, n)
  BY <1>1, <1>2, StepsExist, Zenon
<1>4. f[0] = a /\ \A i \in 1 .. n : f[i] = SplitOn(f[i - 1], s[i], c)
  <2>1. \A i \in 1 .. n : i - 1 \in 0 .. n /\ f[i - 1] \in X
    <3>1. \A i \in 1 .. n : i - 1 \in 0 .. n
      BY <1>1
    <3>2. QED
      BY <1>3, <3>1
  <2>2. f[0] = a /\ \A i \in 1 .. n : f[i] = h[<<f[i - 1], i>>]
    BY <1>3 DEF Steps
  <2>3. QED
    BY <1>2, <2>1, <2>2, Zenon
<1>5. Splits(s, c, f)
  <2>1. \A i \in 0 .. n : (i \in 1 .. n \/ i = 0) /\ (i \in 1 .. n => i # 0)
    BY <1>1
  <2>2. \A i \in 0 .. n : f[i] = IF i = 0 THEN a ELSE SplitOn(f[i - 1], s[i], c)
    BY <1>4, <2>1, Zenon
  <2>3. f = [i \in 0 .. n |-> f[i]]
    BY <1>3
  <2>4. f = [i \in 0 .. n |-> IF i = 0 THEN a ELSE SplitOn(f[i - 1], s[i], c)]
    BY <2>2, <2>3, Zenon
  <2>5. QED
    BY <2>4, Zenon DEF Splits, SplitOn, a, n
<1> DEFINE R == CHOOSE x : Splits(s, c, x)
<1>6. Splits(s, c, R)
  BY <1>5, Zenon
<1>7. split(s, c) = R[n]
  BY Zenon DEF split, Splits, n
<1> HIDE DEF R
<1>8. R[0] = a /\ \A i \in 1 .. n : R[i] = SplitOn(R[i - 1], s[i], c)
  <2>1. R = [i \in 0 .. n |-> IF i = 0 THEN a ELSE SplitOn(R[i - 1], s[i], c)]
    BY <1>6, Zenon DEF Splits, SplitOn, a, n
  <2>2. \A i \in 0 .. n : R[i] = IF i = 0 THEN a ELSE SplitOn(R[i - 1], s[i], c)
    BY <2>1, Zenon
  <2>3. 0 \in 0 .. n /\ \A i \in 1 .. n : i \in 0 .. n /\ i # 0
    BY <1>1
  <2>4. QED
    BY <2>2, <2>3, Zenon
<1> DEFINE P == {i \in 0 .. n : R[i] \in X}
<1>9. 0 \in P
  BY <1>1, <1>8
<1>10. ASSUME NEW k \in 0 .. n - 1, k \in P PROVE k + 1 \in P
  <2>1. PICK i \in 1 .. n : i = k + 1
    BY <1>1
  <2>2. i - 1 = k /\ i \in 0 .. n
    BY <1>1, <2>1
  <2>3. R[i] = SplitOn(R[k], s[i], c) /\ R[k] \in X /\ s[i] \in Character
    BY <1>1, <1>8, <1>10, <2>2
  <2>4. R[i] \in X
    BY <2>3, SplitOnType DEF X
  <2>5. QED
    BY <2>1, <2>2, <2>4
<1> HIDE DEF P
<1>11. 0 .. n \subseteq P
  BY <1>1, <1>9, <1>10, 0 \in Int, n \in Int, IntervalUp, Zenon
<1>12. \A i \in 0 .. n : R[i] \in SomeParts
  BY <1>11 DEF P, X
<1>13. \A i \in 1 .. n : i - 1 \in 0 .. n /\ i \in 0 .. n
  BY <1>1
<1>14. QED
  BY <1>7, <1>8, <1>9, <1>12, <1>13, Zenon DEF a, n, P, X

\* what separates is no part of any, and nothing else is left out
LEMMA SplitHolds ==
  ASSUME NEW s \in Text, NEW c
  PROVE  /\ split(s, c) \in SomeParts
         /\ \A i \in 1 .. Len(s) : s[i] # c =>
              \E k \in DOMAIN split(s, c) : s[i] \in Range(split(s, c)[k])
<1> DEFINE n == Len(s)
           Holds(p, k) == \A i \in 1 .. k : s[i] # c => \E j \in DOMAIN p : s[i] \in Range(p[j])
<1>1. n \in Nat /\ \A i \in 1 .. n : s[i] \in Character
  BY LenProperties, ElementOfSeq DEF Text
<1>2. PICK R : /\ R[0] \in SomeParts
               /\ \A i \in 1 .. n : /\ R[i - 1] \in SomeParts
                                    /\ R[i] = SplitOn(R[i - 1], s[i], c)
                                    /\ R[i] \in SomeParts
               /\ split(s, c) = R[n]
  BY SplitIs
<1> DEFINE P == {k \in 0 .. n : Holds(R[k], k)}
<1> HIDE DEF n
<1>3. 0 \in P
  BY <1>1
<1>4. ASSUME NEW k \in 0 .. n - 1, k \in P PROVE k + 1 \in P
  <2>1. PICK m \in 1 .. n : m = k + 1
    BY <1>1
  <2>2. m - 1 = k /\ m \in 0 .. n
    BY <1>1, <2>1
  <2> DEFINE p == R[k]
             q == R[m]
  <2>3. p \in SomeParts /\ q = SplitOn(p, s[m], c) /\ s[m] \in Character
    BY <1>1, <1>2, <2>2
  <2>4. Holds(p, k)
    BY <1>4
  <2> HIDE DEF p, q
  <2>5. /\ Front(p) \in Seq(Text) /\ Last(p) \in Text /\ p \in Seq(Text)
        /\ Len(p) \in Nat /\ Len(p) > 0 /\ Last(p) = p[Len(p)]
        /\ Front(p) = SubSeq(p, 1, Len(p) - 1)
    BY <2>3, SplitOnType, LenProperties, EmptySeq DEF SomeParts, Front, Last
  <2>6. ASSUME NEW j \in DOMAIN p PROVE j \in DOMAIN q /\ Range(p[j]) \subseteq Range(q[j])
    <3>1. CASE s[m] = c
      <4>1. q = Append(p, << >>)
        BY <2>3, <3>1 DEF SplitOn
      <4>2. QED
        BY <2>5, <2>6, <4>1
    <3>2. CASE s[m] # c
      <4> DEFINE w == Append(Last(p), s[m])
      <4>1. q = Append(Front(p), w)
        BY <2>3, <3>2 DEF SplitOn
      <4>2. Len(Front(p)) = Len(p) - 1 /\ \A i \in 1 .. Len(p) - 1 : Front(p)[i] = p[i]
        <5>1. Len(p) - 1 \in Nat /\ 1 <= (Len(p) - 1) + 1 /\ Len(p) - 1 <= Len(p)
          BY <2>5
        <5>2. Len(SubSeq(p, 1, Len(p) - 1)) = Len(p) - 1
              /\ \A i \in 1 .. Len(p) - 1 : SubSeq(p, 1, Len(p) - 1)[i] = p[i]
          BY <2>5, <5>1, PrefixOf
        <5>3. QED
          BY <2>5, <5>2
      <4>3. j \in 1 .. Len(p)
        BY <2>5, <2>6
      <4> HIDE DEF w
      <4>4. Len(q) = Len(p) /\ q[Len(p)] = w /\ DOMAIN q = 1 .. Len(p)
            /\ \A i \in 1 .. Len(p) - 1 : q[i] = p[i]
        BY <2>5, <4>1, <4>2, AppendGrows
      <4>5. Range(Last(p)) \subseteq Range(w)
        <5>1. Len(Last(p)) \in Nat /\ DOMAIN Last(p) = 1 .. Len(Last(p))
              /\ DOMAIN w = 1 .. Len(Last(p)) + 1 /\ \A i \in 1 .. Len(Last(p)) : w[i] = Last(p)[i]
          BY <2>5, AppendGrows, LenProperties DEF w, Text
        <5>2. QED
          BY <5>1 DEF Range
      <4>6. QED
        BY <2>5, <4>3, <4>4, <4>5
    <3>3. QED
      BY <3>1, <3>2
  <2>7. s[m] # c => \E j \in DOMAIN q : s[m] \in Range(q[j])
    <3> SUFFICES ASSUME s[m] # c PROVE \E j \in DOMAIN q : s[m] \in Range(q[j])
      OBVIOUS
    <3> DEFINE w == Append(Last(p), s[m])
    <3>1. q = Append(Front(p), w)
      BY <2>3 DEF SplitOn
    <3>2. Len(Last(p)) + 1 \in DOMAIN w /\ w[Len(Last(p)) + 1] = s[m]
      BY <2>5, AppendGrows, LenProperties DEF Text
    <3> HIDE DEF w
    <3>3. Len(Front(p)) + 1 \in DOMAIN q /\ q[Len(Front(p)) + 1] = w
      BY <2>5, <3>1, AppendGrows, LenProperties
    <3>4. QED
      BY <3>2, <3>3 DEF Range
  <2>8. \A i \in 1 .. m : i \in 1 .. k \/ i = m
    BY <2>1
  <2>9. Holds(q, m)
    <3> SUFFICES ASSUME NEW i \in 1 .. m, s[i] # c PROVE \E j \in DOMAIN q : s[i] \in Range(q[j])
      OBVIOUS
    <3>1. CASE i = m
      BY <2>7, <3>1
    <3>2. CASE i \in 1 .. k
      BY <2>4, <2>6, <3>2
    <3>3. QED
      BY <2>8, <3>1, <3>2
  <2>10. QED
    BY <2>1, <2>2, <2>9 DEF q
<1> HIDE DEF P
<1>5. 0 .. n \subseteq P
  BY <1>1, <1>3, <1>4, 0 \in Int, n \in Int, IntervalUp, Zenon
<1>6. n \in P
  BY <1>1, <1>5
<1>7. R[n] \in SomeParts
  <2>1. n = 0 \/ n \in 1 .. n
    BY <1>1
  <2>2. QED
    BY <1>2, <2>1
<1>8. QED
  BY <1>2, <1>6, <1>7 DEF P, n

groups_of(t) == IF t = << >> THEN << >> ELSE split(t, ":")

LEMMA GroupsHold ==
  ASSUME NEW t \in Text
  PROVE  /\ groups_of(t) \in Seq(Text)
         /\ (\A k \in DOMAIN groups_of(t) : is_h16(groups_of(t)[k]))
              => \A i \in 1 .. Len(t) : t[i] \in HexDigit \cup {":"}
<1>1. CASE t = << >>
  <2>1. groups_of(t) = << >> /\ Len(t) = 0
    BY <1>1, EmptySeq DEF groups_of
  <2>2. QED
    BY <2>1, EmptySeq
<1>2. CASE t # << >>
  <2>1. groups_of(t) = split(t, ":")
    BY <1>2 DEF groups_of
  <2>2. /\ split(t, ":") \in Seq(Text)
        /\ \A i \in 1 .. Len(t) : t[i] # ":" =>
             \E k \in DOMAIN split(t, ":") : t[i] \in Range(split(t, ":")[k])
    BY SplitHolds DEF SomeParts
  <2>3. ASSUME \A k \in DOMAIN groups_of(t) : is_h16(groups_of(t)[k]), NEW i \in 1 .. Len(t)
        PROVE  t[i] \in HexDigit \cup {":"}
    BY <2>1, <2>2, <2>3, Zenon DEF is_h16
  <2>4. QED
    BY <2>1, <2>2, <2>3
<1>3. QED
  BY <1>1, <1>2

\* an address has hexadecimal digits and colons only
LEMMA AddressChars ==
  ASSUME NEW s \in Text, validate_ipv6(s)
  PROVE  \A i \in 1 .. Len(s) : s[i] \in HexDigit \cup {":"}
<1> DEFINE n == Len(s)
           elisions == {i \in 1 .. Len(s) - 1 : s[i] = ":" /\ s[i + 1] = ":"}
           cut == IF elisions = {} THEN Len(s) + 1 ELSE CHOOSE i \in elisions : TRUE
           before == groups_of(SubSeq(s, 1, cut - 1))
           after == groups_of(SubSeq(s, cut + 2, Len(s)))
<1>1. \A i \in DOMAIN (before \o after) : is_h16((before \o after)[i])
  BY Zenon DEF validate_ipv6, groups_of
<1>2. n \in Nat /\ (cut = n + 1 \/ (cut \in 1 .. n - 1 /\ s[cut] = ":" /\ s[cut + 1] = ":"))
  <2>1. n \in Nat
    BY LenProperties DEF Text
  <2>2. CASE elisions = {}
    <3>1. cut = n + 1
      BY <2>2, Zenon
    <3>2. QED
      BY <2>1, <3>1
  <2>3. CASE elisions # {}
    <3>1. cut \in elisions
      BY <2>3
    <3> HIDE DEF cut
    <3>2. QED
      BY <2>1, <3>1
  <2>4. QED
    BY <2>2, <2>3
<1> HIDE DEF cut
<1>3. /\ SubSeq(s, 1, cut - 1) \in Text /\ Len(SubSeq(s, 1, cut - 1)) = cut - 1
      /\ \A i \in 1 .. cut - 1 : SubSeq(s, 1, cut - 1)[i] = s[i]
  <2>1. cut - 1 \in Nat /\ cut - 1 <= Len(s)
    BY <1>2
  <2>2. QED
    BY <2>1, PrefixOf DEF Text
<1>4. /\ SubSeq(s, cut + 2, n) \in Text
      /\ \A i \in cut + 2 .. n : /\ i - (cut + 1) \in 1 .. Len(SubSeq(s, cut + 2, n))
                                 /\ SubSeq(s, cut + 2, n)[i - (cut + 1)] = s[i]
  <2>1. CASE cut = n + 1
    <3>1. SubSeq(s, cut + 2, n) = << >> /\ cut + 2 .. n = {}
      BY <1>2, <2>1
    <3>2. QED
      BY <3>1, EmptySeq DEF Text
  <2>2. CASE cut # n + 1
    <3>1. cut + 2 \in Nat \ {0} /\ n \in Nat /\ cut + 2 <= n + 1 /\ n <= Len(s)
      BY <1>2, <2>2
    <3> DEFINE a == cut + 2
    <3> HIDE DEF n, a
    <3>2. /\ SubSeq(s, a, n) \in Text /\ Len(SubSeq(s, a, n)) = n - a + 1
          /\ \A i \in 1 .. n - a + 1 : SubSeq(s, a, n)[i] = s[a + i - 1]
      BY <3>1, PieceOf DEF Text, a
    <3>3. \A i \in a .. n : i - (cut + 1) \in 1 .. n - a + 1 /\ a + (i - (cut + 1)) - 1 = i
      <4>1. a = cut + 2 /\ n \in Nat /\ cut \in Nat
        BY <1>2, <2>2 DEF a, n
      <4>2. QED
        BY <4>1
    <3>4. \A i \in a .. n : i - (cut + 1) \in 1 .. Len(SubSeq(s, a, n)) /\ SubSeq(s, a, n)[i - (cut + 1)] = s[i]
      BY <3>2, <3>3
    <3>5. QED
      BY <3>2, <3>4 DEF a, n
  <2>3. QED
    BY <2>1, <2>2
<1>5. before \in Seq(Text) /\ after \in Seq(Text)
  BY <1>3, <1>4, GroupsHold
<1>6. (\A i \in DOMAIN before : is_h16(before[i])) /\ (\A i \in DOMAIN after : is_h16(after[i]))
  <2> HIDE DEF before, after
  <2>1. /\ DOMAIN before = 1 .. Len(before) /\ DOMAIN after = 1 .. Len(after)
        /\ Len(before) \in Nat /\ Len(after) \in Nat
    BY <1>5, LenProperties
  <2>2. /\ DOMAIN (before \o after) = 1 .. Len(before) + Len(after)
        /\ \A i \in 1 .. Len(before) : (before \o after)[i] = before[i]
        /\ \A i \in 1 .. Len(after) : (before \o after)[Len(before) + i] = after[i]
    BY <1>5, <2>1
  <2>3. \A i \in 1 .. Len(before) : i \in DOMAIN (before \o after)
    BY <2>1, <2>2
  <2>4. \A i \in 1 .. Len(after) : Len(before) + i \in DOMAIN (before \o after)
    BY <2>1, <2>2
  <2>5. QED
    BY <1>1, <2>1, <2>2, <2>3, <2>4
<1>7. /\ \A i \in 1 .. cut - 1 : s[i] \in HexDigit \cup {":"}
      /\ \A i \in cut + 2 .. n : s[i] \in HexDigit \cup {":"}
  <2>1. \A i \in 1 .. Len(SubSeq(s, 1, cut - 1)) : SubSeq(s, 1, cut - 1)[i] \in HexDigit \cup {":"}
    BY <1>3, <1>6, GroupsHold
  <2>2. \A i \in 1 .. Len(SubSeq(s, cut + 2, n)) : SubSeq(s, cut + 2, n)[i] \in HexDigit \cup {":"}
    BY <1>4, <1>6, GroupsHold
  <2> HIDE DEF n
  <2>3. QED
    BY <1>3, <1>4, <2>1, <2>2, Zenon
<1>8. \A i \in 1 .. n : i \in 1 .. cut - 1 \/ i \in cut + 2 .. n \/ i = cut \/ i = cut + 1
  BY <1>2
<1>9. QED
  BY <1>2, <1>7, <1>8

-----------------------------------------------------------------------------
(***************************************************************************)
(* The length of a text.                                                   *)
(***************************************************************************)

LEMMA WidthIs ==
  ASSUME NEW c
  PROVE  width(c) \in {1, 3, 7, 8}
BY DEF width

Measures(text, x) ==
  x = [i \in 0 .. Len(text) |-> IF i = 0 THEN 0 ELSE x[i - 1] + width(text[i])]

LEMMA LengthIs ==
  ASSUME NEW s \in Text
  PROVE  \E R : /\ R[0] = 0
                /\ \A i \in 1 .. Len(s) : R[i] = R[i - 1] + width(s[i])
                /\ \A i \in 0 .. Len(s) : R[i] \in Nat
                /\ uri_len(s) = R[Len(s)]
<1> DEFINE n == Len(s)
           X == Nat
           h == [p \in X \X (1 .. n) |-> p[1] + width(s[p[2]])]
<1>1. n \in Nat /\ 0 \in X
  BY LenProperties DEF Text
<1>2. h \in [X \X (1 .. n) -> X] /\ \A x \in X : \A i \in 1 .. n : h[<<x, i>>] = x + width(s[i])
  <2>1. \A x \in X : \A i \in 1 .. n : x + width(s[i]) \in X
    <3> SUFFICES ASSUME NEW x \in X, NEW i \in 1 .. n PROVE x + width(s[i]) \in X
      OBVIOUS
    <3>1. width(s[i]) \in Nat
      BY WidthIs
    <3>2. QED
      BY <3>1
  <2> HIDE DEF X, n
  <2>2. QED
    BY <2>1
<1> HIDE DEF h, X, n
<1>3. PICK f \in [0 .. n -> X] : Steps(f, 0, h, n)
  BY <1>1, <1>2, StepsExist, Zenon
<1>4. f[0] = 0 /\ \A i \in 1 .. n : f[i] = f[i - 1] + width(s[i])
  <2>1. \A i \in 1 .. n : i - 1 \in 0 .. n /\ f[i - 1] \in X
    <3>1. \A i \in 1 .. n : i - 1 \in 0 .. n
      BY <1>1
    <3>2. QED
      BY <1>3, <3>1
  <2>2. f[0] = 0 /\ \A i \in 1 .. n : f[i] = h[<<f[i - 1], i>>]
    BY <1>3 DEF Steps
  <2>3. QED
    BY <1>2, <2>1, <2>2, Zenon
<1>5. Measures(s, f)
  <2>1. \A i \in 0 .. n : (i \in 1 .. n \/ i = 0) /\ (i \in 1 .. n => i # 0)
    BY <1>1
  <2>2. \A i \in 0 .. n : f[i] = IF i = 0 THEN 0 ELSE f[i - 1] + width(s[i])
    BY <1>4, <2>1, Zenon
  <2>3. f = [i \in 0 .. n |-> f[i]]
    BY <1>3
  <2>4. QED
    BY <2>2, <2>3, Zenon DEF Measures, n
<1> DEFINE R == CHOOSE x : Measures(s, x)
<1>6. Measures(s, R)
  BY <1>5, Zenon
<1>7. uri_len(s) = R[n]
  BY Zenon DEF uri_len, Measures, n
<1> HIDE DEF R
<1>8. R[0] = 0 /\ \A i \in 1 .. n : R[i] = R[i - 1] + width(s[i])
  <2>1. \A i \in 0 .. n : R[i] = IF i = 0 THEN 0 ELSE R[i - 1] + width(s[i])
    BY <1>6, Zenon DEF Measures, n
  <2>2. 0 \in 0 .. n /\ \A i \in 1 .. n : i \in 0 .. n /\ i # 0
    BY <1>1
  <2>3. QED
    BY <2>1, <2>2, Zenon
<1> DEFINE P == {i \in 0 .. n : R[i] \in Nat}
<1>9. 0 \in P
  BY <1>1, <1>8
<1>10. ASSUME NEW k \in 0 .. n - 1, k \in P PROVE k + 1 \in P
  <2>1. PICK i \in 1 .. n : i = k + 1
    BY <1>1
  <2>2. i - 1 = k /\ i \in 0 .. n
    BY <1>1, <2>1
  <2>3. R[i] = R[k] + width(s[i]) /\ R[k] \in Nat /\ width(s[i]) \in Nat
    BY <1>8, <1>10, <2>2, WidthIs
  <2>4. QED
    BY <2>1, <2>2, <2>3
<1> HIDE DEF P
<1>11. 0 .. n \subseteq P
  BY <1>1, <1>9, <1>10, 0 \in Int, n \in Int, IntervalUp, Zenon
<1>12. \A i \in 0 .. n : R[i] \in Nat
  BY <1>11 DEF P
<1>13. QED
  BY <1>7, <1>8, <1>12, Zenon DEF n

\* a text is empty when it has no length
LEMMA LengthOfText ==
  ASSUME NEW s \in Text
  PROVE  uri_len(s) \in Nat /\ (uri_len(s) = 0 <=> s = << >>)
<1>1. Len(s) \in Nat /\ (s = << >> <=> Len(s) = 0)
  BY LenProperties, EmptySeq DEF Text
<1>2. PICK R : /\ R[0] = 0
               /\ \A i \in 1 .. Len(s) : R[i] = R[i - 1] + width(s[i])
               /\ \A i \in 0 .. Len(s) : R[i] \in Nat
               /\ uri_len(s) = R[Len(s)]
  BY LengthIs
<1>3. CASE Len(s) = 0
  BY <1>1, <1>2, <1>3
<1>4. CASE Len(s) # 0
  <2>1. Len(s) \in 1 .. Len(s) /\ Len(s) - 1 \in 0 .. Len(s) /\ Len(s) \in 0 .. Len(s)
    BY <1>1, <1>4
  <2>2. R[Len(s)] = R[Len(s) - 1] + width(s[Len(s)]) /\ R[Len(s) - 1] \in Nat /\ R[Len(s)] \in Nat
    BY <1>2, <2>1
  <2>3. width(s[Len(s)]) \in Nat \ {0}
    BY WidthIs
  <2>4. uri_len(s) # 0 /\ uri_len(s) \in Nat
    BY <1>2, <2>2, <2>3
  <2>5. QED
    BY <1>1, <1>4, <2>4
<1>5. QED
  BY <1>3, <1>4

-----------------------------------------------------------------------------
(***************************************************************************)
(* Classes of characters of identifiers.                                   *)
(***************************************************************************)

LEMMA DecimalDigitIs == DecimalDigit = {"0", "1", "2", "3", "4", "5", "6", "7", "8", "9"}
BY DEF DecimalDigit, Range, Digits

LEMMA EscapeIs ==
  /\ DOMAIN Escape = {"%2e", "%2E", "%39", "%61", "%41", "%2f", "%2F", "%40"}
  /\ Escape["%2e"] = "." /\ Escape["%2E"] = "." /\ Escape["%39"] = "9" /\ Escape["%61"] = "a"
  /\ Escape["%41"] = "A" /\ Escape["%2f"] = "%2F" /\ Escape["%2F"] = "%2F" /\ Escape["%40"] = "%40"
BY DEF Escape

\* what may be in a URI at all
UriByte == Unreserved \cup SubDelim \cup UriPunct \cup DOMAIN Escape

LEMMA CharacterClasses ==
  /\ HexDigit \cup {":"} \subseteq UserinfoChar
  /\ DecimalDigit \subseteq HexDigit
  /\ ":" \notin DecimalDigit
  /\ UserinfoChar \cap {"@", "[", "]", "/", "?", "#"} = {}
  /\ QueryChar = UserinfoChar \cup {"@", "/", "?"}
  /\ UriByte = UserinfoChar \cup {"@", "/", "?", "#", "[", "]"}
  /\ SchemeChar \subseteq UserinfoChar \ {":"}
  /\ "]" \notin HexDigit
<1>1. UserinfoChar = {"0", "1", "2", "3", "4", "5", "6", "7", "8", "9", "a", "f", "A", "F", "v", "-", ".",
                      "+", "%2e", "%2E", "%39", "%61", "%41", "%2f", "%2F", "%40", ":"}
  BY DecimalDigitIs, EscapeIs DEF UserinfoChar, Unreserved, HexDigit, SubDelim
<1>2. HexDigit = {"0", "1", "2", "3", "4", "5", "6", "7", "8", "9", "a", "f", "A", "F"}
  BY DecimalDigitIs DEF HexDigit
<1>3. HexDigit \cup {":"} \subseteq UserinfoChar /\ DecimalDigit \subseteq HexDigit
      /\ ":" \notin DecimalDigit /\ "]" \notin HexDigit
  BY <1>1, <1>2, DecimalDigitIs
<1>4. UserinfoChar \cap {"@", "[", "]", "/", "?", "#"} = {}
  BY <1>1
<1>5. QueryChar = UserinfoChar \cup {"@", "/", "?"}
  BY DEF QueryChar
<1>6. UriByte = UserinfoChar \cup {"@", "/", "?", "#", "[", "]"}
  BY DEF UriByte, UriPunct, UserinfoChar
<1>7. SchemeChar \subseteq UserinfoChar \ {":"}
  BY <1>1, DecimalDigitIs DEF SchemeChar, Letter
<1>8. QED
  BY <1>3, <1>4, <1>5, <1>6, <1>7

\* a piece to the end, of which there may be nothing
LEMMA TailOf ==
  ASSUME NEW s \in Text, NEW k \in Nat \ {0}, k <= Len(s) + 1
  PROVE  /\ text_from(s, k) \in Text /\ Len(text_from(s, k)) = Len(s) - k + 1
         /\ \A i \in 1 .. Len(s) - k + 1 : text_from(s, k)[i] = s[k + i - 1]
         /\ text_from(s, k) = << >> <=> k = Len(s) + 1
<1>1. Len(s) \in Nat
  BY LenProperties DEF Text
<1>2. /\ text_from(s, k) \in Text /\ Len(text_from(s, k)) = Len(s) - k + 1
      /\ \A i \in 1 .. Len(s) - k + 1 : text_from(s, k)[i] = s[k + i - 1]
  BY <1>1, PieceOf DEF Text, text_from
<1>3. text_from(s, k) = << >> <=> Len(text_from(s, k)) = 0
  BY <1>2, EmptySeq DEF Text
<1>4. QED
  BY <1>1, <1>2, <1>3

LEMMA PortIs ==
  ASSUME NEW s \in Text, NEW k \in Nat \ {0}, k <= Len(s) + 1
  PROVE  port_suffix(text_from(s, k)) <=>
           \/ k = Len(s) + 1
           \/ s[k] = ":" /\ \A i \in k + 1 .. Len(s) : s[i] \in DecimalDigit
<1> DEFINE t == text_from(s, k)
<1>1. Len(s) \in Nat
  BY LenProperties DEF Text
<1>2. /\ t \in Text /\ Len(t) = Len(s) - k + 1 /\ (t = << >> <=> k = Len(s) + 1)
      /\ \A i \in 1 .. Len(s) - k + 1 : t[i] = s[k + i - 1]
  BY TailOf
<1>3. CASE k = Len(s) + 1
  BY <1>2, <1>3 DEF port_suffix
<1>4. CASE k # Len(s) + 1
  <2>1. 1 \in 1 .. Len(s) - k + 1 /\ k + 1 - 1 = k
    BY <1>1, <1>4
  <2>2. t[1] = s[k]
    BY <1>2, <2>1
  <2>3. Tail(t) = SubSeq(t, 2, Len(t))
    <3>1. t \in Seq(Character) /\ t # << >>
      BY <1>2, <1>4 DEF Text
    <3> HIDE DEF t
    <3>2. QED
      BY <3>1
  <2>4. SubSeq(t, 2, Len(t)) = SubSeq(s, k + 1, Len(s))
    <3>1. k + 2 - 1 = k + 1 /\ k + Len(t) - 1 = Len(s) /\ Len(t) \in Int /\ 2 \in Nat \ {0}
      BY <1>1, <1>2
    <3>2. SubSeq(SubSeq(s, k, Len(s)), 2, Len(t)) = SubSeq(s, k + 2 - 1, k + Len(t) - 1)
      BY <1>1, <1>2, <3>1, PieceOfPiece
    <3>3. QED
      BY <3>1, <3>2 DEF text_from
  <2>5. Range(SubSeq(s, k + 1, Len(s))) \subseteq DecimalDigit
          <=> \A i \in k + 1 .. Len(s) : s[i] \in DecimalDigit
    <3>1. k + 1 \in Nat \ {0} /\ Len(s) \in Int /\ Len(s) <= Len(s)
      BY <1>1
    <3>2. QED
      BY <3>1, PieceIn
  <2> HIDE DEF t
  <2>6. port_suffix(t) <=> t[1] = ":" /\ digits_only(Tail(t))
    BY <1>2, <1>4 DEF port_suffix
  <2>7. QED
    BY <1>4, <2>2, <2>3, <2>4, <2>5, <2>6 DEF digits_only, t
<1>5. QED
  BY <1>3, <1>4

-----------------------------------------------------------------------------
(***************************************************************************)
(* The type in a header tells the kinds apart and the version in a payload *)
(* the majors, so that two parsers that take one message are the same.     *)
(***************************************************************************)
LEMMA TypesDiffer ==
  ASSUME NEW k \in StandardKind \cup SiblingKind, NEW l \in StandardKind \cup SiblingKind,
         typ(k) = typ(l)
  PROVE  k = l
  BY DEF typ, StandardKind, SiblingKind

LEMMA ReadersAgree ==
  ASSUME NEW p \in Profile, NEW q \in Profile, NEW m, parse(p, m), parse(q, m)
  PROVE  p = q
<1>1. /\ p = [kind |-> p.kind, major |-> p.major]
      /\ q = [kind |-> q.kind, major |-> q.major]
      /\ p.kind \in StandardKind \cup SiblingKind
      /\ q.kind \in StandardKind \cup SiblingKind
  BY DEF Profile
<1>2. typ(p.kind) = typ(q.kind)
  BY DEF parse, header
<1>3. p.kind = q.kind
  BY <1>1, <1>2, TypesDiffer
<1>4. p.major = q.major
  BY DEF parse
<1>. QED  BY <1>1, <1>3, <1>4

\* an assembler reads a kind it takes as a profile there is, and every profile has one
LEMMA AssemblersHaveProfiles ==
  ASSUME NEW a \in Assembler, NEW kind \in kinds_of(a)
  PROVE  profile_of(a, kind) \in Profile
<1>1. CASE a = "v2"
  BY <1>1 DEF Assembler, kinds_of, profile_of, major_of, Profile
<1>2. CASE a = "v3"
  BY <1>2 DEF Assembler, kinds_of, profile_of, major_of, Profile
<1>3. CASE a \notin {"v2", "v3"}
  BY <1>3 DEF Assembler, kinds_of, profile_of, major_of, Profile, StandardKind, SiblingKind
<1>. QED  BY <1>1, <1>2, <1>3

LEMMA ProfilesHaveAssemblers ==
  ASSUME NEW p \in Profile
  PROVE  \E a \in Assembler :
           major_of(a) = p.major /\ p.kind \in kinds_of(a) /\ profile_of(a, p.kind) = p
<1>. DEFINE a == CASE p.kind = "LocalLoopbackHttpProof" -> "v1_loopback"
                   [] p.kind = "RoleAttestation"        -> "role_attestation"
                   [] p.kind = "ContentAssertion"       -> "content_assertion"
                   [] OTHER -> IF p.major = 1 THEN "v1" ELSE IF p.major = 2 THEN "v2" ELSE "v3"
<1>1. p.kind \in StandardKind \cup SiblingKind /\ p.major \in 1 .. 3
      /\ p = [kind |-> p.kind, major |-> p.major]
      /\ (p.kind \in SiblingKind => p.major = 1)
  BY DEF Profile, StandardKind, SiblingKind
<1>2. a \in Assembler
  BY DEF Assembler
<1>3. major_of(a) = p.major
  BY <1>1 DEF major_of, StandardKind, SiblingKind
<1>4. p.kind \in kinds_of(a)
  BY <1>1 DEF kinds_of, StandardKind, SiblingKind
<1>. QED  BY <1>1, <1>2, <1>3, <1>4 DEF profile_of

\* what a producer makes is read back by the parser of its profile
LEMMA ProducedParses ==
  ASSUME NEW p \in Profile, NEW keys \in payload_keys(p.kind)
  PROVE  parse(p, produced(p, keys))
  BY DEF parse, produced

-----------------------------------------------------------------------------
(***************************************************************************)
(* The inductive invariant: honest signatures are of messages producers    *)
(* made, each for the profile it is filed under.                           *)
(***************************************************************************)
IInv ==
  /\ InputsAreProduced
  /\ SignedWasProduced
  /\ SignerMeantIt
  /\ OneReader

LEMMA InitInv == Init => IInv
  BY DEF Init, IInv, InputsAreProduced, SignedWasProduced, SignerMeantIt, OneReader

LEMMA ProduceStep == IInv /\ Produce => IInv'
<1>. SUFFICES ASSUME IInv, Produce PROVE IInv'
  OBVIOUS
<1>1. PICK p \in Profile : \E keys \in payload_keys(p.kind) :
        inputs' = inputs \cup {[profile |-> p, message |-> produced(p, keys)]}
  BY DEF Produce
<1>2. PICK keys \in payload_keys(p.kind) :
        inputs' = inputs \cup {[profile |-> p, message |-> produced(p, keys)]}
  BY <1>1
<1>3. signed' = signed /\ assembled' = assembled /\ accepted' = accepted
  BY DEF Produce
<1>4. InputsAreProduced'
  BY <1>2 DEF IInv, InputsAreProduced
<1>5. SignedWasProduced'
  BY <1>2, <1>3 DEF IInv, SignedWasProduced
<1>6. SignerMeantIt'
  BY <1>2, <1>3 DEF IInv, SignerMeantIt
<1>7. OneReader'
  BY <1>3 DEF IInv, OneReader
<1>. QED  BY <1>4, <1>5, <1>6, <1>7 DEF IInv

LEMMA SignStep == IInv /\ Sign => IInv'
<1>. SUFFICES ASSUME IInv, Sign PROVE IInv'
  OBVIOUS
<1>1. PICK key \in Key, scalar \in {"canonical", "shifted"} :
        \E m \in IF key \in HonestKey THEN {i.message : i \in inputs} ELSE Forged :
          signed' = signed \cup {[message |-> m, key |-> key, scalar |-> scalar]}
  BY DEF Sign
<1>2. PICK m \in IF key \in HonestKey THEN {i.message : i \in inputs} ELSE Forged :
        signed' = signed \cup {[message |-> m, key |-> key, scalar |-> scalar]}
  BY <1>1
<1>3. inputs' = inputs /\ assembled' = assembled /\ accepted' = accepted
  BY DEF Sign
<1>4. key \in HonestKey => \E i \in inputs : i.message = m
  BY <1>2
<1>5. SignedWasProduced'
  BY <1>2, <1>3, <1>4 DEF IInv, SignedWasProduced
<1>6. InputsAreProduced' /\ SignerMeantIt' /\ OneReader'
  BY <1>3 DEF IInv, InputsAreProduced, SignerMeantIt, OneReader
<1>. QED  BY <1>5, <1>6 DEF IInv

LEMMA AssembleStep == IInv /\ Assemble => IInv'
<1>. SUFFICES ASSUME IInv, Assemble PROVE IInv'
  OBVIOUS
<1>1. PICK a \in Assembler, kind \in StandardKind \cup SiblingKind, m \in Message, s \in signed :
        /\ assemble(a, kind, m, s)
        /\ assembled' = assembled \cup
             {[profile |-> profile_of(a, kind), message |-> m, signature |-> s]}
  BY DEF Assemble
<1>. DEFINE p == profile_of(a, kind)
<1>2. inputs' = inputs /\ signed' = signed /\ accepted' = accepted
  BY DEF Assemble
<1>3. {q \in Profile : parse(q, m)} = {p}
  <2>1. p \in Profile /\ parse(p, m)
    BY <1>1, AssemblersHaveProfiles DEF assemble
  <2>2. ASSUME NEW q \in Profile, parse(q, m) PROVE q = p
    BY <2>1, <2>2, ReadersAgree
  <2>. QED  BY <2>1, <2>2
<1>4. ASSUME NEW c \in assembled'
      PROVE  {q \in Profile : parse(q, c.message)} = {c.profile}
  <2>1. CASE c \in assembled
    BY <2>1 DEF IInv, OneReader
  <2>2. CASE c = [profile |-> p, message |-> m, signature |-> s]
    <3>1. c.profile = p /\ c.message = m
      BY <2>2
    <3>. QED  BY <3>1, <1>3
  <2>. QED  BY <1>1, <2>1, <2>2
<1>5. OneReader'
  BY <1>4 DEF OneReader
<1>6. InputsAreProduced' /\ SignedWasProduced' /\ SignerMeantIt'
  BY <1>2 DEF IInv, InputsAreProduced, SignedWasProduced, SignerMeantIt
<1>. QED  BY <1>5, <1>6 DEF IInv

LEMMA VerifyStep == IInv /\ Verify => IInv'
<1>. SUFFICES ASSUME IInv, Verify PROVE IInv'
  OBVIOUS
<1>1. PICK p \in Profile, key \in Key, s \in signed :
        \E m \in {s.message} \cup {c.message : c \in assembled} :
          /\ parse(p, m)
          /\ verify_signature(s, m, key, p.major)
          /\ accepted' = accepted \cup {[profile |-> p, key |-> key, message |-> m]}
  BY DEF Verify
<1>2. PICK m :
        /\ parse(p, m)
        /\ verify_signature(s, m, key, p.major)
        /\ accepted' = accepted \cup {[profile |-> p, key |-> key, message |-> m]}
  BY <1>1
<1>3. inputs' = inputs /\ signed' = signed /\ assembled' = assembled
  BY DEF Verify
<1>4. ASSUME key \in HonestKey
      PROVE  [profile |-> p, message |-> m] \in inputs
  <2>1. s.message = m /\ s.key \in HonestKey
    BY <1>2, <1>4 DEF verify_signature
  <2>2. PICK i \in inputs : i.message = m
    BY <2>1 DEF IInv, SignedWasProduced
  <2>3. PICK q \in Profile : \E keys \in payload_keys(q.kind) :
          i = [profile |-> q, message |-> produced(q, keys)]
    BY DEF IInv, InputsAreProduced
  <2>4. PICK keys \in payload_keys(q.kind) :
          i = [profile |-> q, message |-> produced(q, keys)]
    BY <2>3
  <2>5. produced(q, keys) = m
    BY <2>2, <2>4
  <2>6. parse(q, m)
    BY <2>5, ProducedParses
  <2>7. p = q
    BY <1>2, <2>6, ReadersAgree
  <2>. QED  BY <2>4, <2>5, <2>7
<1>5. SignerMeantIt'
  BY <1>2, <1>3, <1>4 DEF IInv, SignerMeantIt
<1>6. InputsAreProduced' /\ SignedWasProduced' /\ OneReader'
  BY <1>3 DEF IInv, InputsAreProduced, SignedWasProduced, OneReader
<1>. QED  BY <1>5, <1>6 DEF IInv

LEMMA Invariance == IInv /\ [Next]_vars => IInv'
<1>1. IInv /\ UNCHANGED vars => IInv'
  BY DEF IInv, vars, InputsAreProduced, SignedWasProduced, SignerMeantIt, OneReader
<1>. QED  BY <1>1, ProduceStep, SignStep, AssembleStep, VerifyStep DEF Next

LEMMA Inductive == Spec => []IInv
  BY InitInv, Invariance, PTL DEF Spec

\* What an honest key signed is accepted for what its producer made it, and for
\* nothing else: decode_grant_parts, decode_proof_parts and their like.
THEOREM Meant == Spec => []SignerMeantIt
<1>1. IInv => SignerMeantIt
  BY DEF IInv
<1>. QED  BY <1>1, Inductive, PTL

\* What an assembler returns is read by one parser, that of its label: assemble_compact
\* of every major and the assemblers of the three sibling profiles.
THEOREM Reader == Spec => []OneReader
<1>1. IInv => OneReader
  BY DEF IInv
<1>. QED  BY <1>1, Inductive, PTL

\* What a producer made and its signer signed is refused neither by an assembler
\* of its major nor by its reader: the signing inputs, assemblers and parsers of every kind.
THEOREM Taken == Spec => []ProducedIsTaken
<1>1. IInv => ProducedIsTaken
  <2>. SUFFICES ASSUME IInv, NEW i \in inputs, NEW s \in signed,
                       s.message = i.message,
                       s.key \in suite_keys(i.profile.major),
                       s.scalar = "canonical"
                PROVE  /\ \E a \in Assembler : /\ major_of(a) = i.profile.major
                                               /\ assemble(a, i.profile.kind, i.message, s)
                       /\ parse(i.profile, i.message)
                       /\ verify_signature(s, i.message, s.key, i.profile.major)
    BY DEF ProducedIsTaken
  <2>1. PICK p \in Profile : \E keys \in payload_keys(p.kind) :
          i = [profile |-> p, message |-> produced(p, keys)]
    BY DEF IInv, InputsAreProduced
  <2>2. PICK keys \in payload_keys(p.kind) :
          i = [profile |-> p, message |-> produced(p, keys)]
    BY <2>1
  <2>3. i.profile = p /\ i.message = produced(p, keys)
    BY <2>2
  <2>4. parse(p, i.message)
    BY <2>3, ProducedParses
  <2>5. signature_gate(s)
    BY DEF signature_gate
  <2>6. PICK a \in Assembler :
          major_of(a) = p.major /\ p.kind \in kinds_of(a) /\ profile_of(a, p.kind) = p
    BY ProfilesHaveAssemblers
  <2>7. assemble(a, p.kind, i.message, s)
    BY <2>4, <2>5, <2>6 DEF assemble
  <2>. QED  BY <2>3, <2>4, <2>5, <2>6, <2>7 DEF verify_signature
<1>. QED  BY <1>1, Inductive, PTL
==============================================================================
