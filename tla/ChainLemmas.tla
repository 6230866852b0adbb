----------------------------- MODULE ChainLemmas -----------------------------
(***************************************************************************)
(* What the proofs about rows and about assertions have in common: walking *)
(* along a chain, and sequences that grow at the end.                      *)
(***************************************************************************)
EXTENDS Integers, Sequences, SequenceTheorems, WellFoundedInduction, TLAPS

(***************************************************************************)
(* Walking along an interval.  The predicate is given as a set.            *)
(***************************************************************************)

LEMMA IntervalUp ==
  ASSUME NEW S, NEW lo \in Int, NEW hi \in Int,
         lo \in S, \A i \in lo .. hi - 1 : i \in S => i + 1 \in S
  PROVE  lo .. hi \subseteq S
<1> DEFINE T == {n \in Nat : lo + n <= hi /\ lo + n \notin S}
<1> SUFFICES ASSUME T # {} PROVE FALSE
  <2>1. SUFFICES ASSUME NEW i \in lo .. hi, i \notin S PROVE FALSE
    OBVIOUS
  <2>2. i - lo \in T
    BY <2>1
  <2>3. QED
    BY <2>2
<1>1. PICK x \in T : \A y \in T : ~ (<<y, x>> \in OpToRel(<, Nat))
  <2> HIDE DEF T
  <2>1. T \subseteq Nat
    BY DEF T
  <2>2. QED
    BY <2>1, NatLessThanWellFounded, WFMin
<1>2. x \in Nat /\ x # 0
  OBVIOUS
<1>3. x - 1 \notin T
  <2>1. <<x - 1, x>> \in Nat \X Nat /\ x - 1 < x
    BY <1>2
  <2>2. <<x - 1, x>>[1] = x - 1 /\ <<x - 1, x>>[2] = x
    OBVIOUS
  <2>3. <<x - 1, x>> \in OpToRel(<, Nat)
    <3> DEFINE p == <<x - 1, x>>
    <3>1. p \in Nat \X Nat /\ p[1] < p[2]
      BY <2>1, <2>2
    <3> HIDE DEF p
    <3>2. p \in OpToRel(<, Nat)
      BY <3>1, Zenon DEF OpToRel
    <3>3. QED
      BY <3>2 DEF p
  <2>4. QED
    BY <1>1, <2>3
<1>4. lo + (x - 1) \in S
  BY <1>2, <1>3
<1>5. QED
  BY <1>2, <1>4

LEMMA IntervalDown ==
  ASSUME NEW S, NEW lo \in Int, NEW hi \in Int,
         hi \in S, \A i \in lo + 1 .. hi : i \in S => i - 1 \in S
  PROVE  lo .. hi \subseteq S
<1> DEFINE R == {n \in Int : -n \in S}
<1>1. -hi .. -lo \subseteq R
  <2>1. -hi \in R
    OBVIOUS
  <2>2. ASSUME NEW i \in -hi .. -lo - 1, i \in R PROVE i + 1 \in R
    <3>1. -i \in lo + 1 .. hi
      OBVIOUS
    <3>2. -i - 1 \in S
      BY <2>2, <3>1
    <3>3. -(i + 1) = -i - 1
      OBVIOUS
    <3>4. QED
      BY <3>2, <3>3
  <2>3. -hi \in Int /\ -lo \in Int
    OBVIOUS
  <2> HIDE DEF R
  <2>4. QED
    BY <2>1, <2>2, <2>3, IntervalUp, Zenon
<1>2. ASSUME NEW i \in lo .. hi PROVE i \in S
  <2>1. -i \in R
    BY <1>1
  <2>2. -(-i) = i
    OBVIOUS
  <2>3. QED
    BY <2>1, <2>2
<1>3. QED
  BY <1>2

(***************************************************************************)
(* Sequences that grow at the end.                                         *)
(***************************************************************************)

LEMMA SeqOfItsElements ==
  ASSUME NEW S, NEW s \in Seq(S)
  PROVE  s \in Seq({s[i] : i \in DOMAIN s})
<1>1. Len(s) \in Nat /\ DOMAIN s = 1 .. Len(s) /\ s = [i \in 1 .. Len(s) |-> s[i]]
  BY LenProperties
<1> DEFINE R == {s[i] : i \in DOMAIN s}
<1>2. s \in [1 .. Len(s) -> R]
  BY <1>1
<1>3. QED
  BY <1>1, <1>2

LEMMA AppendGrows ==
  ASSUME NEW S, NEW s \in Seq(S), NEW e
  PROVE  /\ Append(s, e) \in Seq({Append(s, e)[i] : i \in DOMAIN Append(s, e)})
         /\ Len(Append(s, e)) = Len(s) + 1
         /\ DOMAIN Append(s, e) = 1 .. Len(s) + 1
         /\ \A i \in 1 .. Len(s) : Append(s, e)[i] = s[i]
         /\ Append(s, e)[Len(s) + 1] = e
<1> DEFINE T == S \cup {e}
<1>1. s \in Seq(T) /\ e \in T
  BY SeqMonotonic
<1> HIDE DEF T
<1>2. /\ Append(s, e) \in Seq(T)
      /\ Len(Append(s, e)) = Len(s) + 1
      /\ \A i \in 1 .. Len(s) : Append(s, e)[i] = s[i]
      /\ Append(s, e)[Len(s) + 1] = e
  BY <1>1, AppendProperties
<1>3. DOMAIN Append(s, e) = 1 .. Len(s) + 1
  BY <1>2, LenProperties
<1>4. QED
  BY <1>2, <1>3, SeqOfItsElements

\* a piece of a sequence, as a function
LEMMA SubSeqIsFunction ==
  ASSUME NEW S, NEW s \in Seq(S), NEW m \in Nat \ {0}, NEW n \in Nat,
         m <= n, n <= Len(s)
  PROVE  /\ SubSeq(s, m, n) \in Seq(S)
         /\ Len(SubSeq(s, m, n)) = n - m + 1
         /\ SubSeq(s, m, n) = [i \in 1 .. n - m + 1 |-> s[m + i - 1]]
<1>1. \A i \in m .. n : s[i] \in S
  BY LenProperties, ElementOfSeq
<1>2. /\ SubSeq(s, m, n) \in Seq(S)
      /\ Len(SubSeq(s, m, n)) = n - m + 1
      /\ \A i \in 1 .. n - m + 1 : SubSeq(s, m, n)[i] = s[m + i - 1]
  BY <1>1, SubSeqProperties
<1>3. SubSeq(s, m, n) = [i \in 1 .. n - m + 1 |-> SubSeq(s, m, n)[i]]
  BY <1>2, LenProperties
<1>4. QED
  BY <1>2, <1>3

LEMMA AppendKeepsPieces ==
  ASSUME NEW S, NEW s \in Seq(S), NEW e, NEW m \in Nat \ {0}, NEW n \in Nat,
         m <= n, n <= Len(s)
  PROVE  SubSeq(Append(s, e), m, n) = SubSeq(s, m, n)
<1> DEFINE t == Append(s, e)
           T == S \cup {e}
<1>1. Len(s) \in Nat /\ s \in Seq(T) /\ e \in T
  BY LenProperties, SeqMonotonic
<1> HIDE DEF T
<1>2. t \in Seq(T) /\ Len(t) = Len(s) + 1 /\ \A i \in 1 .. Len(s) : t[i] = s[i]
  BY <1>1, AppendProperties
<1> HIDE DEF t
<1>3. SubSeq(t, m, n) = [i \in 1 .. n - m + 1 |-> t[m + i - 1]]
  BY <1>1, <1>2, SubSeqIsFunction
<1>4. SubSeq(s, m, n) = [i \in 1 .. n - m + 1 |-> s[m + i - 1]]
  BY SubSeqIsFunction
<1>5. \A i \in 1 .. n - m + 1 : m + i - 1 \in 1 .. Len(s)
  BY <1>1
<1>6. SubSeq(t, m, n) = SubSeq(s, m, n)
  BY <1>2, <1>3, <1>4, <1>5
<1>7. QED
  BY <1>6 DEF t
=============================================================================
