------------------------------- MODULE Targets_proofs ------------------------
(***************************************************************************)
(* A target has one normal form, which names what the target names, for    *)
(* texts of any length.  The loops of uri.rs are unfolded: a path is       *)
(* followed segment by segment next to a stack on which its dots are       *)
(* resolved, an authority is a host and a port, and a form is read back    *)
(* as the parts it was written from.  Then identifiers, for texts of any   *)
(* length too: addresses by their groups and octets, authorities and URIs  *)
(* by the places of their delimiters, and what the two validators take.    *)
(***************************************************************************)
EXTENDS Codecs_proofs

(***************************************************************************)
(* Parts of a text that grows, or is cut.                                  *)
(***************************************************************************)

\* nothing is a text
LEMMA TextIs == Text = Seq(Character) /\ << >> \in Text
BY EmptySeq DEF Text

\* a sequence with one element more
LEMMA Grown ==
  ASSUME NEW S, NEW s \in Seq(S), NEW e \in S
  PROVE  /\ Append(s, e) \in Seq(S) /\ Len(Append(s, e)) = Len(s) + 1 /\ Len(s) \in Nat
         /\ \A i \in 1 .. Len(s) : Append(s, e)[i] = s[i]
         /\ Append(s, e)[Len(s) + 1] = e
<1>1. Append(s, e) \in Seq(S)
  BY AppendProperties
<1>2. Len(Append(s, e)) = Len(s) + 1
  BY AppendProperties
<1>3. \A i \in 1 .. Len(s) : Append(s, e)[i] = s[i]
  BY AppendProperties
<1>4. Append(s, e)[Len(s) + 1] = e
  BY AppendProperties
<1>5. QED
  BY <1>1, <1>2, <1>3, <1>4, LenProperties

\* a text with one character more
LEMMA TextGrows ==
  ASSUME NEW s \in Text, NEW e \in Character
  PROVE  /\ Append(s, e) \in Text /\ Len(Append(s, e)) = Len(s) + 1 /\ Len(s) \in Nat
         /\ \A i \in 1 .. Len(s) : Append(s, e)[i] = s[i]
         /\ Append(s, e)[Len(s) + 1] = e
BY Grown DEF Text
\* nothing is one part, which is empty
LEMMA SplitEmpty ==
  ASSUME NEW c
  PROVE  split(<< >>, c) = <<<< >>>>
<1>1. << >> \in Text /\ Len(<< >>) = 0
  BY EmptySeq DEF Text
<1>2. QED
  BY <1>1, SplitIs

\* what one character more does to the parts
LEMMA SplitAppend ==
  ASSUME NEW s \in Text, NEW e \in Character, NEW c
  PROVE  split(Append(s, e), c) = SplitOn(split(s, c), e, c)
<1> DEFINE t == Append(s, e)
           n == Len(s)
<1>1. /\ n \in Nat /\ t \in Text /\ Len(t) = n + 1 /\ t[n + 1] = e
      /\ \A i \in 1 .. n : t[i] = s[i]
  BY TextGrows
<1> HIDE DEF t, n
<1>2. PICK R : /\ R[0] = <<<< >>>>
               /\ \A i \in 1 .. n : R[i] = SplitOn(R[i - 1], s[i], c)
               /\ split(s, c) = R[n]
  BY SplitIs DEF n
<1>3. PICK Q : /\ Q[0] = <<<< >>>>
               /\ \A i \in 1 .. n + 1 : Q[i] = SplitOn(Q[i - 1], t[i], c)
               /\ split(t, c) = Q[n + 1]
  <2>1. \E Q : /\ Q[0] = <<<< >>>>
               /\ \A i \in 1 .. Len(t) : Q[i] = SplitOn(Q[i - 1], t[i], c)
               /\ split(t, c) = Q[Len(t)]
    BY <1>1, SplitIs
  <2>2. QED
    BY <1>1, <2>1
<1> DEFINE P == {i \in 0 .. n : Q[i] = R[i]}
<1>4. 0 \in P
  BY <1>1, <1>2, <1>3
<1>5. ASSUME NEW k \in 0 .. n - 1, k \in P PROVE k + 1 \in P
  <2>1. PICK i \in 1 .. n : i = k + 1
    BY <1>1
  <2>2. i - 1 = k /\ i \in 0 .. n /\ i \in 1 .. n + 1
    BY <1>1, <2>1
  <2>3. Q[i] = SplitOn(Q[k], t[i], c) /\ R[i] = SplitOn(R[k], s[i], c) /\ t[i] = s[i]
    BY <1>1, <1>2, <1>3, <2>2
  <2>4. QED
    BY <1>5, <2>1, <2>2, <2>3
<1> HIDE DEF P
<1>6. 0 .. n \subseteq P
  BY <1>1, <1>4, <1>5, 0 \in Int, n \in Int, IntervalUp, Zenon
<1>7. Q[n] = R[n]
  BY <1>1, <1>6 DEF P
<1>8. n + 1 \in 1 .. n + 1 /\ (n + 1) - 1 = n
  BY <1>1
<1>9. QED
  BY <1>1, <1>2, <1>3, <1>7, <1>8 DEF t

\* a part that grows
LEMMA GrownPart ==
  ASSUME NEW p \in Seq(Text), NEW y \in Text
  PROVE  /\ Append(p, y) \in SomeParts /\ Front(Append(p, y)) = p /\ Last(Append(p, y)) = y
<1>1. /\ Append(p, y) \in Seq(Text) /\ Append(p, y) # << >> /\ Len(Append(p, y)) = Len(p) + 1
      /\ Append(p, y)[Len(p) + 1] = y /\ Len(p) \in Nat
  BY AppendProperties, LenProperties
<1>2. Append(p, y) = p \o <<y>>
  BY AppendIsConcat
<1>3. SubSeq(Append(p, y), 1, (Len(p) + 1) - 1) = p
  <2>1. /\ \A i \in 1 .. Len(p) : Append(p, y)[i] = p[i]
    BY AppendProperties
  <2>2. (Len(p) + 1) - 1 = Len(p) /\ Len(p) <= Len(Append(p, y))
    BY <1>1
  <2> DEFINE q == Append(p, y)
  <2> HIDE DEF q
  <2>3. /\ SubSeq(q, 1, Len(p)) \in Seq(Text) /\ Len(SubSeq(q, 1, Len(p))) = Len(p)
        /\ \A i \in 1 .. Len(p) : SubSeq(q, 1, Len(p))[i] = q[i]
    BY <1>1, <2>2, PrefixOf DEF q
  <2>4. QED
    BY <2>1, <2>2, <2>3, SeqEqual DEF q
<1>4. QED
  BY <1>1, <1>3 DEF SomeParts, Front, Last

\* one part more
LEMMA SplitPiece ==
  ASSUME NEW s \in Text, NEW x \in Text, NEW c \in Character, \A i \in 1 .. Len(x) : x[i] # c
  PROVE  split(Append(s, c) \o x, c) = Append(split(s, c), x)
<1> DEFINE n == Len(x)
           w == Append(s, c)
           p == split(s, c)
           P == {k \in 0 .. n : split(w \o SubSeq(x, 1, k), c) = Append(p, SubSeq(x, 1, k))}
<1>1. n \in Nat /\ w \in Text /\ p \in Seq(Text)
  <2>1. n \in Nat /\ w \in Text
    BY LenProperties, AppendProperties DEF Text
  <2>3. p \in SomeParts
    BY SplitHolds
  <2>4. QED
    BY <2>1, <2>3 DEF SomeParts
<1>2. split(w, c) = Append(p, << >>)
  BY SplitAppend DEF SplitOn
<1> HIDE DEF w, p, n
<1>3. 0 \in P
  <2>1. SubSeq(x, 1, 0) = << >>
    BY SubSeqEmpty
  <2>2. w \o << >> = w
    BY <1>1, ConcatEmptySeq DEF Text
  <2>3. split(w \o SubSeq(x, 1, 0), c) = Append(p, SubSeq(x, 1, 0))
    BY <1>2, <2>1, <2>2, Zenon
  <2>4. 0 \in 0 .. n
    BY <1>1
  <2>5. QED
    BY <2>3, <2>4, Zenon
<1>4. ASSUME NEW k \in 0 .. n - 1, k \in P PROVE k + 1 \in P
  <2>1. k \in Nat /\ k + 1 \in 0 .. n /\ k + 1 \in 1 .. n /\ k <= n /\ k + 1 <= n /\ k + 1 \in Nat
        /\ (k + 1) - 1 = k
    BY <1>1
  <2> DEFINE y == SubSeq(x, 1, k)
             z == SubSeq(x, 1, k + 1)
             e == x[k + 1]
  <2>2. e \in Character /\ e # c
    BY <2>1, ElementOfSeq DEF Text, n
  <2>3. y \in Text /\ z = Append(y, e)
    <3>1. y \in Text
      BY <2>1, PrefixOf DEF Text, n
    <3>2. x \in Seq(Character) /\ 1 \in 1 .. Len(x) /\ k + 1 \in 1 .. Len(x)
      BY <1>1, <2>1 DEF Text, n
    <3>3. SubSeq(x, 1, k + 1) = SubSeq(x, 1, (k + 1) - 1) \o << x[k + 1] >>
      BY <3>2, SubSeqRecursiveSecond
    <3>4. Append(y, e) = y \o <<e>>
      BY <2>2, <3>1, AppendIsConcat DEF Text
    <3>5. QED
      BY <2>1, <3>1, <3>3, <3>4
  <2> HIDE DEF y, z, e
  <2>4. w \o z = Append(w \o y, e) /\ w \o y \in Text
    <3> DEFINE S == Character
    <3>1. w \in Seq(S) /\ y \in Seq(S) /\ e \in S
      BY <1>1, <2>2, <2>3 DEF Text
    <3> HIDE DEF S
    <3>2. w \o y \in Seq(S) /\ <<e>> \in Seq(S)
      BY <3>1, ConcatProperties
    <3>3. Append(y, e) = y \o <<e>> /\ Append(w \o y, e) = (w \o y) \o <<e>>
      BY <3>1, <3>2, AppendIsConcat
    <3>4. (w \o y) \o <<e>> = w \o (y \o <<e>>)
      BY <3>1, ConcatAssociative
    <3>5. QED
      BY <2>3, <3>2, <3>3, <3>4 DEF Text, S
  <2>5. split(w \o y, c) = Append(p, y)
    BY <1>4 DEF y
  <2>6. split(w \o z, c) = SplitOn(Append(p, y), e, c)
    BY <2>2, <2>4, <2>5, SplitAppend
  <2>7. Front(Append(p, y)) = p /\ Last(Append(p, y)) = y
    BY <1>1, <2>2, <2>3, GrownPart
  <2>8. SplitOn(Append(p, y), e, c) = Append(p, Append(y, e))
    BY <2>2, <2>7 DEF SplitOn
  <2>9. split(w \o z, c) = Append(p, z)
    BY <2>3, <2>6, <2>8
  <2>10. QED
    BY <2>1, <2>9 DEF z
<1> HIDE DEF P
<1>5. 0 .. n \subseteq P
  BY <1>1, <1>3, <1>4, 0 \in Int, n \in Int, IntervalUp, Zenon
<1>6. n \in P
  BY <1>1, <1>5
<1>7. SubSeq(x, 1, n) = x
  BY SubSeqFull DEF Text, n
<1>8. QED
  BY <1>6, <1>7 DEF P, p, w

\* parts are the ones before the last, and the last
LEMMA SomePartsIs ==
  ASSUME NEW p \in SomeParts
  PROVE  /\ p \in Seq(Text) /\ Len(p) \in Nat \ {0} /\ DOMAIN p = 1 .. Len(p)
         /\ Front(p) \in Seq(Text) /\ Last(p) \in Text /\ Last(p) = p[Len(p)]
         /\ Len(Front(p)) = Len(p) - 1 /\ \A i \in 1 .. Len(p) - 1 : Front(p)[i] = p[i]
         /\ p = Append(Front(p), Last(p))
<1>1. p \in Seq(Text) /\ Len(p) \in Nat \ {0} /\ DOMAIN p = 1 .. Len(p)
  BY LenProperties, EmptySeq DEF SomeParts
<1>2. Front(p) \in Seq(Text) /\ Last(p) \in Text
  <2>1. p[Len(p)] \in Text
    BY <1>1, ElementOfSeq
  <2>2. SubSeq(p, 1, Len(p) - 1) \in Seq(Text)
    BY <1>1
  <2>3. QED
    BY <2>1, <2>2, Zenon DEF Front, Last
<1>3. Last(p) = p[Len(p)] /\ Front(p) = SubSeq(p, 1, Len(p) - 1)
  BY Zenon DEF Last, Front
<1>4. Len(Front(p)) = Len(p) - 1 /\ \A i \in 1 .. Len(p) - 1 : Front(p)[i] = p[i]
  <2>1. Len(p) - 1 \in Nat /\ Len(p) - 1 <= Len(p)
    BY <1>1
  <2>2. QED
    BY <1>1, <1>3, <2>1, PrefixOf
<1> DEFINE f == Front(p)
           l == Last(p)
<1>5. /\ Append(f, l) \in Seq(Text) /\ Len(Append(f, l)) = Len(f) + 1
      /\ \A i \in 1 .. Len(f) : Append(f, l)[i] = f[i]
      /\ Append(f, l)[Len(f) + 1] = l
  <2>1. f \in Seq(Text) /\ l \in Text
    BY <1>2
  <2> HIDE DEF f, l
  <2>2. QED
    BY <2>1, Grown
<1>6. \A i \in 1 .. Len(p) : Append(f, l)[i] = p[i]
  <2> SUFFICES ASSUME NEW i \in 1 .. Len(p) PROVE Append(f, l)[i] = p[i]
    OBVIOUS
  <2>1. i = Len(p) \/ i \in 1 .. Len(p) - 1
    <3>1. Len(p) \in Nat
      BY <1>1
    <3>2. QED
      BY <3>1
  <2>2. Len(f) + 1 = Len(p)
    BY <1>1, <1>4
  <2>3. CASE i = Len(p)
    BY <1>3, <1>5, <2>2, <2>3
  <2>4. CASE i \in 1 .. Len(p) - 1
    BY <1>4, <1>5, <2>4
  <2>5. QED
    BY <2>1, <2>3, <2>4
<1>7. p = Append(f, l)
  <2>1. Len(Append(f, l)) = Len(p)
    BY <1>1, <1>4, <1>5
  <2> HIDE DEF f, l
  <2>2. QED
    BY <1>1, <1>5, <1>6, <2>1, SeqEqual
<1>8. QED
  BY <1>1, <1>2, <1>3, <1>4, <1>7

\* at a separator a part begins
LEMMA SplitHere ==
  ASSUME NEW p \in SomeParts, NEW c \in Character, NEW q, q = SplitOn(p, c, c)
  PROVE  /\ q \in SomeParts /\ q = Append(p, << >>)
         /\ Len(q) = Len(p) + 1 /\ q[Len(p) + 1] = << >>
         /\ \A i \in 1 .. Len(p) : q[i] = p[i]
<1>1. q = Append(p, << >>)
  BY DEF SplitOn
<1>2. << >> \in Text /\ p \in Seq(Text)
  BY EmptySeq, SomePartsIs DEF Text
<1>3. /\ Len(Append(p, << >>)) = Len(p) + 1
      /\ \A i \in 1 .. Len(p) : Append(p, << >>)[i] = p[i]
      /\ Append(p, << >>)[Len(p) + 1] = << >>
  BY <1>2, Grown
<1>4. q \in SomeParts
  BY <1>1, <1>2, AppendProperties DEF SomeParts
<1>5. QED
  BY <1>1, <1>3, <1>4, Zenon

\* another character goes behind the last part
LEMMA SplitLater ==
  ASSUME NEW p \in SomeParts, NEW e \in Character, NEW q, q = Append(Front(p), Append(Last(p), e))
  PROVE  /\ q \in SomeParts
         /\ Len(q) = Len(p) /\ q[Len(p)] = Append(Last(p), e)
         /\ \A i \in 1 .. Len(p) - 1 : q[i] = p[i]
<1>2. /\ p \in Seq(Text) /\ Len(p) \in Nat \ {0} /\ Front(p) \in Seq(Text) /\ Last(p) \in Text
      /\ Len(Front(p)) = Len(p) - 1 /\ \A i \in 1 .. Len(p) - 1 : Front(p)[i] = p[i]
  BY SomePartsIs
<1> DEFINE l == Append(Last(p), e)
           f == Front(p)
<1>3. q = Append(f, l)
  OBVIOUS
<1>4. l \in Text
  BY <1>2, TextGrows
<1>5. f \in Seq(Text) /\ Len(f) = Len(p) - 1 /\ \A i \in 1 .. Len(p) - 1 : f[i] = p[i]
  BY <1>2
<1> HIDE DEF l, f
<1>6. /\ Len(Append(f, l)) = Len(f) + 1
      /\ \A i \in 1 .. Len(f) : Append(f, l)[i] = f[i]
      /\ Append(f, l)[Len(f) + 1] = l
  BY <1>4, <1>5, Grown
<1>7. Len(f) + 1 = Len(p)
  BY <1>2, <1>5
<1>1. q \in SomeParts
  BY <1>3, <1>4, <1>5, AppendProperties DEF SomeParts
<1>8. QED
  BY <1>1, <1>3, <1>5, <1>6, <1>7 DEF l, f

\* from one prefix of a text to the next
LEMMA SplitNext ==
  ASSUME NEW s \in Text, NEW m \in 1 .. Len(s), NEW c
  PROVE  /\ split(SubSeq(s, 1, m - 1), c) \in SomeParts /\ s[m] \in Character
         /\ split(SubSeq(s, 1, m), c) = SplitOn(split(SubSeq(s, 1, m - 1), c), s[m], c)
<1>1. Len(s) \in Nat /\ s[m] \in Character
  BY LenProperties, ElementOfSeq DEF Text
<1>2. m - 1 \in Nat /\ m - 1 <= Len(s) /\ 1 \in 1 .. Len(s) /\ m \in 1 .. Len(s)
  BY <1>1
<1>3. SubSeq(s, 1, m - 1) \in Text
  BY <1>2, PrefixOf DEF Text
<1>4. SubSeq(s, 1, m) = SubSeq(s, 1, m - 1) \o << s[m] >>
  BY <1>2, SubSeqRecursiveSecond DEF Text
<1>5. Append(SubSeq(s, 1, m - 1), s[m]) = SubSeq(s, 1, m - 1) \o << s[m] >>
  BY <1>1, <1>3, AppendIsConcat DEF Text
<1>6. split(SubSeq(s, 1, m - 1), c) \in SomeParts
  BY <1>3, SplitHolds
<1>7. split(Append(SubSeq(s, 1, m - 1), s[m]), c) = SplitOn(split(SubSeq(s, 1, m - 1), c), s[m], c)
  BY <1>1, <1>3, SplitAppend
<1>8. QED
  BY <1>1, <1>4, <1>5, <1>6, <1>7

\* the parts of what comes before a separator are the first of all parts
LEMMA SplitPrefix ==
  ASSUME NEW s \in Text, NEW k \in 0 .. Len(s), NEW c, k < Len(s) => s[k + 1] = c
  PROVE  LET p == split(SubSeq(s, 1, k), c)
             q == split(s, c)
         IN  /\ p \in SomeParts /\ q \in SomeParts
             /\ \A i \in 1 .. Len(p) : q[i] = p[i]
             /\ Len(p) <= Len(q) /\ (k < Len(s) <=> Len(p) < Len(q))
<1> DEFINE n == Len(s)
           at(m) == split(SubSeq(s, 1, m), c)
           p == at(k)
           P == {m \in k .. n : /\ at(m) \in SomeParts /\ \A i \in 1 .. Len(p) : at(m)[i] = p[i]
                                /\ m = k \/ Len(p) < Len(at(m))}
<1>1. n \in Nat /\ k \in Nat /\ k <= n
  BY LenProperties DEF Text
<1>2. \A m \in 1 .. n : at(m - 1) \in SomeParts /\ s[m] \in Character
                        /\ at(m) = SplitOn(at(m - 1), s[m], c)
  BY SplitNext
<1>3. p \in SomeParts /\ Len(p) \in Nat
  <2>1. SubSeq(s, 1, k) \in Text
    BY <1>1, PrefixOf DEF Text
  <2>2. p \in SomeParts
    BY <2>1, SplitHolds
  <2>3. QED
    BY <2>2, SomePartsIs
<1>4. at(n) = split(s, c)
  BY SubSeqFull DEF Text
<1> HIDE DEF n, at, p
<1>5. k \in P
  BY <1>1, <1>3 DEF p
<1>6. ASSUME NEW m \in k .. n - 1, m \in P PROVE m + 1 \in P
  <2>1. m + 1 \in 1 .. n /\ m + 1 \in k .. n /\ (m + 1) - 1 = m /\ m + 1 # k
    BY <1>1
  <2> DEFINE a == at(m)
             b == at(m + 1)
             e == s[m + 1]
  <2>2. a \in SomeParts /\ e \in Character /\ b = SplitOn(a, e, c)
    BY <1>2, <2>1
  <2>3. /\ \A i \in 1 .. Len(p) : at(m)[i] = p[i]
        /\ m = k \/ Len(p) < Len(at(m))
    BY <1>6
  <2>4. Len(at(m)) \in Nat
    BY <2>2, SomePartsIs
  <2>6. m = k => e = c /\ a = p
    BY <1>1 DEF n, p
  <2> HIDE DEF a, b, e
  <2>5. e = c => /\ b \in SomeParts /\ Len(b) = Len(a) + 1
                 /\ \A i \in 1 .. Len(a) : b[i] = a[i]
    BY <2>2, SplitHere
  <2>9. ASSUME e # c
        PROVE  b \in SomeParts /\ Len(b) = Len(a) /\ \A i \in 1 .. Len(a) - 1 : b[i] = a[i]
    <3>1. b = Append(Front(a), Append(Last(a), e))
      BY <2>2, <2>9 DEF SplitOn
    <3>2. QED
      BY <2>2, <3>1, SplitLater
  <2>7. (\A i \in 1 .. Len(p) : b[i] = p[i]) /\ Len(p) < Len(b)
    <3>1. CASE e = c
      <4>1. Len(p) <= Len(a)
        BY <1>3, <2>3, <2>4, <2>6 DEF a
      <4>2. \A i \in 1 .. Len(p) : i \in 1 .. Len(a)
        BY <1>3, <2>4, <4>1 DEF a
      <4>3. \A i \in 1 .. Len(p) : b[i] = a[i] /\ a[i] = p[i]
        BY <2>3, <2>5, <3>1, <4>2 DEF a
      <4>4. QED
        BY <1>3, <2>4, <2>5, <3>1, <4>1, <4>3 DEF a
    <3>2. CASE e # c
      <4>1. Len(p) < Len(a)
        BY <2>3, <2>6, <3>2 DEF a
      <4>2. \A i \in 1 .. Len(p) : i \in 1 .. Len(a) - 1
        BY <1>3, <2>4, <4>1 DEF a
      <4>3. \A i \in 1 .. Len(p) : b[i] = a[i] /\ a[i] = p[i]
        BY <2>3, <2>9, <3>2, <4>2 DEF a
      <4>4. QED
        BY <2>9, <3>2, <4>1, <4>3
    <3>3. QED
      BY <3>1, <3>2
  <2>8. QED
    BY <2>1, <2>5, <2>7, <2>9 DEF b
<1> HIDE DEF P
<1>7. k .. n \subseteq P
  BY <1>1, <1>5, <1>6, k \in Int, n \in Int, IntervalUp, Zenon
<1>8. n \in P
  BY <1>1, <1>7 DEF n
<1>9. /\ at(n) \in SomeParts /\ \A i \in 1 .. Len(p) : at(n)[i] = p[i]
      /\ n = k \/ Len(p) < Len(at(n))
  BY <1>8 DEF P
<1>10. Len(p) <= Len(at(n)) /\ (k < n <=> Len(p) < Len(at(n)))
  <2>1. Len(at(n)) \in Nat
    BY <1>9, SomePartsIs
  <2>2. n = k => Len(at(n)) = Len(p)
    BY DEF p
  <2>3. n = k \/ k < n
    BY <1>1 DEF n
  <2>4. QED
    BY <1>1, <1>3, <1>9, <2>1, <2>2, <2>3
<1>11. QED
  BY <1>3, <1>4, <1>9, <1>10 DEF p, at, n

\* no part holds a separator
LEMMA PartsAreClean ==
  ASSUME NEW s \in Text, NEW c
  PROVE  \A i \in DOMAIN split(s, c) : \A j \in 1 .. Len(split(s, c)[i]) :
           split(s, c)[i][j] # c
<1> DEFINE n == Len(s)
           at(m) == split(SubSeq(s, 1, m), c)
           Clean(p) == \A i \in 1 .. Len(p) : \A j \in 1 .. Len(p[i]) : p[i][j] # c
           P == {m \in 0 .. n : Clean(at(m))}
<1>1. n \in Nat
  BY LenProperties DEF Text
<1>2. \A m \in 1 .. n : at(m - 1) \in SomeParts /\ s[m] \in Character
                        /\ at(m) = SplitOn(at(m - 1), s[m], c)
  BY SplitNext
<1>3. at(n) = split(s, c)
  BY SubSeqFull DEF Text
<1>4. at(0) = <<<< >>>>
  <2>1. SubSeq(s, 1, 0) = << >>
    BY SubSeqEmpty
  <2>2. QED
    BY <2>1, SplitEmpty
<1> HIDE DEF n, at
<1>5. 0 \in P
  <2>1. Clean(<<<< >>>>)
    OBVIOUS
  <2> HIDE DEF Clean
  <2>2. QED
    BY <1>1, <1>4, <2>1
<1>6. ASSUME NEW m \in 0 .. n - 1, m \in P PROVE m + 1 \in P
  <2>1. m + 1 \in 1 .. n /\ m + 1 \in 0 .. n /\ (m + 1) - 1 = m
    BY <1>1
  <2> DEFINE a == at(m)
             b == at(m + 1)
             e == s[m + 1]
  <2>2. a \in SomeParts /\ e \in Character /\ b = SplitOn(a, e, c)
    BY <1>2, <2>1
  <2>3. Clean(a)
    BY <1>6
  <2> HIDE DEF a, b, e
  <2>4. e = c => /\ Len(b) = Len(a) + 1 /\ b[Len(a) + 1] = << >>
                 /\ \A i \in 1 .. Len(a) : b[i] = a[i]
    BY <2>2, SplitHere
  <2>8. ASSUME e # c
        PROVE  /\ Len(b) = Len(a) /\ b[Len(a)] = Append(Last(a), e)
               /\ \A i \in 1 .. Len(a) - 1 : b[i] = a[i]
    <3>1. b = Append(Front(a), Append(Last(a), e))
      BY <2>2, <2>8 DEF SplitOn
    <3>2. a \in SomeParts /\ e \in Character
      BY <2>2
    <3>3. QED
      <4>1. \A q : q = Append(Front(a), Append(Last(a), e)) =>
              /\ Len(q) = Len(a) /\ q[Len(a)] = Append(Last(a), e)
              /\ \A i \in 1 .. Len(a) - 1 : q[i] = a[i]
        <5> SUFFICES ASSUME NEW q, q = Append(Front(a), Append(Last(a), e))
                     PROVE  /\ Len(q) = Len(a) /\ q[Len(a)] = Append(Last(a), e)
                            /\ \A i \in 1 .. Len(a) - 1 : q[i] = a[i]
          OBVIOUS
        <5>1. a \in SomeParts /\ e \in Character /\ q = Append(Front(a), Append(Last(a), e))
          BY <3>2
        <5>2. QED
          BY <5>1, SplitLater, SMTT(30)
      <4>2. QED
        BY <3>1, <4>1, Zenon
  <2>5. Len(a) \in Nat \ {0} /\ Last(a) \in Text /\ Last(a) = a[Len(a)]
    BY <2>2, SomePartsIs
  <2>6. Clean(b)
    <3> SUFFICES ASSUME NEW i \in 1 .. Len(b), NEW j \in 1 .. Len(b[i]) PROVE b[i][j] # c
      OBVIOUS
    <3>1. CASE e = c /\ i \in 1 .. Len(a)
      BY <2>3, <2>4, <3>1
    <3>2. CASE e = c /\ i = Len(a) + 1
      BY <2>4, <3>2
    <3>3. CASE e # c /\ i \in 1 .. Len(a) - 1
      <4>1. i \in 1 .. Len(a)
        BY <2>5, <3>3
      <4>2. QED
        BY <2>3, <2>8, <3>3, <4>1
    <3>4. CASE e # c /\ i = Len(a)
      <4> DEFINE l == Last(a)
      <4>1. b[i] = Append(l, e)
        BY <2>8, <3>4
      <4>2. Len(l) \in Nat /\ Len(Append(l, e)) = Len(l) + 1
            /\ (\A k \in 1 .. Len(l) : Append(l, e)[k] = l[k]) /\ Append(l, e)[Len(l) + 1] = e
        BY <2>2, <2>5, TextGrows
      <4>3. \A k \in 1 .. Len(l) : l[k] # c
        BY <2>3, <2>5
      <4>4. j \in 1 .. Len(l) \/ j = Len(l) + 1
        BY <4>1, <4>2
      <4>5. QED
        BY <3>4, <4>1, <4>2, <4>3, <4>4
    <3>5. QED
      BY <2>4, <2>5, <2>8, <3>1, <3>2, <3>3, <3>4
  <2>7. QED
    BY <2>1, <2>6 DEF b
<1> HIDE DEF P
<1>7. 0 .. n \subseteq P
  BY <1>1, <1>5, <1>6, 0 \in Int, n \in Int, IntervalUp, Zenon
<1>8. Clean(split(s, c))
  <2>1. n \in 0 .. n
    BY <1>1
  <2>2. Clean(at(n))
    BY <1>7, <2>1 DEF P
  <2>3. QED
    BY <1>3, <2>2
<1>9. DOMAIN split(s, c) = 1 .. Len(split(s, c))
  BY SplitHolds, SomePartsIs
<1>10. QED
  BY <1>8, <1>9

\* a text is nothing, or a text with one character more
LEMMA EmptyOrAppend ==
  ASSUME NEW s \in Text, s # << >>
  PROVE  \E t \in Text, e \in Character : s = Append(t, e)
BY SequenceEmptyOrAppend DEF Text

\* what the last character was
LEMMA SplitOnEnds ==
  ASSUME NEW p \in SomeParts, NEW e \in Character, NEW c \in Character, NEW q, q = SplitOn(p, e, c)
  PROVE  q \in SomeParts /\ q # <<<< >>>> /\ (Last(q) = << >> <=> e = c)
<1>1. q \in SomeParts
  BY SplitOnType
<1>2. Len(q) \in Nat /\ Last(q) = q[Len(q)] /\ Len(p) \in Nat \ {0} /\ Last(p) \in Text
  BY <1>1, SomePartsIs
<1>3. CASE e = c
  <2>1. Len(q) = Len(p) + 1 /\ q[Len(p) + 1] = << >>
    BY <1>3, SplitHere
  <2>2. Len(<<<< >>>>) = 1 /\ Len(q) # 1
    BY <1>2, <2>1
  <2>3. q # <<<< >>>>
    BY <2>2
  <2>4. Last(q) = << >>
    BY <1>2, <2>1
  <2>5. QED
    BY <1>1, <1>3, <2>3, <2>4
<1>4. CASE e # c
  <2>1. q = Append(Front(p), Append(Last(p), e))
    BY <1>4 DEF SplitOn
  <2>2. Len(q) = Len(p) /\ q[Len(p)] = Append(Last(p), e)
    BY <2>1, SplitLater
  <2>3. Append(Last(p), e) # << >>
    <3>1. Len(Append(Last(p), e)) = Len(Last(p)) + 1 /\ Len(Last(p)) \in Nat
      BY <1>2, TextGrows
    <3>2. Len(Append(Last(p), e)) # 0 /\ Len(<< >>) = 0
      BY <3>1
    <3>3. QED
      BY <3>2, Zenon
  <2>4. <<<< >>>>[Len(<<<< >>>>)] = << >>
    OBVIOUS
  <2>5. Last(q) # << >>
    BY <1>2, <2>2, <2>3
  <2>6. q # <<<< >>>>
    BY <1>2, <2>4, <2>5
  <2>7. QED
    BY <1>1, <1>4, <2>5, <2>6
<1>5. QED
  BY <1>3, <1>4

\* what was appended, and to what, can be told
LEMMA AppendsAreOne ==
  ASSUME NEW S, NEW s \in Seq(S), NEW t \in Seq(S), NEW e \in S, NEW f \in S,
         Append(s, e) = Append(t, f)
  PROVE  s = t /\ e = f
BY AppendInjective

LEMMA TextAppends ==
  ASSUME NEW s \in Text, NEW t \in Text, NEW e \in Character, NEW f \in Character,
         Append(s, e) = Append(t, f)
  PROVE  s = t /\ e = f
BY AppendsAreOne, TextIs

\* and which character it was that changed the parts
LEMMA SplitOnInjective ==
  ASSUME NEW p \in SomeParts, NEW e \in Character, NEW q \in SomeParts, NEW f \in Character, NEW c \in Character,
         SplitOn(p, e, c) = SplitOn(q, f, c)
  PROVE  p = q /\ e = f
<1> DEFINE r == SplitOn(p, e, c)
<1>0. r = SplitOn(p, e, c) /\ r = SplitOn(q, f, c)
  OBVIOUS
<1> HIDE DEF r
<1>1. e = c <=> f = c
  <2>1. Last(r) = << >> <=> e = c
    BY <1>0, SplitOnEnds
  <2>2. Last(r) = << >> <=> f = c
    BY <1>0, SplitOnEnds
  <2>3. QED
    BY <2>1, <2>2
<1>2. p \in Seq(Text) /\ q \in Seq(Text) /\ << >> \in Text
  BY SomePartsIs, EmptySeq DEF Text
<1>3. CASE e = c
  <2>1. Append(p, << >>) = Append(q, << >>)
    BY <1>1, <1>3 DEF SplitOn
  <2>2. p = q
    BY <1>2, <2>1, AppendInjective
  <2>3. QED
    BY <1>1, <1>3, <2>2
<1>4. CASE e # c
  <2> DEFINE x == Append(Last(p), e)
             y == Append(Last(q), f)
  <2>1. Append(Front(p), x) = Append(Front(q), y)
    BY <1>1, <1>4 DEF SplitOn
  <2>2. /\ Front(p) \in Seq(Text) /\ Last(p) \in Text /\ p = Append(Front(p), Last(p))
        /\ Front(q) \in Seq(Text) /\ Last(q) \in Text /\ q = Append(Front(q), Last(q))
    BY SomePartsIs
  <2>3. x \in Text /\ y \in Text
    BY <2>2, TextGrows
  <2> HIDE DEF x, y
  <2>4. Front(p) = Front(q) /\ x = y
    BY <2>1, <2>2, <2>3, AppendInjective
  <2>5. Append(Last(p), e) = Append(Last(q), f)
    BY <2>4 DEF x, y
  <2>6. Last(p) = Last(q) /\ e = f
    <3>1. \A v \in Text : \A w \in Text : Append(v, e) = Append(w, f) => v = w /\ e = f
      BY TextAppends
    <3>2. QED
      BY <2>2, <2>5, <3>1, Zenon
  <2>7. QED
    BY <2>2, <2>4, <2>6
<1>5. QED
  BY <1>3, <1>4

\* a text is its parts
LEMMA SplitInjective ==
  ASSUME NEW s \in Text, NEW t \in Text, NEW c \in Character, split(s, c) = split(t, c)
  PROVE  s = t
<1> DEFINE n == Len(s)
           P == {m \in 0 .. n : \A u \in Text : split(SubSeq(s, 1, m), c) = split(u, c)
                                                  => SubSeq(s, 1, m) = u}
<1>1. n \in Nat
  BY LenProperties DEF Text
<1>2. \A m \in 1 .. n : /\ split(SubSeq(s, 1, m - 1), c) \in SomeParts /\ s[m] \in Character
                        /\ split(SubSeq(s, 1, m), c) = SplitOn(split(SubSeq(s, 1, m - 1), c), s[m], c)
  BY SplitNext
<1>3. \A m \in 1 .. n : SubSeq(s, 1, m) = Append(SubSeq(s, 1, m - 1), s[m])
  <2> SUFFICES ASSUME NEW m \in 1 .. n PROVE SubSeq(s, 1, m) = Append(SubSeq(s, 1, m - 1), s[m])
    OBVIOUS
  <2>1. m - 1 \in Nat /\ m - 1 <= Len(s) /\ 1 \in 1 .. Len(s) /\ m \in 1 .. Len(s)
    BY <1>1
  <2>2. SubSeq(s, 1, m - 1) \in Text /\ s[m] \in Character
    BY <1>2, <2>1, PrefixOf DEF Text
  <2>3. SubSeq(s, 1, m) = SubSeq(s, 1, m - 1) \o << s[m] >>
    BY <2>1, SubSeqRecursiveSecond DEF Text
  <2>4. QED
    BY <2>2, <2>3, AppendIsConcat DEF Text
<1> HIDE DEF n
<1>4. \A u \in Text : u = << >> \/ \E v \in Text, f \in Character : u = Append(v, f)
  BY EmptyOrAppend
<1>5. 0 \in P
  <2>1. SubSeq(s, 1, 0) = << >>
    BY SubSeqEmpty
  <2>2. split(<< >>, c) = <<<< >>>>
    BY SplitEmpty
  <2>3. ASSUME NEW v \in Text, NEW f \in Character PROVE split(Append(v, f), c) # <<<< >>>>
    <3>1. split(v, c) \in SomeParts /\ split(Append(v, f), c) = SplitOn(split(v, c), f, c)
      BY SplitHolds, SplitAppend
    <3>2. QED
      BY <3>1, SplitOnEnds
  <2>4. \A u \in Text : split(SubSeq(s, 1, 0), c) = split(u, c) => SubSeq(s, 1, 0) = u
    <3> SUFFICES ASSUME NEW u \in Text, split(SubSeq(s, 1, 0), c) = split(u, c)
                 PROVE  SubSeq(s, 1, 0) = u
      OBVIOUS
    <3>1. split(u, c) = <<<< >>>>
      BY <2>1, <2>2
    <3>2. ASSUME NEW v \in Text, NEW f \in Character, u = Append(v, f) PROVE FALSE
      BY <2>3, <3>1, <3>2
    <3>3. QED
      BY <1>4, <2>1, <3>2
  <2>5. 0 \in 0 .. n
    BY <1>1
  <2>6. QED
    BY <2>4, <2>5, Zenon
<1>6. ASSUME NEW k \in 0 .. n - 1, k \in P PROVE k + 1 \in P
  <2>1. k + 1 \in 1 .. n /\ k + 1 \in 0 .. n /\ (k + 1) - 1 = k
    BY <1>1
  <2> DEFINE w == SubSeq(s, 1, k)
             x == SubSeq(s, 1, k + 1)
             e == s[k + 1]
  <2>2. split(w, c) \in SomeParts /\ e \in Character /\ split(x, c) = SplitOn(split(w, c), e, c)
    BY <1>2, <2>1
  <2>3. x = Append(w, e)
    BY <1>3, <2>1
  <2>4. \A u \in Text : split(w, c) = split(u, c) => w = u
    BY <1>6
  <2> HIDE DEF w, x, e
  <2>5. ASSUME NEW u \in Text, split(x, c) = split(u, c) PROVE x = u
    <3>1. CASE u = << >>
      <4>1. split(u, c) = <<<< >>>>
        BY <3>1, SplitEmpty
      <4>2. split(x, c) # <<<< >>>>
        BY <2>2, SplitOnEnds
      <4>3. QED
        BY <2>5, <4>1, <4>2
    <3>2. ASSUME NEW v \in Text, NEW f \in Character, u = Append(v, f) PROVE x = u
      <4>1. split(v, c) \in SomeParts /\ split(u, c) = SplitOn(split(v, c), f, c)
        BY <3>2, SplitHolds, SplitAppend
      <4>2. SplitOn(split(w, c), e, c) = SplitOn(split(v, c), f, c)
        BY <2>2, <2>5, <4>1
      <4>3. split(w, c) = split(v, c) /\ e = f
        BY <2>2, <4>1, <4>2, SplitOnInjective
      <4>4. QED
        BY <2>3, <2>4, <3>2, <4>3
    <3>3. QED
      BY <1>4, <3>1, <3>2
  <2>6. QED
    BY <2>1, <2>5 DEF x
<1> HIDE DEF P
<1>7. 0 .. n \subseteq P
  BY <1>1, <1>5, <1>6, 0 \in Int, n \in Int, IntervalUp, Zenon
<1>8. n \in P
  BY <1>1, <1>7
<1>9. SubSeq(s, 1, n) = s
  BY SubSeqFull DEF Text, n
<1>10. QED
  BY <1>8, <1>9 DEF P

(***************************************************************************)
(* remove_dot_segments: what the guards of its loop say, and what one turn *)
(* of it takes from the input and leaves in the output.                    *)
(***************************************************************************)

\* the literals of uri.rs are characters
LEMMA Literals ==
  {"/", ".", ":", "[", "]", "-", "+", "9", "a", "f", "A", "F", "%2F", "%40", "https://", "http://"}
    \subseteq Character
BY DecimalDigitIs, EscapeIs, Zenon DEF Character, Unreserved, HexDigit, SubDelim, UriPunct

\* what begins with three characters, or four
LEMMA BeginsWithMore ==
  ASSUME NEW s \in Text, NEW a, NEW b, NEW c, NEW d
  PROVE  /\ (IsPrefix(<<a, b, c>>, s) <=> Len(s) >= 3 /\ s[1] = a /\ s[2] = b /\ s[3] = c)
         /\ (IsPrefix(<<a, b, c, d>>, s)
               <=> Len(s) >= 4 /\ s[1] = a /\ s[2] = b /\ s[3] = c /\ s[4] = d)
<1>1. Len(s) \in Nat
  BY LenProperties DEF Text
<1>2. /\ <<a, b, c>> \in Seq({a, b, c}) /\ Len(<<a, b, c>>) = 3
      /\ <<a, b, c>>[1] = a /\ <<a, b, c>>[2] = b /\ <<a, b, c>>[3] = c
  OBVIOUS
<1>3. /\ <<a, b, c, d>> \in Seq({a, b, c, d}) /\ Len(<<a, b, c, d>>) = 4
      /\ <<a, b, c, d>>[1] = a /\ <<a, b, c, d>>[2] = b /\ <<a, b, c, d>>[3] = c /\ <<a, b, c, d>>[4] = d
  OBVIOUS
<1>4. 1 .. 3 = {1, 2, 3} /\ 1 .. 4 = {1, 2, 3, 4}
  OBVIOUS
<1>5. IsPrefix(<<a, b, c>>, s) <=> Len(s) >= 3 /\ s[1] = a /\ s[2] = b /\ s[3] = c
  <2> DEFINE p == <<a, b, c>>
  <2>1. IsPrefix(p, s) <=> Len(p) <= Len(s) /\ \A i \in 1 .. Len(p) : s[i] = p[i]
    BY <1>2, BeginsWith, Zenon
  <2> HIDE DEF p
  <2>2. Len(p) = 3 /\ p[1] = a /\ p[2] = b /\ p[3] = c
    BY <1>2 DEF p
  <2>3. IsPrefix(p, s) <=> Len(s) >= 3 /\ s[1] = a /\ s[2] = b /\ s[3] = c
    BY <1>1, <1>4, <2>1, <2>2
  <2>4. QED
    BY <2>3 DEF p
<1>6. IsPrefix(<<a, b, c, d>>, s) <=> Len(s) >= 4 /\ s[1] = a /\ s[2] = b /\ s[3] = c /\ s[4] = d
  <2> DEFINE p == <<a, b, c, d>>
  <2>1. IsPrefix(p, s) <=> Len(p) <= Len(s) /\ \A i \in 1 .. Len(p) : s[i] = p[i]
    BY <1>3, BeginsWith, Zenon
  <2> HIDE DEF p
  <2>2. Len(p) = 4 /\ p[1] = a /\ p[2] = b /\ p[3] = c /\ p[4] = d
    BY <1>3 DEF p
  <2>3. IsPrefix(p, s) <=> Len(s) >= 4 /\ s[1] = a /\ s[2] = b /\ s[3] = c /\ s[4] = d
    BY <1>1, <1>4, <2>1, <2>2
  <2>4. QED
    BY <2>3 DEF p
<1>7. QED
  BY <1>5, <1>6

\* texts of one, two and three characters
LEMMA ShortText ==
  ASSUME NEW s \in Text, NEW a \in Character, NEW b \in Character, NEW c \in Character
  PROVE  /\ (s = <<a>> <=> Len(s) = 1 /\ s[1] = a)
         /\ (s = <<a, b>> <=> Len(s) = 2 /\ s[1] = a /\ s[2] = b)
         /\ (s = <<a, b, c>> <=> Len(s) = 3 /\ s[1] = a /\ s[2] = b /\ s[3] = c)
<1>1. s \in Seq(Character)
  BY TextIs
<1>2. 1 .. 1 = {1} /\ 1 .. 2 = {1, 2} /\ 1 .. 3 = {1, 2, 3}
  OBVIOUS
<1>3. /\ <<a>> \in Seq(Character) /\ Len(<<a>>) = 1 /\ <<a>>[1] = a
      /\ <<a, b>> \in Seq(Character) /\ Len(<<a, b>>) = 2 /\ <<a, b>>[1] = a /\ <<a, b>>[2] = b
      /\ <<a, b, c>> \in Seq(Character) /\ Len(<<a, b, c>>) = 3
      /\ <<a, b, c>>[1] = a /\ <<a, b, c>>[2] = b /\ <<a, b, c>>[3] = c
  OBVIOUS
<1>4. ASSUME Len(s) = 1, s[1] = a PROVE s = <<a>>
  BY <1>1, <1>2, <1>3, <1>4, SeqEqual
<1>5. ASSUME Len(s) = 2, s[1] = a, s[2] = b PROVE s = <<a, b>>
  BY <1>1, <1>2, <1>3, <1>5, SeqEqual
<1>6. ASSUME Len(s) = 3, s[1] = a, s[2] = b, s[3] = c PROVE s = <<a, b, c>>
  BY <1>1, <1>2, <1>3, <1>6, SeqEqual
<1>7. QED
  BY <1>3, <1>4, <1>5, <1>6

\* where the first segment of a path ends
segment_end(i) == position(Tail(i), "/") + 1

\* a segment ends before the next slash, or with the path
LEMMA SegmentEndIs ==
  ASSUME NEW i \in Text, i # << >>
  PROVE  /\ segment_end(i) \in 2 .. Len(i) + 1 /\ Len(i) \in Nat
         /\ \A k \in 2 .. segment_end(i) - 1 : i[k] # "/"
         /\ segment_end(i) <= Len(i) => i[segment_end(i)] = "/"
<1>1. /\ Tail(i) \in Text /\ Len(Tail(i)) = Len(i) - 1 /\ Len(i) \in Nat \ {0}
      /\ \A k \in 1 .. Len(i) - 1 : Tail(i)[k] = i[k + 1]
  BY HeadTailProperties, EmptySeq DEF Text
<1> DEFINE t == Tail(i)
           p == position(t, "/")
<1>2. /\ p \in 1 .. Len(t) + 1
      /\ \A k \in 1 .. p - 1 : t[k] # "/"
      /\ p <= Len(t) => t[p] = "/"
  BY <1>1, PositionIs
<1> HIDE DEF t, p
<1>3. Len(t) = Len(i) - 1 /\ (\A k \in 1 .. Len(i) - 1 : t[k] = i[k + 1]) /\ segment_end(i) = p + 1
  BY <1>1 DEF t, p, segment_end
<1>4. \A k \in 2 .. p : k - 1 \in 1 .. p - 1 /\ k - 1 \in 1 .. Len(i) - 1 /\ (k - 1) + 1 = k
  BY <1>1, <1>2, <1>3
<1>5. \A k \in 2 .. p : i[k] # "/"
  <2> SUFFICES ASSUME NEW k \in 2 .. p PROVE i[k] # "/"
    OBVIOUS
  <2>1. k - 1 \in 1 .. p - 1 /\ k - 1 \in 1 .. Len(i) - 1 /\ (k - 1) + 1 = k
    BY <1>4
  <2>2. t[k - 1] # "/"
    BY <1>2, <2>1
  <2>3. t[k - 1] = i[(k - 1) + 1]
    BY <1>3, <2>1
  <2>4. QED
    BY <2>1, <2>2, <2>3
<1>6. QED
  BY <1>1, <1>2, <1>3, <1>5

\* the first segment of a path, without the slash before it
first_segment(i) == SubSeq(i, 2, segment_end(i) - 1)

\* the segments that stand for the same level, and the one above
OneDot == <<".">>
TwoDots == <<".", ".">>

\* a first segment has no slash, and can be told from dots by its length
LEMMA FirstSegmentIs ==
  ASSUME NEW i \in Text, i # << >>
  PROVE  /\ first_segment(i) \in Text /\ Len(first_segment(i)) = segment_end(i) - 2
         /\ \A k \in 1 .. segment_end(i) - 2 : first_segment(i)[k] = i[k + 1] /\ i[k + 1] # "/"
         /\ first_segment(i) = OneDot <=> segment_end(i) = 3 /\ i[2] = "."
         /\ first_segment(i) = TwoDots <=> segment_end(i) = 4 /\ i[2] = "." /\ i[3] = "."
<1> DEFINE e == segment_end(i)
           x == first_segment(i)
<1>1. e \in 2 .. Len(i) + 1 /\ Len(i) \in Nat /\ \A k \in 2 .. e - 1 : i[k] # "/"
  BY SegmentEndIs
<1> HIDE DEF e
<1>2. 2 \in Nat \ {0} /\ e - 1 \in Nat /\ 2 <= (e - 1) + 1 /\ e - 1 <= Len(i) /\ (e - 1) - 2 + 1 = e - 2
      /\ \A k \in 1 .. e - 2 : 2 + k - 1 = k + 1 /\ k + 1 \in 2 .. e - 1
  BY <1>1
<1>3. /\ SubSeq(i, 2, e - 1) \in Text /\ Len(SubSeq(i, 2, e - 1)) = (e - 1) - 2 + 1
      /\ \A k \in 1 .. (e - 1) - 2 + 1 : SubSeq(i, 2, e - 1)[k] = i[2 + k - 1]
  BY <1>2, PieceOf DEF Text
<1>4. x = SubSeq(i, 2, e - 1)
  BY DEF first_segment, e
<1> HIDE DEF x
<1>5. x \in Text /\ Len(x) = e - 2 /\ \A k \in 1 .. e - 2 : x[k] = i[k + 1] /\ i[k + 1] # "/"
  BY <1>1, <1>2, <1>3, <1>4
<1>6. "." \in Character
  BY Literals
<1>7. x = OneDot <=> e = 3 /\ i[2] = "."
  <2>1. x = <<".">> <=> Len(x) = 1 /\ x[1] = "."
    <3>1. \A y \in Text : y = <<".">> <=> Len(y) = 1 /\ y[1] = "."
      BY <1>6, ShortText
    <3>2. QED
      BY <1>5, <3>1
  <2>2. e = 3 => x[1] = i[2]
    <3>1. e = 3 => 1 \in 1 .. e - 2 /\ 1 + 1 = 2
      OBVIOUS
    <3>2. QED
      BY <1>5, <3>1
  <2>3. QED
    BY <1>1, <1>5, <2>1, <2>2 DEF OneDot
<1>8. x = TwoDots <=> e = 4 /\ i[2] = "." /\ i[3] = "."
  <2>1. x = <<".", ".">> <=> Len(x) = 2 /\ x[1] = "." /\ x[2] = "."
    <3>1. \A y \in Text : y = <<".", ".">> <=> Len(y) = 2 /\ y[1] = "." /\ y[2] = "."
      BY <1>6, ShortText
    <3>2. QED
      BY <1>5, <3>1
  <2>2. e = 4 => x[1] = i[2] /\ x[2] = i[3]
    <3>1. e = 4 => 1 \in 1 .. e - 2 /\ 1 + 1 = 2 /\ 2 \in 1 .. e - 2 /\ 2 + 1 = 3
      OBVIOUS
    <3>2. QED
      BY <1>5, <3>1
  <2>3. QED
    BY <1>1, <1>5, <2>1, <2>2 DEF TwoDots
<1>9. QED
  BY <1>5, <1>7, <1>8 DEF e, x

\* what a turn of the loop leaves
Left(i, o) == [input |-> i, output |-> o]

\* what a turn of the loop finds in front of a segment
LEMMA GuardsAre ==
  ASSUME NEW i \in Text, i # << >>, i[1] = "/"
  PROVE  /\ ~ IsPrefix(<<".", ".", "/">>, i) /\ ~ IsPrefix(<<".", "/">>, i)
         /\ i # <<".">> /\ i # <<".", ".">>
         /\ (IsPrefix(<<"/", ".", "/">>, i) <=> first_segment(i) = OneDot /\ segment_end(i) <= Len(i))
         /\ (i = <<"/", ".">> <=> first_segment(i) = OneDot /\ segment_end(i) = Len(i) + 1)
         /\ (IsPrefix(<<"/", ".", ".", "/">>, i)
               <=> first_segment(i) = TwoDots /\ segment_end(i) <= Len(i))
         /\ (i = <<"/", ".", ".">> <=> first_segment(i) = TwoDots /\ segment_end(i) = Len(i) + 1)
<1> DEFINE e == segment_end(i)
<1>1. /\ e \in 2 .. Len(i) + 1 /\ Len(i) \in Nat
      /\ \A k \in 2 .. e - 1 : i[k] # "/"
      /\ (e <= Len(i) => i[e] = "/")
  BY SegmentEndIs
<1>2. (first_segment(i) = OneDot <=> e = 3 /\ i[2] = ".")
      /\ (first_segment(i) = TwoDots <=> e = 4 /\ i[2] = "." /\ i[3] = ".")
  BY FirstSegmentIs
<1> HIDE DEF e
<1>3. \A k \in 2 .. Len(i) : i[k] = "/" => e <= k
  <2> SUFFICES ASSUME NEW k \in 2 .. Len(i), i[k] = "/", ~ (e <= k) PROVE FALSE
    OBVIOUS
  <2>1. k \in 2 .. e - 1
    BY <1>1
  <2>2. QED
    BY <1>1, <2>1
<1>4. ~ IsPrefix(<<".", ".", "/">>, i) /\ ~ IsPrefix(<<".", "/">>, i)
  <2>1. IsPrefix(<<".", ".", "/">>, i) => i[1] = "."
    BY BeginsWithMore
  <2>2. IsPrefix(<<".", "/">>, i) => i[1] = "."
    BY BeginsWithTwo
  <2>3. QED
    BY <2>1, <2>2
<1>5. i # <<".">> /\ i # <<".", ".">>
  <2>1. <<".">>[1] = "." /\ <<".", ".">>[1] = "."
    OBVIOUS
  <2>2. QED
    BY <2>1
<1>6. IsPrefix(<<"/", ".", "/">>, i) <=> Len(i) >= 3 /\ i[2] = "." /\ i[3] = "/"
  <2>1. IsPrefix(<<"/", ".", "/">>, i) <=> Len(i) >= 3 /\ i[1] = "/" /\ i[2] = "." /\ i[3] = "/"
    BY BeginsWithMore
  <2>2. QED
    BY <2>1
<1>7. IsPrefix(<<"/", ".", ".", "/">>, i) <=> Len(i) >= 4 /\ i[2] = "." /\ i[3] = "." /\ i[4] = "/"
  <2>1. IsPrefix(<<"/", ".", ".", "/">>, i)
          <=> Len(i) >= 4 /\ i[1] = "/" /\ i[2] = "." /\ i[3] = "." /\ i[4] = "/"
    <3>1. \A a, b, c, d : IsPrefix(<<a, b, c, d>>, i)
            <=> Len(i) >= 4 /\ i[1] = a /\ i[2] = b /\ i[3] = c /\ i[4] = d
      BY BeginsWithMore
    <3>2. QED
      BY <3>1, Zenon
  <2>2. QED
    BY <2>1
<1>8. "/" \in Character /\ "." \in Character
  BY Literals
<1>9. i = <<"/", ".">> <=> Len(i) = 2 /\ i[2] = "."
  <2>1. \A y \in Text : y = <<"/", ".">> <=> Len(y) = 2 /\ y[1] = "/" /\ y[2] = "."
    BY <1>8, ShortText
  <2>2. QED
    BY <2>1
<1>10. i = <<"/", ".", ".">> <=> Len(i) = 3 /\ i[2] = "." /\ i[3] = "."
  <2>1. \A y \in Text : y = <<"/", ".", ".">> <=> Len(y) = 3 /\ y[1] = "/" /\ y[2] = "." /\ y[3] = "."
    BY <1>8, ShortText
  <2>2. QED
    BY <2>1
<1>11. (Len(i) >= 3 /\ i[2] = "." /\ i[3] = "/") <=> e = 3 /\ i[2] = "." /\ e <= Len(i)
  <2>1. ASSUME Len(i) >= 3, i[2] = ".", i[3] = "/" PROVE e = 3
    <3>1. 3 \in 2 .. Len(i) /\ 2 \in 2 .. Len(i)
      BY <1>1, <2>1
    <3>2. e <= 3
      BY <1>3, <2>1, <3>1
    <3>3. e = 2 => i[2] = "/"
      BY <1>1, <2>1
    <3>4. QED
      BY <1>1, <2>1, <3>2, <3>3
  <2>2. QED
    BY <1>1, <2>1
<1>12. (Len(i) >= 4 /\ i[2] = "." /\ i[3] = "." /\ i[4] = "/")
         <=> e = 4 /\ i[2] = "." /\ i[3] = "." /\ e <= Len(i)
  <2>1. ASSUME Len(i) >= 4, i[2] = ".", i[3] = ".", i[4] = "/" PROVE e = 4
    <3>1. 4 \in 2 .. Len(i)
      BY <1>1, <2>1
    <3>2. e <= 4
      BY <1>3, <2>1, <3>1
    <3>3. (e = 2 => i[2] = "/") /\ (e = 3 => i[3] = "/")
      BY <1>1, <2>1
    <3>4. QED
      BY <1>1, <2>1, <3>2, <3>3
  <2>2. QED
    BY <1>1, <2>1
<1>13. (Len(i) = 2 /\ i[2] = ".") <=> e = 3 /\ i[2] = "." /\ e = Len(i) + 1
  <2>1. ASSUME Len(i) = 2, i[2] = "." PROVE e = 3
    <3>1. e = 2 => i[2] = "/"
      BY <1>1, <2>1
    <3>2. QED
      BY <1>1, <2>1, <3>1
  <2>2. Len(i) \in Nat /\ e \in Nat
    BY <1>1
  <2>3. ASSUME e = 3, e = Len(i) + 1 PROVE Len(i) = 2
    <3> DEFINE n == Len(i)
    <3>1. n \in Nat /\ 3 = n + 1
      BY <2>2, <2>3
    <3> HIDE DEF n
    <3>2. n = 2
      BY <3>1
    <3>3. QED
      BY <3>2 DEF n
  <2>4. Len(i) = 2 /\ e = 3 => e = Len(i) + 1
    OBVIOUS
  <2>5. QED
    BY <2>1, <2>3, <2>4, Zenon
<1>14. (Len(i) = 3 /\ i[2] = "." /\ i[3] = ".")
         <=> e = 4 /\ i[2] = "." /\ i[3] = "." /\ e = Len(i) + 1
  <2>1. ASSUME Len(i) = 3, i[2] = ".", i[3] = "." PROVE e = 4
    <3>1. (e = 2 => i[2] = "/") /\ (e = 3 => i[3] = "/")
      BY <1>1, <2>1
    <3>2. QED
      BY <1>1, <2>1, <3>1
  <2>2. Len(i) \in Nat /\ e \in Nat
    BY <1>1
  <2>3. ASSUME e = 4, e = Len(i) + 1 PROVE Len(i) = 3
    <3> DEFINE n == Len(i)
    <3>1. n \in Nat /\ 4 = n + 1
      BY <2>2, <2>3
    <3> HIDE DEF n
    <3>2. n = 3
      BY <3>1
    <3>3. QED
      BY <3>2 DEF n
  <2>4. Len(i) = 3 /\ e = 4 => e = Len(i) + 1
    OBVIOUS
  <2>5. QED
    BY <2>1, <2>3, <2>4, Zenon
<1>15. IsPrefix(<<"/", ".", "/">>, i) <=> first_segment(i) = OneDot /\ e <= Len(i)
  BY <1>2, <1>6, <1>11
<1>16. i = <<"/", ".">> <=> first_segment(i) = OneDot /\ e = Len(i) + 1
  BY <1>2, <1>9, <1>13
<1>17. IsPrefix(<<"/", ".", ".", "/">>, i) <=> first_segment(i) = TwoDots /\ e <= Len(i)
  BY <1>2, <1>7, <1>12
<1>18. i = <<"/", ".", ".">> <=> first_segment(i) = TwoDots /\ e = Len(i) + 1
  BY <1>2, <1>10, <1>14
<1>19. QED
  BY <1>4, <1>5, <1>15, <1>16, <1>17, <1>18 DEF e

\* what is behind the first segment
rest_of(i) == SubSeq(i, segment_end(i), Len(i))

\* the two kinds of dots, of which none is empty
LEMMA DotsDiffer == OneDot # TwoDots /\ Dots = {OneDot, TwoDots} /\ << >> \notin Dots
<1>1. Len(OneDot) = 1 /\ Len(TwoDots) = 2 /\ Len(<< >>) = 0
  BY DEF OneDot, TwoDots
<1>2. Dots = {OneDot, TwoDots}
  BY DEF Dots, OneDot, TwoDots
<1> HIDE DEF OneDot, TwoDots
<1>3. QED
  BY <1>1, <1>2

\* a turn takes a segment, and what is left begins with a slash or is nothing
LEMMA TurnIs ==
  ASSUME NEW i \in Text, i # << >>, i[1] = "/", NEW o
  PROVE  LET x == first_segment(i)
             more == segment_end(i) <= Len(i)
         IN  remove_dots(i, o) =
               IF x = OneDot THEN Left(IF more THEN rest_of(i) ELSE <<"/">>, o)
               ELSE IF x = TwoDots THEN Left(IF more THEN rest_of(i) ELSE <<"/">>, pop_last_segment(o))
               ELSE Left(rest_of(i), o \o SubSeq(i, 1, segment_end(i) - 1))
<1> DEFINE x == first_segment(i)
           e == segment_end(i)
           more == e <= Len(i)
           g == remove_dots(i, o)
           p == pop_last_segment(o)
           b1 == IsPrefix(<<".", ".", "/">>, i)
           b2 == IsPrefix(<<".", "/">>, i)
           b3 == IsPrefix(<<"/", ".", "/">>, i)
           b4 == i = <<"/", ".">>
           b5 == IsPrefix(<<"/", ".", ".", "/">>, i)
           b6 == i = <<"/", ".", ".">>
           b7 == i \in {<<".">>, <<".", ".">>}
<1>1. g = CASE i = << >> -> Left(SubSeq(i, 1, Len(i)), o)
            [] b1 -> Left(SubSeq(i, 4, Len(i)), o)
            [] b2 -> Left(SubSeq(i, 3, Len(i)), o)
            [] b3 -> Left(SubSeq(i, 3, Len(i)), o)
            [] b4 -> Left(<<"/">>, o)
            [] b5 -> Left(SubSeq(i, 4, Len(i)), p)
            [] b6 -> Left(<<"/">>, p)
            [] b7 -> Left(SubSeq(i, Len(i) + 1, Len(i)), o)
            [] OTHER -> Left(SubSeq(i, e, Len(i)), o \o SubSeq(i, 1, e - 1))
  BY Zenon DEF remove_dots, Left, segment_end
<1>2. /\ ~ b1 /\ ~ b2 /\ ~ b7
      /\ (b3 <=> x = OneDot /\ more) /\ (b4 <=> x = OneDot /\ e = Len(i) + 1)
      /\ (b5 <=> x = TwoDots /\ more) /\ (b6 <=> x = TwoDots /\ e = Len(i) + 1)
  BY GuardsAre
<1>3. more \/ e = Len(i) + 1
  BY SegmentEndIs
<1>4. ~ (more /\ e = Len(i) + 1)
  BY SegmentEndIs
<1>5. (x = OneDot => e = 3) /\ (x = TwoDots => e = 4)
  BY FirstSegmentIs
<1>6. OneDot # TwoDots
  BY DotsDiffer
<1>7. rest_of(i) = SubSeq(i, e, Len(i))
  BY DEF rest_of
<1> HIDE DEF x, e, more, g, p, b1, b2, b3, b4, b5, b6, b7, OneDot, TwoDots, Left
<1>8. CASE x = OneDot /\ more
  <2>1. b3 /\ ~ b4 /\ ~ b5 /\ ~ b6
    BY <1>2, <1>4, <1>6, <1>8
  <2>2. g = Left(SubSeq(i, 3, Len(i)), o)
    BY <1>1, <1>2, <2>1
  <2>3. QED
    BY <1>5, <1>7, <1>8, <2>2 DEF g, x, e, more
<1>9. CASE x = OneDot /\ ~ more
  <2>1. ~ b3 /\ b4 /\ ~ b5 /\ ~ b6
    BY <1>2, <1>3, <1>6, <1>9
  <2>2. g = Left(<<"/">>, o)
    BY <1>1, <1>2, <2>1
  <2>3. QED
    BY <1>9, <2>2 DEF g, x, e, more
<1>10. CASE x = TwoDots /\ more
  <2>1. ~ b3 /\ ~ b4 /\ b5 /\ ~ b6
    BY <1>2, <1>4, <1>6, <1>10
  <2>2. g = Left(SubSeq(i, 4, Len(i)), p)
    BY <1>1, <1>2, <2>1
  <2>3. QED
    BY <1>5, <1>6, <1>7, <1>10, <2>2 DEF g, x, e, more, p
<1>11. CASE x = TwoDots /\ ~ more
  <2>1. ~ b3 /\ ~ b4 /\ ~ b5 /\ b6
    BY <1>2, <1>3, <1>6, <1>11
  <2>2. g = Left(<<"/">>, p)
    BY <1>1, <1>2, <2>1
  <2>3. QED
    BY <1>6, <1>11, <2>2 DEF g, x, e, more, p
<1>12. CASE x # OneDot /\ x # TwoDots
  <2>1. ~ b3 /\ ~ b4 /\ ~ b5 /\ ~ b6
    BY <1>2, <1>12
  <2>2. g = Left(SubSeq(i, e, Len(i)), o \o SubSeq(i, 1, e - 1))
    BY <1>1, <1>2, <2>1
  <2>3. QED
    BY <1>7, <1>12, <2>2 DEF g, x, e
<1>13. QED
  BY <1>8, <1>9, <1>10, <1>11, <1>12

(***************************************************************************)
(* A path by its segments, and an output by what was pushed on it.         *)
(***************************************************************************)

\* no slash in it
Clean(x) == \A i \in 1 .. Len(x) : x[i] # "/"

\* up to the last slash, and behind it
LEMMA LastSlash ==
  ASSUME NEW o \in Text, o # << >>, o[1] = "/"
  PROVE  \E k \in 1 .. Len(o) : /\ o[k] = "/" /\ \A i \in k + 1 .. Len(o) : o[i] # "/"
                                /\ pop_last_segment(o) = SubSeq(o, 1, k - 1)
<1> DEFINE S == {i \in DOMAIN o : o[i] = "/"}
           m == CHOOSE i \in S : \A j \in S : j <= i
<1>1. Len(o) \in Nat /\ Len(o) # 0 /\ DOMAIN o = 1 .. Len(o)
  BY LenProperties, EmptySeq DEF Text
<1>2. 1 \in S /\ S \in SUBSET (1 .. Len(o)) /\ S # {}
  BY <1>1
<1>3. \E i \in S : \A j \in S : j <= i
  BY <1>1, <1>2, LastIn
<1>4. m \in S /\ \A j \in S : j <= m
  BY <1>3
<1>5. pop_last_segment(o) = SubSeq(o, 1, m - 1)
  BY <1>2, Zenon DEF pop_last_segment
<1>6. \A i \in m + 1 .. Len(o) : i \in 1 .. Len(o) /\ ~ (i <= m)
  BY <1>1, <1>4
<1>7. S = {i \in 1 .. Len(o) : o[i] = "/"}
  BY <1>1
<1> HIDE DEF m
<1>8. m \in 1 .. Len(o) /\ o[m] = "/"
  BY <1>4, <1>7
<1> HIDE DEF S
<1>9. \A i \in m + 1 .. Len(o) : o[i] # "/"
  BY <1>4, <1>6, <1>7
<1>10. QED
  BY <1>5, <1>8, <1>9

\* a text is what is before a slash, the slash, and what is behind it
LEMMA ThreePieces ==
  ASSUME NEW o \in Text, NEW k \in 1 .. Len(o), o[k] = "/"
  PROVE  LET w == SubSeq(o, 1, k - 1)
             x == SubSeq(o, k + 1, Len(o))
         IN  /\ w \in Text /\ x \in Text /\ o = Append(w, "/") \o x
             /\ Len(w) = k - 1 /\ \A i \in 1 .. k - 1 : w[i] = o[i]
             /\ Len(x) = Len(o) - k /\ \A i \in 1 .. Len(o) - k : x[i] = o[k + i]
<1> DEFINE w == SubSeq(o, 1, k - 1)
           x == SubSeq(o, k + 1, Len(o))
           n == Len(o)
<1>1. n \in Nat /\ k \in Nat \ {0} /\ k <= n /\ k - 1 \in Nat /\ k - 1 <= n /\ k + 1 \in Nat \ {0}
      /\ k + 1 <= n + 1 /\ n - (k + 1) + 1 = n - k /\ \A i \in 1 .. n - k : k + 1 + i - 1 = k + i
  BY LenProperties DEF Text
<1>2. w \in Text /\ Len(w) = k - 1 /\ \A i \in 1 .. k - 1 : w[i] = o[i]
  BY <1>1, PrefixOf DEF Text
<1>3. /\ x \in Text /\ Len(x) = n - (k + 1) + 1
      /\ \A i \in 1 .. n - (k + 1) + 1 : x[i] = o[k + 1 + i - 1]
  <2>1. n \in Nat /\ k + 1 \in Nat \ {0} /\ k + 1 <= n + 1 /\ n <= Len(o)
    BY <1>1
  <2>2. \A a \in Nat \ {0} : \A b \in Nat : a <= b + 1 /\ b <= Len(o) =>
          /\ SubSeq(o, a, b) \in Text /\ Len(SubSeq(o, a, b)) = b - a + 1
          /\ \A i \in 1 .. b - a + 1 : SubSeq(o, a, b)[i] = o[a + i - 1]
    BY PieceOf DEF Text
  <2>3. QED
    BY <2>1, <2>2
<1>4. SubSeq(o, 1, k) = w \o <<"/">>
  BY <1>1, SubSeqRecursiveSecond DEF Text
<1>5. SubSeq(o, 1, k) = Append(w, "/")
  <2>1. "/" \in Character
    BY Literals
  <2> HIDE DEF w
  <2>2. Append(w, "/") = w \o <<"/">>
    BY <1>2, <2>1, AppendIsConcat DEF Text
  <2>3. QED
    BY <1>4, <2>2
<1>6. o = SubSeq(o, 1, k) \o x
  <2>1. SubSeq(o, 1, n) = o
    BY SubSeqFull DEF Text
  <2>2. 1 \in 1 .. n + 1 /\ k \in 1 .. n /\ k \in 1 - 1 .. n /\ n \in k .. n
    BY <1>1
  <2>3. SubSeq(o, 1, k) \o SubSeq(o, k + 1, n) = SubSeq(o, 1, n)
    BY <2>2, ConcatAdjacentSubSeq DEF Text
  <2>4. QED
    BY <2>1, <2>3
<1> HIDE DEF w, x, n
<1>7. o = Append(w, "/") \o x
  BY <1>5, <1>6
<1>8. /\ Len(x) = n - k /\ \A i \in 1 .. n - k : x[i] = o[k + i]
  BY <1>1, <1>3
<1>9. QED
  BY <1>2, <1>3, <1>7, <1>8 DEF w, x, n

\* the parts of a path that begins with a slash: nothing, and its segments
Rooted(b) == <<<< >>>> \o b

\* segments behind the empty part before the first slash
LEMMA PartsAre ==
  ASSUME NEW b \in Seq(Text)
  PROVE  /\ Rooted(b) \in SomeParts /\ Len(Rooted(b)) = Len(b) + 1 /\ Len(b) \in Nat
         /\ Rooted(b)[1] = << >> /\ \A i \in 1 .. Len(b) : Rooted(b)[i + 1] = b[i]
         /\ Tail(Rooted(b)) = b
         /\ \A x \in Text : Rooted(Append(b, x)) = Append(Rooted(b), x)
<1>1. << >> \in Text /\ <<<< >>>> \in Seq(Text) /\ Len(<<<< >>>>) = 1 /\ <<<< >>>>[1] = << >>
  BY TextIs
<1> DEFINE a == <<<< >>>>
           p == a \o b
<1>2. a \in Seq(Text) /\ Len(a) = 1 /\ a[1] = << >>
  BY <1>1
<1>3. Len(b) \in Nat
  BY LenProperties
<1> HIDE DEF a
<1>4. /\ p \in Seq(Text) /\ Len(p) = Len(a) + Len(b)
      /\ \A i \in 1 .. Len(a) + Len(b) : p[i] = IF i <= Len(a) THEN a[i] ELSE b[i - Len(a)]
  BY <1>2, ConcatProperties
<1>5. Rooted(b) = p
  BY DEF Rooted, a
<1>6. \A x \in Text : Rooted(Append(b, x)) = Append(p, x)
  <2> SUFFICES ASSUME NEW x \in Text PROVE Rooted(Append(b, x)) = Append(p, x)
    OBVIOUS
  <2>1. Rooted(Append(b, x)) = a \o Append(b, x)
    BY DEF Rooted, a
  <2>2. Append(b, x) = b \o <<x>> /\ Append(p, x) = p \o <<x>> /\ <<x>> \in Seq(Text)
    BY <1>4, AppendIsConcat
  <2>3. a \o (b \o <<x>>) = (a \o b) \o <<x>>
    BY <1>2, <2>2, ConcatAssociative
  <2>4. QED
    BY <2>1, <2>2, <2>3
<1> HIDE DEF p
<1>7. Len(p) = Len(b) + 1 /\ p[1] = << >>
  BY <1>2, <1>3, <1>4
<1>8. \A i \in 1 .. Len(b) : p[i + 1] = b[i]
  <2> SUFFICES ASSUME NEW i \in 1 .. Len(b) PROVE p[i + 1] = b[i]
    OBVIOUS
  <2>1. i + 1 \in 1 .. Len(a) + Len(b) /\ ~ (i + 1 <= Len(a)) /\ (i + 1) - Len(a) = i
    BY <1>2, <1>3
  <2>2. QED
    BY <1>4, <2>1
<1>9. p # << >> /\ p \in SomeParts
  <2>1. p # << >>
    BY <1>3, <1>7
  <2>2. QED
    BY <1>4, <2>1 DEF SomeParts
<1>10. Tail(p) = b
  <2>1. /\ Tail(p) \in Seq(Text) /\ Len(Tail(p)) = Len(p) - 1
        /\ \A i \in 1 .. Len(p) - 1 : Tail(p)[i] = p[i + 1]
    BY <1>4, <1>9, HeadTailProperties
  <2> DEFINE t == Tail(p)
  <2>2. t \in Seq(Text) /\ Len(t) = Len(b) /\ \A i \in 1 .. Len(b) : t[i] = b[i]
    BY <1>3, <1>7, <1>8, <2>1
  <2> HIDE DEF t
  <2>3. t = b
    BY <2>2, SeqEqual
  <2>4. QED
    BY <2>3 DEF t
<1>11. QED
  BY <1>3, <1>5, <1>6, <1>7, <1>8, <1>9, <1>10

\* what has been written, segment by segment
OutIs(o, b) ==
  /\ o \in Text /\ b \in Seq(Text) /\ (o = << >> \/ o[1] = "/")
  /\ split(o, "/") = Rooted(b)

\* nothing was pushed
LEMMA OutNothing == OutIs(<< >>, << >>)
<1>1. split(<< >>, "/") = <<<< >>>>
  BY SplitEmpty
<1>2. Rooted(<< >>) = <<<< >>>>
  <2>1. <<<< >>>> \in Seq(Text)
    BY TextIs
  <2>2. QED
    BY <2>1, ConcatEmptySeq DEF Rooted
<1>3. << >> \in Seq(Text)
  BY EmptySeq
<1>4. QED
  BY <1>1, <1>2, <1>3, TextIs DEF OutIs

\* the loop copies a segment as the stack takes it
LEMMA Pushed ==
  ASSUME NEW o, NEW b, OutIs(o, b), NEW x \in Text, Clean(x)
  PROVE  OutIs(Append(o, "/") \o x, Append(b, x)) /\ Append(o, "/") \o x # << >>
<1>1. o \in Text /\ b \in Seq(Text) /\ (o = << >> \/ o[1] = "/") /\ split(o, "/") = Rooted(b)
  BY DEF OutIs
<1>2. "/" \in Character
  BY Literals
<1> DEFINE w == Append(o, "/")
           p == w \o x
<1>3. w \in Text /\ Len(w) = Len(o) + 1 /\ Len(o) \in Nat
      /\ (\A i \in 1 .. Len(o) : w[i] = o[i]) /\ w[Len(o) + 1] = "/"
  BY <1>1, <1>2, TextGrows
<1>4. split(p, "/") = Append(split(o, "/"), x)
  BY <1>1, <1>2, SplitPiece DEF Clean
<1>5. w[1] = "/" /\ 1 <= Len(w)
  <2>1. CASE o = << >>
    <3>1. Len(o) = 0
      BY <2>1
    <3>2. QED
      BY <1>3, <3>1
  <2>2. CASE o # << >>
    <3>1. Len(o) # 0
      BY <1>1, <2>2, EmptySeq DEF Text
    <3>2. 1 \in 1 .. Len(o)
      BY <1>3, <3>1
    <3>3. QED
      BY <1>1, <1>3, <2>2, <3>2
  <2>3. QED
    BY <2>1, <2>2
<1> HIDE DEF w
<1>6. /\ p \in Text /\ Len(p) = Len(w) + Len(x) /\ Len(w) \in Nat /\ Len(x) \in Nat
      /\ \A i \in 1 .. Len(w) + Len(x) : p[i] = IF i <= Len(w) THEN w[i] ELSE x[i - Len(w)]
  BY <1>3, ConcatProperties, LenProperties DEF Text
<1>7. p[1] = "/" /\ p # << >>
  <2>1. 1 \in 1 .. Len(w) + Len(x) /\ Len(p) # 0
    BY <1>5, <1>6
  <2>2. QED
    BY <1>5, <1>6, <2>1
<1>8. Append(b, x) \in Seq(Text) /\ Rooted(Append(b, x)) = Append(Rooted(b), x)
  BY <1>1, PartsAre, AppendProperties
<1> HIDE DEF p
<1>9. OutIs(p, Append(b, x))
  BY <1>1, <1>4, <1>6, <1>7, <1>8 DEF OutIs
<1>10. QED
  BY <1>7, <1>9 DEF p, w

\* the stack without its top
Below(b) == IF b = << >> THEN b ELSE Front(b)

\* pop_last_segment takes back what was pushed last
LEMMA Popped ==
  ASSUME NEW o, NEW b, OutIs(o, b)
  PROVE  OutIs(pop_last_segment(o), Below(b))
<1>1. o \in Text /\ b \in Seq(Text) /\ (o = << >> \/ o[1] = "/") /\ split(o, "/") = Rooted(b)
  BY DEF OutIs
<1>2. /\ Rooted(b) \in SomeParts /\ Len(Rooted(b)) = Len(b) + 1 /\ Len(b) \in Nat
      /\ Tail(Rooted(b)) = b
  BY <1>1, PartsAre
<1>3. CASE o = << >>
  <2>1. pop_last_segment(o) = << >>
    <3>1. {i \in DOMAIN o : o[i] = "/"} = {}
      BY <1>3
    <3>2. QED
      BY <3>1, Zenon DEF pop_last_segment
  <2>2. split(o, "/") = <<<< >>>>
    BY <1>3, SplitEmpty
  <2>3. Len(<<<< >>>>) = 1
    OBVIOUS
  <2>4. Len(b) = 0
    BY <1>1, <1>2, <2>2, <2>3
  <2>5. b = << >>
    BY <1>1, <2>4, EmptySeq
  <2>6. QED
    BY <1>3, <2>1, <2>5, OutNothing DEF Below
<1>4. CASE o # << >>
  <2>1. PICK k \in 1 .. Len(o) : /\ o[k] = "/" /\ \A i \in k + 1 .. Len(o) : o[i] # "/"
                                 /\ pop_last_segment(o) = SubSeq(o, 1, k - 1)
    BY <1>1, <1>4, LastSlash
  <2> DEFINE w == SubSeq(o, 1, k - 1)
             x == SubSeq(o, k + 1, Len(o))
  <2>2. /\ w \in Text /\ x \in Text /\ o = Append(w, "/") \o x
        /\ Len(w) = k - 1 /\ (\A i \in 1 .. k - 1 : w[i] = o[i])
        /\ Len(x) = Len(o) - k /\ \A i \in 1 .. Len(o) - k : x[i] = o[k + i]
    BY <1>1, <2>1, ThreePieces
  <2>3. pop_last_segment(o) = w
    BY <2>1
  <2> HIDE DEF w, x
  <2>4. Len(o) \in Nat
    BY <1>1, LenProperties DEF Text
  <2>5. Clean(x)
    <3> SUFFICES ASSUME NEW i \in 1 .. Len(x) PROVE x[i] # "/"
      BY DEF Clean
    <3>1. i \in 1 .. Len(o) - k /\ k + i \in k + 1 .. Len(o)
      BY <2>1, <2>2, <2>4
    <3>2. QED
      BY <2>1, <2>2, <3>1
  <2>6. w = << >> \/ w[1] = "/"
    <3>1. CASE k = 1
      <4>1. Len(w) = 0
        BY <2>2, <3>1
      <4>2. QED
        BY <2>2, <4>1, EmptySeq DEF Text
    <3>2. CASE k # 1
      <4>1. 1 \in 1 .. k - 1
        BY <2>1, <3>2
      <4>2. QED
        BY <1>1, <1>4, <2>2, <4>1
    <3>3. QED
      BY <3>1, <3>2
  <2>7. split(o, "/") = Append(split(w, "/"), x)
    <3>1. split(Append(w, "/") \o x, "/") = Append(split(w, "/"), x)
      <4>1. "/" \in Character
        BY Literals
      <4>2. QED
        BY <2>2, <2>5, <4>1, SplitPiece DEF Clean
    <3>2. QED
      BY <2>2, <3>1
  <2> DEFINE p == split(w, "/")
  <2>8. p \in SomeParts
    BY <2>2, SplitHolds
  <2> HIDE DEF p
  <2>9. Rooted(b) = Append(p, x) /\ p \in Seq(Text) /\ Len(p) \in Nat \ {0}
    BY <1>1, <2>7, <2>8, SomePartsIs DEF p
  <2>10. Len(b) = Len(p)
    <3>1. Len(Append(p, x)) = Len(p) + 1
      BY <2>2, <2>9, AppendProperties
    <3>2. QED
      BY <1>2, <2>9, <3>1
  <2>11. b # << >> /\ b \in SomeParts
    <3>1. b # << >>
      BY <2>9, <2>10
    <3>2. QED
      BY <1>1, <3>1 DEF SomeParts
  <2>12. /\ Front(b) \in Seq(Text) /\ Last(b) \in Text /\ b = Append(Front(b), Last(b))
    BY <2>11, SomePartsIs
  <2> DEFINE f == Front(b)
             y == Last(b)
  <2>13. f \in Seq(Text) /\ y \in Text /\ b = Append(f, y) /\ Below(b) = f
    BY <2>11, <2>12 DEF Below
  <2> HIDE DEF f, y
  <2>14. Rooted(f) \in Seq(Text) /\ Rooted(Append(f, y)) = Append(Rooted(f), y)
    BY <2>13, PartsAre DEF SomeParts
  <2>15. Append(Rooted(f), y) = Append(p, x)
    BY <2>9, <2>13, <2>14
  <2>16. Rooted(f) = p
    BY <2>2, <2>9, <2>13, <2>14, <2>15, AppendInjective
  <2>17. QED
    BY <2>2, <2>3, <2>6, <2>13, <2>16 DEF OutIs, p
<1>5. QED
  BY <1>1, <1>3, <1>4

(***************************************************************************)
(* Dot segments, resolved on a stack: what the loop stands for.            *)
(***************************************************************************)

\* a path, each character unescaped
unescaped(s) == [i \in DOMAIN s |-> unescape(s[i])]

\* a segment more, on the stack
Resolve(b, x) ==
  CASE x = <<".">>      -> b
    [] x = <<".", ".">> -> IF b = << >> THEN b ELSE Front(b)
    [] OTHER            -> Append(b, x)

\* the stack after each segment, as resolved has it
Stacks(segments, r) ==
  r = [i \in 0 .. Len(segments) |->
        IF i = 0 THEN << >>
        ELSE CASE segments[i] = <<".">>      -> r[i - 1]
               [] segments[i] = <<".", ".">> -> IF r[i - 1] = << >> THEN r[i - 1] ELSE Front(r[i - 1])
               [] OTHER                      -> Append(r[i - 1], segments[i])]

stack_of(segments) == CHOOSE r : Stacks(segments, r)

\* the segments of a path, unescaped
segments_of(path) == Tail(split(unescaped(path), "/"))

\* what segments resolve to
ResolvedOf(segments) ==
  LET top == stack_of(segments)[Len(segments)]
  IN  IF Last(segments) \in Dots THEN Append(top, << >>) ELSE top

\* the reading of RFC 3986, with its stack named
LEMMA ResolvedIs ==
  ASSUME NEW path
  PROVE  resolved(path) = IF path = << >> THEN <<<< >>>> ELSE ResolvedOf(segments_of(path))
BY Zenon DEF resolved, ResolvedOf, segments_of, stack_of, Stacks, unescaped

\* what a segment does to the stack
LEMMA ResolveIs ==
  ASSUME NEW b \in Seq(Text), NEW x \in Text
  PROVE  /\ (x = OneDot => Resolve(b, x) = b)
         /\ (x = TwoDots => Resolve(b, x) = Below(b))
         /\ (x \notin Dots => Resolve(b, x) = Append(b, x))
         /\ Resolve(b, x) \in Seq(Text) /\ Below(b) \in Seq(Text)
<1>1. Resolve(b, x) = CASE x = OneDot -> b [] x = TwoDots -> Below(b) [] OTHER -> Append(b, x)
  BY Zenon DEF Resolve, OneDot, TwoDots, Below
<1>2. Below(b) \in Seq(Text)
  <2>1. CASE b = << >>
    BY <2>1 DEF Below
  <2>2. CASE b # << >>
    <3>1. b \in SomeParts
      BY <2>2 DEF SomeParts
    <3>2. QED
      BY <2>2, <3>1, SomePartsIs DEF Below
  <2>3. QED
    BY <2>1, <2>2
<1>3. Append(b, x) \in Seq(Text)
  BY AppendProperties
<1> DEFINE a == Append(b, x)
           l == Below(b)
<1> HIDE DEF Below, OneDot, TwoDots, a, l
<1>4. Resolve(b, x) = CASE x = OneDot -> b [] x = TwoDots -> l [] OTHER -> a
  BY <1>1, Zenon DEF a, l
<1>5. (x = OneDot => Resolve(b, x) = b) /\ (x = TwoDots => Resolve(b, x) = l)
      /\ (x \notin Dots => Resolve(b, x) = a)
  BY <1>4, DotsDiffer
<1>6. Resolve(b, x) \in Seq(Text)
  BY <1>2, <1>3, <1>5, DotsDiffer DEF a, l
<1>7. QED
  BY <1>2, <1>5, <1>6 DEF a, l

\* the stack exists, segment by segment
LEMMA StackIs ==
  ASSUME NEW segs \in Seq(Text)
  PROVE  LET R == stack_of(segs)
         IN  /\ R[0] = << >>
             /\ \A i \in 1 .. Len(segs) : R[i] = Resolve(R[i - 1], segs[i])
             /\ \A i \in 0 .. Len(segs) : R[i] \in Seq(Text)
<1> DEFINE n == Len(segs)
           X == Seq(Text)
           h == [p \in X \X (1 .. n) |-> Resolve(p[1], segs[p[2]])]
<1>1. n \in Nat /\ << >> \in X /\ \A i \in 1 .. n : segs[i] \in Text
  BY LenProperties, ElementOfSeq, EmptySeq
<1>2. h \in [X \X (1 .. n) -> X] /\ \A x \in X : \A i \in 1 .. n : h[<<x, i>>] = Resolve(x, segs[i])
  <2>1. \A x \in X : \A i \in 1 .. n : Resolve(x, segs[i]) \in X
    BY <1>1, ResolveIs
  <2> HIDE DEF X, n
  <2>2. QED
    BY <2>1
<1> HIDE DEF h, X, n
<1>3. PICK f \in [0 .. n -> X] : Steps(f, << >>, h, n)
  BY <1>1, <1>2, StepsExist, Zenon
<1>4. f[0] = << >> /\ \A i \in 1 .. n : f[i] = Resolve(f[i - 1], segs[i])
  <2>1. \A i \in 1 .. n : i - 1 \in 0 .. n /\ f[i - 1] \in X
    <3>1. \A i \in 1 .. n : i - 1 \in 0 .. n
      BY <1>1
    <3>2. QED
      BY <1>3, <3>1
  <2>2. f[0] = << >> /\ \A i \in 1 .. n : f[i] = h[<<f[i - 1], i>>]
    BY <1>3 DEF Steps
  <2>3. QED
    BY <1>2, <2>1, <2>2, Zenon
<1>5. Stacks(segs, f)
  <2>1. \A i \in 0 .. n : (i \in 1 .. n \/ i = 0) /\ (i \in 1 .. n => i # 0)
    BY <1>1
  <2>2. \A i \in 0 .. n : f[i] = IF i = 0 THEN << >> ELSE Resolve(f[i - 1], segs[i])
    BY <1>4, <2>1, Zenon
  <2>3. f = [i \in 0 .. n |-> f[i]]
    BY <1>3
  <2>4. f = [i \in 0 .. n |-> IF i = 0 THEN << >> ELSE Resolve(f[i - 1], segs[i])]
    BY <2>2, <2>3, Zenon
  <2>5. QED
    BY <2>4, Zenon DEF Stacks, n, Resolve
<1> DEFINE R == stack_of(segs)
<1>6. Stacks(segs, R)
  BY <1>5, Zenon DEF stack_of
<1> HIDE DEF R
<1>7. R = [i \in 0 .. n |-> IF i = 0 THEN << >> ELSE Resolve(R[i - 1], segs[i])]
  BY <1>6, Zenon DEF Stacks, Resolve, n
<1>8. R[0] = << >> /\ \A i \in 1 .. n : R[i] = Resolve(R[i - 1], segs[i])
  <2>1. 0 \in 0 .. n /\ \A i \in 1 .. n : i \in 0 .. n /\ i # 0
    BY <1>1
  <2>2. \A i \in 0 .. n : R[i] = IF i = 0 THEN << >> ELSE Resolve(R[i - 1], segs[i])
    BY <1>7, Zenon
  <2>3. QED
    BY <2>1, <2>2, Zenon
<1> DEFINE P == {i \in 0 .. n : R[i] \in X}
<1>9. 0 \in P
  BY <1>1, <1>8
<1>10. ASSUME NEW k \in 0 .. n - 1, k \in P PROVE k + 1 \in P
  <2>1. PICK i \in 1 .. n : i = k + 1
    BY <1>1
  <2>2. i - 1 = k /\ i \in 0 .. n
    BY <1>1, <2>1
  <2>3. R[i] = Resolve(R[k], segs[i]) /\ R[k] \in X /\ segs[i] \in Text
    BY <1>1, <1>8, <1>10, <2>2
  <2>4. R[i] \in X
    BY <2>3, ResolveIs DEF X
  <2>5. QED
    BY <2>1, <2>2, <2>4
<1> HIDE DEF P
<1>11. 0 .. n \subseteq P
  BY <1>1, <1>9, <1>10, 0 \in Int, n \in Int, IntervalUp, Zenon
<1>12. \A i \in 0 .. n : R[i] \in X
  BY <1>11 DEF P
<1>13. QED
  BY <1>8, <1>12, Zenon DEF n, X, R

\* a piece is of the same characters
LEMMA PieceStays ==
  ASSUME NEW T, NEW s \in Seq(T), NEW a \in Nat \ {0}, NEW b \in Int, b <= Len(s)
  PROVE  SubSeq(s, a, b) \in Seq(T)
<1>1. Len(s) \in Nat /\ \A i \in 1 .. Len(s) : s[i] \in T
  BY LenProperties, ElementOfSeq
<1>2. \A i \in a .. b : s[i] \in T
  BY <1>1
<1>3. CASE a <= b
  BY <1>2, <1>3, SubSeqProperties
<1>4. CASE b < a
  <2>1. SubSeq(s, a, b) = << >>
    BY <1>4
  <2>2. QED
    BY <2>1, EmptySeq
<1>5. QED
  BY <1>1, <1>3, <1>4

\* pop_last_segment leaves no other characters
LEMMA PopStays ==
  ASSUME NEW T, NEW o \in Seq(T)
  PROVE  pop_last_segment(o) \in Seq(T)
<1> DEFINE S == {i \in DOMAIN o : o[i] = "/"}
           m == CHOOSE i \in S : \A j \in S : j <= i
<1>1. Len(o) \in Nat /\ DOMAIN o = 1 .. Len(o) /\ S \in SUBSET (1 .. Len(o))
  BY LenProperties
<1>2. CASE S = {}
  <2>1. pop_last_segment(o) = << >>
    BY <1>2, Zenon DEF pop_last_segment
  <2>2. QED
    BY <2>1, EmptySeq
<1>3. CASE S # {}
  <2>1. \E i \in S : \A j \in S : j <= i
    BY <1>1, <1>3, LastIn
  <2>2. m \in S
    BY <2>1
  <2>3. m \in 1 .. Len(o)
    BY <1>1, <2>2
  <2>4. pop_last_segment(o) = SubSeq(o, 1, m - 1)
    BY <1>3, Zenon DEF pop_last_segment
  <2> HIDE DEF m, S
  <2>5. m - 1 \in Int /\ m - 1 <= Len(o) /\ 1 \in Nat \ {0}
    BY <1>1, <2>3
  <2>6. SubSeq(o, 1, m - 1) \in Seq(T)
    BY <2>5, PieceStays
  <2>7. QED
    BY <2>4, <2>6
<1>4. QED
  BY <1>2, <1>3

\* no character comes from elsewhere
LEMMA TurnStays ==
  ASSUME NEW T, T \subseteq Character, "/" \in T, NEW i \in Seq(T), NEW o \in Seq(T)
  PROVE  remove_dots(i, o) \in [input : Seq(T), output : Seq(T)]
<1> DEFINE e == segment_end(i)
           g == remove_dots(i, o)
           p == pop_last_segment(o)
           n == Len(i)
           W(j) == SubSeq(i, j, n)
           v == o \o SubSeq(i, 1, e - 1)
           b1 == IsPrefix(<<".", ".", "/">>, i)
           b2 == IsPrefix(<<".", "/">>, i)
           b3 == IsPrefix(<<"/", ".", "/">>, i)
           b4 == i = <<"/", ".">>
           b5 == IsPrefix(<<"/", ".", ".", "/">>, i)
           b6 == i = <<"/", ".", ".">>
           b7 == i \in {<<".">>, <<".", ".">>}
<1>1. g = CASE i = << >> -> Left(W(1), o)
            [] b1 -> Left(W(4), o)
            [] b2 -> Left(W(3), o)
            [] b3 -> Left(W(3), o)
            [] b4 -> Left(<<"/">>, o)
            [] b5 -> Left(W(4), p)
            [] b6 -> Left(<<"/">>, p)
            [] b7 -> Left(W(n + 1), o)
            [] OTHER -> Left(W(e), v)
  BY Zenon DEF remove_dots, Left, segment_end
<1>2. p \in Seq(T) /\ <<"/">> \in Seq(T)
  BY PopStays
<1>3. n \in Nat
  BY LenProperties
<1>4. e \in Nat \ {0} /\ (i # << >> => e - 1 \in Nat /\ e - 1 <= n)
  <2>1. CASE i = << >>
    <3>1. Tail(i) = << >>
      BY <2>1
    <3>2. segment_end(i) = position(<< >>, "/") + 1
      BY <3>1 DEF segment_end
    <3>3. position(<< >>, "/") \in 1 .. Len(<< >>) + 1
      BY PositionIs, TextIs
    <3>4. position(<< >>, "/") = 1
      BY <3>3
    <3>5. QED
      BY <2>1, <3>2, <3>4
  <2>2. CASE i # << >>
    <3>1. i \in Text
      BY SeqMonotonic DEF Text
    <3>2. segment_end(i) \in 2 .. Len(i) + 1
      BY <2>2, <3>1, SegmentEndIs
    <3>3. QED
      BY <1>3, <3>2
  <2>3. QED
    BY <2>1, <2>2
<1> HIDE DEF e, p
<1>5. \A j \in Nat \ {0} : W(j) \in Seq(T)
  BY <1>3, PieceStays
<1>6. i # << >> => v \in Seq(T)
  <2> SUFFICES ASSUME i # << >> PROVE v \in Seq(T)
    OBVIOUS
  <2>1. e - 1 \in Int /\ e - 1 <= Len(i) /\ 1 \in Nat \ {0}
    BY <1>4
  <2>2. SubSeq(i, 1, e - 1) \in Seq(T)
    BY <2>1, PieceStays
  <2>3. QED
    BY <2>2, ConcatProperties
<1>7. n + 1 \in Nat \ {0} /\ 1 \in Nat \ {0} /\ 3 \in Nat \ {0} /\ 4 \in Nat \ {0}
  BY <1>3
<1>8. W(1) \in Seq(T) /\ W(3) \in Seq(T) /\ W(4) \in Seq(T) /\ W(n + 1) \in Seq(T) /\ W(e) \in Seq(T)
  BY <1>4, <1>5, <1>7
<1> DEFINE X == [input : Seq(T), output : Seq(T)]
<1> HIDE DEF W, v, b1, b2, b3, b4, b5, b6, b7, n, g
<1>9. \A a \in Seq(T), b \in Seq(T) : Left(a, b) \in X
  BY DEF Left
<1>10. Left(W(1), o) \in X /\ Left(W(4), o) \in X /\ Left(W(3), o) \in X /\ Left(<<"/">>, o) \in X
       /\ Left(W(4), p) \in X /\ Left(<<"/">>, p) \in X /\ Left(W(n + 1), o) \in X
       /\ (i # << >> => Left(W(e), v) \in X)
  BY <1>2, <1>6, <1>8, <1>9
<1> HIDE DEF X, Left
<1>11. g \in X
  BY <1>1, <1>10
<1>12. QED
  BY <1>11 DEF X, g

\* the loop of remove_dot_segments, turn by turn
Turns(path, x) ==
  x = [n \in 0 .. Len(path) |->
        IF n = 0 THEN [input |-> path, output |-> << >>]
        ELSE remove_dots(x[n - 1].input, x[n - 1].output)]

\* remove_dot_segments, turn by turn
LEMMA LoopIs ==
  ASSUME NEW u \in Text
  PROVE  \E R : /\ R[0] = Left(u, << >>)
                /\ \A i \in 1 .. Len(u) : R[i] = remove_dots(R[i - 1].input, R[i - 1].output)
                /\ remove_dot_segments(u) = R[Len(u)].output
<1> DEFINE n == Len(u)
           X == [input : Text, output : Text]
           a == Left(u, << >>)
           h == [p \in X \X (1 .. n) |-> remove_dots(p[1].input, p[1].output)]
<1>1. n \in Nat /\ a \in X
  <2>1. n \in Nat
    BY LenProperties DEF Text
  <2>2. << >> \in Text
    BY TextIs
  <2>3. QED
    BY <2>1, <2>2 DEF Left
<1>2. h \in [X \X (1 .. n) -> X]
      /\ \A x \in X : \A i \in 1 .. n : h[<<x, i>>] = remove_dots(x.input, x.output)
  <2>1. \A x \in X : remove_dots(x.input, x.output) \in X
    <3> SUFFICES ASSUME NEW x \in X PROVE remove_dots(x.input, x.output) \in X
      OBVIOUS
    <3>1. x.input \in Seq(Character) /\ x.output \in Seq(Character)
      BY TextIs
    <3>2. "/" \in Character
      BY Literals
    <3>3. remove_dots(x.input, x.output) \in [input : Seq(Character), output : Seq(Character)]
      BY <3>1, <3>2, TurnStays
    <3>4. QED
      BY <3>3, TextIs
  <2> HIDE DEF X, n
  <2>2. QED
    BY <2>1
<1> HIDE DEF h, X, n, a
<1>3. PICK f \in [0 .. n -> X] : Steps(f, a, h, n)
  BY <1>1, <1>2, StepsExist, Zenon
<1>4. f[0] = a /\ \A i \in 1 .. n : f[i] = remove_dots(f[i - 1].input, f[i - 1].output)
  <2>1. \A i \in 1 .. n : i - 1 \in 0 .. n /\ f[i - 1] \in X
    <3>1. \A i \in 1 .. n : i - 1 \in 0 .. n
      BY <1>1
    <3>2. QED
      BY <1>3, <3>1
  <2>2. f[0] = a /\ \A i \in 1 .. n : f[i] = h[<<f[i - 1], i>>]
    BY <1>3 DEF Steps
  <2>3. QED
    BY <1>2, <2>1, <2>2, Zenon
<1>5. Turns(u, f)
  <2>1. \A i \in 0 .. n : (i \in 1 .. n \/ i = 0) /\ (i \in 1 .. n => i # 0)
    BY <1>1
  <2>2. \A i \in 0 .. n : f[i] = IF i = 0 THEN a ELSE remove_dots(f[i - 1].input, f[i - 1].output)
    BY <1>4, <2>1, Zenon
  <2>3. f = [i \in 0 .. n |-> f[i]]
    BY <1>3
  <2>4. f = [i \in 0 .. n |-> IF i = 0 THEN a ELSE remove_dots(f[i - 1].input, f[i - 1].output)]
    BY <2>2, <2>3, Zenon
  <2>5. QED
    BY <2>4, Zenon DEF Turns, n, a, Left
<1> DEFINE R == CHOOSE x : Turns(u, x)
<1>6. Turns(u, R)
  BY <1>5, Zenon
<1>7. remove_dot_segments(u) = R[n].output
  BY Zenon DEF remove_dot_segments, Turns, n
<1> HIDE DEF R
<1>8. R[0] = a /\ \A i \in 1 .. n : R[i] = remove_dots(R[i - 1].input, R[i - 1].output)
  <2>1. 0 \in 0 .. n /\ \A i \in 1 .. n : i \in 0 .. n /\ i # 0
    BY <1>1
  <2>2. \A i \in 0 .. n : R[i] = IF i = 0 THEN a ELSE remove_dots(R[i - 1].input, R[i - 1].output)
    BY <1>6, Zenon DEF Turns, n, a, Left
  <2>3. QED
    BY <2>1, <2>2, Zenon
<1>9. QED
  BY <1>7, <1>8, Zenon DEF n, a

(***************************************************************************)
(* The loop and the stack go through a path side by side.                  *)
(***************************************************************************)

\* a path that begins with a slash is nothing and its segments
LEMMA PathParts ==
  ASSUME NEW u \in Text, u # << >>, u[1] = "/"
  PROVE  LET segs == Tail(split(u, "/"))
         IN  /\ segs \in Seq(Text) /\ Len(segs) \in Nat \ {0}
             /\ split(u, "/") = Rooted(segs)
<1> DEFINE q == split(u, "/")
           s == Tail(q)
<1>1. Len(u) \in Nat /\ 0 < Len(u)
  BY LenProperties, EmptySeq DEF Text
<1>2. q \in SomeParts /\ q[1] = << >> /\ 1 < Len(q)
  <2>1. 0 \in 0 .. Len(u) /\ (0 < Len(u) => u[0 + 1] = "/")
    BY <1>1
  <2>2. SubSeq(u, 1, 0) = << >>
    BY SubSeqEmpty
  <2>3. LET p == split(SubSeq(u, 1, 0), "/")
        IN  /\ p \in SomeParts /\ q \in SomeParts
            /\ \A i \in 1 .. Len(p) : q[i] = p[i]
            /\ Len(p) <= Len(q) /\ (0 < Len(u) <=> Len(p) < Len(q))
    BY <2>1, SplitPrefix
  <2>4. split(SubSeq(u, 1, 0), "/") = <<<< >>>>
    BY <2>2, SplitEmpty
  <2>5. Len(<<<< >>>>) = 1 /\ <<<< >>>>[1] = << >> /\ 1 \in 1 .. 1
    OBVIOUS
  <2> HIDE DEF q
  <2>6. QED
    BY <1>1, <2>3, <2>4, <2>5
<1> HIDE DEF q
<1>3. q \in Seq(Text) /\ q # << >> /\ Len(q) \in Nat
  BY <1>2, LenProperties DEF SomeParts
<1>4. /\ s \in Seq(Text) /\ Len(s) = Len(q) - 1 /\ \A i \in 1 .. Len(q) - 1 : s[i] = q[i + 1]
  BY <1>3, HeadTailProperties
<1> HIDE DEF s
<1>5. Len(s) \in Nat \ {0}
  BY <1>2, <1>3, <1>4
<1>6. /\ Rooted(s) \in Seq(Text) /\ Len(Rooted(s)) = Len(s) + 1 /\ Rooted(s)[1] = << >>
      /\ \A i \in 1 .. Len(s) : Rooted(s)[i + 1] = s[i]
  BY <1>4, PartsAre DEF SomeParts
<1>7. Len(Rooted(s)) = Len(q) /\ \A i \in 1 .. Len(q) : Rooted(s)[i] = q[i]
  <2>1. ASSUME NEW i \in 1 .. Len(q) PROVE Rooted(s)[i] = q[i]
    <3>1. CASE i = 1
      BY <1>2, <1>6, <3>1
    <3>2. CASE i # 1
      <4>1. PICK j \in 1 .. Len(s) : i = j + 1 /\ j \in 1 .. Len(q) - 1
        <5>1. i - 1 \in 1 .. Len(s) /\ i = (i - 1) + 1 /\ i - 1 \in 1 .. Len(q) - 1
          BY <1>3, <1>4, <3>2
        <5>2. QED
          BY <5>1
      <4>2. QED
        BY <1>4, <1>6, <4>1
    <3>3. QED
      BY <3>1, <3>2
  <2>2. QED
    BY <1>3, <1>4, <1>6, <2>1
<1>8. Rooted(s) = q
  BY <1>3, <1>6, <1>7, SeqEqual
<1>9. QED
  BY <1>4, <1>5, <1>8 DEF q, s

\* the segment behind a slash, and where the next one begins
LEMMA NextSegment ==
  ASSUME NEW u \in Text, u # << >>, u[1] = "/",
         NEW j \in 1 .. Len(u), u[j] = "/", NEW k \in Nat,
         Len(split(SubSeq(u, 1, j - 1), "/")) = k + 1
  PROVE  LET segs == Tail(split(u, "/"))
             i == SubSeq(u, j, Len(u))
             e == segment_end(i)
             x == first_segment(i)
         IN  /\ i \in Text /\ i # << >> /\ i[1] = "/"
             /\ k + 1 \in 1 .. Len(segs) /\ segs[k + 1] = x /\ x \in Text /\ Clean(x)
             /\ SubSeq(i, 1, e - 1) = <<"/">> \o x
             /\ e \in Nat /\ 2 <= e
             /\ (e <= Len(i) => /\ j + e - 1 \in 1 .. Len(u) /\ u[j + e - 1] = "/"
                                /\ rest_of(i) = SubSeq(u, j + e - 1, Len(u))
                                /\ Len(split(SubSeq(u, 1, j + e - 1 - 1), "/")) = k + 2
                                /\ k + 1 < Len(segs))
             /\ (~ (e <= Len(i)) => /\ rest_of(i) = << >> /\ k + 1 = Len(segs))
<1> DEFINE n == Len(u)
           segs == Tail(split(u, "/"))
           i == SubSeq(u, j, n)
           e == segment_end(i)
           x == first_segment(i)
           w == SubSeq(u, 1, j - 1)
           p == split(w, "/")
           q == split(u, "/")
           l == j + e - 1
<1>1. n \in Nat /\ j \in Nat \ {0} /\ j <= n /\ n - j + 1 \in Nat \ {0} /\ j + 1 - 1 = j /\ j - 1 \in Nat /\ j - 1 <= n
  BY LenProperties DEF Text
<1>2. i \in Text /\ Len(i) = n - j + 1 /\ \A m \in 1 .. n - j + 1 : i[m] = u[j + m - 1]
  <2>1. \A a \in Nat \ {0} : \A b \in Nat : a <= b + 1 /\ b <= Len(u) =>
          /\ SubSeq(u, a, b) \in Text /\ Len(SubSeq(u, a, b)) = b - a + 1
          /\ \A m \in 1 .. b - a + 1 : SubSeq(u, a, b)[m] = u[a + m - 1]
    <3> SUFFICES ASSUME NEW a \in Nat \ {0}, NEW b \in Nat, a <= b + 1, b <= Len(u)
                 PROVE  /\ SubSeq(u, a, b) \in Text /\ Len(SubSeq(u, a, b)) = b - a + 1
                        /\ \A m \in 1 .. b - a + 1 : SubSeq(u, a, b)[m] = u[a + m - 1]
      OBVIOUS
    <3>1. u \in Seq(Character)
      BY TextIs
    <3>2. QED
      BY SMTT(20), <3>1, PieceOf DEF Text
  <2>2. n \in Nat /\ j \in Nat \ {0} /\ j <= n + 1 /\ n <= Len(u)
    BY <1>1
  <2>3. QED
    BY <2>1, <2>2
<1> HIDE DEF i
<1>3. i # << >> /\ i[1] = "/"
  <2>1. Len(i) # 0 /\ 1 \in 1 .. n - j + 1
    BY <1>1, <1>2
  <2>2. QED
    BY <1>1, <1>2, <2>1
<1>4. /\ e \in 2 .. Len(i) + 1
      /\ (\A m \in 2 .. e - 1 : i[m] # "/")
      /\ (e <= Len(i) => i[e] = "/")
  BY <1>2, <1>3, SegmentEndIs
<1>5. /\ x \in Text /\ Len(x) = e - 2
      /\ \A m \in 1 .. e - 2 : x[m] = i[m + 1] /\ i[m + 1] # "/"
  BY <1>2, <1>3, FirstSegmentIs
<1>6. x = SubSeq(i, 2, e - 1)
  BY DEF first_segment
<1> HIDE DEF e, x
<1>7. Clean(x)
  <2>1. \A m \in 1 .. Len(x) : x[m] # "/"
    BY <1>5
  <2>2. QED
    BY <2>1 DEF Clean
<1>8. SubSeq(i, 1, e - 1) = <<"/">> \o x
  <2>1. 1 \in 1 .. Len(i) + 1 /\ 1 \in 1 - 1 .. Len(i) /\ e - 1 \in 1 .. Len(i) /\ 1 \in 1 .. Len(i)
    BY <1>1, <1>2, <1>4
  <2>2. SubSeq(i, 1, 1) \o SubSeq(i, 1 + 1, e - 1) = SubSeq(i, 1, e - 1)
    BY <1>2, <2>1, ConcatAdjacentSubSeq DEF Text
  <2>3. SubSeq(i, 1, 1) = <<i[1]>>
    <3>1. SubSeq(i, 1, 1) \in Text /\ Len(SubSeq(i, 1, 1)) = 1 /\ SubSeq(i, 1, 1)[1] = i[1]
      <4>1. 1 \in Nat /\ 1 <= Len(i) /\ 1 \in 1 .. 1
        BY <2>1
      <4>2. QED
        BY <1>2, <4>1, PrefixOf DEF Text
    <3>2. i[1] \in Character
      BY <1>3, Literals
    <3> DEFINE y == SubSeq(i, 1, 1)
    <3> HIDE DEF y
    <3>3. y \in Text /\ Len(y) = 1 /\ y[1] = i[1]
      BY <3>1 DEF y
    <3>4. y = <<i[1]>>
      BY <3>2, <3>3, ShortText
    <3>5. QED
      BY <3>4 DEF y
  <2>4. 1 + 1 = 2
    OBVIOUS
  <2>5. QED
    BY <1>3, <1>6, <2>2, <2>3, <2>4
<1>9. l \in Nat /\ l >= j + 1 /\ l - 1 \in 0 .. n /\ (e <= Len(i) <=> l <= n) /\ (e <= Len(i) <=> l - 1 < n)
      /\ (e <= Len(i) => u[l] = "/")
  <2>1. l \in Nat /\ l >= j + 1 /\ l - 1 \in 0 .. n /\ (e <= Len(i) <=> l <= n) /\ (e <= Len(i) <=> l - 1 < n)
    BY <1>1, <1>2, <1>4
  <2>2. e <= Len(i) => e \in 1 .. n - j + 1
    BY <1>1, <1>2, <1>4
  <2>3. QED
    BY <1>2, <1>4, <2>1, <2>2
<1>10. rest_of(i) = SubSeq(u, l, n)
  <2>1. rest_of(i) = SubSeq(SubSeq(u, j, n), e, Len(i))
    BY DEF rest_of, i, e
  <2>2. /\ j \in Nat \ {0} /\ n \in Nat /\ j <= n + 1 /\ n <= Len(u) /\ e \in Nat \ {0}
        /\ Len(i) \in Int /\ Len(i) <= n - j + 1
    BY <1>1, <1>2, <1>4
  <2>3. SubSeq(SubSeq(u, j, n), e, Len(i)) = SubSeq(u, j + e - 1, j + Len(i) - 1)
    BY <2>2, PieceOfPiece
  <2>4. j + Len(i) - 1 = n
    BY <1>1, <1>2
  <2>5. QED
    BY <2>1, <2>3, <2>4
<1>11. w \in Text /\ p \in SomeParts /\ Len(p) = k + 1
  <2>1. w \in Text
    BY <1>1, PrefixOf DEF Text
  <2>2. QED
    BY <2>1, SplitHolds
<1>12. SubSeq(u, 1, l - 1) = Append(w, "/") \o x
  <2>1. SubSeq(u, 1, j) = Append(w, "/")
    <3>1. SubSeq(u, 1, j) = w \o <<u[j]>>
      <4>1. 1 \in 1 .. Len(u) /\ j \in 1 .. Len(u)
        BY <1>1
      <4>2. QED
        BY <1>1, <4>1, SubSeqRecursiveSecond DEF Text
    <3>2. "/" \in Character
      BY Literals
    <3> HIDE DEF w
    <3>3. Append(w, "/") = w \o <<"/">>
      BY <1>11, <3>2, AppendIsConcat DEF Text
    <3>4. QED
      BY <3>1, <3>3
  <2>2. x = SubSeq(u, j + 1, l - 1)
    <3>1. x = SubSeq(SubSeq(u, j, n), 2, e - 1)
      BY <1>6 DEF i
    <3>2. /\ j \in Nat \ {0} /\ n \in Nat /\ j <= n + 1 /\ n <= Len(u) /\ 2 \in Nat \ {0}
          /\ e - 1 \in Int /\ e - 1 <= n - j + 1
      BY <1>1, <1>2, <1>4
    <3>3. SubSeq(SubSeq(u, j, n), 2, e - 1) = SubSeq(u, j + 2 - 1, j + (e - 1) - 1)
      <4>1. \A c \in Nat \ {0} : \A d \in Int : d <= n - j + 1 =>
              SubSeq(SubSeq(u, j, n), c, d) = SubSeq(u, j + c - 1, j + d - 1)
        BY <3>2, PieceOfPiece
      <4>2. QED
        BY <3>2, <4>1
    <3>4. j + 2 - 1 = j + 1 /\ j + (e - 1) - 1 = l - 1
      BY <1>1, <1>4
    <3>5. QED
      BY <3>1, <3>3, <3>4
  <2>3. 1 \in 1 .. Len(u) + 1 /\ j \in 1 - 1 .. Len(u) /\ l - 1 \in j .. Len(u)
    BY <1>1, <1>9
  <2>4. SubSeq(u, 1, j) \o SubSeq(u, j + 1, l - 1) = SubSeq(u, 1, l - 1)
    BY <2>3, ConcatAdjacentSubSeq DEF Text
  <2>5. QED
    BY <2>1, <2>2, <2>4
<1> DEFINE r == split(SubSeq(u, 1, l - 1), "/")
<1>13. r = Append(p, x)
  <2>1. "/" \in Character
    BY Literals
  <2> HIDE DEF w
  <2>2. split(Append(w, "/") \o x, "/") = Append(split(w, "/"), x)
    BY <1>5, <1>7, <1>11, <2>1, SplitPiece DEF Clean
  <2>3. QED
    BY <1>12, <2>2
<1>14. /\ (\A m \in 1 .. Len(r) : q[m] = r[m])
       /\ Len(r) <= Len(q) /\ (l - 1 < n <=> Len(r) < Len(q))
  <2>1. l - 1 \in 0 .. Len(u) /\ (l - 1 < Len(u) => u[(l - 1) + 1] = "/")
    <3>1. (l - 1) + 1 = l
      BY <1>9
    <3>2. QED
      BY <1>9, <3>1
  <2> DEFINE h == l - 1
  <2> HIDE DEF h
  <2>2. h \in 0 .. Len(u) /\ (h < Len(u) => u[h + 1] = "/")
    BY <2>1 DEF h
  <2>3. LET p1 == split(SubSeq(u, 1, h), "/")
            q1 == split(u, "/")
        IN  /\ p1 \in SomeParts /\ q1 \in SomeParts
            /\ \A m \in 1 .. Len(p1) : q1[m] = p1[m]
            /\ Len(p1) <= Len(q1) /\ (h < Len(u) <=> Len(p1) < Len(q1))
    BY <2>2, SplitPrefix
  <2>4. QED
    BY <2>3 DEF h
<1>15. Len(r) = k + 2 /\ r[k + 2] = x
  <2>1. Len(Append(p, x)) = Len(p) + 1 /\ Append(p, x)[Len(p) + 1] = x
    <3>1. p \in Seq(Text)
      BY <1>11 DEF SomeParts
    <3> HIDE DEF p
    <3>2. QED
      BY <1>5, <3>1, AppendProperties
  <2>2. Len(p) + 1 = k + 2
    BY <1>11
  <2>3. QED
    BY <1>13, <2>1, <2>2
<1>16. /\ segs \in Seq(Text) /\ Len(segs) \in Nat \ {0} /\ q = Rooted(segs)
       /\ Len(q) = Len(segs) + 1 /\ \A m \in 1 .. Len(segs) : q[m + 1] = segs[m]
  <2>1. segs \in Seq(Text) /\ Len(segs) \in Nat \ {0} /\ q = Rooted(segs)
    BY PathParts
  <2> HIDE DEF segs, q
  <2>2. QED
    BY <2>1, PartsAre
<1> HIDE DEF r, q, segs, l, p, w
<1>17. k + 1 \in 1 .. Len(segs) /\ k + 2 \in 1 .. Len(r) /\ (l - 1 < n <=> k + 1 < Len(segs))
       /\ (k + 1) + 1 = k + 2
  BY <1>14, <1>15, <1>16
<1>18. segs[k + 1] = x
  BY <1>14, <1>15, <1>16, <1>17
<1>19. ASSUME ~ (e <= Len(i)) PROVE rest_of(i) = << >> /\ k + 1 = Len(segs)
  <2>1. n < l
    BY <1>1, <1>9, <1>19
  <2>2. rest_of(i) = << >>
    BY <1>1, <1>9, <1>10, <2>1
  <2>3. QED
    BY <1>9, <1>16, <1>17, <1>19, <2>2
<1>20. ASSUME e <= Len(i)
       PROVE  /\ l \in 1 .. n /\ u[l] = "/" /\ rest_of(i) = SubSeq(u, l, n)
              /\ Len(r) = k + 2 /\ k + 1 < Len(segs)
  BY <1>1, <1>9, <1>10, <1>15, <1>17, <1>20
<1>21. e \in Nat /\ 2 <= e
  BY <1>2, <1>4
<1>22. e <= Len(i) => /\ l \in 1 .. n /\ u[l] = "/" /\ rest_of(i) = SubSeq(u, l, n)
                      /\ Len(r) = k + 2 /\ k + 1 < Len(segs)
  BY <1>20
<1>23. ~ (e <= Len(i)) => rest_of(i) = << >> /\ k + 1 = Len(segs)
  BY <1>19
<1>24. x \in Text
  BY <1>5
<1>25. /\ i \in Text /\ i # << >> /\ i[1] = "/"
       /\ k + 1 \in 1 .. Len(segs) /\ segs[k + 1] = x /\ x \in Text /\ Clean(x)
       /\ SubSeq(i, 1, e - 1) = <<"/">> \o x
       /\ e \in Nat /\ 2 <= e
  BY <1>2, <1>3, <1>24, <1>7, <1>8, <1>17, <1>18, <1>21, Zenon
<1>26. e <= Len(i) => j + e - 1 \in 1 .. Len(u) /\ u[j + e - 1] = "/"
  BY <1>22 DEF l, n
<1>27. e <= Len(i) => rest_of(i) = SubSeq(u, j + e - 1, Len(u))
  BY <1>22 DEF l, n
<1>28. e <= Len(i) => Len(split(SubSeq(u, 1, j + e - 1 - 1), "/")) = k + 2
  <2>1. l - 1 = j + e - 1 - 1
    BY <1>1, <1>21 DEF l
  <2>2. QED
    BY <1>22, <2>1 DEF r
<1>29. QED
  BY <1>22, <1>23, <1>25, <1>26, <1>27, <1>28 DEF i, n, e, x, segs

\* the segments of a path
path_segments(u) == Tail(split(u, "/"))

\* a path that ends in dots ends in a slash
LEMMA ResolvedOfIs ==
  ASSUME NEW segs \in Seq(Text), Len(segs) \in Nat \ {0}
  PROVE  LET top == stack_of(segs)[Len(segs)]
         IN  /\ ResolvedOf(segs) \in Seq(Text) /\ ResolvedOf(segs) # << >>
             /\ top \in Seq(Text)
             /\ (segs[Len(segs)] \in Dots => ResolvedOf(segs) = Append(top, << >>))
             /\ (segs[Len(segs)] \notin Dots => ResolvedOf(segs) = top)
<1> DEFINE n == Len(segs)
           R == stack_of(segs)
           top == R[n]
<1>1. /\ \A i \in 1 .. n : R[i] = Resolve(R[i - 1], segs[i])
      /\ \A i \in 0 .. n : R[i] \in Seq(Text)
  BY StackIs
<1>2. Last(segs) = segs[n] /\ n \in Nat /\ n # 0
  BY DEF Last
<1>3. ResolvedOf(segs) = IF segs[n] \in Dots THEN Append(top, << >>) ELSE top
  BY <1>2 DEF ResolvedOf
<1>4. n \in 1 .. n /\ n \in 0 .. n /\ n - 1 \in 0 .. n
  BY <1>2
<1>5. top \in Seq(Text) /\ R[n - 1] \in Seq(Text) /\ segs[n] \in Text
  BY <1>1, <1>4, ElementOfSeq
<1>6. Append(top, << >>) \in Seq(Text) /\ Append(top, << >>) # << >>
  <2> HIDE DEF top
  <2>1. << >> \in Text
    BY TextIs
  <2>2. QED
    BY <1>5, <2>1, AppendProperties
<1>7. segs[n] \notin Dots => top # << >>
  <2> SUFFICES ASSUME segs[n] \notin Dots PROVE top # << >>
    OBVIOUS
  <2>1. top = Resolve(R[n - 1], segs[n])
    BY <1>1, <1>4
  <2>2. top = Append(R[n - 1], segs[n])
    BY <1>5, <2>1, ResolveIs
  <2>3. QED
    BY <1>5, <2>2, AppendProperties
<1> HIDE DEF n, R, top
<1>8. ResolvedOf(segs) \in Seq(Text) /\ ResolvedOf(segs) # << >>
      /\ (segs[n] \in Dots => ResolvedOf(segs) = Append(top, << >>))
      /\ (segs[n] \notin Dots => ResolvedOf(segs) = top)
  BY <1>3, <1>5, <1>6, <1>7
<1>9. QED
  BY <1>5, <1>8 DEF n, R, top

\* what the loop over a path u has come to after n turns: segments are left,
\* or the slash that takes the place of dots at the end, or nothing
More(u, a, n) ==
  \E j \in 1 .. Len(u), k \in Nat :
    /\ u[j] = "/" /\ n < j /\ Len(split(SubSeq(u, 1, j - 1), "/")) = k + 1
    /\ a.input = SubSeq(u, j, Len(u))
    /\ OutIs(a.output, stack_of(path_segments(u))[k])

Slash(u, a, n) ==
  LET segs == path_segments(u)
  IN  /\ a.input = <<"/">> /\ n < Len(u) /\ segs[Len(segs)] \in Dots
      /\ OutIs(a.output, stack_of(segs)[Len(segs)])

Done(u, a) == a.input = << >> /\ OutIs(a.output, ResolvedOf(path_segments(u)))

Turned(u, a, n) == More(u, a, n) \/ Slash(u, a, n) \/ Done(u, a)

\* a turn of a loop that is done
LEMMA TurnDone ==
  ASSUME NEW u, NEW a, Done(u, a)
  PROVE  Done(u, remove_dots(a.input, a.output))
<1>1. a.input = << >>
  BY DEF Done
<1>2. remove_dots(<< >>, a.output) = Left(SubSeq(<< >>, 1, Len(<< >>)), a.output)
  <2> DEFINE i == << >>
             b1 == IsPrefix(<<".", ".", "/">>, i)
             b2 == IsPrefix(<<".", "/">>, i)
             b3 == IsPrefix(<<"/", ".", "/">>, i)
             b4 == i = <<"/", ".">>
             b5 == IsPrefix(<<"/", ".", ".", "/">>, i)
             b6 == i = <<"/", ".", ".">>
             b7 == i \in {<<".">>, <<".", ".">>}
             o == a.output
             g == remove_dots(i, o)
             e == segment_end(i)
  <2>1. g = CASE i = << >> -> Left(SubSeq(i, 1, Len(i)), o)
              [] b1 -> Left(SubSeq(i, 4, Len(i)), o)
              [] b2 -> Left(SubSeq(i, 3, Len(i)), o)
              [] b3 -> Left(SubSeq(i, 3, Len(i)), o)
              [] b4 -> Left(<<"/">>, o)
              [] b5 -> Left(SubSeq(i, 4, Len(i)), pop_last_segment(o))
              [] b6 -> Left(<<"/">>, pop_last_segment(o))
              [] b7 -> Left(SubSeq(i, Len(i) + 1, Len(i)), o)
              [] OTHER -> Left(SubSeq(i, e, Len(i)), o \o SubSeq(i, 1, e - 1))
    BY Zenon DEF remove_dots, Left, segment_end
  <2>2. i \in Text /\ Len(i) = 0
    BY TextIs
  <2>3. ~ b1 /\ ~ b3 /\ ~ b5
    <3>1. \A x, y, z, t : /\ (IsPrefix(<<x, y, z>>, i) => Len(i) >= 3)
                          /\ (IsPrefix(<<x, y, z, t>>, i) => Len(i) >= 4)
      BY <2>2, BeginsWithMore
    <3>2. ~ (Len(i) >= 3) /\ ~ (Len(i) >= 4)
      BY <2>2
    <3>3. QED
      BY <3>1, <3>2, Zenon
  <2>4. ~ b2
    <3>1. \A x, y : IsPrefix(<<x, y>>, i) => Len(i) >= 2
      BY <2>2, BeginsWithTwo
    <3>2. QED
      BY <2>2, <3>1
  <2>5. ~ b4 /\ ~ b6 /\ ~ b7 /\ i = << >>
    OBVIOUS
  <2> HIDE DEF b1, b2, b3, b4, b5, b6, b7, g, e
  <2>6. g = Left(SubSeq(i, 1, Len(i)), o)
    BY <2>1, <2>3, <2>4, <2>5
  <2>7. QED
    BY <2>6 DEF g
<1>3. SubSeq(<< >>, 1, Len(<< >>)) = << >>
  OBVIOUS
<1>4. remove_dots(a.input, a.output) = Left(<< >>, a.output)
  BY <1>1, <1>2, <1>3
<1>5. QED
  BY <1>4 DEF Done, Left

\* the turn that takes the last slash
LEMMA TurnSlash ==
  ASSUME NEW u \in Text, u # << >>, u[1] = "/", NEW a, NEW n, Slash(u, a, n)
  PROVE  Done(u, remove_dots(a.input, a.output))
<1> DEFINE i == <<"/">>
           o == a.output
           segs == path_segments(u)
           top == stack_of(segs)[Len(segs)]
<1>1. a.input = i /\ segs[Len(segs)] \in Dots /\ OutIs(o, top)
  BY DEF Slash
<1>2. i \in Text /\ i # << >> /\ i[1] = "/" /\ Len(i) = 1
  <2>1. "/" \in Character
    BY Literals
  <2>2. QED
    BY <2>1 DEF Text
<1>3. segment_end(i) = 2
  <2>1. segment_end(i) \in 2 .. Len(i) + 1
    BY <1>2, SegmentEndIs
  <2>2. QED
    BY <1>2, <2>1
<1>4. first_segment(i) = << >> /\ rest_of(i) = << >> /\ SubSeq(i, 1, segment_end(i) - 1) = <<"/">>
  <2>1. SubSeq(i, 2, 1) = << >> /\ SubSeq(i, 1, 1) = i
    <3> HIDE DEF i
    <3>1. SubSeq(i, 1, Len(i)) = i
      BY <1>2, SubSeqFull DEF Text
    <3>2. SubSeq(i, 2, 1) = << >>
      BY SubSeqEmpty
    <3>3. QED
      BY <1>2, <3>1, <3>2
  <2>2. segment_end(i) - 1 = 1
    BY <1>3
  <2>3. QED
    BY <1>2, <1>3, <2>1, <2>2 DEF first_segment, rest_of
<1>5. first_segment(i) # OneDot /\ first_segment(i) # TwoDots
  BY <1>4, DotsDiffer
<1>6. remove_dots(i, o) = Left(<< >>, o \o <<"/">>)
  <2>1. remove_dots(i, o) = Left(rest_of(i), o \o SubSeq(i, 1, segment_end(i) - 1))
    BY <1>2, <1>5, TurnIs
  <2>2. QED
    BY <1>4, <2>1
<1>7. segs \in Seq(Text) /\ Len(segs) \in Nat \ {0}
  BY PathParts DEF path_segments
<1> HIDE DEF i, segs, top
<1>8. ResolvedOf(segs) = Append(top, << >>)
  BY <1>1, <1>7, ResolvedOfIs DEF top
<1>9. OutIs(o \o <<"/">>, Append(top, << >>))
  <2>1. Clean(<< >>)
    BY DEF Clean
  <2>2. OutIs(Append(o, "/") \o << >>, Append(top, << >>))
    BY <1>1, <2>1, Pushed, TextIs
  <2>3. o \in Text /\ "/" \in Character
    BY <1>1, Literals DEF OutIs
  <2> HIDE DEF o
  <2>4. Append(o, "/") = o \o <<"/">> /\ Append(o, "/") \in Text
    BY <2>3, AppendIsConcat, TextGrows DEF Text
  <2>5. Append(o, "/") \o << >> = Append(o, "/")
    BY <2>4, ConcatEmptySeq DEF Text
  <2>6. QED
    BY <2>2, <2>4, <2>5
<1>10. QED
  BY <1>1, <1>6, <1>8, <1>9 DEF Done, Left, segs

\* the turn that takes a segment, next to the stack
LEMMA TurnMore ==
  ASSUME NEW u \in Text, u # << >>, u[1] = "/", NEW a, NEW n \in Nat, More(u, a, n)
  PROVE  Turned(u, remove_dots(a.input, a.output), n + 1)
<1> DEFINE segs == path_segments(u)
           R == stack_of(segs)
           K == Len(segs)
           o == a.output
           g == remove_dots(a.input, o)
<1>1. PICK j \in 1 .. Len(u), k \in Nat :
        /\ u[j] = "/" /\ n < j /\ Len(split(SubSeq(u, 1, j - 1), "/")) = k + 1
        /\ a.input = SubSeq(u, j, Len(u))
        /\ OutIs(o, R[k])
  BY DEF More
<1> DEFINE i == SubSeq(u, j, Len(u))
           e == segment_end(i)
           x == first_segment(i)
           more == e <= Len(i)
           l == j + e - 1
<1>2. /\ i \in Text /\ i # << >> /\ i[1] = "/"
      /\ k + 1 \in 1 .. K /\ segs[k + 1] = x /\ x \in Text /\ Clean(x)
      /\ SubSeq(i, 1, e - 1) = <<"/">> \o x
      /\ e \in Nat /\ 2 <= e
      /\ (more => /\ l \in 1 .. Len(u) /\ u[l] = "/"
                  /\ rest_of(i) = SubSeq(u, l, Len(u))
                  /\ Len(split(SubSeq(u, 1, l - 1), "/")) = k + 2
                  /\ k + 1 < K)
      /\ (~ more => /\ rest_of(i) = << >> /\ k + 1 = K)
  <2>1. j + e - 1 - 1 = l - 1
    <3>1. e \in Nat
      BY <1>1, NextSegment
    <3>2. QED
      BY <1>1, <3>1
  <2>2. LET segs1 == Tail(split(u, "/"))
        IN /\ i \in Text /\ i # << >> /\ i[1] = "/"
           /\ k + 1 \in 1 .. Len(segs1) /\ segs1[k + 1] = x /\ x \in Text /\ Clean(x)
           /\ SubSeq(i, 1, e - 1) = <<"/">> \o x
           /\ e \in Nat /\ 2 <= e
           /\ (more => /\ l \in 1 .. Len(u) /\ u[l] = "/"
                       /\ rest_of(i) = SubSeq(u, l, Len(u))
                       /\ Len(split(SubSeq(u, 1, j + e - 1 - 1), "/")) = k + 2
                       /\ k + 1 < Len(segs1))
           /\ (~ more => /\ rest_of(i) = << >> /\ k + 1 = Len(segs1))
    BY <1>1, NextSegment
  <2> HIDE DEF i, e, x, l, more
  <2>3. QED
    BY <2>1, <2>2 DEF path_segments
<1>3. remove_dots(i, o) =
        IF x = OneDot THEN Left(IF more THEN rest_of(i) ELSE <<"/">>, o)
        ELSE IF x = TwoDots THEN Left(IF more THEN rest_of(i) ELSE <<"/">>, pop_last_segment(o))
        ELSE Left(rest_of(i), o \o SubSeq(i, 1, e - 1))
  BY <1>2, TurnIs
<1>4. segs \in Seq(Text) /\ K \in Nat \ {0}
  BY PathParts DEF path_segments
<1>5. R[k + 1] = Resolve(R[k], x) /\ R[k] \in Seq(Text)
  <2>1. k + 1 \in 1 .. Len(segs) /\ (k + 1) - 1 = k /\ k \in 0 .. Len(segs)
    <3>1. k + 1 \in 1 .. K
      BY <1>2
    <3> HIDE DEF segs
    <3>2. QED
      BY <1>4, <3>1
  <2>2. /\ \A m \in 1 .. Len(segs) : R[m] = Resolve(R[m - 1], segs[m])
        /\ \A m \in 0 .. Len(segs) : R[m] \in Seq(Text)
    BY <1>4, StackIs
  <2>3. segs[k + 1] = x
    BY <1>2
  <2> HIDE DEF R, segs, x, K
  <2>4. QED
    BY <2>1, <2>2, <2>3
<1>6. g = remove_dots(i, o)
  BY <1>1
<1> HIDE DEF segs, R, K, o, g, i, e, x, more
<1>7. l \in Nat /\ n + 1 < l /\ (~ more /\ x \in Dots => n + 1 < Len(u))
  <2>1. Len(u) \in Nat
    BY LenProperties DEF Text
  <2>2. l \in Nat /\ n + 1 < l
    BY <1>1, <1>2 DEF l
  <2>3. ~ more /\ x \in Dots => n + 1 < Len(u)
    <3> SUFFICES ASSUME ~ more, x \in Dots PROVE n + 1 < Len(u)
      OBVIOUS
    <3>1. Len(i) < e /\ Len(i) \in Nat
      BY <1>2, LenProperties DEF more, Text
    <3>2. Len(i) = Len(u) - j + 1
      <4>1. j \in Nat \ {0} /\ Len(u) \in Nat /\ j <= Len(u) + 1 /\ Len(u) <= Len(u)
        BY <1>1, <2>1
      <4>2. QED
        BY <4>1, PieceOf DEF Text, i
    <3>3. e \in 2 .. Len(i) + 1 /\ (x = OneDot => e = 3) /\ (x = TwoDots => e = 4)
      BY <1>2, SegmentEndIs, FirstSegmentIs DEF e, x
    <3>4. e = 3 \/ e = 4
      BY <3>3, DotsDiffer
    <3>5. QED
      BY <1>1, <2>1, <3>1, <3>2, <3>3, <3>4
  <2>4. QED
    BY <2>1, <2>2, <2>3
<1>8. \A b : OutIs(b, R[k + 1]) /\ x \in Dots => Turned(u, Left(IF more THEN rest_of(i) ELSE <<"/">>, b), n + 1)
  <2> SUFFICES ASSUME NEW b, OutIs(b, R[k + 1]), x \in Dots
               PROVE  Turned(u, Left(IF more THEN rest_of(i) ELSE <<"/">>, b), n + 1)
    OBVIOUS
  <2>1. CASE more
    <3> DEFINE c == Left(rest_of(i), b)
    <3>1. c.input = rest_of(i) /\ c.output = b
      BY DEF Left
    <3> HIDE DEF c
    <3>2. k + 1 \in Nat /\ (k + 1) + 1 = k + 2
      OBVIOUS
    <3>3. More(u, c, n + 1)
      BY <1>2, <1>7, <2>1, <3>1, <3>2 DEF More, R, segs
    <3>4. QED
      BY <2>1, <3>3 DEF Turned, c
  <2>2. CASE ~ more
    <3> DEFINE c == Left(<<"/">>, b)
    <3>1. c.input = <<"/">> /\ c.output = b
      BY DEF Left
    <3> HIDE DEF c
    <3>2. segs[K] \in Dots /\ OutIs(b, R[K]) /\ n + 1 < Len(u)
      BY <1>2, <1>7, <2>2
    <3>3. Slash(u, c, n + 1)
      BY <3>1, <3>2 DEF Slash, R, K, segs
    <3>4. QED
      BY <2>2, <3>3 DEF Turned, c
  <2>3. QED
    BY <2>1, <2>2
<1>9. CASE x = OneDot
  <2>1. g = Left(IF more THEN rest_of(i) ELSE <<"/">>, o)
    BY <1>3, <1>6, <1>9
  <2>2. R[k + 1] = R[k]
    BY <1>2, <1>5, <1>9, ResolveIs
  <2>3. QED
    BY <1>1, <1>8, <1>9, <2>1, <2>2, DotsDiffer DEF g, o
<1>10. CASE x = TwoDots
  <2>1. g = Left(IF more THEN rest_of(i) ELSE <<"/">>, pop_last_segment(o))
    BY <1>3, <1>6, <1>10, DotsDiffer
  <2>2. R[k + 1] = Below(R[k])
    BY <1>2, <1>5, <1>10, ResolveIs
  <2>3. OutIs(pop_last_segment(o), R[k + 1])
    BY <1>1, <2>2, Popped
  <2>4. QED
    BY <1>8, <1>10, <2>1, <2>3, DotsDiffer DEF g, o
<1>11. CASE x \notin Dots
  <2> DEFINE b == o \o (<<"/">> \o x)
  <2>1. g = Left(rest_of(i), b)
    BY <1>2, <1>3, <1>6, <1>11, DotsDiffer
  <2>2. R[k + 1] = Append(R[k], x)
    BY <1>2, <1>5, <1>11, ResolveIs
  <2>3. OutIs(b, R[k + 1])
    <3>1. OutIs(Append(o, "/") \o x, Append(R[k], x))
      BY <1>1, <1>2, Pushed
    <3>2. o \in Text /\ "/" \in Character
      BY <1>1, Literals DEF OutIs
    <3>3. Append(o, "/") = o \o <<"/">> /\ <<"/">> \in Text
      BY <3>2, AppendIsConcat DEF Text
    <3>4. (o \o <<"/">>) \o x = o \o (<<"/">> \o x)
      <4>1. x \in Text
        BY <1>2
      <4>2. \A s1, s2, s3 \in Text : (s1 \o s2) \o s3 = s1 \o (s2 \o s3)
        <5> SUFFICES ASSUME NEW s1 \in Text, NEW s2 \in Text, NEW s3 \in Text
                     PROVE  (s1 \o s2) \o s3 = s1 \o (s2 \o s3)
          OBVIOUS
        <5>1. s1 \in Seq(Character) /\ s2 \in Seq(Character) /\ s3 \in Seq(Character)
          BY TextIs
        <5>2. QED
          BY SMTT(20), <5>1, ConcatAssociative
      <4>3. QED
        BY <3>2, <3>3, <4>1, <4>2
    <3>5. QED
      BY <2>2, <3>1, <3>3, <3>4
  <2> HIDE DEF b
  <2> DEFINE c == Left(rest_of(i), b)
  <2>4. c.input = rest_of(i) /\ c.output = b
    BY DEF Left
  <2> HIDE DEF c
  <2>5. CASE more
    <3>2. k + 1 \in Nat /\ (k + 1) + 1 = k + 2
      OBVIOUS
    <3>3. More(u, c, n + 1)
      BY <1>2, <1>7, <2>3, <2>4, <2>5, <3>2 DEF More, R, segs
    <3>4. QED
      BY <2>1, <3>3 DEF Turned, c, g, o
  <2>6. CASE ~ more
    <3>1. k + 1 = K /\ segs[K] \notin Dots /\ rest_of(i) = << >>
      BY <1>2, <1>11, <2>6
    <3>2. ResolvedOf(segs) = R[K]
      BY <1>4, <3>1, ResolvedOfIs DEF R, K
    <3>3. Done(u, c)
      BY <2>3, <2>4, <3>1, <3>2 DEF Done, segs
    <3>4. QED
      BY <2>1, <3>3 DEF Turned, c, g, o
  <2>7. QED
    BY <2>5, <2>6
<1>12. QED
  BY <1>9, <1>10, <1>11, DotsDiffer

(***************************************************************************)
(* A path that was resolved has no dots and resolves to itself.            *)
(***************************************************************************)

\* the loop leaves what RFC 3986 resolves a path to
LEMMA DotsRemoved ==
  ASSUME NEW u \in Text, u # << >>, u[1] = "/",
         NEW T, T \subseteq Character, "/" \in T, u \in Seq(T)
  PROVE  /\ OutIs(remove_dot_segments(u), ResolvedOf(path_segments(u)))
         /\ remove_dot_segments(u) \in Seq(T)
<1> DEFINE n == Len(u)
           X == [input : Seq(T), output : Seq(T)]
<1>1. n \in Nat /\ n # 0
  BY LenProperties, EmptySeq DEF Text
<1>2. PICK R : /\ R[0] = Left(u, << >>)
               /\ \A i \in 1 .. n : R[i] = remove_dots(R[i - 1].input, R[i - 1].output)
               /\ remove_dot_segments(u) = R[n].output
  BY LoopIs
<1> DEFINE P == {i \in 0 .. n : Turned(u, R[i], i) /\ R[i] \in X}
<1>3. 0 \in P
  <2> DEFINE a == R[0]
  <2>1. a.input = u /\ a.output = << >> /\ a \in X
    <3>1. << >> \in Seq(T)
      BY EmptySeq
    <3>2. QED
      BY <1>2, <3>1 DEF Left
  <2>2. SubSeq(u, 1, n) = u
    BY SubSeqFull DEF Text
  <2>3. Len(split(SubSeq(u, 1, 0), "/")) = 1
    <3>1. SubSeq(u, 1, 0) = << >>
      BY SubSeqEmpty
    <3>2. split(<< >>, "/") = <<<< >>>>
      BY SplitEmpty
    <3>3. Len(<<<< >>>>) = 1
      OBVIOUS
    <3>4. QED
      BY <3>1, <3>2, <3>3
  <2>4. stack_of(path_segments(u))[0] = << >>
    <3>1. path_segments(u) \in Seq(Text)
      BY PathParts DEF path_segments
    <3>2. QED
      BY <3>1, StackIs
  <2>5. OutIs(a.output, stack_of(path_segments(u))[0])
    BY <2>1, <2>4, OutNothing
  <2> HIDE DEF a, X
  <2>6. 1 \in 1 .. Len(u) /\ 0 \in Nat /\ 0 < 1 /\ 1 - 1 = 0 /\ 0 + 1 = 1
    BY <1>1
  <2>7. u[1] = "/" /\ 0 < 1 /\ Len(split(SubSeq(u, 1, 1 - 1), "/")) = 0 + 1
        /\ a.input = SubSeq(u, 1, Len(u)) /\ OutIs(a.output, stack_of(path_segments(u))[0])
    BY <2>1, <2>2, <2>3, <2>5, <2>6
  <2>8. More(u, a, 0)
    BY <2>6, <2>7, Zenon DEF More
  <2>9. QED
    BY <1>1, <2>1, <2>8 DEF Turned, a
<1>4. ASSUME NEW m \in 0 .. n - 1, m \in P PROVE m + 1 \in P
  <2>1. PICK i \in 1 .. n : i = m + 1
    BY <1>1
  <2>2. i - 1 = m /\ i \in 0 .. n /\ m \in Nat
    BY <1>1, <2>1
  <2> DEFINE a == R[m]
             g == remove_dots(a.input, a.output)
  <2>3. R[i] = g
    BY <1>2, <2>2
  <2>4. Turned(u, a, m) /\ a \in X
    BY <1>4
  <2>5. g \in X
    BY <2>4, TurnStays
  <2> HIDE DEF a, g
  <2>6. Turned(u, g, i)
    <3>1. CASE More(u, a, m)
      BY <2>1, <2>2, <3>1, TurnMore DEF g
    <3>2. CASE Slash(u, a, m)
      BY <3>2, TurnSlash DEF g, Turned
    <3>3. CASE Done(u, a)
      BY <3>3, TurnDone DEF g, Turned
    <3>4. QED
      BY <2>4, <3>1, <3>2, <3>3 DEF Turned
  <2>7. QED
    BY <2>1, <2>2, <2>3, <2>5, <2>6
<1> HIDE DEF P
<1>5. 0 .. n \subseteq P
  <2> HIDE DEF n
  <2>1. QED
    BY <1>1, <1>3, <1>4, 0 \in Int, n \in Int, IntervalUp, Zenon
<1>6. n \in P
  BY <1>1, <1>5
<1>7. Turned(u, R[n], n) /\ R[n] \in X
  BY <1>6 DEF P
<1>8. ~ More(u, R[n], n) /\ ~ Slash(u, R[n], n)
  <2>1. ~ More(u, R[n], n)
    <3>1. \A j \in 1 .. Len(u) : ~ (n < j)
      BY <1>1
    <3>2. QED
      BY <3>1 DEF More
  <2>2. ~ Slash(u, R[n], n)
    <3>1. ~ (n < Len(u))
      BY <1>1
    <3>2. QED
      BY <3>1 DEF Slash
  <2>3. QED
    BY <2>1, <2>2
<1>9. Done(u, R[n]) /\ R[n].output \in Seq(T)
  BY <1>7, <1>8 DEF Turned
<1>10. QED
  BY <1>2, <1>9 DEF Done

\* segments without dots
NoDots(b) == \A m \in 1 .. Len(b) : b[m] \notin Dots

\* no dots are pushed
LEMMA StackNoDots ==
  ASSUME NEW segs \in Seq(Text)
  PROVE  \A i \in 0 .. Len(segs) : NoDots(stack_of(segs)[i])
<1> DEFINE n == Len(segs)
           R == stack_of(segs)
           P == {i \in 0 .. n : NoDots(R[i])}
<1>1. n \in Nat /\ \A i \in 1 .. n : segs[i] \in Text
  BY LenProperties, ElementOfSeq
<1>2. /\ R[0] = << >>
      /\ \A i \in 1 .. n : R[i] = Resolve(R[i - 1], segs[i])
      /\ \A i \in 0 .. n : R[i] \in Seq(Text)
  BY StackIs
<1> HIDE DEF R, n
<1>3. 0 \in P
  <2>1. Len(<< >>) = 0
    OBVIOUS
  <2>2. QED
    BY <1>1, <1>2, <2>1 DEF NoDots
<1>4. ASSUME NEW k \in 0 .. n - 1, k \in P PROVE k + 1 \in P
  <2>1. PICK i \in 1 .. n : i = k + 1
    BY <1>1
  <2>2. i - 1 = k /\ i \in 0 .. n
    BY <1>1, <2>1
  <2> DEFINE b == R[k]
             x == segs[i]
  <2>3. R[i] = Resolve(b, x) /\ b \in Seq(Text) /\ x \in Text /\ NoDots(b)
    BY <1>1, <1>2, <1>4, <2>2
  <2> HIDE DEF b, x
  <2>4. NoDots(Below(b))
    <3>1. CASE b = << >>
      BY <2>3, <3>1 DEF Below
    <3>2. CASE b # << >>
      <4>1. b \in SomeParts
        BY <2>3, <3>2 DEF SomeParts
      <4>2. Len(Front(b)) = Len(b) - 1 /\ Len(b) \in Nat /\ \A m \in 1 .. Len(b) - 1 : Front(b)[m] = b[m]
        BY <4>1, SomePartsIs
      <4>3. Below(b) = Front(b)
        BY <3>2 DEF Below
      <4>4. QED
        BY <2>3, <4>2, <4>3 DEF NoDots
    <3>3. QED
      BY <3>1, <3>2
  <2>5. x \notin Dots => NoDots(Append(b, x))
    <3>1. /\ Len(Append(b, x)) = Len(b) + 1 /\ Len(b) \in Nat
          /\ \A m \in 1 .. Len(b) : Append(b, x)[m] = b[m]
          /\ Append(b, x)[Len(b) + 1] = x
      BY <2>3, AppendProperties, LenProperties
    <3> DEFINE c == Append(b, x)
    <3> HIDE DEF c
    <3>2. /\ Len(c) = Len(b) + 1 /\ Len(b) \in Nat
          /\ \A m \in 1 .. Len(b) : c[m] = b[m]
          /\ c[Len(b) + 1] = x
      BY <3>1 DEF c
    <3>3. ASSUME x \notin Dots, NEW m \in 1 .. Len(c) PROVE c[m] \notin Dots
      <4>1. m \in 1 .. Len(b) \/ m = Len(b) + 1
        BY <3>2
      <4>2. QED
        BY <2>3, <3>2, <3>3, <4>1 DEF NoDots
    <3>4. QED
      BY <3>3 DEF NoDots, c
  <2>6. NoDots(R[i])
    <3>1. /\ (x = OneDot => Resolve(b, x) = b)
          /\ (x = TwoDots => Resolve(b, x) = Below(b))
          /\ (x \notin Dots => Resolve(b, x) = Append(b, x))
      BY <2>3, ResolveIs
    <3>2. QED
      BY <2>3, <2>4, <2>5, <3>1, DotsDiffer
  <2>7. QED
    BY <2>1, <2>2, <2>6
<1> HIDE DEF P
<1>5. 0 .. n \subseteq P
  BY <1>1, <1>3, <1>4, 0 \in Int, n \in Int, IntervalUp, Zenon
<1>6. \A i \in 0 .. n : NoDots(R[i])
  BY <1>5 DEF P
<1>7. QED
  BY <1>6 DEF n, R

\* so there are none in a path that was resolved
LEMMA ResolvedNoDots ==
  ASSUME NEW segs \in Seq(Text), Len(segs) \in Nat \ {0}
  PROVE  NoDots(ResolvedOf(segs))
<1> DEFINE n == Len(segs)
           top == stack_of(segs)[n]
<1>1. n \in 0 .. n
  OBVIOUS
<1>2. NoDots(top)
  BY <1>1, StackNoDots
<1>3. /\ top \in Seq(Text)
      /\ (segs[n] \in Dots => ResolvedOf(segs) = Append(top, << >>))
      /\ (segs[n] \notin Dots => ResolvedOf(segs) = top)
  BY ResolvedOfIs
<1> HIDE DEF n, top
<1>4. CASE segs[n] \in Dots
  <2> DEFINE c == Append(top, << >>)
  <2>1. /\ Len(c) = Len(top) + 1 /\ Len(top) \in Nat
        /\ \A m \in 1 .. Len(top) : c[m] = top[m]
        /\ c[Len(top) + 1] = << >>
    BY <1>3, TextIs, Grown
  <2> HIDE DEF c
  <2>2. ASSUME NEW m \in 1 .. Len(c) PROVE c[m] \notin Dots
    <3>1. m \in 1 .. Len(top) \/ m = Len(top) + 1
      BY <2>1
    <3>2. QED
      BY <1>2, <2>1, <3>1, DotsDiffer DEF NoDots
  <2>3. QED
    BY <1>3, <1>4, <2>2 DEF NoDots, c
<1>5. CASE segs[n] \notin Dots
  BY <1>2, <1>3, <1>5
<1>6. QED
  BY <1>4, <1>5

\* what is resolved stays
LEMMA ResolvedOnce ==
  ASSUME NEW b \in Seq(Text), Len(b) \in Nat \ {0}, NoDots(b)
  PROVE  ResolvedOf(b) = b
<1> DEFINE n == Len(b)
           R == stack_of(b)
           P == {i \in 0 .. n : R[i] = SubSeq(b, 1, i)}
<1>1. n \in Nat \ {0} /\ \A i \in 1 .. n : b[i] \in Text /\ b[i] \notin Dots
  BY ElementOfSeq DEF NoDots
<1>2. /\ R[0] = << >>
      /\ \A i \in 1 .. n : R[i] = Resolve(R[i - 1], b[i])
      /\ \A i \in 0 .. n : R[i] \in Seq(Text)
  BY StackIs
<1>3. \A i \in 1 .. n : SubSeq(b, 1, i) = Append(SubSeq(b, 1, i - 1), b[i])
  <2> SUFFICES ASSUME NEW i \in 1 .. n PROVE SubSeq(b, 1, i) = Append(SubSeq(b, 1, i - 1), b[i])
    OBVIOUS
  <2>1. i - 1 \in Nat /\ i - 1 <= Len(b) /\ 1 \in 1 .. Len(b) /\ i \in 1 .. Len(b)
    BY <1>1
  <2>2. SubSeq(b, 1, i - 1) \in Seq(Text) /\ b[i] \in Text
    BY <1>1, <2>1, PrefixOf
  <2>3. SubSeq(b, 1, i) = SubSeq(b, 1, i - 1) \o << b[i] >>
    BY <2>1, SubSeqRecursiveSecond
  <2>4. QED
    BY <2>2, <2>3, AppendIsConcat
<1>4. SubSeq(b, 1, 0) = << >> /\ SubSeq(b, 1, n) = b
  BY SubSeqEmpty, SubSeqFull
<1> HIDE DEF R, n
<1>5. 0 \in P
  BY <1>1, <1>2, <1>4
<1>6. ASSUME NEW k \in 0 .. n - 1, k \in P PROVE k + 1 \in P
  <2>1. PICK i \in 1 .. n : i = k + 1
    BY <1>1
  <2>2. i - 1 = k /\ i \in 0 .. n /\ k \in 0 .. n
    BY <1>1, <2>1
  <2>3. R[i] = Resolve(R[k], b[i]) /\ R[k] \in Seq(Text) /\ R[k] = SubSeq(b, 1, k)
    BY <1>2, <1>6, <2>2
  <2>4. R[i] = Append(R[k], b[i])
    BY <1>1, <2>3, ResolveIs
  <2>5. R[i] = SubSeq(b, 1, i)
    BY <1>3, <2>2, <2>3, <2>4
  <2>6. QED
    BY <2>1, <2>2, <2>5
<1> HIDE DEF P
<1>7. 0 .. n \subseteq P
  BY <1>1, <1>5, <1>6, 0 \in Int, n \in Int, IntervalUp, Zenon
<1>8. n \in P
  BY <1>1, <1>7
<1>9. R[n] = b
  BY <1>4, <1>8 DEF P
<1>10. b[n] \notin Dots
  BY <1>1
<1>11. QED
  BY <1>9, <1>10, ResolvedOfIs DEF n, R

\* what is unescaped has nothing left to unescape
LEMMA UnescapeIs ==
  /\ \A c : unescape(unescape(c)) = unescape(c)
  /\ \A c \in PathChar : unescape(c) \in PathChar
  /\ unescape("/") = "/"
  /\ PathChar \subseteq Character /\ "/" \in PathChar
<1>1. PathChar = {"0", "1", "2", "3", "4", "5", "6", "7", "8", "9", "a", "f", "A", "F", "v", "-", ".", "+", ":", "@", "/",
                  "%2e", "%2E", "%39", "%61", "%41", "%2f", "%2F", "%40"}
  BY DecimalDigitIs, EscapeIs DEF PathChar, Unreserved, HexDigit, SubDelim
<1>2. \A c : c \notin DOMAIN Escape => unescape(c) = c
  BY DEF unescape
<1>3. /\ unescape("%2e") = "." /\ unescape("%2E") = "." /\ unescape("%39") = "9" /\ unescape("%61") = "a"
      /\ unescape("%41") = "A" /\ unescape("%2f") = "%2F" /\ unescape("%2F") = "%2F" /\ unescape("%40") = "%40"
  BY EscapeIs DEF unescape
<1>4. unescape(".") = "." /\ unescape("9") = "9" /\ unescape("a") = "a" /\ unescape("A") = "A"
      /\ unescape("/") = "/"
  BY <1>2, EscapeIs
<1>5. \A c : unescape(unescape(c)) = unescape(c)
  BY <1>2, <1>3, <1>4, EscapeIs
<1>6. \A c \in PathChar : unescape(c) \in PathChar
  BY <1>1, <1>2, <1>3, EscapeIs
<1>7. PathChar \subseteq Character
  <2>1. {":", "@", "/"} \subseteq UriPunct
    BY DEF UriPunct
  <2>2. QED
    BY <2>1 DEF PathChar, Character
<1>8. "/" \in PathChar
  BY DEF PathChar
<1>9. QED
  BY <1>4, <1>5, <1>6, <1>7, <1>8

\* what a path is made of once its escapes are read
PlainChar == {c \in PathChar : unescape(c) = c}

\* a path is unescaped character by character
LEMMA UnescapedIs ==
  ASSUME NEW s \in Seq(PathChar)
  PROVE  /\ unescaped(s) \in Seq(PlainChar) /\ Len(unescaped(s)) = Len(s) /\ Len(s) \in Nat
         /\ \A i \in 1 .. Len(s) : unescaped(s)[i] = unescape(s[i])
<1>1. Len(s) \in Nat /\ DOMAIN s = 1 .. Len(s) /\ \A i \in 1 .. Len(s) : s[i] \in PathChar
  BY LenProperties, ElementOfSeq
<1>2. \A c \in PathChar : unescape(c) \in PlainChar
  BY UnescapeIs DEF PlainChar
<1> DEFINE f == [i \in 1 .. Len(s) |-> unescape(s[i])]
<1>3. f \in [1 .. Len(s) -> PlainChar]
  BY <1>1, <1>2
<1>4. f \in Seq(PlainChar) /\ Len(f) = Len(s)
  BY <1>1, <1>3
<1>5. unescaped(s) = f
  BY <1>1 DEF unescaped
<1>6. QED
  BY <1>1, <1>4, <1>5

\* and what is plain stays
LEMMA UnescapedStays ==
  ASSUME NEW s \in Seq(PlainChar)
  PROVE  unescaped(s) = s
<1>1. Len(s) \in Nat /\ DOMAIN s = 1 .. Len(s) /\ \A i \in 1 .. Len(s) : s[i] \in PlainChar
  BY LenProperties, ElementOfSeq
<1>2. \A i \in 1 .. Len(s) : unescape(s[i]) = s[i]
  BY <1>1 DEF PlainChar
<1>3. s = [i \in 1 .. Len(s) |-> s[i]]
  BY <1>1
<1>4. QED
  BY <1>1, <1>2, <1>3 DEF unescaped

\* plain characters are characters of paths
LEMMA PlainIs == PlainChar \subseteq PathChar /\ PlainChar \subseteq Character /\ "/" \in PlainChar
BY UnescapeIs DEF PlainChar

\* normalize_path, with its parts named
LEMMA NormalPathIs ==
  ASSUME NEW path \in Text
  PROVE  LET cleaned == remove_dot_segments(unescaped(path))
         IN  /\ (normalize_path(path) # {} => path \in Seq(PathChar))
             /\ (path \in Seq(PathChar) =>
                   normalize_path(path) = IF cleaned = << >> THEN {<<"/">>} ELSE {cleaned})
<1> DEFINE cleaned == remove_dot_segments(unescaped(path))
<1>1. Len(path) \in Nat /\ DOMAIN path = 1 .. Len(path)
  BY LenProperties DEF Text
<1>2. Range(path) \subseteq PathChar <=> \A i \in 1 .. Len(path) : path[i] \in PathChar
  BY TextIn
<1>3. Range(path) \subseteq PathChar <=> path \in Seq(PathChar)
  <2>1. ASSUME \A i \in 1 .. Len(path) : path[i] \in PathChar PROVE path \in Seq(PathChar)
    <3>1. path = [i \in 1 .. Len(path) |-> path[i]]
      BY <1>1 DEF Text
    <3>2. path \in [1 .. Len(path) -> PathChar]
      BY <2>1, <3>1
    <3>3. QED
      BY <1>1, <3>2
  <2>2. ASSUME path \in Seq(PathChar) PROVE \A i \in 1 .. Len(path) : path[i] \in PathChar
    BY <2>2, ElementOfSeq
  <2>3. QED
    BY <1>2, <2>1, <2>2
<1>4. normalize_path(path) = IF ~ Range(path) \subseteq PathChar THEN {}
                             ELSE IF cleaned = << >> THEN {<<"/">>} ELSE {cleaned}
  BY Zenon DEF normalize_path, unescaped
<1> HIDE DEF cleaned
<1>5. QED
  BY <1>3, <1>4 DEF cleaned

\* a path with its escapes read and no dots
LEMMA CleanPath ==
  ASSUME NEW p \in Seq(PlainChar), p # << >>, NEW b, b # << >>, OutIs(p, b), NoDots(b)
  PROVE  normalize_path(p) = {p} /\ resolved(p) = b /\ p[1] = "/"
<1>1. p \in Text /\ b \in Seq(Text) /\ p[1] = "/" /\ split(p, "/") = Rooted(b)
  BY DEF OutIs
<1>2. path_segments(p) = b /\ Len(b) \in Nat \ {0}
  <2>1. Tail(Rooted(b)) = b
    BY <1>1, PartsAre
  <2>2. Len(b) \in Nat \ {0}
    BY <1>1, LenProperties, EmptySeq
  <2>3. QED
    BY <1>1, <2>1, <2>2 DEF path_segments
<1>3. ResolvedOf(b) = b
  BY <1>1, <1>2, ResolvedOnce
<1>4. unescaped(p) = p
  BY UnescapedStays
<1>5. OutIs(remove_dot_segments(p), b)
  <2>1. OutIs(remove_dot_segments(p), ResolvedOf(path_segments(p)))
    BY <1>1, DotsRemoved, PlainIs
  <2>2. QED
    BY <1>2, <1>3, <2>1
<1>6. remove_dot_segments(p) = p
  <2>1. remove_dot_segments(p) \in Text /\ split(remove_dot_segments(p), "/") = split(p, "/")
    BY <1>1, <1>5 DEF OutIs
  <2>2. "/" \in Character
    BY Literals
  <2>3. QED
    BY <1>1, <2>1, <2>2, SplitInjective
<1>7. normalize_path(p) = {p}
  <2>1. p \in Seq(PathChar)
    BY PlainIs, SeqMonotonic
  <2>2. normalize_path(p) = IF remove_dot_segments(unescaped(p)) = << >> THEN {<<"/">>}
                            ELSE {remove_dot_segments(unescaped(p))}
    BY <1>1, <2>1, NormalPathIs
  <2>3. QED
    BY <1>4, <1>6, <2>2
<1>8. resolved(p) = b
  <2>1. segments_of(p) = b
    BY <1>2, <1>4 DEF segments_of, path_segments
  <2>2. QED
    BY <1>3, <2>1, ResolvedIs
<1>9. QED
  BY <1>1, <1>7, <1>8

\* the normal form of a path
LEMMA PathForm ==
  ASSUME NEW path \in Text, path = << >> \/ path[1] = "/", NEW p, p \in normalize_path(path)
  PROVE  /\ p \in Seq(PlainChar) /\ p # << >> /\ p[1] = "/"
         /\ normalize_path(p) = {p} /\ resolved(p) = resolved(path)
<1> DEFINE u == unescaped(path)
           r == remove_dot_segments(u)
<1>1. path \in Seq(PathChar) /\ p = IF r = << >> THEN <<"/">> ELSE r
  BY NormalPathIs
<1>2. /\ u \in Seq(PlainChar) /\ Len(u) = Len(path) /\ Len(path) \in Nat
      /\ \A i \in 1 .. Len(path) : u[i] = unescape(path[i])
  BY <1>1, UnescapedIs
<1>3. CASE path = << >>
  <2>1. u = << >>
    BY <1>2, <1>3, EmptySeq
  <2>2. r = << >>
    <3>1. PICK R : R[0] = Left(<< >>, << >>) /\ remove_dot_segments(<< >>) = R[Len(<< >>)].output
      BY TextIs, LoopIs
    <3>2. Len(<< >>) = 0
      OBVIOUS
    <3>3. QED
      BY <2>1, <3>1, <3>2 DEF Left
  <2>3. p = <<"/">>
    BY <1>1, <2>2
  <2>4. OutIs(p, <<<< >>>>)
    <3>1. Clean(<< >>)
      BY DEF Clean
    <3>2. OutIs(Append(<< >>, "/") \o << >>, Append(<< >>, << >>))
      BY <3>1, OutNothing, Pushed, TextIs
    <3>3. Append(<< >>, "/") \o << >> = <<"/">>
      <4>1. "/" \in Character
        BY Literals
      <4>2. Append(<< >>, "/") = <<"/">> /\ <<"/">> \in Seq(Character)
        BY <4>1
      <4>3. QED
        BY <4>2, ConcatEmptySeq
    <3>4. Append(<< >>, << >>) = <<<< >>>>
      OBVIOUS
    <3>5. QED
      BY <2>3, <3>2, <3>3, <3>4
  <2>5. NoDots(<<<< >>>>) /\ <<<< >>>> # << >>
    <3>1. Len(<<<< >>>>) = 1 /\ <<<< >>>>[1] = << >>
      OBVIOUS
    <3>2. \A m \in 1 .. 1 : m = 1
      OBVIOUS
    <3>3. QED
      BY <3>1, <3>2, DotsDiffer DEF NoDots
  <2>6. p \in Seq(PlainChar) /\ p # << >>
    BY <2>3, PlainIs
  <2>7. resolved(path) = <<<< >>>>
    BY <1>3, ResolvedIs
  <2>8. QED
    BY <2>4, <2>5, <2>6, <2>7, CleanPath
<1>4. CASE path # << >>
  <2>1. path[1] = "/" /\ 1 \in 1 .. Len(path)
    <3>1. Len(path) # 0
      BY <1>4, EmptySeq DEF Text
    <3>2. QED
      BY <1>2, <1>4, <3>1
  <2>2. u \in Text /\ u # << >> /\ u[1] = "/"
    <3>1. u \in Text
      BY <1>2, PlainIs, SeqMonotonic DEF Text
    <3>2. u[1] = "/"
      BY <1>2, <2>1, UnescapeIs
    <3>3. Len(u) # 0
      BY <1>2, <2>1
    <3>4. QED
      BY <3>1, <3>2, <3>3
  <2> DEFINE b == ResolvedOf(path_segments(u))
  <2> HIDE DEF u
  <2>3. OutIs(r, b) /\ r \in Seq(PlainChar)
    BY <1>2, <2>2, DotsRemoved, PlainIs
  <2>4. path_segments(u) \in Seq(Text) /\ Len(path_segments(u)) \in Nat \ {0}
    BY <2>2, PathParts DEF path_segments
  <2>5. b # << >> /\ NoDots(b) /\ b \in Seq(Text)
    BY <2>4, ResolvedOfIs, ResolvedNoDots
  <2> HIDE DEF r
  <2>6. r # << >>
    <3> SUFFICES ASSUME r = << >> PROVE FALSE
      OBVIOUS
    <3>1. Rooted(b) = <<<< >>>>
      BY <2>3, SplitEmpty DEF OutIs
    <3> HIDE DEF b
    <3>2. Len(Rooted(b)) = Len(b) + 1 /\ Len(b) \in Nat
      BY <2>5, PartsAre
    <3>3. Len(<<<< >>>>) = 1
      OBVIOUS
    <3>4. QED
      BY <2>5, <3>1, <3>2, <3>3, EmptySeq
  <2>7. p = r
    BY <1>1, <2>6
  <2>8. resolved(path) = b
    BY <1>4, ResolvedIs DEF segments_of, path_segments, u
  <2> HIDE DEF b
  <2>9. QED
    BY <2>3, <2>5, <2>6, <2>7, <2>8, CleanPath
<1>5. QED
  BY <1>3, <1>4

(***************************************************************************)
(* Characters that are read: escapes and case do not count.                *)
(***************************************************************************)

\* what a name, and what a literal, is made of
NameChar == Unreserved \cup SubDelim \cup DOMAIN Escape
LiteralChar == Unreserved \cup SubDelim \cup {":"}

\* a character of a host, as it is named
read(c) == lower(unescape(c))

\* unescaping and lower case keep characters of a name, and of a literal
LEMMA HostChars ==
  /\ \A c : read(read(c)) = read(c)
  /\ \A c \in NameChar : read(c) \in NameChar
  /\ \A c \in LiteralChar : read(c) \in LiteralChar /\ unescape(c) = c
  /\ \A c : lower(c) \in LiteralChar => c \in LiteralChar
  /\ \A c : lower(lower(c)) = lower(c)
  /\ \A c \in DecimalDigit \cup {".", ":", "[", "]"} : read(c) = c
  /\ (NameChar \cup LiteralChar) \cap {"/", "?", "#", "@", "[", "]"} = {}
  /\ ":" \notin NameChar
  /\ DecimalDigit \subseteq NameChar /\ HexDigit \subseteq LiteralChar
  /\ NameChar \subseteq Character /\ LiteralChar \subseteq Character
  /\ "." \in NameChar /\ "." \in LiteralChar /\ "v" \in LiteralChar
<1> DEFINE Plain == {"0", "1", "2", "3", "4", "5", "6", "7", "8", "9", "a", "f", "A", "F", "v", "-", ".", "+"}
           Escaped == {"%2e", "%2E", "%39", "%61", "%41", "%2f", "%2F", "%40"}
<1>1. Unreserved \cup SubDelim = Plain /\ DOMAIN Escape = Escaped
  BY DecimalDigitIs, EscapeIs DEF Unreserved, HexDigit, SubDelim
<1>2. \A c : c \notin Escaped => unescape(c) = c
  BY EscapeIs DEF unescape
<1>3. /\ unescape("%2e") = "." /\ unescape("%2E") = "." /\ unescape("%39") = "9" /\ unescape("%61") = "a"
      /\ unescape("%41") = "A" /\ unescape("%2f") = "%2F" /\ unescape("%2F") = "%2F" /\ unescape("%40") = "%40"
  BY EscapeIs DEF unescape
<1>4. lower("A") = "a" /\ lower("F") = "f" /\ \A c : c \notin {"A", "F"} => lower(c) = c
  BY DEF lower, Lowercase
<1>5. \A c : c \notin Escaped => read(c) = lower(c)
  BY <1>2 DEF read
<1>6. /\ read("%2e") = "." /\ read("%2E") = "." /\ read("%39") = "9" /\ read("%61") = "a"
      /\ read("%41") = "a" /\ read("%2f") = "%2F" /\ read("%2F") = "%2F" /\ read("%40") = "%40"
  BY <1>3, <1>4 DEF read
<1>7. \A c : lower(lower(c)) = lower(c)
  BY <1>4
<1>8. \A c : c \notin Escaped => lower(c) \notin Escaped
  BY <1>4
<1>9. \A c : read(read(c)) = read(c)
  <2>1. \A c : c \notin Escaped => read(read(c)) = read(c)
    BY <1>5, <1>7, <1>8
  <2>2. \A c \in Escaped : read(read(c)) = read(c)
    BY <1>4, <1>5, <1>6
  <2>3. QED
    BY <2>1, <2>2
<1>10. NameChar = Plain \cup Escaped /\ LiteralChar = Plain \cup {":"}
  BY <1>1 DEF NameChar, LiteralChar
<1>11. \A c \in NameChar : read(c) \in NameChar
  BY <1>4, <1>5, <1>6, <1>10
<1>12. \A c \in LiteralChar : read(c) \in LiteralChar /\ unescape(c) = c
  BY <1>2, <1>4, <1>5, <1>10
<1>13. \A c : lower(c) \in LiteralChar => c \in LiteralChar
  BY <1>4, <1>10
<1>14. \A c \in DecimalDigit \cup {".", ":", "[", "]"} : read(c) = c
  BY <1>4, <1>5, DecimalDigitIs
<1>15. (NameChar \cup LiteralChar) \cap {"/", "?", "#", "@", "[", "]"} = {} /\ ":" \notin NameChar
  BY <1>10
<1>16. DecimalDigit \subseteq NameChar /\ HexDigit \subseteq LiteralChar
  BY DEF NameChar, LiteralChar, Unreserved, HexDigit
<1>17. NameChar \subseteq Character
  BY DEF NameChar, Character
<1>18. LiteralChar \subseteq Character
  <2>1. ":" \in UriPunct
    BY DEF UriPunct
  <2>2. QED
    BY <2>1 DEF LiteralChar, Character
<1>19. "." \in NameChar /\ "." \in LiteralChar /\ "v" \in LiteralChar
  BY <1>10
<1>20. QED
  BY <1>7, <1>9, <1>11, <1>12, <1>13, <1>14, <1>15, <1>16, <1>17, <1>18, <1>19

\* a host as it is read
Read(h) == [i \in DOMAIN h |-> read(h[i])]

\* a host is read character by character
LEMMA ReadIs ==
  ASSUME NEW S, NEW h \in Seq(S), NEW T, \A c \in S : read(c) \in T
  PROVE  /\ Read(h) \in Seq(T) /\ Len(Read(h)) = Len(h) /\ Len(h) \in Nat
         /\ \A i \in 1 .. Len(h) : Read(h)[i] = read(h[i])
         /\ DOMAIN h = 1 .. Len(h) /\ DOMAIN Read(h) = 1 .. Len(h)
<1>1. Len(h) \in Nat /\ DOMAIN h = 1 .. Len(h) /\ \A i \in 1 .. Len(h) : h[i] \in S
  BY LenProperties, ElementOfSeq
<1> DEFINE f == [i \in 1 .. Len(h) |-> read(h[i])]
<1>2. f \in [1 .. Len(h) -> T]
  BY <1>1
<1>3. f \in Seq(T) /\ Len(f) = Len(h)
  BY <1>1, <1>2
<1>4. Read(h) = f
  BY <1>1 DEF Read
<1>5. QED
  BY <1>1, <1>3, <1>4

\* what was read is read as it is
LEMMA ReadTwice ==
  ASSUME NEW S, NEW h \in Seq(S)
  PROVE  Read(Read(h)) = Read(h)
<1> DEFINE T == {read(c) : c \in S}
<1>1. /\ Read(h) \in Seq(T) /\ DOMAIN h = 1 .. Len(h) /\ DOMAIN Read(h) = 1 .. Len(h)
      /\ \A i \in 1 .. Len(h) : Read(h)[i] = read(h[i])
  <2>1. \A c \in S : read(c) \in T
    OBVIOUS
  <2> HIDE DEF T
  <2>2. QED
    BY <2>1, ReadIs
<1>2. \A i \in 1 .. Len(h) : read(Read(h)[i]) = read(h[i])
  BY <1>1, HostChars
<1>3. Read(Read(h)) = [i \in 1 .. Len(h) |-> read(Read(h)[i])]
  BY <1>1 DEF Read
<1>4. Read(h) = [i \in 1 .. Len(h) |-> read(h[i])]
  BY <1>1 DEF Read
<1>5. QED
  BY <1>2, <1>3, <1>4

\* a host that is plain is read as it is
LEMMA ReadSame ==
  ASSUME NEW S, NEW h \in Seq(S), \A c \in S : read(c) = c
  PROVE  Read(h) = h
<1>1. DOMAIN h = 1 .. Len(h) /\ \A i \in 1 .. Len(h) : h[i] \in S
  BY LenProperties, ElementOfSeq
<1>2. h = [i \in 1 .. Len(h) |-> h[i]]
  BY <1>1
<1>3. QED
  BY <1>1, <1>2 DEF Read

\* hosts are read part by part
LEMMA ReadJoined ==
  ASSUME NEW S, NEW s \in Seq(S), NEW t \in Seq(S)
  PROVE  Read(s \o t) = Read(s) \o Read(t)
<1> DEFINE T == {read(c) : c \in S}
           u == s \o t
<1>1. \A c \in S : read(c) \in T
  OBVIOUS
<1> HIDE DEF T
<1>2. /\ u \in Seq(S) /\ Len(u) = Len(s) + Len(t)
      /\ \A i \in 1 .. Len(s) + Len(t) : u[i] = IF i <= Len(s) THEN s[i] ELSE t[i - Len(s)]
  BY ConcatProperties
<1> HIDE DEF u
<1>3. /\ Read(u) \in Seq(T) /\ Len(Read(u)) = Len(u)
      /\ \A i \in 1 .. Len(u) : Read(u)[i] = read(u[i])
  BY <1>1, <1>2, ReadIs
<1>4. /\ Read(s) \in Seq(T) /\ Len(Read(s)) = Len(s) /\ Len(s) \in Nat
      /\ \A i \in 1 .. Len(s) : Read(s)[i] = read(s[i])
  BY <1>1, ReadIs
<1>5. /\ Read(t) \in Seq(T) /\ Len(Read(t)) = Len(t) /\ Len(t) \in Nat
      /\ \A i \in 1 .. Len(t) : Read(t)[i] = read(t[i])
  BY <1>1, ReadIs
<1> DEFINE a == Read(s)
           b == Read(t)
           v == a \o b
<1> HIDE DEF a, b
<1>6. a \in Seq(T) /\ b \in Seq(T) /\ Len(a) = Len(s) /\ Len(b) = Len(t)
      /\ (\A i \in 1 .. Len(s) : a[i] = read(s[i])) /\ \A i \in 1 .. Len(t) : b[i] = read(t[i])
  BY <1>4, <1>5 DEF a, b
<1>7. /\ v \in Seq(T) /\ Len(v) = Len(s) + Len(t)
      /\ \A i \in 1 .. Len(s) + Len(t) : v[i] = IF i <= Len(s) THEN a[i] ELSE b[i - Len(s)]
  <2>1. /\ v \in Seq(T) /\ Len(v) = Len(a) + Len(b)
        /\ \A i \in 1 .. Len(a) + Len(b) : v[i] = IF i <= Len(a) THEN a[i] ELSE b[i - Len(a)]
    <3>1. a \in Seq(T) /\ b \in Seq(T)
      BY <1>6
    <3>2. QED
      BY <3>1, ConcatProperties
  <2> HIDE DEF v
  <2>2. Len(a) = Len(s) /\ Len(b) = Len(t)
    BY <1>6
  <2>3. QED
    BY <2>1, <2>2
<1> DEFINE w == Read(u)
<1> HIDE DEF v, w
<1>8. \A i \in 1 .. Len(s) + Len(t) : w[i] = v[i]
  <2> SUFFICES ASSUME NEW i \in 1 .. Len(s) + Len(t) PROVE w[i] = v[i]
    OBVIOUS
  <2>1. w[i] = read(u[i])
    BY <1>2, <1>3 DEF w
  <2>2. CASE i <= Len(s)
    <3>1. i \in 1 .. Len(s)
      BY <1>4, <2>2
    <3>2. QED
      BY <1>2, <1>6, <1>7, <2>1, <2>2, <3>1
  <2>3. CASE ~ (i <= Len(s))
    <3>1. i - Len(s) \in 1 .. Len(t)
      BY <1>4, <1>5, <2>3
    <3>2. QED
      BY <1>2, <1>6, <1>7, <2>1, <2>3, <3>1
  <2>4. QED
    BY <2>2, <2>3
<1>9. w \in Seq(T) /\ Len(w) = Len(s) + Len(t)
  BY <1>2, <1>3 DEF w
<1>10. w = v
  BY <1>7, <1>8, <1>9, SeqEqual
<1>11. QED
  BY <1>10 DEF w, v, a, b, u

(***************************************************************************)
(* Texts that are put together, and taken apart again.                     *)
(***************************************************************************)

\* two texts, one behind the other, can be taken apart
LEMMA TextJoined ==
  ASSUME NEW s \in Text, NEW t \in Text
  PROVE  /\ s \o t \in Text /\ Len(s) \in Nat /\ Len(t) \in Nat
         /\ Len(s \o t) = Len(s) + Len(t)
         /\ \A i \in 1 .. Len(s) : (s \o t)[i] = s[i]
         /\ \A i \in 1 .. Len(t) : (s \o t)[Len(s) + i] = t[i]
         /\ SubSeq(s \o t, 1, Len(s)) = s
         /\ SubSeq(s \o t, Len(s) + 1, Len(s \o t)) = t
<1> DEFINE u == s \o t
<1>1. Len(s) \in Nat /\ Len(t) \in Nat
  BY LenProperties DEF Text
<1>2. /\ u \in Text /\ Len(u) = Len(s) + Len(t)
      /\ \A i \in 1 .. Len(s) + Len(t) : u[i] = IF i <= Len(s) THEN s[i] ELSE t[i - Len(s)]
  BY ConcatProperties DEF Text
<1> HIDE DEF u
<1>3. \A i \in 1 .. Len(s) : u[i] = s[i]
  <2> SUFFICES ASSUME NEW i \in 1 .. Len(s) PROVE u[i] = s[i]
    OBVIOUS
  <2>1. i \in 1 .. Len(s) + Len(t) /\ i <= Len(s)
    BY <1>1
  <2>2. QED
    BY <1>2, <2>1
<1>4. \A i \in 1 .. Len(t) : u[Len(s) + i] = t[i]
  <2> SUFFICES ASSUME NEW i \in 1 .. Len(t) PROVE u[Len(s) + i] = t[i]
    OBVIOUS
  <2>1. Len(s) + i \in 1 .. Len(s) + Len(t) /\ ~ (Len(s) + i <= Len(s)) /\ (Len(s) + i) - Len(s) = i
    BY <1>1
  <2>2. QED
    BY <1>2, <2>1
<1>5. SubSeq(u, 1, Len(s)) = s
  <2> DEFINE v == SubSeq(u, 1, Len(s))
  <2>1. Len(s) <= Len(u)
    BY <1>1, <1>2
  <2>2. v \in Text /\ Len(v) = Len(s) /\ \A i \in 1 .. Len(s) : v[i] = u[i]
    BY <1>1, <1>2, <2>1, PrefixOf DEF Text
  <2> HIDE DEF v
  <2>3. v = s
    BY <1>3, <2>2, SeqEqual DEF Text
  <2>4. QED
    BY <2>3 DEF v
<1>6. SubSeq(u, Len(s) + 1, Len(u)) = t
  <2> DEFINE v == SubSeq(u, Len(s) + 1, Len(u))
             n == Len(u)
  <2>1. Len(s) + 1 \in Nat \ {0} /\ n \in Nat /\ Len(s) + 1 <= n + 1 /\ n <= Len(u)
        /\ n - (Len(s) + 1) + 1 = Len(t) /\ \A i \in 1 .. Len(t) : Len(s) + 1 + i - 1 = Len(s) + i
    BY <1>1, <1>2
  <2>2. /\ v \in Text /\ Len(v) = n - (Len(s) + 1) + 1
        /\ \A i \in 1 .. n - (Len(s) + 1) + 1 : v[i] = u[Len(s) + 1 + i - 1]
    <3>1. \A a \in Nat \ {0} : \A b \in Nat : a <= b + 1 /\ b <= Len(u) =>
            /\ SubSeq(u, a, b) \in Text /\ Len(SubSeq(u, a, b)) = b - a + 1
            /\ \A m \in 1 .. b - a + 1 : SubSeq(u, a, b)[m] = u[a + m - 1]
      BY <1>2, PieceOf DEF Text
    <3>2. QED
      BY <2>1, <3>1
  <2> HIDE DEF v, n
  <2>3. \A i \in 1 .. Len(t) : v[i] = t[i]
    BY <1>4, <2>1, <2>2
  <2>4. v = t
    BY <2>1, <2>2, <2>3, SeqEqual DEF Text
  <2>5. QED
    BY <2>4 DEF v
<1>7. QED
  BY <1>1, <1>2, <1>3, <1>4, <1>5, <1>6 DEF u

\* the first of its kind
LEMMA PositionAt ==
  ASSUME NEW s \in Text, NEW t \in Text, NEW c, \A i \in 1 .. Len(s) : s[i] # c, t = << >> \/ t[1] = c
  PROVE  position(s \o t, c) = Len(s) + 1
<1> DEFINE u == s \o t
           p == position(u, c)
<1>1. /\ u \in Text /\ Len(s) \in Nat /\ Len(t) \in Nat /\ Len(u) = Len(s) + Len(t)
      /\ (\A i \in 1 .. Len(s) : u[i] = s[i])
      /\ \A i \in 1 .. Len(t) : u[Len(s) + i] = t[i]
  BY TextJoined, Zenon
<1> HIDE DEF u
<1>2. /\ p \in 1 .. Len(u) + 1 /\ (\A i \in 1 .. p - 1 : u[i] # c) /\ (p <= Len(u) => u[p] = c)
  BY <1>1, PositionIs
<1> HIDE DEF p
<1>3. ~ (p <= Len(s))
  <2> SUFFICES ASSUME p <= Len(s) PROVE FALSE
    OBVIOUS
  <2>1. p \in 1 .. Len(s) /\ p <= Len(u)
    BY <1>1, <1>2
  <2>2. QED
    BY <1>1, <1>2, <2>1
<1>4. CASE t = << >>
  <2>1. Len(t) = 0
    BY <1>4
  <2>2. QED
    BY <1>1, <1>2, <1>3, <2>1 DEF p, u
<1>5. CASE t # << >>
  <2>1. Len(t) # 0 /\ t[1] = c
    BY <1>5, EmptySeq DEF Text
  <2>2. 1 \in 1 .. Len(t)
    BY <1>1, <2>1
  <2>3. u[Len(s) + 1] = c
    BY <1>1, <2>1, <2>2
  <2>4. ~ (Len(s) + 1 < p)
    <3> SUFFICES ASSUME Len(s) + 1 < p PROVE FALSE
      OBVIOUS
    <3>1. Len(s) + 1 \in 1 .. p - 1
      BY <1>1, <1>2
    <3>2. QED
      BY <1>2, <2>3, <3>1
  <2>5. p = Len(s) + 1
    BY <1>1, <1>2, <1>3, <2>4
  <2>6. QED
    BY <2>5 DEF p, u
<1>6. QED
  BY <1>4, <1>5

\* where a path may begin
Onward(p) == p = << >> \/ p[1] = "/"

\* an authority and a path, put together and taken apart
LEMMA RestJoined ==
  ASSUME NEW a \in Text, NEW p \in Text, Clean(a), Onward(p)
  PROVE  authority_of(a \o p) = a /\ path_of(a \o p) = p
<1>1. position(a \o p, "/") = Len(a) + 1
  BY PositionAt DEF Clean, Onward
<1>2. Len(a) \in Nat /\ SubSeq(a \o p, 1, Len(a)) = a /\ SubSeq(a \o p, Len(a) + 1, Len(a \o p)) = p
  BY TextJoined, Zenon
<1>3. (Len(a) + 1) - 1 = Len(a)
  BY <1>2
<1>4. QED
  BY <1>1, <1>2, <1>3 DEF authority_of, path_of

\* what is behind the scheme is an authority, and a path that begins with a slash
LEMMA RestParts ==
  ASSUME NEW r \in Text
  PROVE  /\ authority_of(r) \in Text /\ Clean(authority_of(r)) /\ Len(authority_of(r)) <= Len(r)
         /\ path_of(r) \in Text /\ Onward(path_of(r))
         /\ \A i \in 1 .. Len(authority_of(r)) : authority_of(r)[i] = r[i]
         /\ Len(r) \in Nat /\ Len(authority_of(r)) \in Nat
<1> DEFINE k == position(r, "/")
           n == Len(r)
           a == authority_of(r)
           p == path_of(r)
<1>1. n \in Nat /\ k \in 1 .. n + 1 /\ (\A i \in 1 .. k - 1 : r[i] # "/") /\ (k <= n => r[k] = "/")
  BY PositionIs, LenProperties DEF Text
<1>2. a = SubSeq(r, 1, k - 1) /\ p = SubSeq(r, k, n)
  BY DEF authority_of, path_of
<1> HIDE DEF k, a, p
<1>3. a \in Text /\ Len(a) = k - 1 /\ \A i \in 1 .. k - 1 : a[i] = r[i]
  <2>1. k - 1 \in Nat /\ k - 1 <= Len(r)
    BY <1>1
  <2>2. QED
    BY <1>2, <2>1, PrefixOf DEF Text
<1>4. p \in Text /\ Onward(p)
  <2>1. /\ p \in Text /\ Len(p) = n - k + 1
        /\ \A i \in 1 .. n - k + 1 : p[i] = r[k + i - 1]
    <3>1. k \in Nat \ {0} /\ n \in Nat /\ k <= n + 1 /\ n <= Len(r)
      BY <1>1
    <3>2. QED
      BY <1>2, <3>1, PieceOf DEF Text
  <2>2. CASE k = n + 1
    <3>1. Len(p) = 0
      BY <1>1, <2>1, <2>2
    <3>2. p = << >>
      BY <2>1, <3>1, EmptySeq DEF Text
    <3>3. QED
      BY <2>1, <3>2 DEF Onward
  <2>3. CASE k <= n
    <3>1. 1 \in 1 .. n - k + 1 /\ k + 1 - 1 = k
      BY <1>1, <2>3
    <3>2. p[1] = "/"
      BY <1>1, <2>1, <2>3, <3>1
    <3>3. QED
      BY <2>1, <3>2 DEF Onward
  <2>4. QED
    BY <1>1, <2>2, <2>3
<1>5. Clean(a)
  BY <1>1, <1>3 DEF Clean
<1>6. Len(a) <= n /\ Len(a) \in Nat /\ \A i \in 1 .. Len(a) : a[i] = r[i]
  BY <1>1, <1>3
<1>7. QED
  BY <1>1, <1>3, <1>4, <1>5, <1>6 DEF a, p

\* a scheme and what is behind it
LEMMA TailJoined ==
  ASSUME NEW x \in Character, NEW s \in Text
  PROVE  /\ Tail(<<x>> \o s) = s /\ (<<x>> \o s)[1] = x /\ <<x>> \o s # << >>
         /\ <<x>> \o s \in Text
<1> DEFINE a == <<x>>
           u == a \o s
<1>1. a \in Text /\ Len(a) = 1 /\ a[1] = x
  BY DEF Text
<1> HIDE DEF a
<1>2. /\ u \in Text /\ Len(u) = Len(a) + Len(s) /\ Len(s) \in Nat
      /\ (\A i \in 1 .. Len(a) : u[i] = a[i])
      /\ SubSeq(u, Len(a) + 1, Len(u)) = s
  BY <1>1, TextJoined, Zenon
<1> HIDE DEF u
<1>3. u # << >> /\ u[1] = x
  <2>1. Len(u) # 0 /\ 1 \in 1 .. Len(a)
    BY <1>1, <1>2
  <2>2. QED
    BY <1>1, <1>2, <2>1
<1>4. Tail(u) = SubSeq(u, 2, Len(u))
  BY <1>2, <1>3 DEF Text
<1>5. Len(a) + 1 = 2
  BY <1>1
<1>6. QED
  BY <1>2, <1>3, <1>4, <1>5 DEF a, u

(***************************************************************************)
(* An authority, as it is named: its host and its port.                    *)
(***************************************************************************)

\* where the port of an authority begins, as it is named
colon_of(a) ==
  LET close == position(a, "]")
      literal == close <= Len(a)
      after == IF literal THEN close ELSE 0
  IN  after + position(SubSeq(a, after + 1, Len(a)), ":")

\* host and port, as they are named
host_of(a) == SubSeq(a, 1, colon_of(a) - 1)
port_of(a, default) ==
  IF colon_of(a) > Len(a) THEN default ELSE decimal(SubSeq(a, colon_of(a) + 1, Len(a)))

\* what a target names, by its parts
LEMMA NamedIs ==
  ASSUME NEW text
  PROVE  LET a == authority_of(Tail(text))
         IN  named(text) = [host |-> Read(host_of(a)),
                            port |-> port_of(a, IF text[1] \in PlainScheme THEN 80 ELSE 443),
                            path |-> resolved(path_of(Tail(text)))]
BY Zenon DEF named, Read, read, host_of, port_of, colon_of

\* where the port of a host begins can be told by these shapes
HostShape(h) ==
  \/ \A i \in 1 .. Len(h) : h[i] \notin {":", "]"}
  \/ h # << >> /\ h[Len(h)] = "]" /\ (\A i \in 1 .. Len(h) - 1 : h[i] # "]")

PortShape(p) == p = << >> \/ (p[1] = ":" /\ \A i \in 1 .. Len(p) : p[i] # "]")

\* the digits of a port, behind a host
LEMMA PortBehind ==
  ASSUME NEW h \in Text, NEW p \in Text, p # << >>
  PROVE  /\ SubSeq(h \o p, Len(h) + 2, Len(h \o p)) = Tail(p)
         /\ Tail(p) \in Text /\ Len(p) \in Nat \ {0} /\ Len(Tail(p)) = Len(p) - 1
         /\ \A i \in 1 .. Len(p) - 1 : Tail(p)[i] = p[i + 1]
<1> DEFINE a == h \o p
<1>1. /\ a \in Text /\ Len(h) \in Nat /\ Len(p) \in Nat /\ Len(a) = Len(h) + Len(p)
      /\ SubSeq(a, Len(h) + 1, Len(a)) = p
  BY TextJoined
<1>2. Len(p) \in Nat \ {0}
  BY <1>1, EmptySeq DEF Text
<1>3. Tail(p) \in Text /\ Len(Tail(p)) = Len(p) - 1 /\ \A i \in 1 .. Len(p) - 1 : Tail(p)[i] = p[i + 1]
  BY HeadTailProperties DEF Text
<1>4. Tail(p) = SubSeq(p, 2, Len(p))
  BY TailIsSubSeq DEF Text
<1> HIDE DEF a
<1>5. SubSeq(SubSeq(a, Len(h) + 1, Len(a)), 2, Len(p)) = SubSeq(a, Len(h) + 2, Len(a))
  <2> DEFINE m == Len(h) + 1
             n == Len(a)
             k == Len(p)
  <2>1. /\ m \in Nat \ {0} /\ n \in Nat /\ m <= n + 1 /\ n <= Len(a) /\ 2 \in Nat \ {0} /\ k \in Int
        /\ k <= n - m + 1 /\ m + 2 - 1 = Len(h) + 2 /\ m + k - 1 = n
    BY <1>1
  <2> HIDE DEF m, n, k
  <2>2. SubSeq(SubSeq(a, m, n), 2, k) = SubSeq(a, m + 2 - 1, m + k - 1)
    BY <1>1, <2>1, PieceOfPiece
  <2>3. SubSeq(SubSeq(a, m, n), 2, k) = SubSeq(a, Len(h) + 2, n)
    BY <2>1, <2>2
  <2>4. QED
    BY <2>3 DEF m, n, k
<1>6. QED
  BY <1>1, <1>2, <1>3, <1>4, <1>5 DEF a

\* an authority put together names its host and its port
LEMMA HostAndPort ==
  ASSUME NEW h \in Text, NEW p \in Text, HostShape(h), PortShape(p)
  PROVE  /\ host_of(h \o p) = h
         /\ \A d : port_of(h \o p, d) = IF p = << >> THEN d ELSE decimal(Tail(p))
<1> DEFINE a == h \o p
           q == position(a, "]")
<1>1. /\ a \in Text /\ Len(h) \in Nat /\ Len(p) \in Nat /\ Len(a) = Len(h) + Len(p)
      /\ (\A i \in 1 .. Len(h) : a[i] = h[i]) /\ (\A i \in 1 .. Len(p) : a[Len(h) + i] = p[i])
      /\ SubSeq(a, 1, Len(h)) = h /\ SubSeq(a, Len(h) + 1, Len(a)) = p
  BY TextJoined
<1>2. q \in 1 .. Len(a) + 1 /\ (\A i \in 1 .. q - 1 : a[i] # "]") /\ (q <= Len(a) => a[q] = "]")
  BY <1>1, PositionIs
<1>3. \A i \in 1 .. Len(p) : p[i] # "]"
  <2>1. p = << >> => Len(p) = 0
    OBVIOUS
  <2>2. QED
    BY <1>1, <2>1 DEF PortShape
<1>4. p = << >> \/ p[1] = ":"
  BY DEF PortShape
<1>5. p # << >> => Len(p) # 0
  BY EmptySeq DEF Text
<1>6. (\A i \in 1 .. Len(h) : h[i] \notin {":", "]"}) => position(a, ":") = Len(h) + 1
  BY <1>4, PositionAt
<1>7. colon_of(a) = (IF q <= Len(a) THEN q ELSE 0)
                    + position(SubSeq(a, (IF q <= Len(a) THEN q ELSE 0) + 1, Len(a)), ":")
  BY Zenon DEF colon_of
<1>13. q \in 1 .. Len(a) + 1
  BY <1>2
<1>14. Len(h) \in Nat /\ Len(a) \in Nat
  BY <1>1, LenProperties DEF Text
<1> HIDE DEF a, q
<1>8. \A i \in Len(h) + 1 .. Len(a) : a[i] # "]"
  <2> SUFFICES ASSUME NEW i \in Len(h) + 1 .. Len(a) PROVE a[i] # "]"
    OBVIOUS
  <2>1. i - Len(h) \in 1 .. Len(p) /\ Len(h) + (i - Len(h)) = i
    BY <1>1
  <2>2. QED
    BY <1>1, <1>3, <2>1
<1>9. colon_of(a) = Len(h) + 1
  <2>1. CASE \A i \in 1 .. Len(h) : h[i] \notin {":", "]"}
    <3>1. q = Len(a) + 1
      <4> SUFFICES ASSUME q <= Len(a) PROVE FALSE
        BY <1>13, <1>14
      <4>3. q \in 1 .. Len(a) + 1 /\ Len(h) \in Nat /\ Len(a) \in Nat
        BY <1>13, <1>14
      <4>1. q \in 1 .. Len(h) \/ q \in Len(h) + 1 .. Len(a)
        BY <4>3
      <4>4. a[q] = "]"
        BY <1>2
      <4>5. CASE q \in 1 .. Len(h)
        <5>1. a[q] = h[q]
          BY <1>1, <4>5
        <5>2. QED
          BY <2>1, <4>4, <4>5, <5>1, Zenon
      <4>2. QED
        BY <1>8, <4>1, <4>4, <4>5, Zenon
    <3>2. ~ (q <= Len(a)) /\ 0 + 1 = 1
      BY <1>1, <3>1
    <3>3. SubSeq(a, 1, Len(a)) = a
      BY <1>1, SubSeqFull DEF Text
    <3>4. colon_of(a) = 0 + position(a, ":")
      BY <1>7, <3>2, <3>3
    <3>5. QED
      BY <1>1, <1>6, <2>1, <3>4
  <2>2. CASE h # << >> /\ h[Len(h)] = "]" /\ \A i \in 1 .. Len(h) - 1 : h[i] # "]"
    <3>1. Len(h) # 0
      BY <2>2, EmptySeq DEF Text
    <3>2. q = Len(h)
      <4>1. Len(h) \in 1 .. Len(h) /\ a[Len(h)] = "]"
        BY <1>1, <2>2, <3>1
      <4>2. ~ (Len(h) < q)
        <5> SUFFICES ASSUME Len(h) < q PROVE FALSE
          OBVIOUS
        <5>1. Len(h) \in 1 .. q - 1
          BY <1>1, <1>2, <3>1
        <5>2. QED
          BY <1>2, <4>1, <5>1
      <4>3. ~ (q < Len(h))
        <5> SUFFICES ASSUME q < Len(h) PROVE FALSE
          OBVIOUS
        <5>1. q \in 1 .. Len(h) - 1 /\ q \in 1 .. Len(h) /\ q <= Len(a)
          BY <1>1, <1>2
        <5>2. QED
          BY <1>1, <1>2, <2>2, <5>1
      <4>5. q \in 1 .. Len(a) + 1 /\ Len(h) \in Nat /\ Len(a) \in Nat
        BY <1>13, <1>14
      <4>4. QED
        BY <4>2, <4>3, <4>5
    <3>3. q <= Len(a)
      BY <1>1, <3>2
    <3>4. colon_of(a) = Len(h) + position(p, ":")
      BY <1>1, <1>7, <3>2, <3>3
    <3>5. position(p, ":") = 1
      <4>1. /\ position(p, ":") \in 1 .. Len(p) + 1
            /\ \A i \in 1 .. position(p, ":") - 1 : p[i] # ":"
        BY PositionIs
      <4>2. CASE p = << >>
        <5>1. Len(p) = 0
          BY <4>2
        <5>2. QED
          BY <4>1, <5>1
      <4>3. CASE p # << >>
        <5> SUFFICES ASSUME position(p, ":") # 1 PROVE FALSE
          OBVIOUS
        <5>1. 1 \in 1 .. position(p, ":") - 1
          BY <1>1, <4>1
        <5>2. QED
          BY <1>4, <4>1, <4>3, <5>1
      <4>4. QED
        BY <4>2, <4>3
    <3>6. QED
      BY <1>1, <3>4, <3>5
  <2>3. QED
    BY <2>1, <2>2 DEF HostShape
<1>10. host_of(a) = h
  <2>1. (Len(h) + 1) - 1 = Len(h)
    BY <1>1
  <2>2. QED
    BY <1>1, <1>9, <2>1 DEF host_of
<1>11. ASSUME NEW d PROVE port_of(a, d) = IF p = << >> THEN d ELSE decimal(Tail(p))
  <2>1. CASE p = << >>
    <3>1. colon_of(a) > Len(a)
      <4>1. Len(p) = 0
        BY <2>1
      <4>2. QED
        BY <1>1, <1>9, <4>1
    <3>2. QED
      BY <2>1, <3>1 DEF port_of
  <2>2. CASE p # << >>
    <3>1. ~ (colon_of(a) > Len(a))
      BY <1>1, <1>5, <1>9, <2>2
    <3>2. SubSeq(a, Len(h) + 2, Len(a)) = Tail(p)
      BY <2>2, PortBehind DEF a
    <3>3. colon_of(a) + 1 = Len(h) + 2
      BY <1>1, <1>9
    <3>4. QED
      BY <2>2, <3>1, <3>2, <3>3 DEF port_of
  <2>3. QED
    BY <2>1, <2>2
<1>12. QED
  BY <1>10, <1>11 DEF a

(***************************************************************************)
(* Numerals of ports.                                                      *)
(***************************************************************************)

\* what a digit counts
digit(c) == position(Digits, c) - 1

\* digits are from zero to nine
LEMMA DigitIs ==
  /\ digit("0") = 0
  /\ \A c \in DecimalDigit : c # "0" => digit(c) \in 1 .. 9
  /\ \A c : digit(c) \in 0 .. 10
<1>1. Digits \in Seq(Character) /\ Len(Digits) = 10 /\ DOMAIN Digits = 1 .. 10 /\ Digits[1] = "0"
  <2>1. Digits \in Seq(Character)
    <3>1. Digits \in Seq({"0", "1", "2", "3", "4", "5", "6", "7", "8", "9"})
      BY DEF Digits
    <3>2. DecimalDigit \subseteq Character
      BY HostChars
    <3>3. QED
      BY <3>1, <3>2, DecimalDigitIs, SeqMonotonic
  <2>2. Len(Digits) = 10
    BY DEF Digits
  <2>3. Digits[1] = "0"
    BY DEF Digits
  <2> HIDE DEF Digits
  <2>4. DOMAIN Digits = 1 .. 10
    BY <2>1, <2>2, LenProperties
  <2>5. QED
    BY <2>1, <2>2, <2>3, <2>4
<1>2. Digits \in Text
  BY <1>1 DEF Text
<1>3. \A c \in DecimalDigit : \E k \in 1 .. 10 : Digits[k] = c
  BY <1>1 DEF DecimalDigit, Range
<1> HIDE DEF Digits
<1>4. ASSUME NEW c PROVE /\ position(Digits, c) \in 1 .. 11
                         /\ \A i \in 1 .. position(Digits, c) - 1 : Digits[i] # c
                         /\ position(Digits, c) <= 10 => Digits[position(Digits, c)] = c
  <2>1. /\ position(Digits, c) \in 1 .. Len(Digits) + 1
        /\ \A i \in 1 .. position(Digits, c) - 1 : Digits[i] # c
        /\ position(Digits, c) <= Len(Digits) => Digits[position(Digits, c)] = c
    BY <1>2, PositionIs
  <2>2. QED
    BY <1>1, <2>1
<1>5. digit("0") = 0
  <2> DEFINE q == position(Digits, "0")
  <2>1. q \in 1 .. 11 /\ \A i \in 1 .. q - 1 : Digits[i] # "0"
    BY <1>4
  <2> HIDE DEF q
  <2>2. q = 1
    <3> SUFFICES ASSUME q # 1 PROVE FALSE
      OBVIOUS
    <3>1. 1 \in 1 .. q - 1
      BY <2>1
    <3>2. QED
      BY <1>1, <2>1, <3>1
  <2>3. QED
    BY <2>2 DEF digit, q
<1>6. ASSUME NEW c \in DecimalDigit, c # "0" PROVE digit(c) \in 1 .. 9
  <2> DEFINE q == position(Digits, c)
  <2>1. /\ q \in 1 .. 11 /\ (\A i \in 1 .. q - 1 : Digits[i] # c)
        /\ (q <= 10 => Digits[q] = c)
    BY <1>4
  <2>2. digit(c) = q - 1
    BY DEF digit
  <2> HIDE DEF q
  <2>3. PICK k \in 1 .. 10 : Digits[k] = c
    BY <1>3
  <2>4. q <= k
    <3> SUFFICES ASSUME ~ (q <= k) PROVE FALSE
      OBVIOUS
    <3>1. k \in 1 .. q - 1
      BY <2>1
    <3>2. QED
      BY <2>1, <2>3, <3>1
  <2>5. q # 1
    BY <1>1, <1>6, <2>1
  <2>6. QED
    BY <2>1, <2>2, <2>4, <2>5
<1>7. \A c : digit(c) \in 0 .. 10
  <2> SUFFICES ASSUME NEW c PROVE digit(c) \in 0 .. 10
    OBVIOUS
  <2>1. position(Digits, c) \in 1 .. 11
    BY <1>4
  <2>2. QED
    BY <2>1 DEF digit
<1>8. QED
  BY <1>5, <1>6, <1>7

\* what the digits up to each place count
Amounts(s, x) ==
  x = [i \in 0 .. Len(s) |-> IF i = 0 THEN 0 ELSE 10 * x[i - 1] + position(Digits, s[i]) - 1]

\* a number is the digit of each place added to ten times what is before it
LEMMA DecimalIs ==
  ASSUME NEW s \in Text
  PROVE  \E R : /\ R[0] = 0
                /\ \A i \in 1 .. Len(s) : R[i] = 10 * R[i - 1] + digit(s[i])
                /\ \A i \in 0 .. Len(s) : R[i] \in Nat
                /\ decimal(s) = R[Len(s)]
<1> DEFINE n == Len(s)
           X == Nat
           h == [d \in X \X (1 .. n) |-> 10 * d[1] + digit(s[d[2]])]
<1>1. n \in Nat /\ 0 \in X
  BY LenProperties DEF Text
<1>2. h \in [X \X (1 .. n) -> X] /\ \A d \in X, i \in 1 .. n : h[<<d, i>>] = 10 * d + digit(s[i])
  <2>1. \A d \in X \X (1 .. n) : 10 * d[1] + digit(s[d[2]]) \in X
    <3> SUFFICES ASSUME NEW d \in X \X (1 .. n) PROVE 10 * d[1] + digit(s[d[2]]) \in X
      OBVIOUS
    <3>1. digit(s[d[2]]) \in 0 .. 10
      BY DigitIs
    <3>2. d[1] \in Nat
      OBVIOUS
    <3>3. QED
      BY <3>1, <3>2
  <2> HIDE DEF n
  <2>2. QED
    BY <2>1
<1> HIDE DEF h, X, n
<1>3. PICK f \in [0 .. n -> X] : Steps(f, 0, h, n)
  BY <1>1, <1>2, StepsExist, Zenon
<1>4. f[0] = 0 /\ \A i \in 1 .. n : f[i] = 10 * f[i - 1] + digit(s[i])
  <2>1. \A i \in 1 .. n : i - 1 \in 0 .. n /\ f[i - 1] \in X
    <3>1. \A i \in 1 .. n : i - 1 \in 0 .. n
      BY <1>1
    <3>2. QED
      BY <1>3, <3>1
  <2>2. f[0] = 0 /\ \A i \in 1 .. n : f[i] = h[<<f[i - 1], i>>]
    BY <1>3 DEF Steps
  <2>3. QED
    BY <1>2, <2>1, <2>2, Zenon
<1>5. Amounts(s, f)
  <2>1. \A i \in 0 .. n : (i \in 1 .. n \/ i = 0) /\ (i \in 1 .. n => i # 0)
    BY <1>1
  <2>2. \A i \in 0 .. n : f[i] = IF i = 0 THEN 0 ELSE 10 * f[i - 1] + position(Digits, s[i]) - 1
    BY <1>4, <2>1, Zenon DEF digit
  <2>3. f = [i \in 0 .. n |-> f[i]]
    BY <1>3
  <2>4. QED
    BY <2>2, <2>3, Zenon DEF Amounts, n
<1> DEFINE R == CHOOSE x : Amounts(s, x)
<1>6. Amounts(s, R)
  BY <1>5, Zenon
<1>7. decimal(s) = R[n]
  BY Zenon DEF decimal, Amounts, n
<1> HIDE DEF R
<1>8. R[0] = 0 /\ \A i \in 1 .. n : R[i] = 10 * R[i - 1] + digit(s[i])
  <2>1. \A i \in 0 .. n : R[i] = IF i = 0 THEN 0 ELSE 10 * R[i - 1] + position(Digits, s[i]) - 1
    BY <1>6, Zenon DEF Amounts, n
  <2>2. 0 \in 0 .. n /\ \A i \in 1 .. n : i \in 0 .. n /\ i # 0
    BY <1>1
  <2>3. QED
    BY <2>1, <2>2, Zenon DEF digit
<1> DEFINE P == {i \in 0 .. n : R[i] \in Nat}
<1>9. 0 \in P
  BY <1>1, <1>8
<1>10. ASSUME NEW k \in 0 .. n - 1, k \in P PROVE k + 1 \in P
  <2>1. PICK i \in 1 .. n : i = k + 1
    BY <1>1
  <2>2. i - 1 = k /\ i \in 0 .. n
    BY <1>1, <2>1
  <2>3. R[i] = 10 * R[k] + digit(s[i]) /\ R[k] \in Nat
    BY <1>8, <1>10, <2>2
  <2>4. digit(s[i]) \in 0 .. 10
    BY DigitIs
  <2>5. R[i] \in Nat
    BY <2>3, <2>4
  <2>6. QED
    BY <2>1, <2>2, <2>5
<1> HIDE DEF P
<1>11. 0 .. n \subseteq P
  BY <1>1, <1>9, <1>10, 0 \in Int, n \in Int, IntervalUp, Zenon
<1>12. \A i \in 0 .. n : R[i] \in Nat
  BY <1>11 DEF P
<1>13. QED
  BY <1>7, <1>8, <1>12, Zenon DEF n

\* nothing but zeros before a place counts nothing
LEMMA ZerosCount ==
  ASSUME NEW s, NEW n \in Nat, NEW R, R[0] = 0,
         \A i \in 1 .. n : R[i] = 10 * R[i - 1] + digit(s[i]),
         \A i \in 1 .. n : s[i] = "0"
  PROVE  R[n] = 0
<1> DEFINE P == {i \in 0 .. n : R[i] = 0}
<1>1. 0 \in P
  OBVIOUS
<1>2. ASSUME NEW k \in 0 .. n - 1, k \in P PROVE k + 1 \in P
  <2>1. k + 1 \in 1 .. n /\ k + 1 \in 0 .. n /\ (k + 1) - 1 = k
    OBVIOUS
  <2>2. R[k + 1] = 10 * R[k] + digit(s[k + 1]) /\ s[k + 1] = "0" /\ R[k] = 0
    BY <1>2, <2>1
  <2>3. R[k + 1] = 0
    BY <2>2, DigitIs
  <2>4. QED
    BY <2>1, <2>3
<1> HIDE DEF P
<1>3. 0 .. n \subseteq P
  BY <1>1, <1>2, 0 \in Int, n \in Int, IntervalUp, Zenon
<1>4. QED
  BY <1>3 DEF P

\* digits are characters
LEMMA DigitsAreText ==
  ASSUME NEW s \in Seq(DecimalDigit)
  PROVE  s \in Text /\ \A i \in 1 .. Len(s) : s[i] \in DecimalDigit
<1>1. DecimalDigit \subseteq Character
  BY HostChars
<1>2. s \in Text
  BY <1>1, SeqMonotonic DEF Text
<1>3. QED
  BY <1>2, ElementOfSeq

\* a number that is something has a first digit that counts
LEMMA LeadingDigit ==
  ASSUME NEW s \in Seq(DecimalDigit), decimal(s) # 0
  PROVE  \E k \in 1 .. Len(s) : /\ s[k] # "0" /\ \A i \in 1 .. k - 1 : s[i] = "0"
                                /\ without_zeros(s) = SubSeq(s, k, Len(s))
<1> DEFINE k == first_of(s, DecimalDigit \ {"0"})
<1>1. s \in Text /\ (\A i \in 1 .. Len(s) : s[i] \in DecimalDigit) /\ Len(s) \in Nat /\ DOMAIN s = 1 .. Len(s)
  BY DigitsAreText, LenProperties
<1>2. /\ k \in 1 .. Len(s) + 1
      /\ \A i \in 1 .. k - 1 : s[i] \notin DecimalDigit \ {"0"}
      /\ k <= Len(s) => s[k] \in DecimalDigit \ {"0"}
  BY <1>1, FirstOfIs
<1> HIDE DEF k
<1>3. k \in 1 .. Len(s) + 1
  BY <1>2
<1>4. \A i \in 1 .. k - 1 : s[i] = "0"
  <2> SUFFICES ASSUME NEW i \in 1 .. k - 1 PROVE s[i] = "0"
    OBVIOUS
  <2>1. i \in 1 .. Len(s)
    BY <1>1, <1>3
  <2>2. QED
    BY <1>1, <1>2, <2>1
<1>5. k <= Len(s)
  <2> SUFFICES ASSUME ~ (k <= Len(s)) PROVE FALSE
    OBVIOUS
  <2>1. k - 1 = Len(s)
    BY <1>1, <1>3
  <2>2. PICK R : /\ R[0] = 0
                 /\ \A i \in 1 .. Len(s) : R[i] = 10 * R[i - 1] + digit(s[i])
                 /\ \A i \in 0 .. Len(s) : R[i] \in Nat
                 /\ decimal(s) = R[Len(s)]
    BY <1>1, DecimalIs
  <2>3. \A i \in 1 .. Len(s) : s[i] = "0"
    BY <1>4, <2>1
  <2>4. R[Len(s)] = 0
    BY <1>1, <2>2, <2>3, ZerosCount
  <2>5. QED
    BY <2>2, <2>4
<1>6. k \in 1 .. Len(s) /\ s[k] # "0"
  BY <1>1, <1>2, <1>3, <1>5
<1> DEFINE first == CHOOSE i \in DOMAIN s : s[i] # "0" /\ \A j \in 1 .. i - 1 : s[j] = "0"
<1>7. first \in 1 .. Len(s) /\ s[first] # "0" /\ \A j \in 1 .. first - 1 : s[j] = "0"
  BY <1>1, <1>4, <1>6
<1>8. without_zeros(s) = SubSeq(s, first, Len(s))
  BY Zenon DEF without_zeros
<1> HIDE DEF first
<1>9. QED
  BY <1>7, <1>8

\* leading zeros count nothing
LEMMA NumbersJoin ==
  ASSUME NEW s \in Text, NEW k \in 1 .. Len(s), \A i \in 1 .. k - 1 : s[i] = "0"
  PROVE  decimal(SubSeq(s, k, Len(s))) = decimal(s)
<1> DEFINE w == SubSeq(s, k, Len(s))
           n == Len(s) - k + 1
<1>1. Len(s) \in Nat
  BY LenProperties DEF Text
<1>2. n \in Nat /\ n >= 1 /\ k - 1 \in Nat /\ k \in Nat \ {0} /\ k <= Len(s) + 1 /\ (k - 1) + n = Len(s)
  BY <1>1
<1>3. w \in Text /\ Len(w) = n /\ \A i \in 1 .. n : w[i] = s[k + i - 1]
  <2>1. \A a \in Nat \ {0} : \A b \in Nat : a <= b + 1 /\ b <= Len(s) =>
          /\ SubSeq(s, a, b) \in Text /\ Len(SubSeq(s, a, b)) = b - a + 1
          /\ \A i \in 1 .. b - a + 1 : SubSeq(s, a, b)[i] = s[a + i - 1]
    BY PieceOf DEF Text
  <2>2. Len(s) <= Len(s)
    BY <1>1
  <2>3. QED
    BY <1>1, <1>2, <2>1, <2>2
<1> HIDE DEF w, n
<1>4. PICK R : /\ R[0] = 0
               /\ \A i \in 1 .. Len(s) : R[i] = 10 * R[i - 1] + digit(s[i])
               /\ \A i \in 0 .. Len(s) : R[i] \in Nat
               /\ decimal(s) = R[Len(s)]
  BY DecimalIs
<1>5. PICK Q : /\ Q[0] = 0
               /\ \A i \in 1 .. n : Q[i] = 10 * Q[i - 1] + digit(w[i])
               /\ \A i \in 0 .. n : Q[i] \in Nat
               /\ decimal(w) = Q[n]
  <2>1. \E Q : /\ Q[0] = 0
               /\ \A i \in 1 .. Len(w) : Q[i] = 10 * Q[i - 1] + digit(w[i])
               /\ \A i \in 0 .. Len(w) : Q[i] \in Nat
               /\ decimal(w) = Q[Len(w)]
    BY <1>3, DecimalIs
  <2>2. QED
    BY <1>3, <2>1
<1>6. R[k - 1] = 0
  <2>1. \A i \in 1 .. k - 1 : i \in 1 .. Len(s)
    BY <1>1
  <2>2. \A i \in 1 .. k - 1 : R[i] = 10 * R[i - 1] + digit(s[i])
    BY <1>4, <2>1
  <2>3. QED
    BY <1>2, <1>4, <2>2, ZerosCount
<1> DEFINE P == {i \in 0 .. n : Q[i] = R[k - 1 + i]}
<1>7. 0 \in P
  <2>1. k - 1 + 0 = k - 1
    BY <1>2
  <2>2. QED
    BY <1>2, <1>5, <1>6, <2>1
<1>8. ASSUME NEW i \in 0 .. n - 1, i \in P PROVE i + 1 \in P
  <2>1. i + 1 \in 1 .. n /\ i + 1 \in 0 .. n /\ (i + 1) - 1 = i
    BY <1>2
  <2>2. PICK j \in 1 .. Len(s) : j = k + i
    BY <1>1, <1>2
  <2>3. j - 1 = k - 1 + i /\ j = k - 1 + (i + 1) /\ k + (i + 1) - 1 = j
    BY <1>2, <2>2
  <2>4. R[j] = 10 * R[j - 1] + digit(s[j])
    BY <1>4
  <2>5. Q[i + 1] = 10 * Q[i] + digit(w[i + 1])
    BY <1>5, <2>1
  <2>6. w[i + 1] = s[j]
    BY <1>3, <2>1, <2>3
  <2>7. Q[i] = R[k - 1 + i]
    BY <1>8
  <2>8. Q[i + 1] = R[j]
    BY <2>3, <2>4, <2>5, <2>6, <2>7
  <2>9. QED
    BY <2>1, <2>3, <2>8
<1> HIDE DEF P
<1>9. 0 .. n \subseteq P
  BY <1>2, <1>7, <1>8, 0 \in Int, n \in Int, IntervalUp, Zenon
<1>10. Q[n] = R[k - 1 + n]
  <2>1. n \in 0 .. n
    BY <1>2
  <2>2. QED
    BY <1>9, <2>1 DEF P
<1>11. QED
  BY <1>2, <1>4, <1>5, <1>10 DEF w

\* without its leading zeros a number counts as much, and has none to lose
LEMMA WithoutZerosIs ==
  ASSUME NEW s \in Seq(DecimalDigit), decimal(s) # 0
  PROVE  LET w == without_zeros(s)
         IN  /\ w \in Seq(DecimalDigit) /\ w # << >>
             /\ decimal(w) = decimal(s) /\ without_zeros(w) = w
<1> DEFINE w == without_zeros(s)
<1>1. PICK k \in 1 .. Len(s) : /\ s[k] # "0" /\ (\A i \in 1 .. k - 1 : s[i] = "0")
                               /\ w = SubSeq(s, k, Len(s))
  BY LeadingDigit
<1> HIDE DEF w
<1>2. s \in Text /\ Len(s) \in Nat
  BY DigitsAreText, LenProperties
<1>3. decimal(w) = decimal(s)
  BY <1>1, <1>2, NumbersJoin
<1>4. w \in Seq(DecimalDigit) /\ Len(w) = Len(s) - k + 1 /\ \A i \in 1 .. Len(s) - k + 1 : w[i] = s[k + i - 1]
  <2>1. \A a \in Nat \ {0} : \A b \in Nat : a <= b + 1 /\ b <= Len(s) =>
          /\ SubSeq(s, a, b) \in Seq(DecimalDigit) /\ Len(SubSeq(s, a, b)) = b - a + 1
          /\ \A i \in 1 .. b - a + 1 : SubSeq(s, a, b)[i] = s[a + i - 1]
    BY PieceOf
  <2>2. k \in Nat \ {0} /\ k <= Len(s) + 1 /\ Len(s) <= Len(s)
    BY <1>2
  <2>3. QED
    BY <1>1, <1>2, <2>1, <2>2
<1>5. 1 \in 1 .. Len(s) - k + 1 /\ k + 1 - 1 = k /\ Len(w) >= 1 /\ Len(w) \in Nat
  BY <1>2, <1>4
<1>6. w[1] # "0"
  BY <1>1, <1>4, <1>5
<1>7. w # << >>
  <2>1. w = << >> => Len(w) = 0
    OBVIOUS
  <2>2. QED
    BY <1>5, <2>1
<1>8. without_zeros(w) = w
  <2>1. PICK m \in 1 .. Len(w) : /\ w[m] # "0" /\ (\A i \in 1 .. m - 1 : w[i] = "0")
                                 /\ without_zeros(w) = SubSeq(w, m, Len(w))
    BY <1>3, <1>4, LeadingDigit
  <2>2. m = 1
    <3> SUFFICES ASSUME m # 1 PROVE FALSE
      OBVIOUS
    <3>1. 1 \in 1 .. m - 1
      BY <1>5
    <3>2. QED
      BY <1>6, <2>1, <3>1
  <2>3. SubSeq(w, 1, Len(w)) = w
    BY <1>4, SubSeqFull
  <2>4. QED
    BY <2>1, <2>2, <2>3
<1>9. QED
  BY <1>3, <1>4, <1>7, <1>8 DEF w

\* a port that is written is the number that was written, as it is written
PortOf(p, d, default) ==
  IF p = << >> THEN decimal(d) = default
  ELSE /\ p[1] = ":" /\ Tail(p) \in Seq(DecimalDigit) /\ decimal(Tail(p)) = decimal(d)
       /\ parse_port(Tail(p), default) = {p}

\* the numbers of ports
PortNumber(n) == n \in 1 .. 65535

\* parse_port, with its number named
LEMMA ParsePortIs ==
  ASSUME NEW d, NEW default
  PROVE  /\ parse_port(d, default) =
              IF all_digits(d) /\ PortNumber(decimal(d))
              THEN {IF decimal(d) = default THEN << >> ELSE <<":">> \o without_zeros(d)}
              ELSE {}
         /\ ~ PortNumber(0)
<1>1. ~ PortNumber(0)
  BY Z3 DEF PortNumber
<1> DEFINE x == IF decimal(d) = default THEN << >> ELSE <<":">> \o without_zeros(d)
           n == decimal(d)
           b == all_digits(d)
<1>2. parse_port(d, default) = IF b /\ PortNumber(n) THEN {x} ELSE {}
  BY SMTT(20) DEF parse_port, PortNumber
<1>3. QED
  BY <1>1, <1>2, Zenon DEF x, n, b

\* what parse_port writes is a port
LEMMA PortForm ==
  ASSUME NEW d \in Text, NEW default, NEW p, p \in parse_port(d, default)
  PROVE  p \in Text /\ PortOf(p, d, default) /\ all_digits(d)
<1> DEFINE w == without_zeros(d)
           written == IF decimal(d) = default THEN << >> ELSE <<":">> \o w
<1>1. parse_port(d, default) = IF all_digits(d) /\ PortNumber(decimal(d)) THEN {written} ELSE {}
  BY ParsePortIs, Zenon
<1>2. p = written /\ all_digits(d) /\ PortNumber(decimal(d))
  <2> HIDE DEF written
  <2>1. CASE all_digits(d) /\ PortNumber(decimal(d))
    <3>1. parse_port(d, default) = {written}
      BY <1>1, <2>1, Zenon
    <3>2. QED
      BY <2>1, <3>1
  <2>2. CASE ~ (all_digits(d) /\ PortNumber(decimal(d)))
    <3>1. parse_port(d, default) = {}
      BY <1>1, <2>2, Zenon
    <3>2. QED
      BY <3>1
  <2>3. QED
    BY <2>1, <2>2
<1>3. d \in Seq(DecimalDigit)
  <2>1. \A i \in 1 .. Len(d) : d[i] \in DecimalDigit
    <3>1. Range(d) \subseteq DecimalDigit
      BY <1>2, Zenon DEF all_digits
    <3>2. QED
      BY <3>1, TextIn
  <2>2. QED
    BY <2>1, SeqDef, LenProperties DEF Text
<1>4. decimal(d) # 0
  BY <1>2, ParsePortIs, Zenon
<1>5. w \in Seq(DecimalDigit) /\ w # << >> /\ decimal(w) = decimal(d) /\ without_zeros(w) = w
  BY <1>3, <1>4, WithoutZerosIs
<1> HIDE DEF w
<1>6. CASE decimal(d) = default
  <2>1. p = << >>
    BY <1>2, <1>6, Zenon
  <2>2. QED
    BY <1>2, <1>6, <2>1, TextIs, Zenon DEF PortOf
<1>7. CASE decimal(d) # default
  <2>1. p = <<":">> \o w
    BY <1>2, <1>7, Zenon
  <2>2. w \in Text /\ ":" \in Character
    BY <1>5, DigitsAreText, Literals
  <2>3. Tail(p) = w /\ p[1] = ":" /\ p # << >> /\ p \in Text
    BY <2>1, <2>2, TailJoined
  <2>4. all_digits(w)
    <3>1. \A i \in 1 .. Len(w) : w[i] \in DecimalDigit
      BY <1>5, DigitsAreText
    <3>2. Range(w) \subseteq DecimalDigit
      BY <2>2, <3>1, TextIn
    <3>3. QED
      BY <1>5, <3>2, Zenon DEF all_digits
  <2>5. parse_port(w, default) = {p}
    <3>1. PortNumber(decimal(w)) /\ decimal(w) # default
      BY <1>2, <1>5, <1>7, Zenon
    <3>2. parse_port(w, default) = {<<":">> \o without_zeros(w)}
      BY <2>4, <3>1, ParsePortIs, Zenon
    <3>3. QED
      BY <1>5, <2>1, <3>2, Zenon
  <2>6. QED
    BY <1>2, <1>5, <2>3, <2>5, Zenon DEF PortOf
<1>8. QED
  BY <1>6, <1>7

(***************************************************************************)
(* Forms of hosts: what normalize_host writes is read as what it was.      *)
(***************************************************************************)

\* a dotted quad is digits and dots
LEMMA QuadChars ==
  ASSUME NEW s \in Text, is_ipv4_candidate(s)
  PROVE  \A i \in 1 .. Len(s) : s[i] \in DecimalDigit \cup {"."}
<1> DEFINE parts == split(s, ".")
<1>1. parts \in SomeParts
  BY SplitHolds
<1>2. \A i \in 1 .. Len(s) : s[i] # "." => \E k \in DOMAIN parts : s[i] \in Range(parts[k])
  BY SplitHolds
<1>3. Len(parts) = 4 /\ \A i \in 1 .. 4 : all_digits(parts[i])
  BY Zenon DEF is_ipv4_candidate
<1> HIDE DEF parts
<1>4. DOMAIN parts = 1 .. 4
  BY <1>1, <1>3, SomePartsIs
<1>5. SUFFICES ASSUME NEW i \in 1 .. Len(s), s[i] # "." PROVE s[i] \in DecimalDigit
  OBVIOUS
<1>6. PICK k \in DOMAIN parts : s[i] \in Range(parts[k])
  BY <1>2, <1>5
<1>7. Range(parts[k]) \subseteq DecimalDigit
  BY <1>3, <1>4, Zenon DEF all_digits
<1>8. QED
  BY <1>6, <1>7

\* a name is read, if all of its characters may be in one
LEMMA RegNameIs ==
  ASSUME NEW s \in Text
  PROVE  normalize_reg_name(s) = IF s \in Seq(NameChar) THEN {Read(s)} ELSE {}
<1>1. Range(s) \subseteq NameChar <=> s \in Seq(NameChar)
  <2>1. Range(s) \subseteq NameChar <=> \A i \in 1 .. Len(s) : s[i] \in NameChar
    BY TextIn
  <2>2. (\A i \in 1 .. Len(s) : s[i] \in NameChar) <=> s \in Seq(NameChar)
    <3>1. DOMAIN s = 1 .. Len(s) /\ Len(s) \in Nat /\ s = [i \in 1 .. Len(s) |-> s[i]]
      BY LenProperties DEF Text
    <3>2. QED
      BY <3>1, ElementOfSeq, SeqDef
  <2>3. QED
    BY <2>1, <2>2
<1>2. normalize_reg_name(s) = IF Range(s) \subseteq NameChar THEN {Read(s)} ELSE {}
  BY Zenon DEF normalize_reg_name, NameChar, Read, read
<1>3. QED
  BY <1>1, <1>2, Zenon

\* the name of a host is what is read in it, and is read so again; only an
\* address that was written with escapes may be refused
LEMMA HostForm ==
  ASSUME NEW s \in Text, NEW h, h \in normalize_host(s)
  PROVE  /\ h = Read(s) /\ h \in Seq(NameChar) /\ s \in Seq(NameChar)
         /\ \/ normalize_host(h) = {h}
            \/ ~ is_ipv4_candidate(s) /\ is_ipv4_candidate(h) /\ normalize_host(h) = {}
<1> DEFINE Quad(t) == \A i \in 1 .. 4 : is_dec_octet(split(t, ".")[i])
<1>1. \A t : normalize_host(t) = IF ~ is_ipv4_candidate(t) THEN normalize_reg_name(t)
                                 ELSE IF Quad(t) THEN {t} ELSE {}
  BY Zenon DEF normalize_host
<1> HIDE DEF Quad
<1>2. CASE is_ipv4_candidate(s)
  <2>1. Quad(s) /\ normalize_host(s) = {s} /\ h = s
    <3>1. CASE Quad(s)
      <4>1. normalize_host(s) = {s}
        BY <1>1, <1>2, <3>1, Zenon
      <4>2. QED
        BY <3>1, <4>1
    <3>2. CASE ~ Quad(s)
      <4>1. normalize_host(s) = {}
        BY <1>1, <1>2, <3>2, Zenon
      <4>2. QED
        BY <4>1
    <3>3. QED
      BY <3>1, <3>2
  <2>2. s \in Seq(DecimalDigit \cup {"."})
    <3>1. \A i \in 1 .. Len(s) : s[i] \in DecimalDigit \cup {"."}
      BY <1>2, QuadChars
    <3>2. Len(s) \in Nat /\ s = [i \in 1 .. Len(s) |-> s[i]]
      BY LenProperties DEF Text
    <3>3. QED
      BY <3>1, <3>2, SeqDef
  <2>3. Read(s) = s
    <3>1. \A c \in DecimalDigit \cup {"."} : read(c) = c
      BY HostChars
    <3>2. QED
      BY <2>2, <3>1, ReadSame
  <2>4. s \in Seq(NameChar)
    <3>1. DecimalDigit \cup {"."} \subseteq NameChar
      BY HostChars
    <3>2. QED
      BY <2>2, <3>1, SeqMonotonic
  <2>5. QED
    BY <2>1, <2>3, <2>4
<1>3. CASE ~ is_ipv4_candidate(s)
  <2>1. normalize_host(s) = normalize_reg_name(s)
    BY <1>1, <1>3, Zenon
  <2>2. s \in Seq(NameChar) /\ h = Read(s)
    <3>1. h \in IF s \in Seq(NameChar) THEN {Read(s)} ELSE {}
      BY <2>1, RegNameIs, Zenon
    <3>2. QED
      BY <3>1
  <2>3. h \in Seq(NameChar)
    <3>1. \A c \in NameChar : read(c) \in NameChar
      BY HostChars
    <3>2. QED
      BY <2>2, <3>1, ReadIs
  <2>4. h \in Text
    <3>1. NameChar \subseteq Character
      BY HostChars
    <3>2. QED
      BY <2>3, <3>1, SeqMonotonic DEF Text
  <2>5. normalize_reg_name(h) = {h}
    <3>1. normalize_reg_name(h) = {Read(h)}
      BY <2>3, <2>4, RegNameIs, Zenon
    <3>2. Read(h) = h
      BY <2>2, ReadTwice
    <3>3. QED
      BY <3>1, <3>2
  <2>6. CASE is_ipv4_candidate(h)
    <3>1. normalize_host(h) = {h} \/ normalize_host(h) = {}
      BY <1>1, <2>6, Zenon
    <3>2. QED
      BY <1>3, <2>2, <2>3, <2>6, <3>1
  <2>7. CASE ~ is_ipv4_candidate(h)
    <3>1. normalize_host(h) = {h}
      BY <1>1, <2>5, <2>7, Zenon
    <3>2. QED
      BY <2>2, <2>3, <3>1
  <2>8. QED
    BY <2>6, <2>7
<1>4. QED
  BY <1>2, <1>3

\* a text in lower case
Lower(c) == [i \in DOMAIN c |-> lower(c[i])]

\* lower case is taken once
LEMMA LowerIs ==
  ASSUME NEW c \in Text
  PROVE  /\ Lower(c) \in Text /\ Len(Lower(c)) = Len(c) /\ Len(c) \in Nat
         /\ \A i \in 1 .. Len(c) : Lower(c)[i] = lower(c[i])
         /\ Lower(Lower(c)) = Lower(c)
<1>1. DOMAIN c = 1 .. Len(c) /\ Len(c) \in Nat /\ \A i \in 1 .. Len(c) : c[i] \in Character
  BY LenProperties, ElementOfSeq DEF Text
<1>2. \A e \in Character : lower(e) \in Character
  <2>1. \A e : lower(e) \in {e, "a", "f"}
    BY DEF lower, Lowercase
  <2>2. QED
    BY <2>1, Literals
<1>3. DOMAIN Lower(c) = 1 .. Len(c) /\ \A i \in 1 .. Len(c) : Lower(c)[i] = lower(c[i])
  BY <1>1 DEF Lower
<1>4. Lower(c) = [i \in 1 .. Len(c) |-> lower(c[i])]
  BY <1>1 DEF Lower
<1>5. Lower(c) \in Text /\ Len(Lower(c)) = Len(c)
  <2>1. \A i \in 1 .. Len(c) : lower(c[i]) \in Character
    BY <1>1, <1>2
  <2>2. QED
    BY <1>1, <1>4, <2>1, SeqDef DEF Text
<1>6. Lower(Lower(c)) = Lower(c)
  <2>1. \A e : lower(lower(e)) = lower(e)
    BY HostChars
  <2>2. Lower(Lower(c)) = [i \in 1 .. Len(c) |-> lower(Lower(c)[i])]
    BY <1>2 DEF Lower
  <2>3. \A i \in 1 .. Len(c) : lower(Lower(c)[i]) = lower(c[i])
    BY <1>3, <2>1
  <2>4. QED
    BY <1>4, <2>2, <2>3
<1>7. QED
  BY <1>1, <1>3, <1>5, <1>6

\* an address that is said to be of the future
LEMMA FutureChars ==
  ASSUME NEW s \in Text, is_ipvfuture_shape(s), validate_ipvfuture(s)
  PROVE  \A i \in 1 .. Len(s) : s[i] \in LiteralChar
<1> DEFINE dot == position(s, ".")
<1>1. Len(s) \in Nat /\ Len(s) <= Len(s)
  BY LenProperties DEF Text
<1>2. dot \in 1 .. Len(s) + 1 /\ (dot <= Len(s) => s[dot] = ".")
  BY PositionIs
<1>3. s[1] = "v" /\ dot \in 3 .. Len(s) /\ \A i \in 2 .. dot - 1 : s[i] \in HexDigit
  BY Zenon DEF is_ipvfuture_shape
<1>4. Range(SubSeq(s, dot + 1, Len(s))) \subseteq LiteralChar
  BY Zenon DEF validate_ipvfuture, LiteralChar
<1> HIDE DEF dot
<1>5. \A i \in dot + 1 .. Len(s) : s[i] \in LiteralChar
  <2>1. dot + 1 \in Nat \ {0} /\ Len(s) \in Int
    BY <1>1, <1>2
  <2>2. QED
    BY <1>1, <1>4, <2>1, PieceIn
<1>6. s[dot] = "."
  BY <1>1, <1>2, <1>3
<1>7. SUFFICES ASSUME NEW i \in 1 .. Len(s) PROVE s[i] \in LiteralChar
  OBVIOUS
<1>8. dot \in Nat /\ (i = 1 \/ i \in 2 .. dot - 1 \/ i = dot \/ i \in dot + 1 .. Len(s))
  <2>1. dot \in Nat
    BY <1>1, <1>2
  <2>2. QED
    BY <1>1, <2>1
<1>9. "v" \in LiteralChar /\ "." \in LiteralChar /\ HexDigit \subseteq LiteralChar
  BY HostChars
<1>10. QED
  BY <1>3, <1>5, <1>6, <1>8, <1>9

\* a literal in brackets is what is read between them, and is read so again
LEMMA LiteralForm ==
  ASSUME NEW c \in Text, NEW g, g \in validate_ip_literal(c)
  PROVE  /\ g = Read(c) /\ c \in Seq(LiteralChar) /\ g \in Seq(LiteralChar)
         /\ validate_ip_literal(g) = {g}
<1> DEFINE Valid(s) == IF is_ipvfuture_shape(s) THEN validate_ipvfuture(s) ELSE validate_ipv6(s)
<1>1. \A t : validate_ip_literal(t) = IF Valid(Lower(t)) THEN {Lower(t)} ELSE {}
  BY Zenon DEF validate_ip_literal, Lower
<1>2. ASSUME NEW t \in Text, Valid(t) PROVE \A i \in 1 .. Len(t) : t[i] \in LiteralChar
  <2>1. CASE is_ipvfuture_shape(t)
    BY <1>2, <2>1, FutureChars, Zenon
  <2>2. CASE ~ is_ipvfuture_shape(t)
    <3>1. \A i \in 1 .. Len(t) : t[i] \in HexDigit \cup {":"}
      BY <1>2, <2>2, AddressChars, Zenon
    <3>2. HexDigit \cup {":"} \subseteq LiteralChar
      BY HostChars DEF LiteralChar
    <3>3. QED
      BY <3>1, <3>2
  <2>3. QED
    BY <2>1, <2>2
<1> HIDE DEF Valid
<1>3. Valid(Lower(c)) /\ g = Lower(c)
  <2>1. CASE Valid(Lower(c))
    <3>1. validate_ip_literal(c) = {Lower(c)}
      BY <1>1, <2>1, Zenon
    <3>2. QED
      BY <2>1, <3>1
  <2>2. CASE ~ Valid(Lower(c))
    <3>1. validate_ip_literal(c) = {}
      BY <1>1, <2>2, Zenon
    <3>2. QED
      BY <3>1
  <2>3. QED
    BY <2>1, <2>2
<1>4. /\ g \in Text /\ Len(g) = Len(c) /\ Len(c) \in Nat
      /\ (\A i \in 1 .. Len(c) : g[i] = lower(c[i])) /\ Lower(g) = g
  BY <1>3, LowerIs
<1>5. \A i \in 1 .. Len(c) : g[i] \in LiteralChar
  BY <1>2, <1>3, <1>4
<1>6. \A i \in 1 .. Len(c) : c[i] \in LiteralChar
  <2>1. \A e : lower(e) \in LiteralChar => e \in LiteralChar
    BY HostChars
  <2>2. QED
    BY <1>4, <1>5, <2>1
<1>7. c \in Seq(LiteralChar) /\ g \in Seq(LiteralChar) /\ DOMAIN c = 1 .. Len(c)
  <2>1. /\ c = [i \in 1 .. Len(c) |-> c[i]] /\ DOMAIN c = 1 .. Len(c)
        /\ g = [i \in 1 .. Len(c) |-> g[i]]
    BY <1>4, LenProperties DEF Text
  <2>2. QED
    BY <1>4, <1>5, <1>6, <2>1, SeqDef
<1>8. g = Read(c)
  <2>1. \A e \in LiteralChar : read(e) = lower(e)
    <3>1. \A e \in LiteralChar : unescape(e) = e
      BY HostChars
    <3>2. QED
      BY <3>1 DEF read
  <2>2. Read(c) = [i \in 1 .. Len(c) |-> read(c[i])]
    BY <1>7, Zenon DEF Read
  <2>3. Lower(c) = [i \in 1 .. Len(c) |-> lower(c[i])]
    BY <1>7, Zenon DEF Lower
  <2>4. \A i \in 1 .. Len(c) : read(c[i]) = lower(c[i])
    BY <1>6, <2>1
  <2>5. QED
    BY <1>3, <2>2, <2>3, <2>4, Zenon
<1>9. validate_ip_literal(g) = {g}
  BY <1>1, <1>3, <1>4, Zenon
<1>10. QED
  BY <1>7, <1>8, <1>9

(***************************************************************************)
(* parse_authority: an authority is a host and a port, and its form the    *)
(* form of the one and that of the other.                                  *)
(***************************************************************************)

\* a port as it may be written behind a host, and what becomes of it
PortText(p) ==
  /\ p \in Text
  /\ p = << >> \/ (p[1] = ":" /\ Tail(p) \in Seq(DecimalDigit))

\* what is written of a port, and its number
ports(p, default) == IF p = << >> THEN {<< >>} ELSE parse_port(Tail(p), default)

port_number(p, default) == IF p = << >> THEN default ELSE decimal(Tail(p))

\* a port has no bracket and nothing but digits behind its colon
LEMMA PortTextIs ==
  ASSUME NEW p, PortText(p)
  PROVE  /\ PortShape(p) /\ p \in Text
         /\ \A i \in 1 .. Len(p) : p[i] \in DecimalDigit \cup {":"}
<1>1. p \in Text /\ Len(p) \in Nat
  BY LenProperties DEF PortText, Text
<1>2. CASE p = << >>
  <2>1. Len(p) = 0
    BY <1>2
  <2>2. QED
    BY <1>1, <1>2, <2>1 DEF PortShape
<1>3. CASE p # << >>
  <2>1. p[1] = ":" /\ Tail(p) \in Seq(DecimalDigit)
    BY <1>3, Zenon DEF PortText
  <2>2. Len(Tail(p)) = Len(p) - 1 /\ \A i \in 1 .. Len(p) - 1 : Tail(p)[i] = p[i + 1]
    BY <1>1, <1>3, HeadTailProperties DEF Text
  <2>3. \A i \in 1 .. Len(p) - 1 : Tail(p)[i] \in DecimalDigit
    BY <2>1, <2>2, DigitsAreText
  <2>4. ASSUME NEW i \in 1 .. Len(p) PROVE p[i] \in DecimalDigit \cup {":"}
    <3>1. CASE i = 1
      BY <2>1, <3>1
    <3>2. CASE i # 1
      <4>1. i - 1 \in 1 .. Len(p) - 1 /\ (i - 1) + 1 = i
        BY <1>1, <3>2
      <4>2. Tail(p)[i - 1] = p[(i - 1) + 1] /\ Tail(p)[i - 1] \in DecimalDigit
        BY <2>2, <2>3, <4>1
      <4>3. p[i] \in DecimalDigit
        BY <4>1, <4>2
      <4>4. QED
        BY <4>3
    <3>3. QED
      BY <3>1, <3>2
  <2>5. "]" \notin DecimalDigit \cup {":"}
    BY DecimalDigitIs
  <2>6. \A i \in 1 .. Len(p) : p[i] # "]"
    BY <2>4, <2>5, Zenon
  <2>7. QED
    BY <1>1, <2>1, <2>4, <2>6 DEF PortShape
<1>4. QED
  BY <1>2, <1>3

\* all_digits, as a set of sequences
LEMMA DigitsSeq ==
  ASSUME NEW d \in Text, all_digits(d)
  PROVE  d \in Seq(DecimalDigit)
<1>1. \A i \in 1 .. Len(d) : d[i] \in DecimalDigit
  <2>1. Range(d) \subseteq DecimalDigit
    BY Zenon DEF all_digits
  <2>2. QED
    BY <2>1, TextIn
<1>2. QED
  BY <1>1, SeqDef, LenProperties DEF Text

\* the port that is kept is the number that was written
LEMMA PortKept ==
  ASSUME NEW default, NEW p \in Text, p = << >> \/ p[1] = ":", NEW y, y \in ports(p, default)
  PROVE  /\ PortText(p) /\ PortText(y) /\ ports(y, default) = {y}
         /\ port_number(y, default) = port_number(p, default)
<1>1. CASE p = << >>
  <2>1. ports(p, default) = {<< >>}
    BY <1>1, Zenon DEF ports
  <2>2. y = << >>
    BY <2>1
  <2>3. QED
    BY <1>1, <2>1, <2>2, TextIs, Zenon DEF PortText
<1>2. CASE p # << >>
  <2>1. y \in parse_port(Tail(p), default)
    BY <1>2, Zenon DEF ports
  <2>2. Tail(p) \in Text
    BY <1>2, HeadTailProperties DEF Text
  <2>3. y \in Text /\ PortOf(y, Tail(p), default) /\ all_digits(Tail(p))
    BY <2>1, <2>2, PortForm
  <2>4. Tail(p) \in Seq(DecimalDigit)
    BY <2>2, <2>3, DigitsSeq
  <2>5. PortText(p) /\ port_number(p, default) = decimal(Tail(p))
    BY <1>2, <2>4, Zenon DEF PortText, port_number
  <2>6. CASE y = << >>
    <3>1. decimal(Tail(p)) = default
      BY <2>3, <2>6, Zenon DEF PortOf
    <3>2. PortText(y) /\ ports(y, default) = {y} /\ port_number(y, default) = default
      BY <2>3, <2>6, Zenon DEF PortText, ports, port_number
    <3>3. QED
      BY <2>5, <3>1, <3>2
  <2>7. CASE y # << >>
    <3>1. /\ y[1] = ":" /\ Tail(y) \in Seq(DecimalDigit) /\ decimal(Tail(y)) = decimal(Tail(p))
          /\ parse_port(Tail(y), default) = {y}
      BY <2>3, <2>7, Zenon DEF PortOf
    <3>2. PortText(y) /\ ports(y, default) = {y} /\ port_number(y, default) = decimal(Tail(y))
      BY <2>3, <2>7, <3>1, Zenon DEF PortText, ports, port_number
    <3>3. QED
      BY <2>5, <3>1, <3>2
  <2>8. QED
    BY <2>6, <2>7
<1>3. QED
  BY <1>1, <1>2

\* an authority put together is read by its parts
joined(S, T) == {x \o y : x \in S, y \in T}

\* nobody is named in it
LEMMA NobodyNamed ==
  ASSUME NEW a \in Text, \A i \in 1 .. Len(a) : a[i] # "@"
  PROVE  "@" \notin Range(a)
<1>1. DOMAIN a = 1 .. Len(a)
  BY LenProperties DEF Text
<1>2. QED
  BY <1>1 DEF Range

\* parse_authority of a host without brackets
LEMMA ParseBare ==
  ASSUME NEW a, a # << >>, "@" \notin Range(a), a[1] # "["
  PROVE  LET colon == position(a, ":")
         IN  parse_authority(a) =
               {host \o port :
                  host \in IF colon = 1 THEN {} ELSE normalize_host(SubSeq(a, 1, colon - 1)),
                  port \in IF colon > Len(a) THEN {<< >>}
                           ELSE parse_port(SubSeq(a, colon + 1, Len(a)), 443)}
BY DEF parse_authority

\* a literal between its brackets
bracketed(g) == <<"[">> \o g \o <<"]">>

\* parse_authority of a literal
LEMMA ParseBracket ==
  ASSUME NEW a, a # << >>, "@" \notin Range(a), a[1] = "["
  PROVE  LET close == position(a, "]")
         IN  IF close > Len(a) THEN parse_authority(a) = {}
             ELSE \A e : e \in parse_authority(a) <=>
                    \E host \in validate_ip_literal(SubSeq(a, 2, close - 1)) :
                      \E port \in parse_port_after_literal(SubSeq(a, close + 1, Len(a))) :
                        e = bracketed(host) \o port
<1> DEFINE close == position(a, "]")
           S == validate_ip_literal(SubSeq(a, 2, close - 1))
           T == parse_port_after_literal(SubSeq(a, close + 1, Len(a)))
           whole == {<<"[">> \o host \o <<"]">> \o port : host \in S, port \in T}
<1>1. parse_authority(a) = IF close > Len(a) THEN {} ELSE whole
  BY DEF parse_authority
<1>2. \A e : e \in whole <=> \E host \in S : \E port \in T : e = bracketed(host) \o port
  <2> HIDE DEF S, T
  <2>1. ASSUME NEW e \in whole
        PROVE  \E host \in S : \E port \in T : e = bracketed(host) \o port
    <3>1. PICK host \in S, port \in T : e = <<"[">> \o host \o <<"]">> \o port
      OBVIOUS
    <3>2. e = bracketed(host) \o port
      BY <3>1 DEF bracketed
    <3> HIDE DEF whole
    <3>3. QED
      BY <3>2, Zenon
  <2>2. ASSUME NEW host \in S, NEW port \in T PROVE bracketed(host) \o port \in whole
    BY DEF bracketed
  <2> HIDE DEF whole
  <2>3. QED
    BY <2>1, <2>2, Zenon
<1> HIDE DEF whole, S, T
<1>3. IF close > Len(a) THEN parse_authority(a) = {}
      ELSE \A e : e \in parse_authority(a) <=>
             \E host \in S : \E port \in T : e = bracketed(host) \o port
  BY <1>1, <1>2, Zenon
<1>4. QED
  BY <1>3, Zenon DEF S, T

\* a name and a port, put together, are parsed apart
LEMMA ParseName ==
  ASSUME NEW h \in Seq(NameChar), h # << >>, NEW p, PortText(p)
  PROVE  parse_authority(h \o p) = joined(normalize_host(h), ports(p, 443))
<1> DEFINE a == h \o p
           colon == position(a, ":")
           close == position(a, "]")
<1>1. h \in Text /\ p \in Text /\ (\A i \in 1 .. Len(h) : h[i] \in NameChar)
  <2>1. NameChar \subseteq Character
    BY HostChars
  <2>2. h \in Text
    BY <2>1, SeqMonotonic DEF Text
  <2>3. QED
    BY <2>2, PortTextIs, ElementOfSeq
<1>2. /\ a \in Text /\ Len(h) \in Nat /\ Len(p) \in Nat /\ Len(a) = Len(h) + Len(p)
      /\ (\A i \in 1 .. Len(h) : a[i] = h[i]) /\ (\A i \in 1 .. Len(p) : a[Len(h) + i] = p[i])
      /\ SubSeq(a, 1, Len(h)) = h
  BY <1>1, TextJoined
<1>3. Len(h) # 0
  BY <1>1, EmptySeq DEF Text
<1>4. "@" \notin NameChar /\ "[" \notin NameChar /\ ":" \notin NameChar /\ "@" \notin DecimalDigit \cup {":"}
  BY HostChars, DecimalDigitIs
<1>5. \A i \in 1 .. Len(p) : p[i] \in DecimalDigit \cup {":"}
  BY PortTextIs
<1>6. colon = Len(h) + 1
  <2>1. \A i \in 1 .. Len(h) : h[i] # ":"
    BY <1>1, <1>4, Zenon
  <2>2. p = << >> \/ p[1] = ":"
    BY Zenon DEF PortText
  <2>3. QED
    BY <1>1, <2>1, <2>2, PositionAt
<1> HIDE DEF a
<1>7. "@" \notin Range(a)
  <2>1. ASSUME NEW i \in 1 .. Len(a) PROVE a[i] # "@"
    <3>1. i \in 1 .. Len(h) \/ (i - Len(h) \in 1 .. Len(p) /\ Len(h) + (i - Len(h)) = i)
      BY <1>2
    <3>2. CASE i \in 1 .. Len(h)
      BY <1>1, <1>2, <1>4, <3>2
    <3>3. CASE i - Len(h) \in 1 .. Len(p) /\ Len(h) + (i - Len(h)) = i
      <4>1. a[i] = p[i - Len(h)]
        BY <1>2, <3>3
      <4>2. QED
        BY <1>4, <1>5, <3>3, <4>1
    <3>4. QED
      BY <3>1, <3>2, <3>3
  <2>2. QED
    BY <1>2, <2>1, NobodyNamed
<1>8. a # << >> /\ a[1] # "["
  <2>1. 1 \in 1 .. Len(h) /\ Len(a) # 0
    BY <1>2, <1>3
  <2>2. a[1] = h[1] /\ h[1] \in NameChar
    BY <1>1, <1>2, <2>1
  <2>3. a = << >> => Len(a) = 0
    OBVIOUS
  <2>4. QED
    BY <1>4, <2>1, <2>2, <2>3
<1> DEFINE hosts == IF colon = 1 THEN {} ELSE normalize_host(SubSeq(a, 1, colon - 1))
           found == IF colon > Len(a) THEN {<< >>} ELSE parse_port(SubSeq(a, colon + 1, Len(a)), 443)
<1>9. hosts = normalize_host(h)
  <2>1. colon # 1 /\ colon - 1 = Len(h)
    BY <1>2, <1>3, <1>6
  <2>2. QED
    BY <1>2, <2>1
<1>10. found = ports(p, 443)
  <2>1. CASE p = << >>
    <3>1. Len(p) = 0
      BY <2>1
    <3>2. colon > Len(a)
      BY <1>2, <1>6, <3>1
    <3>3. QED
      BY <2>1, <3>2 DEF ports
  <2>2. CASE p # << >>
    <3>1. Len(p) # 0
      BY <1>1, <2>2, EmptySeq DEF Text
    <3>2. ~ (colon > Len(a)) /\ colon + 1 = Len(h) + 2
      BY <1>2, <1>6, <3>1
    <3>3. SubSeq(a, Len(h) + 2, Len(a)) = Tail(p)
      BY <1>1, <2>2, PortBehind DEF a
    <3>4. QED
      BY <2>2, <3>2, <3>3 DEF ports
  <2>3. QED
    BY <2>1, <2>2
<1>11. parse_authority(a) = {x \o y : x \in hosts, y \in found}
  BY <1>7, <1>8, ParseBare
<1> HIDE DEF hosts, found
<1>12. parse_authority(a) = joined(hosts, found)
  BY <1>11 DEF joined
<1>13. QED
  BY <1>9, <1>10, <1>12 DEF a

\* texts of one character
LEMMA SingleIs ==
  ASSUME NEW c \in Character
  PROVE  <<c>> \in Text /\ Len(<<c>>) = 1 /\ <<c>>[1] = c /\ <<c>> # << >>
<1>1. <<c>> \in Seq(Character)
  OBVIOUS
<1>2. QED
  BY <1>1 DEF Text

\* a literal between its brackets
LEMMA BracketedIs ==
  ASSUME NEW g \in Text
  PROVE  LET l == <<"[">> \o g
             b == bracketed(g)
         IN  /\ l \in Text /\ Len(l) = Len(g) + 1 /\ Len(g) \in Nat
             /\ b = l \o <<"]">> /\ b \in Text /\ Len(b) = Len(g) + 2
             /\ b[1] = "[" /\ b[Len(g) + 2] = "]" /\ b # << >>
             /\ \A i \in 1 .. Len(g) : b[i + 1] = g[i] /\ l[i + 1] = g[i]
             /\ l[1] = "[" /\ Tail(l) = g /\ l # << >>
<1> DEFINE l == <<"[">> \o g
           b == bracketed(g)
<1>1. "[" \in Character /\ "]" \in Character
  BY Literals
<1>2. Tail(l) = g /\ l[1] = "[" /\ l # << >> /\ l \in Text
  BY <1>1, TailJoined
<1>3. Len(g) \in Nat /\ Len(l) = Len(g) + 1 /\ \A i \in 1 .. Len(g) : l[i + 1] = g[i]
  <2>1. <<"[">> \in Text /\ Len(<<"[">>) = 1
    BY <1>1, SingleIs
  <2>2. Len(l) = Len(<<"[">>) + Len(g) /\ Len(g) \in Nat /\ \A i \in 1 .. Len(g) : l[Len(<<"[">>) + i] = g[i]
    BY <2>1, TextJoined
  <2> HIDE DEF l
  <2>3. \A i \in 1 .. Len(g) : 1 + i = i + 1
    BY <2>2
  <2>4. QED
    BY <2>1, <2>2, <2>3
<1>4. b = l \o <<"]">>
  BY DEF bracketed
<1> HIDE DEF l, b
<1>5. /\ b \in Text /\ Len(b) = Len(l) + 1 /\ (\A i \in 1 .. Len(l) : b[i] = l[i])
      /\ b[Len(l) + 1] = "]"
  <2>1. <<"]">> \in Text /\ Len(<<"]">>) = 1 /\ <<"]">>[1] = "]"
    BY <1>1, SingleIs
  <2>2. /\ b \in Text /\ Len(b) = Len(l) + Len(<<"]">>) /\ (\A i \in 1 .. Len(l) : b[i] = l[i])
        /\ \A i \in 1 .. Len(<<"]">>) : b[Len(l) + i] = <<"]">>[i]
    BY <1>2, <1>4, <2>1, TextJoined
  <2>3. 1 \in 1 .. Len(<<"]">>)
    BY <2>1
  <2>4. b[Len(l) + 1] = <<"]">>[1]
    BY <2>2, <2>3
  <2>5. QED
    BY <2>1, <2>2, <2>4
<1>6. Len(b) = Len(g) + 2 /\ b[Len(g) + 2] = "]"
  <2>1. Len(l) + 1 = Len(g) + 2
    BY <1>3
  <2>2. QED
    BY <1>5, <2>1
<1>7. \A i \in 1 .. Len(g) : b[i + 1] = g[i]
  <2>1. \A i \in 1 .. Len(g) : i + 1 \in 1 .. Len(l)
    BY <1>3
  <2>2. QED
    BY <1>3, <1>5, <2>1
<1>8. b[1] = "["
  <2>1. 1 \in 1 .. Len(l)
    BY <1>3
  <2>2. QED
    BY <1>2, <1>5, <2>1
<1>9. b # << >>
  <2>1. b = << >> => Len(b) = 0
    OBVIOUS
  <2>2. QED
    BY <1>3, <1>6, <2>1
<1>10. QED
  BY <1>2, <1>3, <1>4, <1>5, <1>6, <1>7, <1>8, <1>9 DEF l, b

\* a literal in brackets has the shape of a host
LEMMA LiteralChars ==
  ASSUME NEW g \in Seq(LiteralChar)
  PROVE  /\ g \in Text /\ HostShape(bracketed(g))
         /\ \A i \in 1 .. Len(bracketed(g)) : bracketed(g)[i] \in LiteralChar \cup {"[", "]"}
         /\ Read(bracketed(g)) = bracketed(Read(g))
<1> DEFINE b == bracketed(g)
<1>1. LiteralChar \subseteq Character /\ "]" \notin LiteralChar
  BY HostChars
<1>2. g \in Text /\ \A i \in 1 .. Len(g) : g[i] \in LiteralChar
  <2>1. g \in Text
    BY <1>1, SeqMonotonic DEF Text
  <2>2. QED
    BY <2>1, ElementOfSeq
<1>3. /\ Len(b) = Len(g) + 2 /\ Len(g) \in Nat /\ b # << >> /\ b[1] = "[" /\ b[Len(g) + 2] = "]"
      /\ \A i \in 1 .. Len(g) : b[i + 1] = g[i]
  BY <1>2, BracketedIs
<1> HIDE DEF b
<1>4. ASSUME NEW i \in 1 .. Len(b) PROVE i = 1 \/ i = Len(b) \/ \E j \in 1 .. Len(g) : i = j + 1 /\ b[i] = g[j]
  <2>1. i = 1 \/ i = Len(b) \/ (i - 1 \in 1 .. Len(g) /\ (i - 1) + 1 = i)
    BY <1>3
  <2>2. CASE i - 1 \in 1 .. Len(g) /\ (i - 1) + 1 = i
    <3>1. b[i] = g[i - 1]
      BY <1>3, <2>2
    <3>2. QED
      BY <2>2, <3>1
  <2>3. QED
    BY <2>1, <2>2
<1>5. ASSUME NEW i \in 1 .. Len(b) PROVE b[i] \in LiteralChar \cup {"[", "]"}
  BY <1>2, <1>3, <1>4
<1>6. ASSUME NEW i \in 1 .. Len(b) - 1 PROVE b[i] # "]"
  <2>1. i \in 1 .. Len(b) /\ i # Len(b)
    BY <1>3
  <2>2. i = 1 \/ \E j \in 1 .. Len(g) : b[i] = g[j]
    BY <1>4, <2>1
  <2>3. b[i] = "[" \/ b[i] \in LiteralChar
    BY <1>2, <1>3, <2>2
  <2>4. QED
    BY <1>1, <2>3
<1>7. HostShape(b)
  <2>1. b[Len(b)] = "]"
    BY <1>3
  <2>2. QED
    BY <1>3, <1>6, <2>1, Zenon DEF HostShape
<1>8. Read(b) = bracketed(Read(g))
  <2>1. "[" \in Character /\ "]" \in Character
    BY Literals
  <2>2. <<"[">> \in Seq({"["}) /\ <<"]">> \in Seq({"]"})
    OBVIOUS
  <2>3. <<"[">> \in Text /\ <<"]">> \in Text
    BY <2>1, SingleIs
  <2>4. read("[") = "[" /\ read("]") = "]"
    BY HostChars
  <2>5. Read(<<"[">>) = <<"[">> /\ Read(<<"]">>) = <<"]">>
    <3>1. ASSUME NEW e, read(e) = e, <<e>> \in Seq({e}) PROVE Read(<<e>>) = <<e>>
      <4> DEFINE S == {e}
                 h == <<e>>
      <4>1. h \in Seq(S) /\ \A c \in S : read(c) = c
        BY <3>1
      <4> HIDE DEF S, h
      <4>2. Read(h) = h
        BY <4>1, ReadSame, Zenon
      <4>3. QED
        BY <4>2 DEF h
    <3>2. QED
      BY <2>2, <2>4, <3>1, Zenon
  <2>6. Read(<<"[">> \o g) = <<"[">> \o Read(g)
    BY <1>2, <2>3, <2>5, ReadJoined DEF Text
  <2>7. Read((<<"[">> \o g) \o <<"]">>) = Read(<<"[">> \o g) \o <<"]">>
    <3>1. <<"[">> \o g \in Text
      BY <1>2, BracketedIs
    <3>2. QED
      BY <2>3, <2>5, <3>1, ReadJoined DEF Text
  <2>8. QED
    BY <2>6, <2>7 DEF bracketed, b
<1>9. QED
  BY <1>2, <1>5, <1>7, <1>8 DEF b

\* a literal ends at its bracket
LEMMA BracketEnd ==
  ASSUME NEW g \in Text, \A i \in 1 .. Len(g) : g[i] # "]", NEW p \in Text
  PROVE  LET a == bracketed(g) \o p
         IN  /\ position(a, "]") = Len(g) + 2
             /\ SubSeq(a, 2, Len(g) + 1) = g
             /\ SubSeq(a, Len(g) + 3, Len(a)) = p
             /\ a \in Text /\ a # << >> /\ a[1] = "[" /\ Len(a) >= Len(g) + 2 /\ Len(a) \in Nat /\ Len(g) \in Nat
<1> DEFINE l == <<"[">> \o g
           b == bracketed(g)
           a == b \o p
           t == <<"]">> \o p
<1>1. /\ l \in Text /\ Len(l) = Len(g) + 1 /\ Len(g) \in Nat
      /\ b = l \o <<"]">> /\ b \in Text /\ Len(b) = Len(g) + 2 /\ b[1] = "["
      /\ (\A i \in 1 .. Len(g) : b[i + 1] = g[i] /\ l[i + 1] = g[i])
      /\ l[1] = "[" /\ Tail(l) = g /\ l # << >>
  BY BracketedIs
<1>2. "]" \in Character /\ <<"]">> \in Text
  BY Literals, SingleIs
<1>3. t \in Text /\ t[1] = "]"
  BY <1>2, TailJoined
<1>4. a = l \o t
  <2>1. (l \o <<"]">>) \o p = l \o (<<"]">> \o p)
    BY <1>1, <1>2, ConcatAssociative DEF Text
  <2>2. QED
    BY <1>1, <2>1
<1>5. /\ a \in Text /\ Len(p) \in Nat /\ Len(a) = Len(b) + Len(p)
      /\ (\A i \in 1 .. Len(b) : a[i] = b[i])
      /\ SubSeq(a, Len(b) + 1, Len(a)) = p
  BY <1>1, TextJoined
<1>6. SubSeq(l \o t, 1, Len(l)) = l
  BY <1>1, <1>3, TextJoined
<1> HIDE DEF l, b, a, t
<1>7. \A i \in 1 .. Len(l) : l[i] # "]"
  <2> SUFFICES ASSUME NEW i \in 1 .. Len(l) PROVE l[i] # "]"
    OBVIOUS
  <2>1. i = 1 \/ (i - 1 \in 1 .. Len(g) /\ (i - 1) + 1 = i)
    BY <1>1
  <2>2. CASE i = 1
    BY <1>1, <2>2
  <2>3. CASE i - 1 \in 1 .. Len(g) /\ (i - 1) + 1 = i
    <3>1. l[i] = g[i - 1]
      BY <1>1, <2>3
    <3>2. QED
      BY <2>3, <3>1
  <2>4. QED
    BY <2>1, <2>2, <2>3
<1>8. position(a, "]") = Len(g) + 2
  <2>1. position(l \o t, "]") = Len(l) + 1
    BY <1>1, <1>3, <1>7, PositionAt
  <2>2. Len(l) + 1 = Len(g) + 2
    BY <1>1
  <2>3. QED
    BY <1>4, <2>1, <2>2
<1>9. SubSeq(a, 2, Len(g) + 1) = g
  <2>1. SubSeq(a, 1, Len(l)) = l /\ Len(l) <= Len(a)
    BY <1>1, <1>4, <1>5, <1>6
  <2>2. SubSeq(SubSeq(a, 1, Len(l)), 2, Len(l)) = SubSeq(a, 1 + 2 - 1, 1 + Len(l) - 1)
    <3>1. /\ 1 \in Nat \ {0} /\ Len(l) \in Nat /\ 1 <= Len(l) + 1 /\ Len(l) <= Len(a) /\ 2 \in Nat \ {0}
          /\ Len(l) \in Int /\ Len(l) <= Len(l) - 1 + 1
      BY <1>1, <2>1
    <3>2. \A x \in Nat \ {0}, y \in Nat, v \in Nat \ {0}, w \in Int :
            x <= y + 1 /\ y <= Len(a) /\ w <= y - x + 1 =>
              SubSeq(SubSeq(a, x, y), v, w) = SubSeq(a, x + v - 1, x + w - 1)
      BY <1>5, PieceOfPiece
    <3>3. QED
      BY <3>1, <3>2
  <2>3. 1 + 2 - 1 = 2 /\ 1 + Len(l) - 1 = Len(g) + 1
    BY <1>1
  <2>4. SubSeq(l, 2, Len(l)) = Tail(l)
    BY <1>1, TailIsSubSeq DEF Text
  <2>5. QED
    BY <1>1, <2>1, <2>2, <2>3, <2>4
<1>10. SubSeq(a, Len(g) + 3, Len(a)) = p
  <2>1. Len(b) + 1 = Len(g) + 3
    BY <1>1
  <2>2. QED
    BY <1>5, <2>1
<1>11. a[1] = "["
  <2>1. 1 \in 1 .. Len(b)
    BY <1>1
  <2>2. QED
    BY <1>1, <1>5, <2>1
<1>12. Len(a) >= Len(g) + 2 /\ Len(a) \in Nat
  BY <1>1, <1>5
<1>13. a # << >>
  <2>1. a = << >> => Len(a) = 0
    OBVIOUS
  <2>2. QED
    BY <1>1, <1>12, <2>1
<1>14. QED
  BY <1>1, <1>5, <1>8, <1>9, <1>10, <1>11, <1>12, <1>13 DEF a, b

\* a port behind a literal is a port
LEMMA PortAfterLiteral ==
  ASSUME NEW p, p = << >> \/ p[1] = ":"
  PROVE  parse_port_after_literal(p) = ports(p, 443)
BY DEF parse_port_after_literal, ports

\* parse_authority of a literal, as what is joined
LEMMA ParseBracketIs ==
  ASSUME NEW a, a # << >>, "@" \notin Range(a), a[1] = "[", NEW close, close = position(a, "]"), ~ (close > Len(a)),
         NEW g, g = SubSeq(a, 2, close - 1), NEW p, p = SubSeq(a, close + 1, Len(a))
  PROVE  parse_authority(a) = joined({bracketed(x) : x \in validate_ip_literal(g)}, parse_port_after_literal(p))
<1> DEFINE S == validate_ip_literal(g)
           T == parse_port_after_literal(p)
           B == {bracketed(x) : x \in S}
<1>1. \A e : e \in parse_authority(a) <=> \E host \in S : \E port \in T : e = bracketed(host) \o port
  <2>1. \A e : e \in parse_authority(a) <=>
                 \E host \in validate_ip_literal(SubSeq(a, 2, position(a, "]") - 1)) :
                   \E port \in parse_port_after_literal(SubSeq(a, position(a, "]") + 1, Len(a))) :
                     e = bracketed(host) \o port
    BY ParseBracket, Zenon
  <2>2. QED
    BY <2>1, Zenon
<1> HIDE DEF S, T
<1>2. \A e : e \in parse_authority(a) <=> \E y \in B : \E port \in T : e = y \o port
  BY <1>1
<1> HIDE DEF B
<1>3. parse_authority(a) = joined(B, T)
  BY <1>2 DEF joined
<1>4. QED
  BY <1>3 DEF B, S, T

\* a literal and a port, put together, are parsed apart
LEMMA ParseLiteral ==
  ASSUME NEW g \in Seq(LiteralChar), NEW p, PortText(p)
  PROVE  parse_authority(bracketed(g) \o p)
           = joined({bracketed(x) : x \in validate_ip_literal(g)}, ports(p, 443))
<1> DEFINE b == bracketed(g)
           a == b \o p
           close == position(a, "]")
<1>1. /\ g \in Text /\ b \in Text /\ p \in Text /\ Len(b) = Len(g) + 2 /\ Len(g) \in Nat
      /\ (\A i \in 1 .. Len(b) : b[i] \in LiteralChar \cup {"[", "]"})
      /\ \A i \in 1 .. Len(p) : p[i] \in DecimalDigit \cup {":"}
  BY LiteralChars, PortTextIs, BracketedIs
<1>2. "]" \notin LiteralChar /\ "@" \notin LiteralChar \cup {"[", "]"} /\ "@" \notin DecimalDigit \cup {":"}
  BY HostChars, DecimalDigitIs
<1>3. \A i \in 1 .. Len(g) : g[i] # "]"
  <2>1. \A i \in 1 .. Len(g) : g[i] \in LiteralChar
    BY ElementOfSeq
  <2>2. QED
    BY <1>2, <2>1, Zenon
<1>4. /\ close = Len(g) + 2 /\ SubSeq(a, 2, Len(g) + 1) = g /\ SubSeq(a, Len(g) + 3, Len(a)) = p
      /\ a \in Text /\ a # << >> /\ a[1] = "[" /\ Len(a) >= Len(g) + 2 /\ Len(a) \in Nat
  BY <1>1, <1>3, BracketEnd
<1>5. Len(a) = Len(b) + Len(p) /\ Len(p) \in Nat /\ Len(b) \in Nat
      /\ (\A i \in 1 .. Len(b) : a[i] = b[i]) /\ \A i \in 1 .. Len(p) : a[Len(b) + i] = p[i]
  BY <1>1, TextJoined
<1> HIDE DEF a, b
<1>6. "@" \notin Range(a)
  <2>1. ASSUME NEW i \in 1 .. Len(a) PROVE a[i] # "@"
    <3>1. i \in 1 .. Len(b) \/ (i - Len(b) \in 1 .. Len(p) /\ Len(b) + (i - Len(b)) = i)
      BY <1>5
    <3>2. CASE i \in 1 .. Len(b)
      BY <1>1, <1>2, <1>5, <3>2
    <3>3. CASE i - Len(b) \in 1 .. Len(p) /\ Len(b) + (i - Len(b)) = i
      <4>1. a[i] = p[i - Len(b)]
        BY <1>5, <3>3
      <4>2. QED
        BY <1>1, <1>2, <3>3, <4>1
    <3>4. QED
      BY <3>1, <3>2, <3>3
  <2>2. QED
    BY <1>4, <2>1, NobodyNamed
<1>7. parse_port_after_literal(p) = ports(p, 443)
  <2>1. p = << >> \/ p[1] = ":"
    BY Zenon DEF PortText
  <2>2. QED
    BY <2>1, PortAfterLiteral
<1>8. close - 1 = Len(g) + 1 /\ close + 1 = Len(g) + 3 /\ ~ (close > Len(a))
  BY <1>1, <1>4
<1>9. g = SubSeq(a, 2, close - 1) /\ p = SubSeq(a, close + 1, Len(a))
  BY <1>4, <1>8
<1> HIDE DEF close
<1>10. parse_authority(a) = joined({bracketed(x) : x \in validate_ip_literal(g)}, parse_port_after_literal(p))
  BY <1>4, <1>6, <1>8, <1>9, ParseBracketIs DEF close
<1>11. QED
  BY <1>7, <1>10 DEF a, b

\* a text is what is before a place and what is from it on
LEMMA CutHere ==
  ASSUME NEW s \in Text, NEW k \in 1 .. Len(s) + 1
  PROVE  LET h == SubSeq(s, 1, k - 1)
             p == SubSeq(s, k, Len(s))
         IN  /\ h \in Text /\ p \in Text /\ s = h \o p
             /\ Len(h) = k - 1 /\ \A i \in 1 .. k - 1 : h[i] = s[i]
             /\ (p = << >> <=> k = Len(s) + 1)
             /\ k <= Len(s) => p[1] = s[k] /\ Tail(p) = SubSeq(s, k + 1, Len(s))
<1> DEFINE h == SubSeq(s, 1, k - 1)
           p == SubSeq(s, k, Len(s))
<1>1. Len(s) \in Nat /\ k \in Nat \ {0} /\ k - 1 \in Nat /\ k - 1 <= Len(s) /\ k <= Len(s) + 1 /\ Len(s) <= Len(s)
  BY LenProperties DEF Text
<1>2. h \in Text /\ Len(h) = k - 1 /\ \A i \in 1 .. k - 1 : h[i] = s[i]
  BY <1>1, PrefixOf DEF Text
<1>3. \A a \in Nat \ {0} : \A b \in Nat : a <= b + 1 /\ b <= Len(s) =>
        /\ SubSeq(s, a, b) \in Text /\ Len(SubSeq(s, a, b)) = b - a + 1
        /\ \A i \in 1 .. b - a + 1 : SubSeq(s, a, b)[i] = s[a + i - 1]
  BY PieceOf DEF Text
<1>4. p \in Text /\ Len(p) = Len(s) - k + 1 /\ \A i \in 1 .. Len(s) - k + 1 : p[i] = s[k + i - 1]
  BY <1>1, <1>3
<1> HIDE DEF h, p
<1>5. s = h \o p
  <2>1. /\ h \o p \in Text /\ Len(h \o p) = Len(h) + Len(p)
        /\ (\A i \in 1 .. Len(h) : (h \o p)[i] = h[i])
        /\ \A i \in 1 .. Len(p) : (h \o p)[Len(h) + i] = p[i]
    BY <1>2, <1>4, TextJoined
  <2>2. Len(h \o p) = Len(s)
    BY <1>1, <1>2, <1>4, <2>1
  <2>3. ASSUME NEW i \in 1 .. Len(s) PROVE (h \o p)[i] = s[i]
    <3>1. i \in 1 .. k - 1 \/ (i - k + 1 \in 1 .. Len(s) - k + 1 /\ (k - 1) + (i - k + 1) = i /\ k + (i - k + 1) - 1 = i)
      BY <1>1
    <3>2. CASE i \in 1 .. k - 1
      BY <1>2, <2>1, <3>2
    <3>3. CASE i - k + 1 \in 1 .. Len(s) - k + 1 /\ (k - 1) + (i - k + 1) = i /\ k + (i - k + 1) - 1 = i
      <4>1. (h \o p)[Len(h) + (i - k + 1)] = p[i - k + 1]
        BY <1>4, <2>1, <3>3
      <4>2. p[i - k + 1] = s[k + (i - k + 1) - 1]
        BY <1>4, <3>3
      <4>3. QED
        BY <1>2, <3>3, <4>1, <4>2
    <3>4. QED
      BY <3>1, <3>2, <3>3
  <2>4. QED
    BY <2>1, <2>2, <2>3, SeqEqual DEF Text
<1>6. p = << >> <=> k = Len(s) + 1
  <2>1. p = << >> <=> Len(p) = 0
    BY <1>4, EmptySeq DEF Text
  <2>2. QED
    BY <1>1, <1>4, <2>1
<1>7. ASSUME k <= Len(s) PROVE p[1] = s[k] /\ Tail(p) = SubSeq(s, k + 1, Len(s))
  <2>1. 1 \in 1 .. Len(s) - k + 1 /\ k + 1 - 1 = k
    BY <1>1, <1>7
  <2>2. p[1] = s[k]
    BY <1>4, <2>1
  <2>3. p # << >>
    BY <1>1, <1>6, <1>7
  <2>4. Tail(p) = SubSeq(p, 2, Len(p))
    BY <1>4, <2>3, TailIsSubSeq DEF Text
  <2>5. SubSeq(SubSeq(s, k, Len(s)), 2, Len(p)) = SubSeq(s, k + 2 - 1, k + Len(p) - 1)
    <3>1. \A x \in Nat \ {0}, y \in Nat, v \in Nat \ {0}, w \in Int :
            x <= y + 1 /\ y <= Len(s) /\ w <= y - x + 1 =>
              SubSeq(SubSeq(s, x, y), v, w) = SubSeq(s, x + v - 1, x + w - 1)
      BY PieceOfPiece
    <3>2. Len(p) \in Int /\ Len(p) <= Len(s) - k + 1 /\ 2 \in Nat \ {0}
      BY <1>1, <1>4
    <3>3. QED
      BY <1>1, <3>1, <3>2
  <2>6. k + 2 - 1 = k + 1 /\ k + Len(p) - 1 = Len(s)
    BY <1>1, <1>4
  <2>7. QED
    BY <2>2, <2>4, <2>5, <2>6 DEF p
<1>8. QED
  BY <1>2, <1>4, <1>5, <1>6, <1>7 DEF h, p

\* what an authority that is read was put together from
NameParts(auth, a, h, p) ==
  /\ h # << >> /\ auth = h \o p
  /\ \E x \in normalize_host(h), y \in ports(p, 443) : a = x \o y

LiteralParts(auth, a, h, p) ==
  /\ auth = bracketed(h) \o p
  /\ \E x \in validate_ip_literal(h), y \in ports(p, 443) : a = bracketed(x) \o y

\* a bare authority that is taken is a name and a port
LEMMA NameIsParted ==
  ASSUME NEW auth \in Text, auth # << >>, "@" \notin Range(auth), auth[1] # "[", NEW a, a \in parse_authority(auth)
  PROVE  \E h \in Text, p \in Text : (p = << >> \/ p[1] = ":") /\ NameParts(auth, a, h, p)
<1> DEFINE k == position(auth, ":")
           h == SubSeq(auth, 1, k - 1)
           p == SubSeq(auth, k, Len(auth))
           S == IF k = 1 THEN {} ELSE normalize_host(SubSeq(auth, 1, k - 1))
           T == IF k > Len(auth) THEN {<< >>} ELSE parse_port(SubSeq(auth, k + 1, Len(auth)), 443)
<1>1. parse_authority(auth) = {host \o port : host \in S, port \in T}
  BY SMTT(20), ParseBare
<1>2. PICK x \in S, y \in T : a = x \o y
  <2> HIDE DEF S, T
  <2>1. QED
    BY <1>1
<1>3. k \in 1 .. Len(auth) + 1 /\ (k <= Len(auth) => auth[k] = ":")
  BY PositionIs
<1>4. Len(auth) \in Nat
  BY LenProperties DEF Text
<1>5. /\ h \in Text /\ p \in Text /\ auth = h \o p /\ Len(h) = k - 1
      /\ (p = << >> <=> k = Len(auth) + 1)
      /\ k <= Len(auth) => p[1] = auth[k] /\ Tail(p) = SubSeq(auth, k + 1, Len(auth))
  BY <1>3, CutHere
<1>6. k # 1 /\ x \in normalize_host(h)
  <2>1. CASE k = 1
    BY <2>1
  <2>2. CASE k # 1
    BY <2>2
  <2>3. QED
    BY <2>1, <2>2
<1>7. y \in ports(p, 443) /\ (p = << >> \/ p[1] = ":")
  <2>1. CASE k <= Len(auth)
    <3>1. ~ (k > Len(auth)) /\ k # Len(auth) + 1
      BY <1>3, <1>4, <2>1
    <3>2. y \in parse_port(SubSeq(auth, k + 1, Len(auth)), 443)
      BY <3>1
    <3> HIDE DEF p, k
    <3>3. p # << >> /\ Tail(p) = SubSeq(auth, k + 1, Len(auth)) /\ p[1] = ":"
      BY <1>3, <1>5, <2>1, <3>1
    <3>4. QED
      BY <3>2, <3>3 DEF ports
  <2>2. CASE ~ (k <= Len(auth))
    <3>1. k > Len(auth) /\ k = Len(auth) + 1
      BY <1>3, <1>4, <2>2
    <3>2. y \in {<< >>}
      BY <3>1
    <3> HIDE DEF p, k
    <3>3. p = << >>
      BY <1>5, <3>1
    <3>4. QED
      BY <3>2, <3>3 DEF ports
  <2>3. QED
    BY <2>1, <2>2
<1> HIDE DEF h, p, k, S, T
<1>8. h # << >>
  <2>1. h = << >> => Len(h) = 0
    OBVIOUS
  <2>2. QED
    BY <1>3, <1>4, <1>5, <1>6, <2>1
<1>9. NameParts(auth, a, h, p)
  BY <1>2, <1>5, <1>6, <1>7, <1>8, Zenon DEF NameParts
<1>10. QED
  BY <1>5, <1>7, <1>9

\* one with brackets that is taken is a literal and a port
LEMMA LiteralIsParted ==
  ASSUME NEW auth \in Text, auth # << >>, "@" \notin Range(auth), auth[1] = "[", NEW a, a \in parse_authority(auth)
  PROVE  \E h \in Text, p \in Text : (p = << >> \/ p[1] = ":") /\ LiteralParts(auth, a, h, p)
<1> DEFINE k == position(auth, "]")
           h == SubSeq(auth, 2, k - 1)
           p == SubSeq(auth, k + 1, Len(auth))
<1>1. k \in 1 .. Len(auth) + 1 /\ (k <= Len(auth) => auth[k] = "]")
  BY PositionIs
<1>2. Len(auth) \in Nat
  BY LenProperties DEF Text
<1>3. k <= Len(auth)
  <2> SUFFICES ASSUME k > Len(auth) PROVE FALSE
    BY <1>1, <1>2
  <2>1. parse_authority(auth) = {}
    BY ParseBracket, Zenon
  <2>2. QED
    BY <2>1
<1>4. \E x \in validate_ip_literal(h) : \E y \in parse_port_after_literal(p) : a = bracketed(x) \o y
  <2>1. ~ (k > Len(auth))
    BY <1>1, <1>2, <1>3
  <2>2. \A e : e \in parse_authority(auth) <=>
               \E x \in validate_ip_literal(h) : \E y \in parse_port_after_literal(p) : e = bracketed(x) \o y
    BY <2>1, ParseBracket, Zenon
  <2>3. QED
    BY <2>2, Zenon
<1> HIDE DEF k
<1>5. k # 1
  BY <1>1, <1>3
<1>6. k \in Nat /\ k - 1 \in Nat /\ 2 \in Nat \ {0} /\ 2 <= (k - 1) + 1 /\ k - 1 <= Len(auth) /\ k + 1 \in 1 .. Len(auth) + 1
  BY <1>1, <1>2, <1>3, <1>5
<1>7. h \in Text /\ Len(h) = (k - 1) - 2 + 1 /\ \A i \in 1 .. (k - 1) - 2 + 1 : h[i] = auth[2 + i - 1]
  <2>1. \A x \in Nat \ {0} : \A b \in Nat : x <= b + 1 /\ b <= Len(auth) =>
          /\ SubSeq(auth, x, b) \in Text /\ Len(SubSeq(auth, x, b)) = b - x + 1
          /\ \A i \in 1 .. b - x + 1 : SubSeq(auth, x, b)[i] = auth[x + i - 1]
    BY PieceOf DEF Text
  <2>2. QED
    BY <1>6, <2>1
<1> DEFINE b == SubSeq(auth, 1, (k + 1) - 1)
<1>8. b \in Text /\ p \in Text /\ auth = b \o p /\ Len(b) = (k + 1) - 1 /\ \A i \in 1 .. (k + 1) - 1 : b[i] = auth[i]
  BY <1>6, CutHere
<1> HIDE DEF h, p, b
<1>9. Len(h) = k - 2 /\ Len(b) = k /\ (\A i \in 1 .. k - 2 : h[i] = auth[i + 1]) /\ (\A i \in 1 .. k : b[i] = auth[i])
  <2>1. (k - 1) - 2 + 1 = k - 2 /\ (k + 1) - 1 = k
    BY <1>6
  <2>2. \A i \in 1 .. k - 2 : 2 + i - 1 = i + 1
    BY <1>6
  <2>3. QED
    BY <1>7, <1>8, <2>1, <2>2
<1>10. b = bracketed(h)
  <2> DEFINE c == bracketed(h)
  <2>1. /\ c \in Text /\ Len(c) = Len(h) + 2 /\ c[1] = "[" /\ c[Len(h) + 2] = "]" /\ Len(h) \in Nat
        /\ \A i \in 1 .. Len(h) : c[i + 1] = h[i]
    BY <1>7, BracketedIs
  <2> HIDE DEF c
  <2>2. Len(c) = k /\ c[k] = "]" /\ \A i \in 1 .. k - 2 : c[i + 1] = auth[i + 1]
    <3>1. Len(h) + 2 = k
      BY <1>6, <1>9
    <3>2. QED
      BY <1>9, <2>1, <3>1
  <2>3. ASSUME NEW i \in 1 .. k PROVE b[i] = c[i]
    <3>1. i = 1 \/ i = k \/ (i - 1 \in 1 .. k - 2 /\ (i - 1) + 1 = i)
      BY <1>6
    <3>2. CASE i = 1
      BY <1>9, <2>1, <3>2
    <3>3. CASE i = k
      BY <1>1, <1>3, <1>9, <2>2, <3>3
    <3>4. CASE i - 1 \in 1 .. k - 2 /\ (i - 1) + 1 = i
      <4>1. c[(i - 1) + 1] = auth[(i - 1) + 1]
        BY <2>2, <3>4
      <4>2. QED
        BY <1>9, <3>4, <4>1
    <3>5. QED
      BY <3>1, <3>2, <3>3, <3>4
  <2>4. b = c
    <3>1. b \in Seq(Character) /\ c \in Seq(Character) /\ Len(b) = Len(c)
      BY <1>8, <1>9, <2>1, <2>2 DEF Text
    <3>2. \A i \in 1 .. Len(b) : b[i] = c[i]
      BY <1>9, <2>3
    <3> HIDE DEF b
    <3>3. QED
      BY <3>1, <3>2, SeqEqual
  <2>5. QED
    BY <2>4 DEF c
<1>11. (p = << >> \/ p[1] = ":") /\ parse_port_after_literal(p) = ports(p, 443)
  <2>1. p = << >> \/ p[1] = ":"
    <3> SUFFICES ASSUME p # << >>, p[1] # ":" PROVE FALSE
      OBVIOUS
    <3>1. parse_port_after_literal(p) = {}
      BY Zenon DEF parse_port_after_literal
    <3>2. QED
      BY <1>4, <3>1
  <2>2. QED
    BY <2>1, PortAfterLiteral
<1>12. LiteralParts(auth, a, h, p)
  BY <1>4, <1>8, <1>10, <1>11, Zenon DEF LiteralParts
<1>13. QED
  BY <1>7, <1>8, <1>11, <1>12

\* no authority is taken that is empty or names a user
LEMMA ParseNone ==
  ASSUME NEW auth, auth = << >> \/ "@" \in Range(auth)
  PROVE  parse_authority(auth) = {}
BY DEF parse_authority

\* an address that is one only once its escapes are read
EscapedHost(auth) ==
  LET name == SubSeq(auth, 1, position(auth, ":") - 1)
  IN  ~ is_ipv4_candidate(name) /\ is_ipv4_candidate(Read(name))

\* what ends an authority is not in it
Fenced(a) == \A i \in 1 .. Len(a) : a[i] \notin {"/", "?", "#"}

\* what is joined is fenced if its parts are
LEMMA FencedJoined ==
  ASSUME NEW s \in Text, NEW t \in Text, Fenced(s), Fenced(t)
  PROVE  Fenced(s \o t) /\ s \o t \in Text
<1> DEFINE u == s \o t
<1>1. /\ u \in Text /\ Len(s) \in Nat /\ Len(t) \in Nat /\ Len(u) = Len(s) + Len(t)
      /\ (\A i \in 1 .. Len(s) : u[i] = s[i]) /\ \A i \in 1 .. Len(t) : u[Len(s) + i] = t[i]
  BY TextJoined
<1> HIDE DEF u
<1>2. ASSUME NEW i \in 1 .. Len(u) PROVE u[i] \notin {"/", "?", "#"}
  <2>1. i \in 1 .. Len(s) \/ (i - Len(s) \in 1 .. Len(t) /\ Len(s) + (i - Len(s)) = i)
    BY <1>1
  <2>2. CASE i \in 1 .. Len(s)
    <3>1. u[i] = s[i]
      BY <1>1, <2>2
    <3>2. QED
      BY <2>2, <3>1 DEF Fenced
  <2>3. CASE i - Len(s) \in 1 .. Len(t) /\ Len(s) + (i - Len(s)) = i
    <3>1. u[i] = t[i - Len(s)]
      BY <1>1, <2>3
    <3>2. QED
      BY <2>3, <3>1 DEF Fenced
  <2>4. QED
    BY <2>1, <2>2, <2>3
<1>3. QED
  BY <1>1, <1>2 DEF Fenced, u

\* a port is fenced
LEMMA PortFenced ==
  ASSUME NEW p, PortText(p)
  PROVE  Fenced(p)
<1>1. \A i \in 1 .. Len(p) : p[i] \in DecimalDigit \cup {":"}
  BY PortTextIs
<1>2. (DecimalDigit \cup {":"}) \cap {"/", "?", "#"} = {}
  BY DecimalDigitIs
<1>3. QED
  BY <1>1, <1>2 DEF Fenced

\* a name is fenced, and has no colon
LEMMA NameIs ==
  ASSUME NEW h \in Seq(NameChar)
  PROVE  h \in Text /\ Fenced(h) /\ HostShape(h) /\ \A i \in 1 .. Len(h) : h[i] # ":"
<1>1. NameChar \cap {"/", "?", "#", "]", ":"} = {} /\ NameChar \subseteq Character
  BY HostChars
<1>2. h \in Text
  BY <1>1, SeqMonotonic DEF Text
<1>3. \A i \in 1 .. Len(h) : h[i] \in NameChar
  BY ElementOfSeq
<1>4. Fenced(h)
  BY <1>1, <1>3 DEF Fenced
<1>5. \A i \in 1 .. Len(h) : h[i] \notin {":", "]"}
  BY <1>1, <1>3
<1>6. HostShape(h)
  BY <1>5, Zenon DEF HostShape
<1>7. QED
  BY <1>2, <1>4, <1>5, <1>6

\* the numbers of two ports behind two hosts
LEMMA PortsBehind ==
  ASSUME NEW h \in Text, HostShape(h), NEW p, PortText(p), NEW d
  PROVE  host_of(h \o p) = h /\ port_of(h \o p, d) = port_number(p, d)
<1>1. p \in Text /\ PortShape(p)
  BY PortTextIs
<1>2. host_of(h \o p) = h /\ port_of(h \o p, d) = IF p = << >> THEN d ELSE decimal(Tail(p))
  BY <1>1, HostAndPort
<1>3. QED
  BY <1>2, Zenon DEF port_number

\* the form of a name and a port is one, or hides an address
LEMMA NameForm ==
  ASSUME NEW auth \in Text, NEW a, NEW h \in Text, NEW p \in Text, p = << >> \/ p[1] = ":",
         NameParts(auth, a, h, p)
  PROVE  /\ a \in Text /\ Fenced(a)
         /\ \/ parse_authority(a) = {a}
            \/ EscapedHost(auth) /\ parse_authority(a) = {}
         /\ Read(host_of(a)) = Read(host_of(auth)) /\ port_of(a, 443) = port_of(auth, 443)
<1>1. PICK x \in normalize_host(h), y \in ports(p, 443) : a = x \o y
  BY Zenon DEF NameParts
<1>2. h # << >> /\ auth = h \o p
  BY Zenon DEF NameParts
<1>3. /\ x = Read(h) /\ x \in Seq(NameChar) /\ h \in Seq(NameChar)
      /\ \/ normalize_host(x) = {x}
         \/ ~ is_ipv4_candidate(h) /\ is_ipv4_candidate(x) /\ normalize_host(x) = {}
  BY HostForm
<1>4. PortText(p) /\ PortText(y) /\ ports(y, 443) = {y} /\ port_number(y, 443) = port_number(p, 443)
  BY PortKept
<1>5. x \in Text /\ Fenced(x) /\ HostShape(x) /\ HostShape(h) /\ Fenced(y) /\ y \in Text /\ \A i \in 1 .. Len(h) : h[i] # ":"
  BY <1>3, <1>4, NameIs, PortFenced, PortTextIs
<1>6. a \in Text /\ Fenced(a)
  BY <1>1, <1>5, FencedJoined
<1>7. x # << >>
  <2>1. Len(x) = Len(h)
    <3>1. \A c \in NameChar : read(c) \in NameChar
      BY HostChars
    <3>2. QED
      BY <1>3, <3>1, ReadIs
  <2>2. QED
    BY <1>2, <1>5, <2>1, EmptySeq DEF Text
<1>8. parse_authority(a) = joined(normalize_host(x), {y})
  <2>1. parse_authority(x \o y) = joined(normalize_host(x), ports(y, 443))
    BY <1>3, <1>4, <1>7, ParseName
  <2>2. QED
    BY <1>1, <1>4, <2>1
<1>9. EscapedHost(auth) <=> ~ is_ipv4_candidate(h) /\ is_ipv4_candidate(x)
  <2>1. position(auth, ":") = Len(h) + 1
    BY <1>2, <1>5, PositionAt
  <2>2. SubSeq(auth, 1, Len(h)) = h /\ Len(h) \in Nat
    BY <1>2, TextJoined
  <2>3. (Len(h) + 1) - 1 = Len(h)
    BY <2>2
  <2>4. SubSeq(auth, 1, position(auth, ":") - 1) = h
    BY <2>1, <2>2, <2>3
  <2>5. QED
    BY <1>3, <2>4, Zenon DEF EscapedHost
<1>10. CASE normalize_host(x) = {x}
  <2>1. joined({x}, {y}) = {x \o y}
    BY DEF joined
  <2>2. parse_authority(a) = {a}
    BY <1>1, <1>8, <1>10, <2>1
  <2>3. host_of(a) = x /\ port_of(a, 443) = port_number(y, 443)
    BY <1>1, <1>4, <1>5, PortsBehind
  <2>4. host_of(auth) = h /\ port_of(auth, 443) = port_number(p, 443)
    BY <1>2, <1>4, <1>5, PortsBehind
  <2>5. Read(x) = x
    BY <1>3, ReadTwice
  <2>6. QED
    BY <1>3, <1>4, <1>6, <2>2, <2>3, <2>4, <2>5
<1>11. CASE ~ is_ipv4_candidate(h) /\ is_ipv4_candidate(x) /\ normalize_host(x) = {}
  <2>1. joined({}, {y}) = {}
    BY DEF joined
  <2>2. parse_authority(a) = {}
    BY <1>8, <1>11, <2>1
  <2>3. host_of(a) = x /\ port_of(a, 443) = port_number(y, 443)
    BY <1>1, <1>4, <1>5, PortsBehind
  <2>4. host_of(auth) = h /\ port_of(auth, 443) = port_number(p, 443)
    BY <1>2, <1>4, <1>5, PortsBehind
  <2>5. Read(x) = x
    BY <1>3, ReadTwice
  <2>6. QED
    BY <1>3, <1>4, <1>6, <1>9, <1>11, <2>2, <2>3, <2>4, <2>5
<1>12. QED
  BY <1>3, <1>10, <1>11

\* the form of a literal and a port is one
LEMMA BracketForm ==
  ASSUME NEW auth \in Text, NEW a, NEW h \in Text, NEW p \in Text, p = << >> \/ p[1] = ":",
         LiteralParts(auth, a, h, p)
  PROVE  /\ a \in Text /\ Fenced(a) /\ parse_authority(a) = {a}
         /\ Read(host_of(a)) = Read(host_of(auth)) /\ port_of(a, 443) = port_of(auth, 443)
<1>1. PICK x \in validate_ip_literal(h), y \in ports(p, 443) : a = bracketed(x) \o y
  BY Zenon DEF LiteralParts
<1>2. auth = bracketed(h) \o p
  BY Zenon DEF LiteralParts
<1>3. x = Read(h) /\ h \in Seq(LiteralChar) /\ x \in Seq(LiteralChar) /\ validate_ip_literal(x) = {x}
  BY LiteralForm
<1>4. PortText(p) /\ PortText(y) /\ ports(y, 443) = {y} /\ port_number(y, 443) = port_number(p, 443)
  BY PortKept
<1> DEFINE bx == bracketed(x)
           bh == bracketed(h)
<1>5. /\ x \in Text /\ HostShape(bx) /\ HostShape(bh)
      /\ (\A i \in 1 .. Len(bx) : bx[i] \in LiteralChar \cup {"[", "]"})
      /\ Read(bh) = bracketed(Read(h)) /\ Read(bx) = bracketed(Read(x))
  BY <1>3, LiteralChars
<1>6. bx \in Text /\ bh \in Text
  BY <1>5, BracketedIs
<1> HIDE DEF bx, bh
<1>7. Fenced(bx)
  <2>1. (LiteralChar \cup {"[", "]"}) \cap {"/", "?", "#"} = {}
    BY HostChars
  <2>2. QED
    BY <1>5, <2>1 DEF Fenced
<1>8. Fenced(y) /\ y \in Text
  BY <1>4, PortFenced, PortTextIs
<1>9. a \in Text /\ Fenced(a)
  <2>1. a = bx \o y
    BY <1>1 DEF bx
  <2>2. QED
    BY <1>6, <1>7, <1>8, <2>1, FencedJoined
<1>10. parse_authority(a) = {a}
  <2>1. parse_authority(bracketed(x) \o y) = joined({bracketed(z) : z \in validate_ip_literal(x)}, ports(y, 443))
    BY <1>3, <1>4, ParseLiteral
  <2>2. {bracketed(z) : z \in {x}} = {bracketed(x)}
    OBVIOUS
  <2>3. joined({bracketed(x)}, {y}) = {bracketed(x) \o y}
    BY DEF joined
  <2>4. parse_authority(a) = joined({bracketed(z) : z \in {x}}, {y})
    BY <1>1, <1>3, <1>4, <2>1
  <2>5. QED
    BY <1>1, <2>2, <2>3, <2>4
<1>11. host_of(a) = bx /\ port_of(a, 443) = port_number(y, 443)
  <2>1. a = bx \o y
    BY <1>1 DEF bx
  <2>2. QED
    BY <1>4, <1>5, <1>6, <2>1, PortsBehind
<1>12. host_of(auth) = bh /\ port_of(auth, 443) = port_number(p, 443)
  <2>1. auth = bh \o p
    BY <1>2 DEF bh
  <2>2. QED
    BY <1>4, <1>5, <1>6, <2>1, PortsBehind
<1>13. Read(bx) = Read(bh)
  <2>1. Read(x) = x
    BY <1>3, ReadTwice
  <2>2. QED
    BY <1>3, <1>5, <2>1
<1>14. QED
  BY <1>4, <1>9, <1>10, <1>11, <1>12, <1>13

\* an authority is normal when it was normalized, and is the same authority
LEMMA AuthorityForm ==
  ASSUME NEW auth \in Text, NEW a, a \in parse_authority(auth)
  PROVE  /\ a \in Text /\ Fenced(a)
         /\ \/ parse_authority(a) = {a}
            \/ EscapedHost(auth) /\ parse_authority(a) = {}
         /\ Read(host_of(a)) = Read(host_of(auth)) /\ port_of(a, 443) = port_of(auth, 443)
<1>1. auth # << >> /\ "@" \notin Range(auth)
  BY ParseNone
<1>2. CASE auth[1] = "["
  <2>1. PICK h \in Text, p \in Text : (p = << >> \/ p[1] = ":") /\ LiteralParts(auth, a, h, p)
    BY <1>1, <1>2, LiteralIsParted
  <2>2. QED
    BY <2>1, BracketForm
<1>3. CASE auth[1] # "["
  <2>1. PICK h \in Text, p \in Text : (p = << >> \/ p[1] = ":") /\ NameParts(auth, a, h, p)
    BY <1>1, <1>3, NameIsParted
  <2>2. QED
    BY <2>1, NameForm
<1>4. QED
  BY <1>2, <1>3

(***************************************************************************)
(* Loopback authorities.                                                   *)
(***************************************************************************)

\* the two hosts, which their first characters tell apart
LEMMA LoopbackHostIs ==
  /\ \A h \in LoopbackHost : h \in Text /\ h # << >> /\ Fenced(h) /\ HostShape(h) /\ Len(h) \in Nat \ {0}
  /\ \A h, g \in LoopbackHost : h[1] = g[1] => h = g
<1> DEFINE four == <<"1", "2", "7", ".", "0", ".", "0", ".", "1">>
           six == <<"[", ":", ":", "1", "]">>
<1>1. LoopbackHost = {four, six}
  BY DEF LoopbackHost
<1>2. {"1", "2", "7", ".", "0", "[", ":", "]"} \subseteq Character
  <2>1. DecimalDigit \subseteq Character
    <3>1. DecimalDigit \subseteq NameChar /\ NameChar \subseteq Character
      BY HostChars
    <3>2. QED
      BY <3>1
  <2>2. {".", "[", ":", "]"} \subseteq Character
    BY Literals
  <2>3. QED
    BY <2>1, <2>2, DecimalDigitIs
<1>3. /\ four \in Seq({"1", "2", "7", ".", "0"}) /\ Len(four) = 9 /\ four[1] = "1" /\ four # << >>
  OBVIOUS
<1>4. /\ six \in Seq({"[", ":", "1", "]"}) /\ Len(six) = 5 /\ six[1] = "[" /\ six # << >>
      /\ six[2] = ":" /\ six[3] = ":" /\ six[4] = "1" /\ six[5] = "]"
  OBVIOUS
<1> HIDE DEF four, six
<1>5. four \in Text /\ six \in Text
  <2>1. {"1", "2", "7", ".", "0"} \subseteq Character /\ {"[", ":", "1", "]"} \subseteq Character
    BY <1>2
  <2>2. QED
    BY <1>3, <1>4, <2>1, SeqMonotonic DEF Text
<1>6. \A i \in 1 .. Len(four) : four[i] \in {"1", "2", "7", ".", "0"}
  BY <1>3, ElementOfSeq
<1>7. \A i \in 1 .. Len(six) : six[i] \in {"[", ":", "1", "]"}
  BY <1>4, ElementOfSeq
<1>8. Fenced(four) /\ Fenced(six)
  BY <1>6, <1>7 DEF Fenced
<1>9. HostShape(four)
  <2>1. \A i \in 1 .. Len(four) : four[i] \notin {":", "]"}
    BY <1>6
  <2>2. QED
    BY <2>1, Zenon DEF HostShape
<1>10. HostShape(six)
  <2>1. \A i \in 1 .. Len(six) - 1 : six[i] # "]"
    <3> SUFFICES ASSUME NEW i \in 1 .. Len(six) - 1 PROVE six[i] # "]"
      OBVIOUS
    <3>1. i = 1 \/ i = 2 \/ i = 3 \/ i = 4
      BY <1>4
    <3>2. QED
      BY <1>4, <3>1
  <2>2. six[Len(six)] = "]" /\ six # << >>
    BY <1>4
  <2>3. QED
    BY <2>1, <2>2, Zenon DEF HostShape
<1>11. QED
  BY <1>1, <1>3, <1>4, <1>5, <1>8, <1>9, <1>10

\* a host and a port that may be behind it
LEMMA LoopbackParse ==
  ASSUME NEW x \in LoopbackHost, NEW p \in Text, p = << >> \/ p[1] = ":"
  PROVE  loopback_authority(x \o p) = {x \o y : y \in ports(p, 80)}
<1> DEFINE a == x \o p
<1>1. x \in Text /\ x # << >> /\ Len(x) \in Nat \ {0}
  BY LoopbackHostIs
<1>2. /\ a \in Text /\ Len(p) \in Nat /\ Len(a) = Len(x) + Len(p)
      /\ (\A i \in 1 .. Len(x) : a[i] = x[i]) /\ (\A i \in 1 .. Len(p) : a[Len(x) + i] = p[i])
  BY <1>1, TextJoined
<1>3. p = << >> => a = x
  BY <1>1, ConcatEmptySeq DEF Text
<1>4. p # << >> => SubSeq(a, Len(x) + 2, Len(a)) = Tail(p) /\ Len(p) # 0
  BY <1>1, PortBehind
<1> HIDE DEF a
<1>5. a[1] = x[1]
  <2>1. 1 \in 1 .. Len(x)
    BY <1>1
  <2>2. QED
    BY <1>2, <2>1
<1>6. \A g \in LoopbackHost : g = a <=> g = x /\ p = << >>
  <2> SUFFICES ASSUME NEW g \in LoopbackHost PROVE g = a <=> g = x /\ p = << >>
    OBVIOUS
  <2>1. ASSUME g = a PROVE g = x /\ p = << >>
    <3>1. g = x
      BY <1>5, <2>1, LoopbackHostIs
    <3>2. Len(p) = 0
      <4>1. Len(a) = Len(x)
        BY <2>1, <3>1
      <4>2. QED
        BY <1>1, <1>2, <4>1
    <3>3. QED
      BY <1>4, <3>1, <3>2
  <2>2. QED
    BY <1>3, <2>1
<1>7. \A g \in LoopbackHost : IsPrefix(g \o <<":">>, a) <=> g = x /\ p # << >>
  <2> SUFFICES ASSUME NEW g \in LoopbackHost PROVE IsPrefix(g \o <<":">>, a) <=> g = x /\ p # << >>
    OBVIOUS
  <2> DEFINE c == g \o <<":">>
  <2>1. <<":">> \in Text /\ Len(<<":">>) = 1 /\ <<":">>[1] = ":"
    BY Literals, SingleIs
  <2>2. g \in Text /\ Len(g) \in Nat \ {0}
    BY LoopbackHostIs
  <2>3. /\ c \in Text /\ Len(c) = Len(g) + Len(<<":">>)
        /\ (\A i \in 1 .. Len(g) : c[i] = g[i]) /\ \A i \in 1 .. Len(<<":">>) : c[Len(g) + i] = <<":">>[i]
    BY <2>1, <2>2, TextJoined
  <2> HIDE DEF c
  <2>4. Len(c) = Len(g) + 1 /\ c[Len(g) + 1] = ":"
    <3>1. 1 \in 1 .. Len(<<":">>)
      BY <2>1
    <3>2. c[Len(g) + 1] = <<":">>[1]
      BY <2>3, <3>1
    <3>3. QED
      BY <2>1, <2>3, <3>2
  <2>5. IsPrefix(c, a) <=> Len(c) <= Len(a) /\ \A i \in 1 .. Len(c) : a[i] = c[i]
    BY <1>2, <2>3, BeginsWith DEF Text
  <2>6. ASSUME IsPrefix(c, a) PROVE g = x /\ p # << >>
    <3>1. 1 \in 1 .. Len(c) /\ 1 \in 1 .. Len(g)
      BY <2>2, <2>4
    <3>2. a[1] = c[1] /\ c[1] = g[1]
      BY <2>3, <2>5, <2>6, <3>1
    <3>3. g = x
      BY <1>5, <3>2, LoopbackHostIs
    <3>4. Len(x) + 1 <= Len(a)
      BY <2>4, <2>5, <2>6, <3>3
    <3>5. p = << >> => Len(a) = Len(x)
      BY <1>3
    <3>6. p # << >>
      BY <1>1, <3>4, <3>5
    <3>7. QED
      BY <3>3, <3>6
  <2>7. ASSUME g = x, p # << >> PROVE IsPrefix(c, a)
    <3>1. p[1] = ":" /\ Len(p) # 0
      BY <1>4, <2>7
    <3>2. Len(c) <= Len(a) /\ Len(g) = Len(x) /\ Len(c) = Len(x) + 1
      BY <1>1, <1>2, <2>4, <2>7, <3>1
    <3>3. ASSUME NEW i \in 1 .. Len(c) PROVE a[i] = c[i]
      <4>1. i \in 1 .. Len(x) \/ i = Len(x) + 1
        BY <1>1, <3>2
      <4>2. CASE i \in 1 .. Len(x)
        BY <1>2, <2>3, <2>7, <4>2
      <4>3. CASE i = Len(x) + 1
        <5>1. 1 \in 1 .. Len(p)
          BY <1>2, <3>1
        <5>2. a[Len(x) + 1] = p[1]
          BY <1>2, <5>1
        <5>3. QED
          BY <2>4, <3>1, <3>2, <4>3, <5>2
      <4>4. QED
        BY <4>1, <4>2, <4>3
    <3>4. QED
      BY <2>5, <3>2, <3>3
  <2>8. QED
    BY <2>6, <2>7 DEF c
<1> DEFINE bare == {host \in LoopbackHost : host = a}
           marked == {h \in LoopbackHost : IsPrefix(h \o <<":">>, a)}
           behind(host) == {host \o port : port \in parse_port(SubSeq(a, Len(host) + 2, Len(a)), 80)}
<1>8. loopback_authority(a) = bare \cup UNION {behind(host) : host \in marked}
  BY DEF loopback_authority
<1>9. CASE p = << >>
  <2>1. bare = {x} /\ marked = {}
    BY <1>6, <1>7, <1>9
  <2> HIDE DEF bare, marked, behind
  <2>2. loopback_authority(a) = {x}
    BY <1>8, <2>1
  <2>3. ports(p, 80) = {<< >>}
    BY <1>9 DEF ports
  <2>4. x \o << >> = x
    BY <1>1, ConcatEmptySeq DEF Text
  <2>5. {x \o y : y \in {<< >>}} = {x \o << >>}
    OBVIOUS
  <2>6. QED
    BY <2>2, <2>3, <2>4, <2>5 DEF a
<1>10. CASE p # << >>
  <2>1. bare = {} /\ marked = {x}
    BY <1>6, <1>7, <1>10
  <2>2. behind(x) = {x \o y : y \in ports(p, 80)}
    BY <1>4, <1>10 DEF ports
  <2> HIDE DEF bare, marked, behind
  <2>3. UNION {behind(host) : host \in {x}} = behind(x)
    OBVIOUS
  <2>4. loopback_authority(a) = behind(x)
    BY <1>8, <2>1, <2>3
  <2>5. QED
    BY <2>2, <2>4 DEF a
<1>11. QED
  BY <1>9, <1>10

\* what a local authority was put together from
LEMMA LoopbackParts ==
  ASSUME NEW auth \in Text, NEW a, a \in loopback_authority(auth)
  PROVE  \E x \in LoopbackHost, p \in Text : (p = << >> \/ p[1] = ":") /\ auth = x \o p
<1> DEFINE bare == {host \in LoopbackHost : host = auth}
           marked == {h \in LoopbackHost : IsPrefix(h \o <<":">>, auth)}
           behind(host) == {host \o port : port \in parse_port(SubSeq(auth, Len(host) + 2, Len(auth)), 80)}
<1>1. loopback_authority(auth) = bare \cup UNION {behind(host) : host \in marked}
  BY DEF loopback_authority
<1>2. CASE a \in bare
  <2>1. auth \in LoopbackHost /\ auth \o << >> = auth
    BY <1>2, ConcatEmptySeq DEF Text
  <2>2. QED
    BY <2>1, TextIs
<1>3. CASE a \notin bare
  <2>1. PICK x \in marked : TRUE
    <3> HIDE DEF bare, marked, behind
    <3>1. QED
      BY <1>1, <1>3
  <2>2. x \in LoopbackHost /\ IsPrefix(x \o <<":">>, auth)
    BY <2>1
  <2>3. x \in Text /\ Len(x) \in Nat \ {0} /\ Len(auth) \in Nat
    BY <2>2, LoopbackHostIs, LenProperties DEF Text
  <2> HIDE DEF bare, marked, behind
  <2> DEFINE c == x \o <<":">>
  <2>4. <<":">> \in Text /\ Len(<<":">>) = 1 /\ <<":">>[1] = ":"
    BY Literals, SingleIs
  <2>5. /\ c \in Text /\ Len(c) = Len(x) + Len(<<":">>)
        /\ (\A i \in 1 .. Len(x) : c[i] = x[i]) /\ \A i \in 1 .. Len(<<":">>) : c[Len(x) + i] = <<":">>[i]
    BY <2>3, <2>4, TextJoined
  <2>6. IsPrefix(c, auth)
    BY <2>2
  <2> HIDE DEF c
  <2>7. Len(c) = Len(x) + 1 /\ c[Len(x) + 1] = ":"
    <3>1. 1 \in 1 .. Len(<<":">>)
      BY <2>4
    <3>2. c[Len(x) + 1] = <<":">>[1]
      BY <2>5, <3>1
    <3>3. QED
      BY <2>4, <2>5, <3>2
  <2>8. Len(c) <= Len(auth) /\ \A i \in 1 .. Len(c) : auth[i] = c[i]
    BY <2>5, <2>6, BeginsWith DEF Text
  <2> DEFINE k == Len(x) + 1
             h == SubSeq(auth, 1, k - 1)
             p == SubSeq(auth, k, Len(auth))
  <2>9. k \in 1 .. Len(auth) + 1 /\ k <= Len(auth) /\ k - 1 = Len(x) /\ k \in 1 .. Len(c)
    BY <2>3, <2>7, <2>8
  <2>10. /\ h \in Text /\ p \in Text /\ auth = h \o p
         /\ Len(h) = k - 1 /\ (\A i \in 1 .. k - 1 : h[i] = auth[i])
         /\ k <= Len(auth) => p[1] = auth[k]
    BY <2>9, CutHere
  <2>11. p[1] = ":"
    BY <2>7, <2>8, <2>9, <2>10
  <2> HIDE DEF h, p
  <2>12. h = x
    <3>1. Len(h) = Len(x)
      BY <2>9, <2>10
    <3>2. ASSUME NEW i \in 1 .. Len(x) PROVE h[i] = x[i]
      <4>1. i \in 1 .. k - 1 /\ i \in 1 .. Len(c)
        BY <2>3, <2>7, <2>9
      <4>2. QED
        BY <2>5, <2>8, <2>10, <4>1
    <3>3. QED
      BY <2>3, <2>10, <3>1, <3>2, SeqEqual DEF Text
  <2>13. QED
    BY <2>2, <2>10, <2>11, <2>12
<1>4. QED
  BY <1>2, <1>3

\* a local authority is normal when it was normalized, and is the same authority
LEMMA LoopbackForm ==
  ASSUME NEW auth \in Text, NEW a, a \in loopback_authority(auth)
  PROVE  /\ a \in Text /\ Fenced(a) /\ loopback_authority(a) = {a}
         /\ Read(host_of(a)) = Read(host_of(auth)) /\ port_of(a, 80) = port_of(auth, 80)
<1>1. PICK x \in LoopbackHost, p \in Text : (p = << >> \/ p[1] = ":") /\ auth = x \o p
  BY LoopbackParts
<1>2. loopback_authority(auth) = {x \o z : z \in ports(p, 80)}
  BY <1>1, LoopbackParse
<1>3. PICK y \in ports(p, 80) : a = x \o y
  BY <1>2
<1>4. PortText(p) /\ PortText(y) /\ ports(y, 80) = {y} /\ port_number(y, 80) = port_number(p, 80)
  BY <1>1, PortKept
<1>5. x \in Text /\ Fenced(x) /\ HostShape(x)
  BY LoopbackHostIs
<1>6. y \in Text /\ Fenced(y) /\ (y = << >> \/ y[1] = ":")
  <2>1. y \in Text /\ Fenced(y)
    BY <1>4, PortTextIs, PortFenced
  <2>2. y = << >> \/ y[1] = ":"
    BY <1>4, Zenon DEF PortText
  <2>3. QED
    BY <2>1, <2>2
<1>7. a \in Text /\ Fenced(a)
  BY <1>3, <1>5, <1>6, FencedJoined
<1>8. loopback_authority(a) = {a}
  <2>1. loopback_authority(x \o y) = {x \o z : z \in ports(y, 80)}
    BY <1>6, LoopbackParse
  <2>2. {x \o z : z \in {y}} = {x \o y}
    OBVIOUS
  <2>3. QED
    BY <1>3, <1>4, <2>1, <2>2
<1>9. host_of(a) = x /\ port_of(a, 80) = port_number(y, 80)
  BY <1>3, <1>4, <1>5, PortsBehind
<1>10. host_of(auth) = x /\ port_of(auth, 80) = port_number(p, 80)
  BY <1>1, <1>4, <1>5, PortsBehind
<1>11. QED
  BY <1>4, <1>7, <1>8, <1>9, <1>10

(***************************************************************************)
(* Targets: a scheme, an authority and a path.                             *)
(***************************************************************************)

\* a form, from its parts
written(s, a, p) == <<s>> \o a \o p

\* a target that either function reads at all
Readable(text) ==
  text # << >> /\ ~ (uri_len(text) > UriBytes) /\ Range(text) \cap {"?", "#"} = {}

\* a form is written from an authority and a path
LEMMA SecureFormIs ==
  ASSUME NEW text, NEW e
  PROVE  e \in uri_normalize(text) <=>
           /\ Readable(text) /\ text[1] \in SecureScheme /\ uri_len(e) <= UriBytes
           /\ \E a \in parse_authority(authority_of(Tail(text))) :
                \E p \in normalize_path(path_of(Tail(text))) : e = written("https://", a, p)
<1> DEFINE A == parse_authority(authority_of(Tail(text)))
           P == normalize_path(path_of(Tail(text)))
           whole == {<<"https://">> \o authority \o path : authority \in A, path \in P}
           refused == text = << >> \/ uri_len(text) > UriBytes \/ Range(text) \cap {"?", "#"} # {}
<1>1. uri_normalize(text) = IF refused THEN {} ELSE IF text[1] \notin SecureScheme THEN {} ELSE within(whole)
  BY DEF uri_normalize
<1> HIDE DEF A, P
<1>2. e \in whole <=> \E a \in A : \E p \in P : e = written("https://", a, p)
  <2>1. ASSUME e \in whole PROVE \E a \in A : \E p \in P : e = written("https://", a, p)
    <3>1. PICK authority \in A, path \in P : e = <<"https://">> \o authority \o path
      BY <2>1
    <3>2. e = written("https://", authority, path)
      BY <3>1 DEF written
    <3> HIDE DEF whole
    <3>3. QED
      BY <3>2, Zenon
  <2>2. ASSUME NEW a \in A, NEW p \in P PROVE written("https://", a, p) \in whole
    BY DEF written
  <2> HIDE DEF whole
  <2>3. QED
    BY <2>1, <2>2, Zenon
<1> HIDE DEF whole
<1>3. e \in within(whole) <=> e \in whole /\ uri_len(e) <= UriBytes
  BY DEF within
<1>4. refused <=> ~ Readable(text)
  BY DEF Readable
<1> HIDE DEF refused
<1>5. e \in uri_normalize(text) <=>
        /\ Readable(text) /\ text[1] \in SecureScheme /\ uri_len(e) <= UriBytes
        /\ \E a \in A : \E p \in P : e = written("https://", a, p)
  BY <1>1, <1>2, <1>3, <1>4
<1>6. QED
  BY <1>5 DEF A, P

\* so is one of the local profile
LEMMA LocalFormIs ==
  ASSUME NEW text, NEW e
  PROVE  e \in local_loopback_http_uri_normalize(text) <=>
           /\ Readable(text) /\ text[1] \in PlainScheme /\ uri_len(e) <= UriBytes
           /\ \E a \in loopback_authority(authority_of(Tail(text))) :
                \E p \in normalize_path(path_of(Tail(text))) : e = written("http://", a, p)
<1> DEFINE A == loopback_authority(authority_of(Tail(text)))
           P == normalize_path(path_of(Tail(text)))
           whole == {<<"http://">> \o authority \o path : authority \in A, path \in P}
           refused == text = << >> \/ uri_len(text) > UriBytes \/ Range(text) \cap {"?", "#"} # {}
<1>1. local_loopback_http_uri_normalize(text)
        = IF refused THEN {} ELSE IF text[1] \notin PlainScheme THEN {} ELSE within(whole)
  BY DEF local_loopback_http_uri_normalize
<1> HIDE DEF A, P
<1>2. e \in whole <=> \E a \in A : \E p \in P : e = written("http://", a, p)
  <2>1. ASSUME e \in whole PROVE \E a \in A : \E p \in P : e = written("http://", a, p)
    <3>1. PICK authority \in A, path \in P : e = <<"http://">> \o authority \o path
      BY <2>1
    <3>2. e = written("http://", authority, path)
      BY <3>1 DEF written
    <3> HIDE DEF whole
    <3>3. QED
      BY <3>2, Zenon
  <2>2. ASSUME NEW a \in A, NEW p \in P PROVE written("http://", a, p) \in whole
    BY DEF written
  <2> HIDE DEF whole
  <2>3. QED
    BY <2>1, <2>2, Zenon
<1> HIDE DEF whole
<1>3. e \in within(whole) <=> e \in whole /\ uri_len(e) <= UriBytes
  BY DEF within
<1>4. refused <=> ~ Readable(text)
  BY DEF Readable
<1> HIDE DEF refused
<1>5. e \in local_loopback_http_uri_normalize(text) <=>
        /\ Readable(text) /\ text[1] \in PlainScheme /\ uri_len(e) <= UriBytes
        /\ \E a \in A : \E p \in P : e = written("http://", a, p)
  BY <1>1, <1>2, <1>3, <1>4
<1>6. QED
  BY <1>5 DEF A, P

\* plain characters end no path
LEMMA PlainPath ==
  ASSUME NEW p \in Seq(PlainChar)
  PROVE  p \in Text /\ \A i \in 1 .. Len(p) : p[i] \notin {"?", "#"}
<1>1. PlainChar \subseteq Character /\ PlainChar \subseteq PathChar
  BY PlainIs
<1>2. PathChar \cap {"?", "#"} = {}
  BY DecimalDigitIs, EscapeIs DEF PathChar, Unreserved, HexDigit, SubDelim
<1>3. p \in Text
  BY <1>1, SeqMonotonic DEF Text
<1>4. \A i \in 1 .. Len(p) : p[i] \in PlainChar
  BY ElementOfSeq
<1>5. QED
  BY <1>1, <1>2, <1>3, <1>4

\* a form is read as the scheme, the authority and the path it is written from
LEMMA FormParts ==
  ASSUME NEW s \in Character, s \notin {"?", "#"}, NEW a \in Text, Fenced(a),
         NEW p \in Seq(PlainChar), p # << >>, p[1] = "/"
  PROVE  LET f == written(s, a, p)
         IN  /\ f \in Text /\ f # << >> /\ f[1] = s
             /\ authority_of(Tail(f)) = a /\ path_of(Tail(f)) = p
             /\ Range(f) \cap {"?", "#"} = {}
<1> DEFINE f == written(s, a, p)
           t == a \o p
<1>1. p \in Text /\ \A i \in 1 .. Len(p) : p[i] \notin {"?", "#"}
  BY PlainPath
<1>2. /\ t \in Text /\ Len(a) \in Nat /\ Len(p) \in Nat /\ Len(t) = Len(a) + Len(p)
      /\ (\A i \in 1 .. Len(a) : t[i] = a[i]) /\ \A i \in 1 .. Len(p) : t[Len(a) + i] = p[i]
  BY <1>1, TextJoined
<1>3. <<s>> \in Text /\ Len(<<s>>) = 1 /\ <<s>>[1] = s
  BY SingleIs
<1>4. f = <<s>> \o t
  <2>1. (<<s>> \o a) \o p = <<s>> \o (a \o p)
    BY <1>1, <1>3, ConcatAssociative DEF Text
  <2>2. QED
    BY <2>1 DEF written
<1>5. authority_of(t) = a /\ path_of(t) = p
  <2>1. Clean(a)
    BY DEF Fenced, Clean
  <2>2. Onward(p)
    BY DEF Onward
  <2>3. QED
    BY <1>1, <2>1, <2>2, RestJoined
<1> HIDE DEF f, t
<1>6. Tail(f) = t /\ f[1] = s /\ f # << >> /\ f \in Text
  BY <1>2, <1>4, TailJoined
<1>7. ASSUME NEW i \in 1 .. Len(t) PROVE t[i] \notin {"?", "#"}
  <2>1. i \in 1 .. Len(a) \/ (i - Len(a) \in 1 .. Len(p) /\ Len(a) + (i - Len(a)) = i)
    BY <1>2
  <2>2. CASE i \in 1 .. Len(a)
    <3>1. t[i] = a[i]
      BY <1>2, <2>2
    <3>2. QED
      BY <2>2, <3>1 DEF Fenced
  <2>3. CASE i - Len(a) \in 1 .. Len(p) /\ Len(a) + (i - Len(a)) = i
    <3>1. t[i] = p[i - Len(a)]
      BY <1>2, <2>3
    <3>2. QED
      BY <1>1, <2>3, <3>1
  <2>4. QED
    BY <2>1, <2>2, <2>3
<1>8. /\ Len(f) = Len(<<s>>) + Len(t) /\ Len(t) \in Nat
      /\ (\A i \in 1 .. Len(t) : f[Len(<<s>>) + i] = t[i])
  BY <1>2, <1>3, <1>4, TextJoined
<1>9. \A i \in 1 .. Len(f) : f[i] \notin {"?", "#"}
  <2> SUFFICES ASSUME NEW i \in 1 .. Len(f) PROVE f[i] \notin {"?", "#"}
    OBVIOUS
  <2>1. i = 1 \/ (i - 1 \in 1 .. Len(t) /\ 1 + (i - 1) = i)
    BY <1>3, <1>8
  <2>2. CASE i = 1
    BY <1>6, <2>2
  <2>3. CASE i - 1 \in 1 .. Len(t) /\ 1 + (i - 1) = i
    <3>1. f[i] = t[i - 1]
      BY <1>3, <1>8, <2>3
    <3>2. QED
      BY <1>7, <2>3, <3>1
  <2>4. QED
    BY <2>1, <2>2, <2>3
<1>10. Range(f) \cap {"?", "#"} = {}
  <2> HIDE DEF f
  <2>1. Range(f) \cap {"?", "#"} = {} <=> \A i \in 1 .. Len(f) : f[i] \notin {"?", "#"}
    <3>1. \A T : Range(f) \cap T = {} <=> \A i \in 1 .. Len(f) : f[i] \notin T
      BY <1>6, TextIn, Zenon
    <3>2. QED
      BY <3>1, Zenon
  <2>2. QED
    BY <1>9, <2>1
<1>11. QED
  BY <1>5, <1>6, <1>10 DEF f

\* a target that is read is a scheme, an authority and a path
LEMMA TargetParts ==
  ASSUME NEW text \in Text, Readable(text)
  PROVE  /\ Tail(text) \in Text /\ authority_of(Tail(text)) \in Text
         /\ path_of(Tail(text)) \in Text
         /\ path_of(Tail(text)) = << >> \/ path_of(Tail(text))[1] = "/"
<1>1. text # << >>
  BY DEF Readable
<1>2. Tail(text) \in Text
  BY <1>1, HeadTailProperties DEF Text
<1>3. QED
  BY <1>2, RestParts DEF Onward

\* the schemes are two
LEMMA SchemesAre ==
  /\ "https://" \in SecureScheme /\ "http://" \in PlainScheme
  /\ SecureScheme \cap PlainScheme = {}
  /\ "https://" \in Character /\ "http://" \in Character
  /\ "https://" \notin {"?", "#"} /\ "http://" \notin {"?", "#"}
BY Literals DEF SecureScheme, PlainScheme

\* a form is short enough, and has no query
LEMMA FormReadable ==
  ASSUME NEW f \in Text, f # << >>, Range(f) \cap {"?", "#"} = {}, uri_len(f) <= UriBytes
  PROVE  Readable(f)
<1>1. uri_len(f) \in Nat /\ UriBytes \in Nat
  BY LengthOfText, UriAssumption
<1>2. ~ (uri_len(f) > UriBytes)
  BY <1>1
<1>3. QED
  BY <1>2 DEF Readable

\* two targets of one profile that have the same parts name the same
LEMMA SameName ==
  ASSUME NEW f, NEW text,
         LET a == authority_of(Tail(f))
             b == authority_of(Tail(text))
             default == IF f[1] \in PlainScheme THEN 80 ELSE 443
         IN  /\ f[1] \in PlainScheme <=> text[1] \in PlainScheme
             /\ Read(host_of(a)) = Read(host_of(b)) /\ port_of(a, default) = port_of(b, default)
             /\ resolved(path_of(Tail(f))) = resolved(path_of(Tail(text)))
  PROVE  named(f) = named(text)
<1> DEFINE a == authority_of(Tail(f))
           b == authority_of(Tail(text))
           d == IF f[1] \in PlainScheme THEN 80 ELSE 443
           e == IF text[1] \in PlainScheme THEN 80 ELSE 443
<1>1. named(f) = [host |-> Read(host_of(a)), port |-> port_of(a, d), path |-> resolved(path_of(Tail(f)))]
  BY NamedIs
<1>2. named(text) = [host |-> Read(host_of(b)), port |-> port_of(b, e), path |-> resolved(path_of(Tail(text)))]
  BY NamedIs
<1>3. d = e
  OBVIOUS
<1> HIDE DEF a, b, d, e
<1>4. Read(host_of(a)) = Read(host_of(b)) /\ port_of(a, d) = port_of(b, d)
      /\ resolved(path_of(Tail(f))) = resolved(path_of(Tail(text)))
  BY DEF a, b, d
<1>5. QED
  BY <1>1, <1>2, <1>3, <1>4

\* a form is its own form, and names what the target names
LEMMA SecureForm ==
  ASSUME NEW text \in Text, NEW f, f \in uri_normalize(text)
  PROVE  /\ uri_normalize(f) = {f} \/ (EscapedAddress(text) /\ uri_normalize(f) = {})
         /\ named(f) = named(text)
<1> DEFINE auth == authority_of(Tail(text))
           path == path_of(Tail(text))
<1>1. /\ Readable(text) /\ text[1] \in SecureScheme /\ uri_len(f) <= UriBytes
      /\ \E a \in parse_authority(auth) : \E p \in normalize_path(path) : f = written("https://", a, p)
  BY SecureFormIs
<1>2. PICK a \in parse_authority(auth), p \in normalize_path(path) : f = written("https://", a, p)
  BY <1>1
<1>3. auth \in Text /\ path \in Text /\ (path = << >> \/ path[1] = "/")
  BY <1>1, TargetParts
<1>4. EscapedHost(auth) <=> EscapedAddress(text)
  BY Zenon DEF EscapedHost, EscapedAddress, Read, read
<1> HIDE DEF auth, path
<1>5. /\ a \in Text /\ Fenced(a)
      /\ \/ parse_authority(a) = {a}
         \/ EscapedHost(auth) /\ parse_authority(a) = {}
      /\ Read(host_of(a)) = Read(host_of(auth)) /\ port_of(a, 443) = port_of(auth, 443)
  BY <1>3, AuthorityForm
<1>6. /\ p \in Seq(PlainChar) /\ p # << >> /\ p[1] = "/"
      /\ normalize_path(p) = {p} /\ resolved(p) = resolved(path)
  BY <1>3, PathForm
<1>7. /\ f \in Text /\ f # << >> /\ f[1] = "https://"
      /\ authority_of(Tail(f)) = a /\ path_of(Tail(f)) = p /\ Range(f) \cap {"?", "#"} = {}
  BY <1>2, <1>5, <1>6, SchemesAre, FormParts
<1>8. Readable(f)
  BY <1>1, <1>7, FormReadable
<1>9. \A e : e \in uri_normalize(f) <=>
        uri_len(e) <= UriBytes /\ \E b \in parse_authority(a) : e = written("https://", b, p)
  <2> SUFFICES ASSUME NEW e
               PROVE  e \in uri_normalize(f) <=>
                        uri_len(e) <= UriBytes /\ \E b \in parse_authority(a) : e = written("https://", b, p)
    OBVIOUS
  <2>1. e \in uri_normalize(f) <=>
          /\ Readable(f) /\ f[1] \in SecureScheme /\ uri_len(e) <= UriBytes
          /\ \E b \in parse_authority(authority_of(Tail(f))) :
               \E q \in normalize_path(path_of(Tail(f))) : e = written("https://", b, q)
    BY SecureFormIs
  <2>2. f[1] \in SecureScheme
    BY <1>7, SchemesAre
  <2>3. e \in uri_normalize(f) <=>
          uri_len(e) <= UriBytes /\ \E b \in parse_authority(a) : \E q \in {p} : e = written("https://", b, q)
    BY <1>6, <1>7, <1>8, <2>1, <2>2, Zenon
  <2>4. QED
    BY <2>3, Zenon
<1>10. uri_normalize(f) = {f} \/ (EscapedAddress(text) /\ uri_normalize(f) = {})
  <2>1. CASE parse_authority(a) = {a}
    <3>1. \A e : e \in uri_normalize(f) <=> e = f
      BY <1>1, <1>2, <1>9, <2>1
    <3>2. QED
      BY <3>1
  <2>2. CASE EscapedHost(auth) /\ parse_authority(a) = {}
    <3>1. \A e : e \notin uri_normalize(f)
      BY <1>9, <2>2
    <3>2. QED
      BY <1>4, <2>2, <3>1
  <2>3. QED
    BY <1>5, <2>1, <2>2
<1>11. named(f) = named(text)
  <2>1. f[1] \notin PlainScheme /\ text[1] \notin PlainScheme
    BY <1>1, <1>7, SchemesAre
  <2>2. Read(host_of(authority_of(Tail(f)))) = Read(host_of(authority_of(Tail(text))))
    BY <1>5, <1>7 DEF auth
  <2>3. port_of(authority_of(Tail(f)), 443) = port_of(authority_of(Tail(text)), 443)
    BY <1>5, <1>7 DEF auth
  <2>4. resolved(path_of(Tail(f))) = resolved(path_of(Tail(text)))
    BY <1>6, <1>7 DEF path
  <2>5. QED
    BY <2>1, <2>2, <2>3, <2>4, SameName
<1>12. QED
  BY <1>10, <1>11

\* so is a form of the local profile, without exception
LEMMA LocalForm ==
  ASSUME NEW text \in Text, NEW f, f \in local_loopback_http_uri_normalize(text)
  PROVE  local_loopback_http_uri_normalize(f) = {f} /\ named(f) = named(text)
<1> DEFINE auth == authority_of(Tail(text))
           path == path_of(Tail(text))
<1>1. /\ Readable(text) /\ text[1] \in PlainScheme /\ uri_len(f) <= UriBytes
      /\ \E a \in loopback_authority(auth) : \E p \in normalize_path(path) : f = written("http://", a, p)
  BY LocalFormIs
<1>2. PICK a \in loopback_authority(auth), p \in normalize_path(path) : f = written("http://", a, p)
  BY <1>1
<1>3. auth \in Text /\ path \in Text /\ (path = << >> \/ path[1] = "/")
  BY <1>1, TargetParts
<1> HIDE DEF auth, path
<1>4. /\ a \in Text /\ Fenced(a) /\ loopback_authority(a) = {a}
      /\ Read(host_of(a)) = Read(host_of(auth)) /\ port_of(a, 80) = port_of(auth, 80)
  BY <1>3, LoopbackForm
<1>5. /\ p \in Seq(PlainChar) /\ p # << >> /\ p[1] = "/"
      /\ normalize_path(p) = {p} /\ resolved(p) = resolved(path)
  BY <1>3, PathForm
<1>6. /\ f \in Text /\ f # << >> /\ f[1] = "http://"
      /\ authority_of(Tail(f)) = a /\ path_of(Tail(f)) = p /\ Range(f) \cap {"?", "#"} = {}
  BY <1>2, <1>4, <1>5, SchemesAre, FormParts
<1>7. Readable(f) /\ f[1] \in PlainScheme
  BY <1>1, <1>6, SchemesAre, FormReadable
<1>8. \A e : e \in local_loopback_http_uri_normalize(f) <=> e = f
  <2> SUFFICES ASSUME NEW e PROVE e \in local_loopback_http_uri_normalize(f) <=> e = f
    OBVIOUS
  <2>1. e \in local_loopback_http_uri_normalize(f) <=>
          /\ Readable(f) /\ f[1] \in PlainScheme /\ uri_len(e) <= UriBytes
          /\ \E b \in loopback_authority(authority_of(Tail(f))) :
               \E q \in normalize_path(path_of(Tail(f))) : e = written("http://", b, q)
    BY LocalFormIs
  <2>2. e \in local_loopback_http_uri_normalize(f) <=>
          uri_len(e) <= UriBytes /\ \E b \in {a} : \E q \in {p} : e = written("http://", b, q)
    BY <1>4, <1>5, <1>6, <1>7, <2>1, Zenon
  <2>3. QED
    BY <1>1, <1>2, <2>2, Zenon
<1>9. local_loopback_http_uri_normalize(f) = {f}
  BY <1>8
<1>10. named(f) = named(text)
  <2>1. f[1] \in PlainScheme /\ text[1] \in PlainScheme
    BY <1>1, <1>7
  <2>2. Read(host_of(authority_of(Tail(f)))) = Read(host_of(authority_of(Tail(text))))
    BY <1>4, <1>6 DEF auth
  <2>3. port_of(authority_of(Tail(f)), 80) = port_of(authority_of(Tail(text)), 80)
    BY <1>4, <1>6 DEF auth
  <2>4. resolved(path_of(Tail(f))) = resolved(path_of(Tail(text)))
    BY <1>5, <1>6 DEF path
  <2>5. QED
    BY <2>1, <2>2, <2>3, <2>4, SameName
<1>11. QED
  BY <1>9, <1>10

\* targets: a target has one normal form, which is its own and names what the
\* target names, and no target has one in both profiles.
THEOREM TargetsAreOne == CodecsSpec => []OneTarget
<1>1. Answered(task, answer) => OneTarget
  <2> SUFFICES ASSUME Answered(task, answer) PROVE OneTarget
    OBVIOUS
  <2> DEFINE Of == task.of \in {"uri_normalize", "local_loopback_http_uri_normalize"}
  <2>1. ASSUME Of
        PROVE  \E s \in TargetText :
                 \/ /\ task = [of |-> "uri_normalize", text |-> s]
                    /\ answer = [forms |-> uri_normalize(s)]
                 \/ /\ task = [of |-> "local_loopback_http_uri_normalize", text |-> s]
                    /\ answer = [forms |-> local_loopback_http_uri_normalize(s)]
    BY <2>1 DEF Answered, SignatureAnswered, TextAnswered
  <2>2. Of => task.text \in Text
    <3> SUFFICES ASSUME Of PROVE task.text \in Text
      OBVIOUS
    <3>1. task.text \in TargetText
      BY <2>1
    <3>2. QED
      BY <3>1, CodecAssumption, StringsAreText
  <2>3. /\ task.of = "uri_normalize" => answer.forms = uri_normalize(task.text)
        /\ task.of = "local_loopback_http_uri_normalize" => answer.forms = local_loopback_http_uri_normalize(task.text)
    BY <2>1
  <2>4. FormStable
    <3>1. ASSUME task.of = "uri_normalize", NEW form \in answer.forms
          PROVE  uri_normalize(form) = {form} \/ (EscapedAddress(task.text) /\ uri_normalize(form) = {})
      <4>1. task.text \in Text /\ form \in uri_normalize(task.text)
        BY <2>2, <2>3, <3>1
      <4>2. QED
        BY <4>1, SecureForm
    <3>2. ASSUME task.of = "local_loopback_http_uri_normalize", NEW form \in answer.forms
          PROVE  local_loopback_http_uri_normalize(form) = {form}
      <4>1. task.text \in Text /\ form \in local_loopback_http_uri_normalize(task.text)
        BY <2>2, <2>3, <3>2
      <4>2. QED
        BY <4>1, LocalForm
    <3>3. QED
      BY <3>1, <3>2, Zenon DEF FormStable
  <2>5. FormNamesTarget
    <3>1. ASSUME Of, NEW form \in answer.forms PROVE named(form) = named(task.text)
      <4>1. CASE task.of = "uri_normalize"
        <5>1. task.text \in Text /\ form \in uri_normalize(task.text)
          BY <2>2, <2>3, <3>1, <4>1
        <5>2. QED
          BY <5>1, SecureForm
      <4>2. CASE task.of = "local_loopback_http_uri_normalize"
        <5>1. task.text \in Text /\ form \in local_loopback_http_uri_normalize(task.text)
          BY <2>2, <2>3, <3>1, <4>2
        <5>2. QED
          BY <5>1, LocalForm
      <4>3. QED
        BY <3>1, <4>1, <4>2
    <3>2. QED
      BY <3>1, Zenon DEF FormNamesTarget
  <2>6. uri_normalize(task.text) = {} \/ local_loopback_http_uri_normalize(task.text) = {}
    <3> SUFFICES ASSUME NEW e \in uri_normalize(task.text), NEW g \in local_loopback_http_uri_normalize(task.text)
                 PROVE  FALSE
      OBVIOUS
    <3>1. task.text[1] \in SecureScheme /\ task.text[1] \in PlainScheme
      BY SecureFormIs, LocalFormIs, Zenon
    <3>2. QED
      BY <3>1, SchemesAre
  <2>7. QED
    BY <2>4, <2>5, <2>6, Zenon DEF OneTarget
<1>2. QED
  BY <1>1, AnswersAreReturned, PTL

-----------------------------------------------------------------------------
(***************************************************************************)
(* Identifiers: the two validators and the grammar of RFC 3986.            *)
(***************************************************************************)

LEMMA AfterUserinfo ==
  ASSUME NEW s \in Text, NEW at \in 0 .. Len(s)
  PROVE  /\ text_from(s, at + 1) \in Text /\ Len(text_from(s, at + 1)) = Len(s) - at
         /\ \A i \in 1 .. Len(s) - at : text_from(s, at + 1)[i] = s[at + i]
<1>1. Len(s) \in Nat
  BY LenProperties DEF Text
<1>2. at + 1 \in Nat \ {0} /\ at + 1 <= Len(s) + 1 /\ Len(s) - (at + 1) + 1 = Len(s) - at
      /\ \A i \in 1 .. Len(s) - at : at + 1 + i - 1 = at + i
  BY <1>1
<1>3. /\ text_from(s, at + 1) \in Text /\ Len(text_from(s, at + 1)) = Len(s) - (at + 1) + 1
      /\ \A i \in 1 .. Len(s) - (at + 1) + 1 : text_from(s, at + 1)[i] = s[at + 1 + i - 1]
  BY <1>2, TailOf
<1>4. QED
  BY <1>2, <1>3

-----------------------------------------------------------------------------
(***************************************************************************)
(* Addresses of version 4.                                                 *)
(***************************************************************************)

\* what each digit counts
LEMMA DigitValues ==
  /\ digit("0") = 0 /\ digit("1") = 1 /\ digit("2") = 2 /\ digit("3") = 3 /\ digit("4") = 4
  /\ digit("5") = 5 /\ digit("6") = 6 /\ digit("7") = 7 /\ digit("8") = 8 /\ digit("9") = 9
<1>1. /\ Digits \in Text /\ Len(Digits) = 10
      /\ \A i, j \in 1 .. 10 : Digits[i] = Digits[j] => i = j
  <2>1. Digits \in Text /\ Len(Digits) = 10
    <3>1. Digits \in Seq({"0", "1", "2", "3", "4", "5", "6", "7", "8", "9"})
      BY DEF Digits
    <3>2. Len(Digits) = 10
      BY DEF Digits
    <3>3. QED
      BY <3>1, <3>2, DecimalDigitIs, DigitsAreText
  <2>2. 1 .. 10 = {1, 2, 3, 4, 5, 6, 7, 8, 9, 10}
    OBVIOUS
  <2>3. \A i, j \in {1, 2, 3, 4, 5, 6, 7, 8, 9, 10} : Digits[i] = Digits[j] => i = j
    BY DEF Digits
  <2>4. QED
    BY <2>1, <2>2, <2>3
<1>2. ASSUME NEW i \in 1 .. 10 PROVE digit(Digits[i]) = i - 1
  <2> DEFINE q == position(Digits, Digits[i])
  <2>1. /\ q \in 1 .. Len(Digits) + 1
        /\ \A j \in 1 .. q - 1 : Digits[j] # Digits[i]
        /\ q <= Len(Digits) => Digits[q] = Digits[i]
    BY <1>1, PositionIs
  <2> HIDE DEF q
  <2>2. q <= i
    <3>1. ~ (q <= i) => i \in 1 .. q - 1
      BY <2>1
    <3>2. QED
      BY <2>1, <3>1
  <2>3. q \in 1 .. 10 /\ Digits[q] = Digits[i]
    BY <1>1, <2>1, <2>2
  <2>4. q = i
    BY <1>1, <2>3
  <2>5. QED
    BY <2>4 DEF digit, q
<1>3. /\ Digits[1] = "0" /\ Digits[2] = "1" /\ Digits[3] = "2" /\ Digits[4] = "3" /\ Digits[5] = "4"
      /\ Digits[6] = "5" /\ Digits[7] = "6" /\ Digits[8] = "7" /\ Digits[9] = "8" /\ Digits[10] = "9"
  BY DEF Digits
<1>4. /\ digit(Digits[1]) = 0 /\ digit(Digits[2]) = 1 /\ digit(Digits[3]) = 2 /\ digit(Digits[4]) = 3
      /\ digit(Digits[5]) = 4 /\ digit(Digits[6]) = 5 /\ digit(Digits[7]) = 6 /\ digit(Digits[8]) = 7
      /\ digit(Digits[9]) = 8 /\ digit(Digits[10]) = 9
  BY <1>2
<1>5. QED
  BY <1>3, <1>4

\* a number of up to three digits that is at most 255 is an octet of the grammar
LEMMA OctetIs ==
  ASSUME NEW d \in Text
  PROVE  IsOctet(d) <=> all_digits(d) /\ is_dec_octet(d)
<1> DEFINE n == Len(d)
<1>1. n \in Nat /\ (d = << >> <=> n = 0)
  BY LenProperties, EmptySeq DEF Text
<1>2. Range(d) \subseteq DecimalDigit <=> \A i \in 1 .. n : d[i] \in DecimalDigit
  BY TextIn
<1>3. PICK R : /\ R[0] = 0
               /\ \A i \in 1 .. n : R[i] = 10 * R[i - 1] + digit(d[i])
               /\ decimal(d) = R[n]
  BY DecimalIs
<1> HIDE DEF n
<1>4. all_digits(d) /\ is_dec_octet(d) <=>
        n # 0 /\ Range(d) \subseteq DecimalDigit /\ n <= 3 /\ (d[1] = "0" => n = 1) /\ R[n] <= 255
  BY <1>1, <1>3 DEF all_digits, is_dec_octet, n
<1>5. IsOctet(d) <=>
        /\ Range(d) \subseteq DecimalDigit
        /\ \/ n = 1
           \/ n = 2 /\ d[1] # "0"
           \/ n = 3 /\ d[1] = "1"
           \/ n = 3 /\ d[1] = "2" /\ d[2] \in {"0", "1", "2", "3", "4"}
           \/ n = 3 /\ d[1] = "2" /\ d[2] = "5" /\ d[3] \in {"0", "1", "2", "3", "4", "5"}
  BY DEF IsOctet, n
<1>6. SUFFICES ASSUME Range(d) \subseteq DecimalDigit, n \in {1, 2, 3}
               PROVE  IsOctet(d) <=> (d[1] = "0" => n = 1) /\ R[n] <= 255
  <2>1. n # 0 /\ n <= 3 <=> n \in {1, 2, 3}
    BY <1>1
  <2>2. QED
    BY <1>4, <1>5, <2>1
<1>7. \A c \in DecimalDigit :
        /\ digit(c) \in 0 .. 9
        /\ (c = "0" => digit(c) = 0) /\ (c = "1" => digit(c) = 1) /\ (c = "2" => digit(c) = 2)
        /\ (c = "5" => digit(c) = 5)
        /\ (c \in {"0", "1", "2", "3", "4"} => digit(c) <= 4)
        /\ (c \in {"0", "1", "2", "3", "4", "5"} => digit(c) <= 5)
        /\ (digit(c) = 0 => c = "0") /\ (digit(c) = 1 => c = "1") /\ (digit(c) = 2 => c = "2")
        /\ (digit(c) = 5 => c = "5")
        /\ (digit(c) <= 4 => c \in {"0", "1", "2", "3", "4"})
        /\ (digit(c) <= 5 => c \in {"0", "1", "2", "3", "4", "5"})
  <2> SUFFICES ASSUME NEW c \in {"0", "1", "2", "3", "4", "5", "6", "7", "8", "9"}
               PROVE  /\ digit(c) \in 0 .. 9
                      /\ (c = "0" => digit(c) = 0) /\ (c = "1" => digit(c) = 1) /\ (c = "2" => digit(c) = 2)
                      /\ (c = "5" => digit(c) = 5)
                      /\ (c \in {"0", "1", "2", "3", "4"} => digit(c) <= 4)
                      /\ (c \in {"0", "1", "2", "3", "4", "5"} => digit(c) <= 5)
                      /\ (digit(c) = 0 => c = "0") /\ (digit(c) = 1 => c = "1") /\ (digit(c) = 2 => c = "2")
                      /\ (digit(c) = 5 => c = "5")
                      /\ (digit(c) <= 4 => c \in {"0", "1", "2", "3", "4"})
                      /\ (digit(c) <= 5 => c \in {"0", "1", "2", "3", "4", "5"})
    BY DecimalDigitIs
  <2>1. QED
    BY DigitValues
<1>8. CASE n = 1
  <2>1. d[1] \in DecimalDigit /\ R[1] = digit(d[1])
    <3>1. 1 \in 1 .. n /\ 1 - 1 = 0
      BY <1>8
    <3>2. d[1] \in DecimalDigit /\ R[1] = 10 * R[0] + digit(d[1])
      BY <1>2, <1>3, <1>6, <3>1
    <3>3. digit(d[1]) \in 0 .. 9
      BY <1>7, <3>2
    <3>4. QED
      BY <1>3, <3>2, <3>3
  <2>2. R[1] <= 255
    <3>1. digit(d[1]) \in 0 .. 9
      BY <1>7, <2>1
    <3>2. QED
      BY <2>1, <3>1
  <2>3. QED
    BY <1>5, <1>6, <1>8, <2>2
<1>9. ASSUME n \in {2, 3}
      PROVE  /\ d[1] \in DecimalDigit /\ d[2] \in DecimalDigit
             /\ R[2] = 10 * digit(d[1]) + digit(d[2])
  <2>1. 1 \in 1 .. n /\ 2 \in 1 .. n /\ 1 - 1 = 0 /\ 2 - 1 = 1
    BY <1>9
  <2>2. d[1] \in DecimalDigit /\ d[2] \in DecimalDigit
    BY <1>2, <1>6, <2>1
  <2>3. R[1] = 10 * R[0] + digit(d[1]) /\ R[2] = 10 * R[1] + digit(d[2])
    BY <1>3, <2>1
  <2>4. digit(d[1]) \in 0 .. 9 /\ digit(d[2]) \in 0 .. 9
    BY <1>7, <2>2
  <2>5. QED
    BY <1>3, <2>2, <2>3, <2>4
<1>10. CASE n = 2
  <2>1. digit(d[1]) \in 0 .. 9 /\ digit(d[2]) \in 0 .. 9
    BY <1>7, <1>9, <1>10
  <2>2. R[2] <= 255
    BY <1>9, <1>10, <2>1
  <2>3. QED
    BY <1>5, <1>6, <1>10, <2>2
<1>11. CASE n = 3
  <2> DEFINE a == digit(d[1])
             b == digit(d[2])
             c == digit(d[3])
  <2>1. d[1] \in DecimalDigit /\ d[2] \in DecimalDigit /\ d[3] \in DecimalDigit
        /\ R[3] = 10 * R[2] + c
    <3>1. 3 \in 1 .. n /\ 3 - 1 = 2
      BY <1>11
    <3>2. QED
      BY <1>2, <1>3, <1>6, <1>9, <1>11, <3>1
  <2>2. a \in 0 .. 9 /\ b \in 0 .. 9 /\ c \in 0 .. 9
    BY <1>7, <2>1
  <2>3. R[2] = 10 * a + b
    BY <1>9, <1>11
  <2>4. /\ (d[1] = "0" <=> a = 0) /\ (d[1] = "1" <=> a = 1) /\ (d[1] = "2" <=> a = 2)
        /\ (d[2] = "5" <=> b = 5) /\ (d[2] \in {"0", "1", "2", "3", "4"} <=> b <= 4)
        /\ (d[3] \in {"0", "1", "2", "3", "4", "5"} <=> c <= 5)
    BY <1>7, <2>1
  <2> HIDE DEF a, b, c
  <2>5. R[3] = 100 * a + 10 * b + c
    BY <2>1, <2>2, <2>3
  <2>6. R[3] <= 255 /\ a # 0 <=>
          a = 1 \/ (a = 2 /\ b <= 4) \/ (a = 2 /\ b = 5 /\ c <= 5)
    BY <2>2, <2>5
  <2>7. QED
    BY <1>5, <1>6, <1>11, <2>4, <2>6
<1>12. QED
  BY <1>6, <1>8, <1>10, <1>11

LEMMA DottedIs ==
  ASSUME NEW t \in Text
  PROVE  IsDotted(t) <=> Ipv4Addr(t)
<1> DEFINE p == split(t, ".")
<1>1. p \in SomeParts
  BY SplitHolds
<1>2. IsDotted(t) <=> Len(p) = 4 /\ \A i \in 1 .. 4 : IsOctet(p[i])
  BY Zenon DEF IsDotted
<1>3. Ipv4Addr(t) <=> /\ Len(p) = 4 /\ \A i \in 1 .. 4 : all_digits(p[i])
                      /\ \A i \in 1 .. 4 : is_dec_octet(p[i])
  BY Zenon DEF Ipv4Addr, is_ipv4_candidate
<1> HIDE DEF p
<1>4. Len(p) = 4 => \A i \in 1 .. 4 : p[i] \in Text
  BY <1>1, SomePartsIs, ElementOfSeq
<1>5. Len(p) = 4 => \A i \in 1 .. 4 : IsOctet(p[i]) <=> all_digits(p[i]) /\ is_dec_octet(p[i])
  BY <1>4, OctetIs
<1>6. QED
  BY <1>2, <1>3, <1>5

-----------------------------------------------------------------------------
(***************************************************************************)
(* Addresses of version 6: what is between colons.                         *)
(***************************************************************************)

\* a text without a separator is one part
LEMMA SplitWhole ==
  ASSUME NEW s \in Text, NEW c \in Character, \A i \in 1 .. Len(s) : s[i] # c
  PROVE  split(s, c) = <<s>>
<1> DEFINE n == Len(s)
           P == {k \in 0 .. n : split(SubSeq(s, 1, k), c) = <<SubSeq(s, 1, k)>>}
<1>1. n \in Nat
  BY LenProperties DEF Text
<1>2. 0 \in P
  <2>1. SubSeq(s, 1, 0) = << >>
    BY SubSeqEmpty
  <2>2. split(SubSeq(s, 1, 0), c) = <<SubSeq(s, 1, 0)>>
    BY <2>1, SplitEmpty
  <2> HIDE DEF n
  <2>3. QED
    BY <1>1, <2>2
<1>3. ASSUME NEW k \in 0 .. n - 1, k \in P PROVE k + 1 \in P
  <2>1. k + 1 \in 1 .. n /\ k + 1 \in 0 .. n /\ k + 1 - 1 = k
    BY <1>1
  <2> DEFINE y == SubSeq(s, 1, k)
             z == SubSeq(s, 1, k + 1)
             e == s[k + 1]
  <2>2. split(z, c) = SplitOn(split(y, c), e, c) /\ y \in Text /\ e \in Character /\ z = Append(y, e)
    <3>1. split(SubSeq(s, 1, k + 1), c) = SplitOn(split(SubSeq(s, 1, k + 1 - 1), c), s[k + 1], c)
          /\ s[k + 1] \in Character
      BY <2>1, SplitNext
    <3>2. k \in Nat /\ k <= Len(s)
      BY <1>1
    <3>3. SubSeq(s, 1, k) \in Text
      BY <3>2, PrefixOf DEF Text
    <3>4. SubSeq(s, 1, k + 1) = Append(SubSeq(s, 1, k), s[k + 1])
      <4>1. s \in Seq(Character) /\ 1 \in 1 .. Len(s) /\ k + 1 \in 1 .. Len(s)
        BY <1>1, <2>1 DEF Text
      <4>2. SubSeq(s, 1, k + 1) = SubSeq(s, 1, (k + 1) - 1) \o << s[k + 1] >>
        BY <4>1, SubSeqRecursiveSecond
      <4>3. Append(SubSeq(s, 1, k), s[k + 1]) = SubSeq(s, 1, k) \o << s[k + 1] >>
        BY <3>1, <3>3, AppendIsConcat DEF Text
      <4>4. QED
        BY <2>1, <4>2, <4>3
    <3>5. QED
      BY <2>1, <3>1, <3>3, <3>4
  <2>3. split(y, c) = <<y>>
    BY <1>3
  <2>4. e # c
    BY <2>1
  <2> HIDE DEF y, z, e
  <2>5. Front(<<y>>) = << >> /\ Last(<<y>>) = y
    <3>1. << >> \in Seq(Text) /\ Append(<< >>, y) = <<y>>
      BY EmptySeq
    <3>2. Front(Append(<< >>, y)) = << >> /\ Last(Append(<< >>, y)) = y
      BY <2>2, <3>1, GrownPart
    <3>3. QED
      BY <3>1, <3>2
  <2>6. split(z, c) = Append(<< >>, Append(y, e))
    BY <2>2, <2>3, <2>4, <2>5 DEF SplitOn
  <2>7. split(z, c) = <<z>>
    BY <2>2, <2>6
  <2>8. QED
    BY <2>1, <2>7 DEF z
<1> HIDE DEF P, n
<1>4. 0 .. n \subseteq P
  BY <1>1, <1>2, <1>3, 0 \in Int, n \in Int, IntervalUp, Zenon
<1>5. n \in P
  BY <1>1, <1>4
<1>6. SubSeq(s, 1, n) = s
  BY SubSeqFull DEF Text, n
<1>7. QED
  BY <1>5, <1>6 DEF P

\* the last part is what follows the last separator
LEMMA SplitAt ==
  ASSUME NEW s \in Text, NEW c \in Character, NEW j \in 1 .. Len(s), s[j] = c,
         \A i \in j + 1 .. Len(s) : s[i] # c
  PROVE  /\ split(s, c) = Append(split(text_before(s, j), c), text_from(s, j + 1))
         /\ text_before(s, j) \in Text /\ Len(text_before(s, j)) = j - 1
         /\ \A i \in 1 .. j - 1 : text_before(s, j)[i] = s[i]
         /\ text_from(s, j + 1) \in Text
<1> DEFINE b == text_before(s, j)
           x == text_from(s, j + 1)
           w == SubSeq(s, 1, j)
<1>1. Len(s) \in Nat /\ j - 1 \in Nat /\ j - 1 <= Len(s) /\ j \in Nat /\ j <= Len(s)
      /\ j \in 0 .. Len(s) /\ j + 1 \in 1 .. Len(s) + 1 /\ (j + 1) - 1 = j
  BY LenProperties DEF Text
<1>2. b \in Text /\ Len(b) = j - 1 /\ \A i \in 1 .. j - 1 : b[i] = s[i]
  BY <1>1, PrefixOf DEF Text, text_before
<1>3. x \in Text /\ Len(x) = Len(s) - j /\ \A i \in 1 .. Len(s) - j : x[i] = s[j + i]
  <2>1. /\ text_from(s, j + 1) \in Text /\ Len(text_from(s, j + 1)) = Len(s) - (j + 1) + 1
        /\ \A i \in 1 .. Len(s) - (j + 1) + 1 : text_from(s, j + 1)[i] = s[j + 1 + i - 1]
    <3>1. j + 1 \in Nat \ {0} /\ j + 1 <= Len(s) + 1
      BY <1>1
    <3>2. QED
      BY <3>1, TailOf
  <2>2. Len(s) - (j + 1) + 1 = Len(s) - j /\ \A i \in 1 .. Len(s) - j : j + 1 + i - 1 = j + i
    BY <1>1
  <2>3. QED
    BY <2>1, <2>2
<1>4. w = Append(b, c)
  <2>1. s \in Seq(Character) /\ 1 \in 1 .. Len(s) /\ j \in 1 .. Len(s)
    BY <1>1 DEF Text
  <2>2. SubSeq(s, 1, j) = SubSeq(s, 1, j - 1) \o << s[j] >>
    BY <2>1, SubSeqRecursiveSecond
  <2>3. Append(SubSeq(s, 1, j - 1), c) = SubSeq(s, 1, j - 1) \o << c >>
    BY <1>2, AppendIsConcat DEF Text, text_before
  <2>4. QED
    BY <2>2, <2>3 DEF text_before
<1>5. s = w \o x
  <2>1. s = SubSeq(s, 1, (j + 1) - 1) \o SubSeq(s, j + 1, Len(s))
    BY <1>1, CutHere
  <2>2. QED
    BY <1>1, <2>1 DEF text_from
<1>6. \A i \in 1 .. Len(x) : x[i] # c
  <2>1. \A i \in 1 .. Len(s) - j : j + i \in j + 1 .. Len(s)
    BY <1>1
  <2> HIDE DEF x
  <2>2. QED
    BY <1>3, <2>1
<1> HIDE DEF b, x, w
<1>7. split(Append(b, c) \o x, c) = Append(split(b, c), x)
  BY <1>2, <1>3, <1>6, SplitPiece
<1>8. QED
  BY <1>2, <1>3, <1>4, <1>5, <1>7 DEF b, x

\* between two separators next to each other, or before the first one at the very
\* beginning, or after the last one at the very end, there is a part that is empty
LEMMA EmptyPart ==
  ASSUME NEW s \in Text, NEW c \in Character, NEW k \in 0 .. Len(s),
         k = 0 \/ s[k] = c, k = Len(s) \/ s[k + 1] = c
  PROVE  \E j \in DOMAIN split(s, c) : split(s, c)[j] = << >>
<1> DEFINE p == split(SubSeq(s, 1, k), c)
           q == split(s, c)
<1>1. Len(s) \in Nat
  BY LenProperties DEF Text
<1>2. k < Len(s) => s[k + 1] = c
  BY <1>1
<1>3. /\ p \in SomeParts /\ q \in SomeParts
      /\ \A i \in 1 .. Len(p) : q[i] = p[i]
      /\ Len(p) <= Len(q)
  BY <1>2, SplitPrefix
<1>4. p[Len(p)] = << >>
  <2>1. CASE k = 0
    <3>1. SubSeq(s, 1, k) = << >>
      BY <2>1, SubSeqEmpty
    <3>2. p = <<<< >>>>
      BY <3>1, SplitEmpty
    <3> HIDE DEF p
    <3>3. Len(p) = 1 /\ p[1] = << >>
      BY <3>2
    <3>4. QED
      BY <3>3
  <2>2. CASE k # 0
    <3> DEFINE o == split(SubSeq(s, 1, k - 1), c)
    <3>1. k \in 1 .. Len(s) /\ s[k] = c
      BY <1>1, <2>2
    <3>2. o \in SomeParts /\ p = SplitOn(o, c, c)
      BY <3>1, SplitNext
    <3> HIDE DEF o, p
    <3>3. Len(p) = Len(o) + 1 /\ p[Len(o) + 1] = << >>
      BY <3>2, SplitHere
    <3>4. QED
      BY <3>3
  <2>3. QED
    BY <2>1, <2>2
<1> HIDE DEF p, q
<1>5. Len(p) \in Nat \ {0} /\ Len(q) \in Nat \ {0} /\ DOMAIN q = 1 .. Len(q)
  BY <1>3, SomePartsIs
<1>6. Len(p) \in 1 .. Len(p) /\ Len(p) \in DOMAIN q
  BY <1>3, <1>5
<1>7. QED
  BY <1>3, <1>4, <1>6 DEF q

\* an address of version 4 has dots, and neither colons nor letters
LEMMA QuadIs ==
  ASSUME NEW x \in Text, Ipv4Addr(x)
  PROVE  /\ x # << >> /\ ~ is_h16(x)
         /\ \A i \in 1 .. Len(x) : x[i] \in DecimalDigit \cup {"."} /\ x[i] # ":"
<1>1. is_ipv4_candidate(x)
  BY DEF Ipv4Addr
<1>2. \A i \in 1 .. Len(x) : x[i] \in DecimalDigit \cup {"."} /\ x[i] # ":"
  BY <1>1, QuadChars, DecimalDigitIs
<1>3. \E i \in 1 .. Len(x) : x[i] = "."
  <2> SUFFICES ASSUME \A i \in 1 .. Len(x) : x[i] # "." PROVE FALSE
    OBVIOUS
  <2>1. split(x, ".") = <<x>>
    BY SplitWhole, Literals
  <2>2. Len(split(x, ".")) = 4
    BY <1>1, Zenon DEF is_ipv4_candidate
  <2>3. Len(<<x>>) = 1
    OBVIOUS
  <2>4. QED
    BY <2>1, <2>2, <2>3
<1>4. PICK i \in 1 .. Len(x) : x[i] = "."
  BY <1>3
<1>5. x # << >>
  <2>1. Len(x) # 0
    BY <1>4, LenProperties DEF Text
  <2>2. QED
    BY <2>1, EmptySeq
<1>6. ~ is_h16(x)
  <2>1. "." \notin HexDigit
    BY DecimalDigitIs DEF HexDigit
  <2>2. x[i] \in Range(x)
    BY <1>4, LenProperties DEF Text, Range
  <2>3. QED
    BY <1>4, <2>1, <2>2 DEF is_h16
<1>7. QED
  BY <1>2, <1>5, <1>6

\* the groups of a text, none of which is empty in an address
LEMMA GroupsAreParts ==
  ASSUME NEW t \in Text
  PROVE  /\ groups_of(t) \in Seq(Text) /\ Len(groups_of(t)) \in Nat
         /\ DOMAIN groups_of(t) = 1 .. Len(groups_of(t))
         /\ groups_of(t) = << >> <=> t = << >>
         /\ Len(groups_of(t)) = 0 <=> t = << >>
         /\ t # << >> => groups_of(t) = split(t, ":") /\ groups_of(t) \in SomeParts
<1>1. split(t, ":") \in SomeParts
  BY SplitHolds
<1>2. split(t, ":") \in Seq(Text) /\ split(t, ":") # << >>
  BY <1>1 DEF SomeParts
<1>3. CASE t = << >>
  <2>1. groups_of(t) = << >>
    BY <1>3 DEF groups_of
  <2>2. << >> \in Seq(Text) /\ Len(<< >>) = 0
    BY EmptySeq
  <2>3. QED
    BY <1>3, <2>1, <2>2, LenProperties
<1>4. CASE t # << >>
  <2>1. groups_of(t) = split(t, ":")
    BY <1>4 DEF groups_of
  <2>2. QED
    BY <1>1, <1>2, <1>4, <2>1, LenProperties, EmptySeq
<1>5. QED
  BY <1>3, <1>4

HextetsIn(g) == \A i \in DOMAIN g : is_h16(g[i])

LEMMA HextetsAre ==
  ASSUME NEW t \in Text, NEW n \in Nat
  PROVE  IsHextets(t, n) <=> Len(groups_of(t)) = n /\ HextetsIn(groups_of(t))
<1> DEFINE p == split(t, ":")
           g == groups_of(t)
<1>1. IsHextets(t, n) <=>
        IF n = 0 THEN t = << >>
        ELSE Len(p) = n /\ \A i \in 1 .. n : Len(p[i]) \in 1 .. 4 /\ Range(p[i]) \subseteq HexDigit
  BY Zenon DEF IsHextets
<1>2. /\ Len(g) \in Nat /\ DOMAIN g = 1 .. Len(g) /\ (Len(g) = 0 <=> t = << >>)
      /\ t # << >> => g = p
  BY GroupsAreParts
<1>3. t = << >> => Len(p) = 1 /\ Len(p[1]) \notin 1 .. 4
  <2>1. t = << >> => p = <<<< >>>>
    BY SplitEmpty
  <2> HIDE DEF p
  <2>2. p = <<<< >>>> => Len(p) = 1 /\ p[1] = << >>
    OBVIOUS
  <2>3. Len(<< >>) \notin 1 .. 4
    OBVIOUS
  <2>4. QED
    BY <2>1, <2>2, <2>3
<1> HIDE DEF p, g
<1>4. CASE n = 0
  <2>1. Len(g) = 0 => DOMAIN g = {}
    BY <1>2
  <2>2. QED
    BY <1>1, <1>2, <1>4, <2>1 DEF HextetsIn, g
<1>5. CASE n # 0 /\ t = << >>
  <2>1. ~ IsHextets(t, n)
    <3>1. Len(p) = n => 1 \in 1 .. n
      BY <1>3, <1>5
    <3>2. QED
      BY <1>1, <1>3, <1>5, <3>1
  <2>2. Len(g) # n
    BY <1>2, <1>5
  <2>3. QED
    BY <2>1, <2>2 DEF g
<1>6. CASE n # 0 /\ t # << >>
  <2>1. g = p
    BY <1>2, <1>6
  <2>2. Len(p) = n => (HextetsIn(g) <=> \A i \in 1 .. n : is_h16(p[i]))
    BY <1>2, <2>1 DEF HextetsIn
  <2>3. QED
    BY <1>1, <1>6, <2>1, <2>2 DEF is_h16, g
<1>7. QED
  BY <1>4, <1>5, <1>6

\* groups, the last of which may be an address of version 4 and count for two
Quad(g) == g # << >> /\ Ipv4Addr(Last(g))
HextetsOf(g) == IF Quad(g) THEN Front(g) ELSE g
GroupCount(g) == Len(HextetsOf(g)) + IF Quad(g) THEN 2 ELSE 0

LEMMA GroupsAre ==
  ASSUME NEW t \in Text, NEW n \in Nat
  PROVE  IsGroups(t, n) <=> GroupCount(groups_of(t)) = n /\ HextetsIn(HextetsOf(groups_of(t)))
<1> DEFINE g == groups_of(t)
           Shown(m) == GroupCount(g) = m /\ HextetsIn(HextetsOf(g))
<1>1. /\ g \in Seq(Text) /\ Len(g) \in Nat /\ DOMAIN g = 1 .. Len(g)
      /\ (g = << >> <=> t = << >>)
      /\ t # << >> => g = split(t, ":") /\ g \in SomeParts
  BY GroupsAreParts
<1>2. ":" \in Character
  BY Literals
<1>3. IsHextets(t, n) => Shown(n)
  <2> SUFFICES ASSUME IsHextets(t, n) PROVE Shown(n)
    OBVIOUS
  <2>1. Len(g) = n /\ HextetsIn(g)
    BY HextetsAre
  <2> HIDE DEF g
  <2>2. ~ Quad(g)
    <3> SUFFICES ASSUME g # << >>, Ipv4Addr(Last(g)) PROVE FALSE
      BY DEF Quad
    <3>1. g \in SomeParts
      BY <1>1
    <3>2. Last(g) \in Text /\ Last(g) = g[Len(g)] /\ Len(g) \in DOMAIN g
      BY <3>1, SomePartsIs
    <3>3. is_h16(Last(g))
      BY <2>1, <3>2 DEF HextetsIn
    <3>4. QED
      BY <3>2, <3>3, QuadIs
  <2>3. QED
    BY <1>1, <2>1, <2>2 DEF GroupCount, HextetsOf
<1>4. ASSUME NEW x \in Text, NEW h \in Seq(Text), Ipv4Addr(x), g = Append(h, x)
      PROVE  Quad(g) /\ HextetsOf(g) = h /\ GroupCount(g) = Len(h) + 2
  <2>1. Front(Append(h, x)) = h /\ Last(Append(h, x)) = x
    BY <1>4, GrownPart
  <2>2. Append(h, x) # << >>
    BY <1>4, AppendProperties
  <2> HIDE DEF g
  <2>3. QED
    BY <1>4, <2>1, <2>2 DEF Quad, HextetsOf, GroupCount
<1>5. n = 2 /\ IsDotted(t) => Shown(n)
  <2> SUFFICES ASSUME n = 2, IsDotted(t) PROVE Shown(n)
    OBVIOUS
  <2>1. Ipv4Addr(t)
    BY DottedIs
  <2>2. t # << >> /\ \A i \in 1 .. Len(t) : t[i] # ":"
    BY <2>1, QuadIs
  <2>3. split(t, ":") = <<t>>
    BY <1>2, <2>2, SplitWhole
  <2>4. << >> \in Seq(Text) /\ Append(<< >>, t) = <<t>> /\ Len(<< >>) = 0
    BY EmptySeq
  <2>5. g = Append(<< >>, t)
    BY <1>1, <2>2, <2>3, <2>4
  <2> HIDE DEF g
  <2>6. HextetsOf(g) = << >> /\ GroupCount(g) = Len(<< >>) + 2
    BY <1>4, <2>1, <2>4, <2>5
  <2>7. HextetsIn(<< >>)
    BY DEF HextetsIn
  <2>8. QED
    BY <2>4, <2>6, <2>7
<1>6. ASSUME NEW i \in DOMAIN t, n > 2, t[i] = ":", IsHextets(text_before(t, i), n - 2),
             IsDotted(text_from(t, i + 1))
      PROVE  Shown(n)
  <2> DEFINE b == text_before(t, i)
             x == text_from(t, i + 1)
  <2>1. i \in 1 .. Len(t) /\ Len(t) \in Nat
    BY LenProperties DEF Text
  <2>2. x \in Text /\ Len(x) = Len(t) - i /\ \A j \in 1 .. Len(t) - i : x[j] = t[i + j]
    <3>1. i \in 0 .. Len(t)
      BY <2>1
    <3>2. QED
      BY <3>1, AfterUserinfo
  <2>3. Ipv4Addr(x)
    BY <1>6, <2>2, DottedIs
  <2>4. \A j \in i + 1 .. Len(t) : t[j] # ":"
    <3>1. \A j \in i + 1 .. Len(t) : j - i \in 1 .. Len(t) - i /\ i + (j - i) = j
      BY <2>1
    <3>2. \A j \in 1 .. Len(x) : x[j] # ":"
      BY <2>2, <2>3, QuadIs
    <3> HIDE DEF x
    <3>3. QED
      BY <2>2, <3>1, <3>2
  <2>5. split(t, ":") = Append(split(b, ":"), x) /\ b \in Text
    BY <1>2, <1>6, <2>1, <2>4, SplitAt
  <2>6. Len(groups_of(b)) = n - 2 /\ HextetsIn(groups_of(b)) /\ n - 2 \in Nat /\ n - 2 # 0
    <3>1. n - 2 \in Nat /\ n - 2 # 0
      BY <1>6
    <3>2. QED
      BY <1>6, <2>5, <3>1, HextetsAre
  <2>7. groups_of(b) = split(b, ":") /\ groups_of(b) \in Seq(Text)
    BY <2>5, <2>6, GroupsAreParts
  <2>8. t # << >>
    BY <2>1, EmptySeq
  <2>9. g = Append(groups_of(b), x)
    BY <1>1, <2>5, <2>7, <2>8
  <2> HIDE DEF g, b, x
  <2>10. HextetsOf(g) = groups_of(b) /\ GroupCount(g) = Len(groups_of(b)) + 2
    BY <1>4, <2>2, <2>3, <2>7, <2>9
  <2>11. QED
    BY <2>6, <2>10
<1>7. Shown(n) /\ ~ Quad(g) => IsHextets(t, n)
  <2> SUFFICES ASSUME Shown(n), ~ Quad(g) PROVE IsHextets(t, n)
    OBVIOUS
  <2>1. Len(g) = n /\ HextetsIn(g)
    <3> HIDE DEF g
    <3>1. QED
      BY <1>1 DEF GroupCount, HextetsOf
  <2>2. QED
    BY <2>1, HextetsAre
<1>8. Shown(n) /\ Quad(g) => IsGroups(t, n)
  <2> SUFFICES ASSUME Shown(n), Quad(g) PROVE IsGroups(t, n)
    OBVIOUS
  <2>1. t # << >> /\ g = split(t, ":") /\ g \in SomeParts
    BY <1>1 DEF Quad
  <2>2. CASE \A i \in 1 .. Len(t) : t[i] # ":"
    <3>1. split(t, ":") = <<t>>
      BY <1>2, <2>2, SplitWhole
    <3>2. << >> \in Seq(Text) /\ Append(<< >>, t) = <<t>> /\ Len(<< >>) = 0
      BY EmptySeq
    <3>3. g = Append(<< >>, t)
      BY <2>1, <3>1, <3>2
    <3>4. Last(Append(<< >>, t)) = t
      BY <3>2, GrownPart
    <3> HIDE DEF g
    <3>5. Ipv4Addr(t)
      BY <3>3, <3>4 DEF Quad
    <3>6. GroupCount(g) = Len(<< >>) + 2
      BY <1>4, <3>2, <3>3, <3>5
    <3>7. n = 2
      BY <3>2, <3>6
    <3>8. IsDotted(t)
      BY <3>5, DottedIs
    <3>9. QED
      BY <3>7, <3>8 DEF IsGroups
  <2>3. CASE ~ \A i \in 1 .. Len(t) : t[i] # ":"
    <3> DEFINE j == last_colon(t)
               b == text_before(t, j)
               x == text_from(t, j + 1)
    <3>1. j \in 1 .. Len(t) /\ t[j] = ":" /\ \A i \in j + 1 .. Len(t) : t[i] # ":"
      <4>1. /\ j \in 0 .. Len(t) /\ (\A i \in j + 1 .. Len(t) : t[i] # ":") /\ (j # 0 => t[j] = ":")
        BY LastColonIs
      <4> HIDE DEF j
      <4>2. j # 0
        BY <2>3, <4>1
      <4>3. QED
        BY <4>1, <4>2
    <3> HIDE DEF j
    <3>2. split(t, ":") = Append(split(b, ":"), x) /\ b \in Text /\ x \in Text
      BY <1>2, <3>1, SplitAt
    <3>3. split(b, ":") \in SomeParts /\ split(b, ":") \in Seq(Text)
      BY <3>2, SplitHolds DEF SomeParts
    <3> DEFINE h == split(b, ":")
    <3>4. g = Append(h, x)
      BY <2>1, <3>2
    <3> HIDE DEF b, x, h, g
    <3>5. Last(Append(h, x)) = x
      BY <3>2, <3>3, GrownPart DEF h
    <3>6. Ipv4Addr(x)
      BY <3>4, <3>5 DEF Quad
    <3>7. HextetsOf(g) = h /\ GroupCount(g) = Len(h) + 2
      BY <1>4, <3>2, <3>3, <3>4, <3>6 DEF h
    <3>8. HextetsIn(h) /\ Len(h) \in Nat \ {0} /\ n = Len(h) + 2 /\ 1 \in DOMAIN h
      <4>1. Len(h) \in Nat \ {0} /\ DOMAIN h = 1 .. Len(h)
        BY <3>3, SomePartsIs DEF h
      <4>2. QED
        BY <3>7, <4>1
    <3>9. b # << >>
      <4> SUFFICES ASSUME b = << >> PROVE FALSE
        OBVIOUS
      <4>1. h = <<<< >>>>
        BY SplitEmpty DEF h
      <4>2. h[1] = << >>
        BY <4>1
      <4>3. is_h16(<< >>)
        BY <3>8, <4>2 DEF HextetsIn
      <4>4. Len(<< >>) \notin 1 .. 4
        OBVIOUS
      <4>5. QED
        BY <4>3, <4>4 DEF is_h16
    <3>10. groups_of(b) = h
      BY <3>2, <3>9, GroupsAreParts DEF h
    <3>11. n - 2 \in Nat /\ n - 2 = Len(h) /\ n > 2
      BY <3>8
    <3>12. IsHextets(b, n - 2)
      BY <3>2, <3>8, <3>10, <3>11, HextetsAre
    <3>13. IsDotted(x)
      BY <3>2, <3>6, DottedIs
    <3>14. j \in DOMAIN t
      BY <3>1, LenProperties DEF Text
    <3>15. QED
      BY <3>1, <3>11, <3>12, <3>13, <3>14 DEF IsGroups, b, x
  <2>4. QED
    BY <2>2, <2>3
<1> HIDE DEF Shown, g
<1>9. IsGroups(t, n) => Shown(n)
  BY <1>3, <1>5, <1>6, Zenon DEF IsGroups
<1>10. Shown(n) => IsGroups(t, n)
  <2>1. IsHextets(t, n) => IsGroups(t, n)
    BY DEF IsGroups
  <2>2. QED
    BY <1>7, <1>8, <2>1
<1>11. QED
  BY <1>9, <1>10 DEF Shown, g

-----------------------------------------------------------------------------
(***************************************************************************)
(* Addresses of version 6: the parser of the standard library takes those  *)
(* of the grammar.                                                         *)
(***************************************************************************)

Elisions(t) == {i \in 1 .. Len(t) - 1 : t[i] = ":" /\ t[i + 1] = ":"}

\* the groups before and after a cut, read as Ipv6Addr reads them
Cut(t, i) ==
  LET head == groups_of(text_before(t, i))
      tail == groups_of(text_from(t, i + 2))
  IN  /\ HextetsIn(head) /\ HextetsIn(HextetsOf(tail))
      /\ Len(head) + GroupCount(tail) <= 7

LEMMA JoinedHextets ==
  ASSUME NEW g \in Seq(Text), NEW h \in Seq(Text)
  PROVE  /\ HextetsIn(g \o h) <=> HextetsIn(g) /\ HextetsIn(h)
         /\ Len(g \o h) = Len(g) + Len(h)
<1>1. /\ Len(g) \in Nat /\ Len(h) \in Nat /\ DOMAIN g = 1 .. Len(g) /\ DOMAIN h = 1 .. Len(h)
  BY LenProperties
<1>2. /\ DOMAIN (g \o h) = 1 .. Len(g) + Len(h) /\ Len(g \o h) = Len(g) + Len(h)
      /\ \A i \in 1 .. Len(g) : (g \o h)[i] = g[i]
      /\ \A i \in 1 .. Len(h) : (g \o h)[Len(g) + i] = h[i]
  BY <1>1
<1> DEFINE j == g \o h
<1> HIDE DEF j
<1>3. \A i \in DOMAIN j : i \in 1 .. Len(g) \/ (i - Len(g) \in 1 .. Len(h) /\ Len(g) + (i - Len(g)) = i)
  BY <1>1, <1>2 DEF j
<1>4. \A i \in 1 .. Len(g) : i \in DOMAIN j
  BY <1>1, <1>2 DEF j
<1>5. \A i \in 1 .. Len(h) : Len(g) + i \in DOMAIN j
  BY <1>1, <1>2 DEF j
<1>6. ASSUME HextetsIn(j) PROVE HextetsIn(g) /\ HextetsIn(h)
  <2>1. \A i \in 1 .. Len(g) : is_h16(g[i])
    BY <1>2, <1>4, <1>6, Zenon DEF HextetsIn, j
  <2>2. \A i \in 1 .. Len(h) : is_h16(h[i])
    BY <1>2, <1>5, <1>6, Zenon DEF HextetsIn, j
  <2>3. QED
    BY <1>1, <2>1, <2>2 DEF HextetsIn
<1>7. ASSUME HextetsIn(g), HextetsIn(h) PROVE HextetsIn(j)
  <2> SUFFICES ASSUME NEW i \in DOMAIN j PROVE is_h16(j[i])
    BY DEF HextetsIn
  <2>1. CASE i \in 1 .. Len(g)
    <3>1. j[i] = g[i]
      BY <1>2, <2>1 DEF j
    <3>2. QED
      BY <1>1, <1>7, <2>1, <3>1 DEF HextetsIn
  <2>2. CASE i - Len(g) \in 1 .. Len(h) /\ Len(g) + (i - Len(g)) = i
    <3>1. j[Len(g) + (i - Len(g))] = h[i - Len(g)]
      BY <1>2, <2>2 DEF j
    <3>2. QED
      BY <1>1, <1>7, <2>2, <3>1 DEF HextetsIn
  <2>3. QED
    BY <1>3, <2>1, <2>2
<1>8. QED
  BY <1>2, <1>6, <1>7 DEF j

LEMMA HextetsOfIs ==
  ASSUME NEW g \in Seq(Text)
  PROVE  HextetsOf(g) \in Seq(Text) /\ GroupCount(g) \in Nat
<1>1. CASE Quad(g)
  <2>1. g \in SomeParts
    BY <1>1 DEF Quad, SomeParts
  <2>2. HextetsOf(g) \in Seq(Text)
    BY <1>1, <2>1, SomePartsIs DEF HextetsOf
  <2>3. QED
    BY <1>1, <2>2, LenProperties DEF GroupCount
<1>2. CASE ~ Quad(g)
  <2>1. HextetsOf(g) \in Seq(Text)
    BY <1>2 DEF HextetsOf
  <2>2. QED
    BY <1>2, <2>1, LenProperties DEF GroupCount
<1>3. QED
  BY <1>1, <1>2

\* the pieces around an elision
LEMMA CutPieces ==
  ASSUME NEW t \in Text, NEW i \in 1 .. Len(t) - 1
  PROVE  /\ text_before(t, i) \in Text /\ Len(text_before(t, i)) = i - 1
         /\ \A j \in 1 .. i - 1 : text_before(t, i)[j] = t[j]
         /\ text_from(t, i + 2) \in Text /\ Len(text_from(t, i + 2)) = Len(t) - (i + 1)
         /\ \A j \in 1 .. Len(t) - (i + 1) : text_from(t, i + 2)[j] = t[i + 1 + j]
<1>1. Len(t) \in Nat /\ i - 1 \in Nat /\ i - 1 <= Len(t) /\ i + 1 \in 0 .. Len(t) /\ (i + 1) + 1 = i + 2
  BY LenProperties DEF Text
<1>2. /\ text_before(t, i) \in Text /\ Len(text_before(t, i)) = i - 1
      /\ \A j \in 1 .. i - 1 : text_before(t, i)[j] = t[j]
  BY <1>1, PrefixOf DEF Text, text_before
<1>3. /\ text_from(t, (i + 1) + 1) \in Text /\ Len(text_from(t, (i + 1) + 1)) = Len(t) - (i + 1)
      /\ \A j \in 1 .. Len(t) - (i + 1) : text_from(t, (i + 1) + 1)[j] = t[i + 1 + j]
  BY <1>1, AfterUserinfo
<1>4. QED
  BY <1>1, <1>2, <1>3

LEMMA LibraryReads ==
  ASSUME NEW t \in Text
  PROVE  /\ Elisions(t) = {} =>
              (Ipv6Addr(t) <=> GroupCount(groups_of(t)) = 8 /\ HextetsIn(HextetsOf(groups_of(t))))
         /\ Elisions(t) # {} =>
              (Ipv6Addr(t) <=> \E i : Elisions(t) = {i} /\ Cut(t, i))
<1> DEFINE E == Elisions(t)
           cut == CHOOSE i \in E : TRUE
           head == IF E = {} THEN << >> ELSE groups_of(text_before(t, cut))
           tail == IF E = {} THEN groups_of(t) ELSE groups_of(text_from(t, cut + 2))
           hextets == head \o HextetsOf(tail)
           count == Len(hextets) + IF Quad(tail) THEN 2 ELSE 0
<1>1. Ipv6Addr(t) <=>
        /\ Cardinality(E) <= 1
        /\ \A i \in DOMAIN hextets : is_h16(hextets[i])
        /\ IF E = {} THEN count = 8 ELSE count <= 7
  BY Zenon DEF Ipv6Addr, Elisions, groups_of, Quad, HextetsOf
<1>2. Len(t) \in Nat
  BY LenProperties DEF Text
<1>3. IsFiniteSet(E)
  <2>1. IsFiniteSet(1 .. Len(t) - 1) /\ E \subseteq 1 .. Len(t) - 1
    <3>1. Len(t) - 1 \in Int
      BY <1>2
    <3>2. IsFiniteSet(1 .. Len(t) - 1)
      BY <3>1, 1 \in Int, FS_Interval
    <3>3. QED
      BY <3>2 DEF Elisions
  <2>2. QED
    BY <2>1, FS_Subset
<1>4. Cardinality(E) \in Nat /\ (Cardinality(E) = 0 <=> E = {}) /\ (Cardinality(E) = 1 <=> \E i : E = {i})
  <2>1. Cardinality(E) \in Nat
    BY <1>3, FS_CardinalityType
  <2>2. Cardinality(E) = 0 <=> E = {}
    BY <1>3, FS_EmptySet
  <2>3. Cardinality(E) = 1 <=> \E i : E = {i}
    BY <1>3, FS_Singleton
  <2>4. QED
    BY <2>1, <2>2, <2>3
<1>5. head \in Seq(Text) /\ tail \in Seq(Text)
  <2>1. CASE E = {}
    <3>1. head = << >> /\ tail = groups_of(t)
      BY <2>1
    <3>2. QED
      BY <3>1, GroupsAreParts, EmptySeq
  <2>2. CASE E # {}
    <3>1. cut \in E
      BY <2>2
    <3>2. head = groups_of(text_before(t, cut)) /\ tail = groups_of(text_from(t, cut + 2))
      BY <2>2
    <3> HIDE DEF cut
    <3>3. cut \in 1 .. Len(t) - 1
      BY <3>1 DEF Elisions
    <3>4. text_before(t, cut) \in Text /\ text_from(t, cut + 2) \in Text
      BY <3>3, CutPieces
    <3>5. QED
      BY <3>2, <3>4, GroupsAreParts
  <2>3. QED
    BY <2>1, <2>2
<1>6. /\ HextetsOf(tail) \in Seq(Text)
      /\ (\A i \in DOMAIN hextets : is_h16(hextets[i])) <=> HextetsIn(head) /\ HextetsIn(HextetsOf(tail))
      /\ Len(hextets) = Len(head) + Len(HextetsOf(tail))
      /\ Len(head) \in Nat /\ Len(HextetsOf(tail)) \in Nat
  <2> HIDE DEF head, tail
  <2>1. HextetsOf(tail) \in Seq(Text)
    BY <1>5, HextetsOfIs
  <2>2. HextetsIn(hextets) <=> HextetsIn(head) /\ HextetsIn(HextetsOf(tail))
    BY <1>5, <2>1, JoinedHextets
  <2>3. Len(hextets) = Len(head) + Len(HextetsOf(tail))
    BY <1>5, <2>1, JoinedHextets
  <2>4. QED
    BY <1>5, <2>1, <2>2, <2>3, LenProperties DEF HextetsIn
<1>7. count = Len(head) + GroupCount(tail)
  <2> HIDE DEF head, tail, hextets
  <2>1. QED
    BY <1>6 DEF GroupCount
<1> HIDE DEF hextets, count
<1>8. CASE E = {}
  <2>1. head = << >> /\ tail = groups_of(t)
    BY <1>8
  <2> HIDE DEF head, tail, E
  <2>2. Len(head) = 0 /\ HextetsIn(head)
    BY <2>1, EmptySeq DEF HextetsIn
  <2>3. GroupCount(tail) \in Nat
    BY <1>5, HextetsOfIs
  <2>4. count = GroupCount(tail) /\ Cardinality(E) <= 1
    BY <1>4, <1>7, <1>8, <2>2, <2>3
  <2>5. QED
    BY <1>1, <1>6, <1>8, <2>1, <2>2, <2>4 DEF E
<1>9. CASE E # {}
  <2>1. head = groups_of(text_before(t, cut)) /\ tail = groups_of(text_from(t, cut + 2)) /\ cut \in E
    BY <1>9
  <2> HIDE DEF head, tail, E, cut
  <2>2. Cardinality(E) <= 1 <=> \E i : E = {i}
    <3>1. Cardinality(E) <= 1 <=> Cardinality(E) = 1
      BY <1>4, <1>9
    <3>2. QED
      BY <1>4, <3>1
  <2>3. (\E i : E = {i}) <=> E = {cut}
    BY <2>1
  <2>4. Ipv6Addr(t) <=> E = {cut} /\ Cut(t, cut)
    BY <1>1, <1>6, <1>7, <1>9, <2>1, <2>2, <2>3 DEF Cut
  <2>5. (\E i : E = {i} /\ Cut(t, i)) <=> E = {cut} /\ Cut(t, cut)
    <3>1. \A i : E = {i} => i = cut
      BY <2>1
    <3>2. QED
      BY <3>1
  <2>6. QED
    BY <1>9, <2>4, <2>5 DEF E
<1>10. QED
  BY <1>8, <1>9 DEF E

\* no group of an address is empty: no colon is at an end, and none next to another
LEMMA NoneEmpty ==
  ASSUME NEW t \in Text, HextetsIn(HextetsOf(groups_of(t)))
  PROVE  /\ Len(t) > 0 => t[1] # ":" /\ t[Len(t)] # ":"
         /\ \A i \in 1 .. Len(t) - 1 : ~ (t[i] = ":" /\ t[i + 1] = ":")
<1>1. Len(t) \in Nat /\ ":" \in Character
  BY LenProperties, Literals DEF Text
<1>2. SUFFICES ASSUME t # << >>, \E j \in DOMAIN split(t, ":") : split(t, ":")[j] = << >>
               PROVE  FALSE
  <2>1. t = << >> => Len(t) = 0
    BY EmptySeq
  <2>2. ASSUME Len(t) > 0 PROVE t[1] # ":" /\ t[Len(t)] # ":"
    <3>1. t # << >> /\ 0 \in 0 .. Len(t) /\ 0 + 1 = 1 /\ Len(t) \in 0 .. Len(t)
      BY <1>1, <2>1, <2>2
    <3>2. t[1] # ":"
      BY <1>1, <1>2, <3>1, EmptyPart
    <3>3. t[Len(t)] # ":"
      BY <1>1, <1>2, <3>1, EmptyPart
    <3>4. QED
      BY <3>2, <3>3
  <2>3. ASSUME NEW i \in 1 .. Len(t) - 1, t[i] = ":", t[i + 1] = ":" PROVE FALSE
    <3>1. t # << >> /\ i \in 0 .. Len(t)
      BY <1>1, <2>1
    <3>2. QED
      BY <1>1, <1>2, <2>3, <3>1, EmptyPart
  <2>4. QED
    BY <2>2, <2>3
<1> DEFINE g == groups_of(t)
<1>3. g = split(t, ":") /\ g \in SomeParts
  BY <1>2, GroupsAreParts
<1> HIDE DEF g
<1>4. PICK j \in DOMAIN g : g[j] = << >>
  BY <1>2, <1>3
<1>5. ~ is_h16(<< >>)
  <2>1. Len(<< >>) \notin 1 .. 4
    OBVIOUS
  <2>2. QED
    BY <2>1 DEF is_h16
<1>6. j \in 1 .. Len(g) /\ Last(g) = g[Len(g)] /\ Last(g) \in Text /\ Len(g) \in Nat /\ DOMAIN g = 1 .. Len(g)
      /\ Len(Front(g)) = Len(g) - 1 /\ (\A i \in 1 .. Len(g) - 1 : Front(g)[i] = g[i])
      /\ Front(g) \in Seq(Text)
  BY <1>3, SomePartsIs
<1>7. CASE Quad(g)
  <2>1. Last(g) # << >>
    BY <1>6, <1>7, QuadIs DEF Quad
  <2>2. j \in 1 .. Len(g) - 1
    BY <1>4, <1>6, <2>1
  <2>3. DOMAIN Front(g) = 1 .. Len(g) - 1
    BY <1>6, LenProperties
  <2>4. HextetsOf(g) = Front(g)
    BY <1>7 DEF HextetsOf
  <2>5. is_h16(Front(g)[j])
    BY <2>2, <2>3, <2>4 DEF HextetsIn, g
  <2>6. QED
    BY <1>4, <1>5, <1>6, <2>2, <2>5
<1>8. CASE ~ Quad(g)
  <2>1. HextetsOf(g) = g
    BY <1>8 DEF HextetsOf
  <2>2. is_h16(g[j])
    BY <1>4, <2>1 DEF HextetsIn, g
  <2>3. QED
    BY <1>4, <1>5, <2>2
<1>9. QED
  BY <1>7, <1>8

\* the library and the grammar agree
LEMMA AddressIs ==
  ASSUME NEW t \in Text
  PROVE  Ipv6Addr(t) <=> IsAddress(t)
<1>1. Len(t) \in Nat
  BY LenProperties DEF Text
<1>2. ASSUME NEW i \in 1 .. Len(t) - 1, NEW m \in 0 .. 7, NEW n \in 0 .. 7, m + n <= 7, t[i] = ":", t[i + 1] = ":",
             IsHextets(text_before(t, i), m), IsGroups(text_from(t, i + 2), n)
      PROVE  Elisions(t) = {i} /\ Cut(t, i)
  <2> DEFINE b == text_before(t, i)
             a == text_from(t, i + 2)
  <2>1. /\ b \in Text /\ Len(b) = i - 1 /\ \A j \in 1 .. i - 1 : b[j] = t[j]
        /\ a \in Text /\ Len(a) = Len(t) - (i + 1)
        /\ \A j \in 1 .. Len(t) - (i + 1) : a[j] = t[i + 1 + j]
    BY CutPieces
  <2>2. Len(groups_of(b)) = m /\ HextetsIn(groups_of(b))
    BY <1>2, <2>1, HextetsAre
  <2>3. GroupCount(groups_of(a)) = n /\ HextetsIn(HextetsOf(groups_of(a)))
    BY <1>2, <2>1, GroupsAre
  <2>4. HextetsIn(HextetsOf(groups_of(b)))
    <3>1. IsGroups(b, m)
      BY <1>2 DEF IsGroups
    <3>2. QED
      BY <2>1, <3>1, GroupsAre
  <2>5. Cut(t, i)
    BY <1>2, <2>2, <2>3 DEF Cut
  <2> HIDE DEF a, b
  <2>6. /\ Len(b) > 0 => b[Len(b)] # ":"
        /\ \A j \in 1 .. Len(b) - 1 : ~ (b[j] = ":" /\ b[j + 1] = ":")
    BY <2>1, <2>4, NoneEmpty
  <2>7. /\ Len(a) > 0 => a[1] # ":"
        /\ \A j \in 1 .. Len(a) - 1 : ~ (a[j] = ":" /\ a[j + 1] = ":")
    BY <2>1, <2>3, NoneEmpty
  <2>8. ASSUME NEW j \in 1 .. Len(t) - 1, t[j] = ":", t[j + 1] = ":", j # i PROVE FALSE
    <3>1. j < i - 1 \/ j = i - 1 \/ j = i + 1 \/ j > i + 1
      BY <2>8
    <3>2. CASE j < i - 1
      <4>1. j \in 1 .. i - 1 /\ j + 1 \in 1 .. i - 1 /\ j \in 1 .. Len(b) - 1
        BY <2>1, <3>2
      <4>2. b[j] = ":" /\ b[j + 1] = ":"
        BY <2>1, <2>8, <4>1
      <4>3. QED
        BY <2>6, <4>1, <4>2
    <3>3. CASE j = i - 1
      <4>1. j \in 1 .. i - 1 /\ Len(b) = j /\ Len(b) > 0
        BY <2>1, <3>3
      <4>2. b[j] = ":"
        BY <2>1, <2>8, <4>1
      <4>3. QED
        BY <2>6, <4>1, <4>2
    <3>4. CASE j = i + 1
      <4>1. 1 \in 1 .. Len(t) - (i + 1) /\ i + 1 + 1 = j + 1 /\ Len(a) > 0
        BY <1>1, <2>1, <3>4
      <4>2. a[1] = ":"
        BY <2>1, <2>8, <4>1
      <4>3. QED
        BY <2>7, <4>1, <4>2
    <3>5. CASE j > i + 1
      <4>1. /\ j - (i + 1) \in 1 .. Len(t) - (i + 1) /\ j - (i + 1) + 1 \in 1 .. Len(t) - (i + 1)
            /\ i + 1 + (j - (i + 1)) = j /\ i + 1 + (j - (i + 1) + 1) = j + 1
            /\ j - (i + 1) \in 1 .. Len(a) - 1
        BY <1>1, <2>1, <3>5
      <4>2. a[j - (i + 1)] = ":" /\ a[j - (i + 1) + 1] = ":"
        BY <2>1, <2>8, <4>1
      <4>3. QED
        BY <2>7, <4>1, <4>2
    <3>6. QED
      BY <3>1, <3>2, <3>3, <3>4, <3>5
  <2>9. Elisions(t) = {i}
    BY <1>2, <2>8 DEF Elisions
  <2>10. QED
    BY <2>5, <2>9
<1>3. ASSUME IsGroups(t, 8) PROVE Ipv6Addr(t)
  <2>1. GroupCount(groups_of(t)) = 8 /\ HextetsIn(HextetsOf(groups_of(t)))
    BY <1>3, GroupsAre
  <2>2. Elisions(t) = {}
    BY <2>1, NoneEmpty DEF Elisions
  <2>3. QED
    BY <2>1, <2>2, LibraryReads
<1>4. ASSUME NEW i \in 1 .. Len(t) - 1, NEW m \in 0 .. 7, NEW n \in 0 .. 7, m + n <= 7, t[i] = ":", t[i + 1] = ":",
             IsHextets(text_before(t, i), m), IsGroups(text_from(t, i + 2), n)
      PROVE  Ipv6Addr(t)
  <2>1. Elisions(t) = {i} /\ Cut(t, i)
    BY <1>2, <1>4
  <2>2. QED
    BY <2>1, LibraryReads
<1>5. ASSUME Ipv6Addr(t), Elisions(t) = {} PROVE IsGroups(t, 8)
  BY <1>5, LibraryReads, GroupsAre
<1>6. ASSUME Ipv6Addr(t), Elisions(t) # {}
      PROVE  \E i \in 1 .. Len(t) - 1, m, n \in 0 .. 7 :
               /\ m + n <= 7 /\ t[i] = ":" /\ t[i + 1] = ":"
               /\ IsHextets(text_before(t, i), m)
               /\ IsGroups(text_from(t, i + 2), n)
  <2>1. PICK i : Elisions(t) = {i} /\ Cut(t, i)
    BY <1>6, LibraryReads
  <2>2. i \in 1 .. Len(t) - 1 /\ t[i] = ":" /\ t[i + 1] = ":"
    BY <2>1 DEF Elisions
  <2> DEFINE b == text_before(t, i)
             a == text_from(t, i + 2)
             m == Len(groups_of(b))
             n == GroupCount(groups_of(a))
  <2>3. b \in Text /\ a \in Text
    BY <2>2, CutPieces
  <2>4. m \in Nat /\ n \in Nat /\ m + n <= 7 /\ HextetsIn(groups_of(b)) /\ HextetsIn(HextetsOf(groups_of(a)))
    <3>1. groups_of(b) \in Seq(Text) /\ groups_of(a) \in Seq(Text)
      BY <2>3, GroupsAreParts
    <3>2. m \in Nat /\ n \in Nat
      BY <3>1, HextetsOfIs, LenProperties
    <3>3. QED
      BY <2>1, <3>2 DEF Cut
  <2>5. IsHextets(b, m) /\ IsGroups(a, n)
    BY <2>3, <2>4, HextetsAre, GroupsAre
  <2> HIDE DEF m, n
  <2>6. m \in 0 .. 7 /\ n \in 0 .. 7
    BY <2>4
  <2>7. QED
    BY <2>2, <2>4, <2>5, <2>6
<1>7. IsAddress(t) => Ipv6Addr(t)
  BY <1>3, <1>4 DEF IsAddress
<1>8. Ipv6Addr(t) => IsAddress(t)
  BY <1>5, <1>6 DEF IsAddress
<1>9. QED
  BY <1>7, <1>8

AddressChar == HexDigit \cup {":", "."}
Literal(l) == IsAddress(l) \/ IsFutureAddress(l)

LEMMA GroupsHave ==
  ASSUME NEW t \in Text, HextetsIn(HextetsOf(groups_of(t)))
  PROVE  \A i \in 1 .. Len(t) : t[i] \in AddressChar
<1> DEFINE g == groups_of(t)
<1>1. SUFFICES ASSUME NEW i \in 1 .. Len(t), t[i] # ":" PROVE t[i] \in AddressChar
  BY DEF AddressChar
<1>2. t # << >>
  BY EmptySeq
<1>3. g = split(t, ":") /\ g \in SomeParts
  BY <1>2, GroupsAreParts
<1>4. \E k \in DOMAIN g : t[i] \in Range(g[k])
  BY <1>1, <1>3, SplitHolds
<1> HIDE DEF g
<1>5. /\ Last(g) = g[Len(g)] /\ Last(g) \in Text /\ Len(g) \in Nat /\ DOMAIN g = 1 .. Len(g)
      /\ Len(Front(g)) = Len(g) - 1 /\ (\A k \in 1 .. Len(g) - 1 : Front(g)[k] = g[k])
      /\ Front(g) \in Seq(Text)
  BY <1>3, SomePartsIs
<1>6. PICK k \in 1 .. Len(g) : t[i] \in Range(g[k])
  BY <1>4, <1>5
<1>7. CASE is_h16(g[k])
  BY <1>6, <1>7 DEF is_h16, AddressChar
<1>8. CASE ~ is_h16(g[k])
  <2>1. Quad(g)
    <3> SUFFICES ASSUME ~ Quad(g) PROVE FALSE
      OBVIOUS
    <3>1. HextetsIn(g)
      BY DEF HextetsOf, g
    <3>2. QED
      BY <1>5, <1>8, <3>1 DEF HextetsIn
  <2>2. k = Len(g)
    <3> SUFFICES ASSUME k # Len(g) PROVE FALSE
      OBVIOUS
    <3>1. k \in 1 .. Len(g) - 1
      <4>1. \A n \in Nat : \A j \in 1 .. n : j # n => j \in 1 .. n - 1
        OBVIOUS
      <4>2. QED
        BY <1>5, <1>6, <4>1
    <3>2. DOMAIN Front(g) = 1 .. Len(g) - 1
      BY <1>5, LenProperties
    <3>3. HextetsIn(Front(g))
      BY <2>1 DEF HextetsOf, g
    <3>4. QED
      BY <1>5, <1>8, <3>1, <3>2, <3>3 DEF HextetsIn
  <2>3. Ipv4Addr(Last(g)) /\ t[i] \in Range(Last(g))
    BY <1>5, <1>6, <2>1, <2>2 DEF Quad
  <2>4. \A j \in 1 .. Len(Last(g)) : Last(g)[j] \in DecimalDigit \cup {"."}
    BY <1>5, <2>3, QuadIs
  <2>5. Range(Last(g)) \subseteq DecimalDigit \cup {"."}
    BY <1>5, <2>4, TextIn
  <2>6. QED
    BY <2>3, <2>5, CharacterClasses DEF AddressChar
<1>9. QED
  BY <1>7, <1>8

\* an address is something, of these characters
LEMMA AddressHas ==
  ASSUME NEW t \in Text, IsAddress(t)
  PROVE  t # << >> /\ \A i \in 1 .. Len(t) : t[i] \in AddressChar
<1>1. Len(t) \in Nat
  BY LenProperties DEF Text
<1>2. CASE IsGroups(t, 8)
  <2>1. GroupCount(groups_of(t)) = 8 /\ HextetsIn(HextetsOf(groups_of(t)))
    BY <1>2, GroupsAre
  <2>2. t # << >>
    <3> SUFFICES ASSUME t = << >> PROVE FALSE
      OBVIOUS
    <3>1. groups_of(t) = << >>
      BY DEF groups_of
    <3>2. GroupCount(<< >>) = 0
      BY DEF GroupCount, HextetsOf, Quad
    <3>3. QED
      BY <2>1, <3>1, <3>2
  <2>3. QED
    BY <2>1, <2>2, GroupsHave
<1>3. CASE ~ IsGroups(t, 8)
  <2>1. PICK i \in 1 .. Len(t) - 1, m \in 0 .. 7, n \in 0 .. 7 :
          /\ t[i] = ":" /\ t[i + 1] = ":"
          /\ IsHextets(text_before(t, i), m) /\ IsGroups(text_from(t, i + 2), n)
    BY <1>3 DEF IsAddress
  <2> DEFINE b == text_before(t, i)
             a == text_from(t, i + 2)
  <2>2. /\ b \in Text /\ Len(b) = i - 1 /\ \A j \in 1 .. i - 1 : b[j] = t[j]
        /\ a \in Text /\ Len(a) = Len(t) - (i + 1)
        /\ \A j \in 1 .. Len(t) - (i + 1) : a[j] = t[i + 1 + j]
    BY CutPieces
  <2>3. HextetsIn(HextetsOf(groups_of(b))) /\ HextetsIn(HextetsOf(groups_of(a)))
    <3>1. IsGroups(b, m) /\ IsGroups(a, n)
      BY <2>1 DEF IsGroups
    <3>2. QED
      BY <2>2, <3>1, GroupsAre
  <2> HIDE DEF a, b
  <2>4. (\A j \in 1 .. Len(b) : b[j] \in AddressChar) /\ \A j \in 1 .. Len(a) : a[j] \in AddressChar
    BY <2>2, <2>3, GroupsHave
  <2>5. ASSUME NEW j \in 1 .. Len(t) PROVE t[j] \in AddressChar
    <3>1. j \in 1 .. i - 1 \/ j = i \/ j = i + 1
            \/ (j - (i + 1) \in 1 .. Len(t) - (i + 1) /\ i + 1 + (j - (i + 1)) = j)
      BY <1>1
    <3>2. CASE j \in 1 .. i - 1
      BY <2>2, <2>4, <3>2
    <3>3. CASE j = i \/ j = i + 1
      BY <2>1, <3>3 DEF AddressChar
    <3>4. CASE j - (i + 1) \in 1 .. Len(t) - (i + 1) /\ i + 1 + (j - (i + 1)) = j
      BY <2>2, <2>4, <3>4
    <3>5. QED
      BY <3>1, <3>2, <3>3, <3>4
  <2>6. t # << >>
    <3>1. Len(t) # 0
      BY <1>1
    <3>2. QED
      BY <3>1, EmptySeq
  <2>7. QED
    BY <2>5, <2>6
<1>4. QED
  BY <1>2, <1>3

\* and one of another version begins with a letter that none of version 6 has
LEMMA FutureHas ==
  ASSUME NEW t \in Text, IsFutureAddress(t)
  PROVE  t # << >> /\ t[1] = "v" /\ \A i \in 1 .. Len(t) : t[i] \in UserinfoChar
<1>1. Len(t) \in Nat /\ DOMAIN t = 1 .. Len(t)
  BY LenProperties DEF Text
<1>2. PICK dot \in DOMAIN t :
        /\ t[1] = "v" /\ t[dot] = "." /\ dot > 2 /\ dot < Len(t)
        /\ Range(SubSeq(t, 2, dot - 1)) \subseteq HexDigit
        /\ Range(text_from(t, dot + 1)) \subseteq Unreserved \cup SubDelim \cup {":"}
  BY DEF IsFutureAddress
<1>3. 2 \in Nat \ {0} /\ dot - 1 \in Int /\ dot - 1 <= Len(t) /\ dot + 1 \in Nat \ {0}
      /\ Len(t) \in Int /\ Len(t) <= Len(t)
  BY <1>1
<1>4. \A T : \A a \in Nat \ {0}, b \in Int : b <= Len(t) =>
        (Range(SubSeq(t, a, b)) \subseteq T <=> \A i \in a .. b : t[i] \in T)
  BY PieceIn
<1>5. \A i \in 2 .. dot - 1 : t[i] \in HexDigit
  BY <1>2, <1>3, <1>4, Zenon
<1>6. \A i \in dot + 1 .. Len(t) : t[i] \in Unreserved \cup SubDelim \cup {":"}
  <2>1. Range(SubSeq(t, dot + 1, Len(t))) \subseteq Unreserved \cup SubDelim \cup {":"}
    BY <1>2 DEF text_from
  <2>2. QED
    BY <1>3, <1>4, <2>1, Zenon
<1>7. "v" \in UserinfoChar /\ "." \in UserinfoChar /\ HexDigit \subseteq UserinfoChar
      /\ Unreserved \cup SubDelim \cup {":"} \subseteq UserinfoChar
  BY DEF UserinfoChar, Unreserved
<1>8. \A i \in 1 .. Len(t) : i = 1 \/ i \in 2 .. dot - 1 \/ i = dot \/ i \in dot + 1 .. Len(t)
  BY <1>1
<1>9. \A i \in 1 .. Len(t) : t[i] \in UserinfoChar
  BY <1>2, <1>5, <1>6, <1>7, <1>8
<1>10. t # << >>
  BY <1>1, <1>2, EmptySeq
<1>11. QED
  BY <1>2, <1>9, <1>10

\* host and port of an authority, without the userinfo
HostPortTo(s, end) ==
  /\ \/ \A i \in 1 .. end : s[i] \in UserinfoChar \ {":"}
     \/ /\ end > 2 /\ s[1] = "[" /\ s[end] = "]"
        /\ Literal(SubSeq(s, 2, end - 1))
  /\ \/ end = Len(s)
     \/ s[end + 1] = ":" /\ \A i \in end + 2 .. Len(s) : s[i] \in DecimalDigit

HostPort(s) == \E end \in 0 .. Len(s) : HostPortTo(s, end)

HostChar == UserinfoChar \cup Bracket

\* a literal ends where its bracket closes
LEMMA LiteralIs ==
  ASSUME NEW s \in Text, NEW end \in 0 .. Len(s), end > 2, s[end] = "]",
         Literal(SubSeq(s, 2, end - 1))
  PROVE  /\ \A i \in 2 .. end - 1 : s[i] \in UserinfoChar
         /\ SubSeq(s, 2, end - 1) \in Text
         /\ s[2] # "v" => IsAddress(SubSeq(s, 2, end - 1))
         /\ IsAddress(SubSeq(s, 2, end - 1)) => \A i \in 2 .. end - 1 : s[i] \in AddressChar
<1> DEFINE a == SubSeq(s, 2, end - 1)
<1>1. Len(s) \in Nat
  BY LenProperties DEF Text
<1>2. a \in Text /\ Len(a) = end - 1 - 2 + 1 /\ \A i \in 1 .. end - 1 - 2 + 1 : a[i] = s[2 + i - 1]
  <2>1. 2 \in Nat \ {0} /\ end - 1 \in Nat /\ 2 <= (end - 1) + 1 /\ end - 1 <= Len(s)
    BY <1>1
  <2>2. QED
    BY <2>1, PieceOf DEF Text
<1>3. AddressChar \subseteq UserinfoChar
  BY CharacterClasses DEF AddressChar, UserinfoChar, Unreserved
<1>4. /\ IsAddress(a) => \A i \in 1 .. Len(a) : a[i] \in AddressChar
      /\ \A i \in 1 .. Len(a) : a[i] \in UserinfoChar
      /\ IsFutureAddress(a) => a[1] = "v"
  BY <1>2, <1>3, AddressHas, FutureHas DEF Literal
<1>5. IsAddress(a) \/ IsFutureAddress(a)
  BY DEF Literal
<1> HIDE DEF a
<1>6. \A i \in 2 .. end - 1 : i - 1 \in 1 .. end - 1 - 2 + 1 /\ 2 + (i - 1) - 1 = i
  BY <1>1
<1>7. a[1] = s[2]
  <2>1. 1 \in 1 .. end - 1 - 2 + 1 /\ 2 + 1 - 1 = 2
    BY <1>1
  <2>2. QED
    BY <1>2, <2>1
<1>8. /\ \A i \in 2 .. end - 1 : s[i] \in UserinfoChar
      /\ IsAddress(a) => \A i \in 2 .. end - 1 : s[i] \in AddressChar
  <2>1. \A i \in 2 .. end - 1 : i - 1 \in 1 .. Len(a) /\ s[i] = a[i - 1]
    BY <1>2, <1>6
  <2>2. QED
    BY <1>4, <2>1
<1>9. QED
  BY <1>2, <1>4, <1>5, <1>7, <1>8 DEF a

LEMMA BracketIs ==
  ASSUME NEW s \in Text
  PROVE  IsPrefix(<<"[">>, s) <=> Len(s) >= 1 /\ s[1] = "["
BY BeginsWithTwo

\* host and port are what the validator takes, save with a literal it does not know
LEMMA HostPortTaken ==
  ASSUME NEW s \in Text, HostPort(s)
  PROVE  /\ ~ Versioned(s) => host_port_ok(s)
         /\ \A i \in 1 .. Len(s) : s[i] \in HostChar
<1>1. Len(s) \in Nat
  BY LenProperties DEF Text
<1>2. PICK end \in 0 .. Len(s) :
        /\ \/ \A i \in 1 .. end : s[i] \in UserinfoChar \ {":"}
           \/ /\ end > 2 /\ s[1] = "[" /\ s[end] = "]"
              /\ Literal(SubSeq(s, 2, end - 1))
        /\ \/ end = Len(s)
           \/ s[end + 1] = ":" /\ \A i \in end + 2 .. Len(s) : s[i] \in DecimalDigit
  BY DEF HostPort, HostPortTo
<1>3. \A i \in end + 1 .. Len(s) : s[i] \in UserinfoChar /\ (s[i] = ":" => i = end + 1)
  <2>1. CASE end = Len(s)
    BY <1>1, <2>1
  <2>2. CASE s[end + 1] = ":" /\ \A i \in end + 2 .. Len(s) : s[i] \in DecimalDigit
    <3>1. \A i \in end + 1 .. Len(s) : i = end + 1 \/ i \in end + 2 .. Len(s)
      BY <1>1
    <3>2. QED
      BY <2>2, <3>1, CharacterClasses
  <2>3. QED
    BY <1>2, <2>1, <2>2
<1>4. \A i \in 1 .. Len(s) : i \in 1 .. end \/ i \in end + 1 .. Len(s)
  BY <1>1
<1>5. CASE \A i \in 1 .. end : s[i] \in UserinfoChar \ {":"}
  <2>1. \A i \in 1 .. Len(s) : s[i] \in UserinfoChar /\ (s[i] = ":" => i = end + 1)
    BY <1>3, <1>4, <1>5
  <2>2. \A i \in 1 .. Len(s) : s[i] \notin Bracket
    BY <2>1, CharacterClasses DEF Bracket
  <2>3. ~ IsPrefix(<<"[">>, s)
    <3>1. Len(s) >= 1 => 1 \in 1 .. Len(s)
      BY <1>1
    <3>2. QED
      BY <1>1, <2>2, <3>1, BracketIs DEF Bracket
  <2>4. Range(s) \cap Bracket = {}
    BY <2>2, TextIn
  <2>5. occurrences(s, ":") <= 1
    BY <2>1, AtMostOnce
  <2>6. ASSUME last_colon(s) # 0
        PROVE  digits_only(text_from(s, last_colon(s) + 1))
    <3>1. last_colon(s) \in 1 .. Len(s) /\ s[last_colon(s)] = ":"
      BY <1>1, <2>6, LastColonIs
    <3>2. last_colon(s) = end + 1
      BY <2>1, <3>1
    <3>3. end # Len(s)
      BY <1>1, <3>1, <3>2
    <3>4. \A i \in end + 2 .. Len(s) : s[i] \in DecimalDigit
      BY <1>2, <3>3
    <3>5. last_colon(s) + 1 = end + 2 /\ end + 2 \in Nat \ {0} /\ Len(s) \in Int /\ Len(s) <= Len(s)
      BY <1>1, <3>2
    <3>6. QED
      BY <3>4, <3>5, PieceIn DEF digits_only, text_from
  <2>7. host_port_ok(s)
    BY <2>3, <2>4, <2>5, <2>6, Zenon DEF host_port_ok
  <2>8. QED
    BY <2>1, <2>7 DEF HostChar
<1>6. CASE end > 2 /\ s[1] = "[" /\ s[end] = "]" /\ Literal(SubSeq(s, 2, end - 1))
  <2>1. /\ \A i \in 2 .. end - 1 : s[i] \in UserinfoChar
        /\ SubSeq(s, 2, end - 1) \in Text
        /\ s[2] # "v" => IsAddress(SubSeq(s, 2, end - 1))
    BY <1>6, LiteralIs
  <2>2. \A i \in 1 .. end : i = 1 \/ i \in 2 .. end - 1 \/ i = end
    BY <1>1
  <2>3. \A i \in 1 .. end - 1 : s[i] # "]"
    <3>1. \A i \in 1 .. end - 1 : i = 1 \/ i \in 2 .. end - 1
      BY <1>1
    <3>2. QED
      BY <1>6, <2>1, <3>1, CharacterClasses
  <2>4. position(s, "]") = end
    <3>1. /\ position(s, "]") \in 1 .. Len(s) + 1
          /\ \A i \in 1 .. position(s, "]") - 1 : s[i] # "]"
          /\ position(s, "]") <= Len(s) => s[position(s, "]")] = "]"
      BY PositionIs
    <3>2. ~ (end < position(s, "]"))
      <4>1. end < position(s, "]") => end \in 1 .. position(s, "]") - 1
        BY <1>1, <1>6, <3>1
      <4>2. QED
        BY <1>6, <3>1, <4>1
    <3>3. ~ (position(s, "]") < end)
      <4>1. position(s, "]") < end => position(s, "]") \in 1 .. end - 1 /\ position(s, "]") <= Len(s)
        BY <1>1, <3>1
      <4>2. QED
        BY <2>3, <3>1, <4>1
    <3>4. QED
      BY <1>1, <3>1, <3>2, <3>3
  <2>5. IsPrefix(<<"[">>, s)
    BY <1>1, <1>6, BracketIs
  <2>6. port_suffix(text_from(s, end + 1))
    <3>1. end + 1 \in Nat \ {0} /\ end + 1 <= Len(s) + 1 /\ (end + 1 = Len(s) + 1 <=> end = Len(s))
          /\ end + 1 + 1 = end + 2
      BY <1>1
    <3>2. QED
      BY <1>2, <3>1, PortIs
  <2>7. ASSUME ~ Versioned(s) PROVE host_port_ok(s)
    <3>1. 1 \in 1 .. Len(s) - 1 /\ 1 + 1 = 2
      BY <1>1, <1>6
    <3>2. s[2] # "v"
      BY <1>6, <2>7, <3>1 DEF Versioned
    <3>3. Ipv6Addr(SubSeq(s, 2, end - 1))
      BY <2>1, <3>2, AddressIs
    <3>4. end <= Len(s)
      BY <1>1
    <3>5. QED
      BY <2>4, <2>5, <2>6, <3>3, <3>4 DEF host_port_ok
  <2>8. \A i \in 1 .. Len(s) : s[i] \in HostChar
    <3>1. ASSUME NEW i \in 1 .. end PROVE s[i] \in HostChar
      <4>1. CASE i \in 2 .. end - 1
        BY <2>1, <4>1, CharacterClasses DEF HostChar
      <4>2. CASE i = 1 \/ i = end
        BY <1>6, <4>2 DEF HostChar, Bracket
      <4>3. QED
        BY <2>2, <4>1, <4>2
    <3>2. QED
      BY <1>3, <1>4, <3>1 DEF HostChar
  <2>9. QED
    BY <2>7, <2>8
<1>7. QED
  BY <1>2, <1>5, <1>6

\* what it takes for host and port is one, and its literal an address
LEMMA HostPortIs ==
  ASSUME NEW s \in Text, host_port_ok(s), \A i \in 1 .. Len(s) : s[i] \in HostChar
  PROVE  HostPort(s) /\ ~ Versioned(s)
<1>1. Len(s) \in Nat
  BY LenProperties DEF Text
<1>2. CASE IsPrefix(<<"[">>, s)
  <2> DEFINE end == position(s, "]")
  <2>1. /\ end <= Len(s) /\ Ipv6Addr(SubSeq(s, 2, end - 1))
        /\ port_suffix(text_from(s, end + 1))
    BY <1>2 DEF host_port_ok
  <2>2. end \in 1 .. Len(s) /\ s[end] = "]"
    BY <1>1, <2>1, PositionIs
  <2> HIDE DEF end
  <2>3. end > 2
    <3> SUFFICES ASSUME end <= 2 PROVE FALSE
      BY <2>2
    <3>1. SubSeq(s, 2, end - 1) = << >>
      <4>1. 2 > end - 1 /\ 2 \in Int /\ end - 1 \in Int
        BY <2>2
      <4>2. QED
        BY <4>1
    <3>2. ~ Ipv6Addr(<< >>)
      <4>1. << >> \in Text
        BY EmptySeq DEF Text
      <4>2. ~ IsAddress(<< >>)
        BY <4>1, AddressHas
      <4>3. QED
        BY <4>1, <4>2, AddressIs
    <3>3. Ipv6Addr(<< >>)
      BY <2>1, <3>1, Zenon
    <3>4. QED
      BY <3>2, <3>3
  <2>4. s[1] = "["
    BY <1>2, BracketIs
  <2>5. end = Len(s) \/ (s[end + 1] = ":" /\ \A i \in end + 2 .. Len(s) : s[i] \in DecimalDigit)
    <3>1. end + 1 \in Nat \ {0} /\ end + 1 <= Len(s) + 1 /\ (end + 1 = Len(s) + 1 <=> end = Len(s))
          /\ end + 1 + 1 = end + 2
      BY <1>1, <2>2
    <3>2. QED
      BY <2>1, <3>1, PortIs
  <2>6. end \in 0 .. Len(s)
    BY <2>2
  <2>7. SubSeq(s, 2, end - 1) \in Text
    <3>1. 2 \in Nat \ {0} /\ end - 1 \in Nat /\ 2 <= (end - 1) + 1 /\ end - 1 <= Len(s)
      BY <2>2, <2>3
    <3>2. QED
      BY <3>1, PieceOf DEF Text
  <2>8. IsAddress(SubSeq(s, 2, end - 1)) /\ Literal(SubSeq(s, 2, end - 1))
    BY <2>1, <2>7, AddressIs DEF Literal
  <2>9. HostPort(s)
    BY <2>2, <2>3, <2>4, <2>5, <2>6, <2>8 DEF HostPort, HostPortTo
  <2>10. ~ Versioned(s)
    <3> SUFFICES ASSUME NEW i \in 1 .. Len(s) - 1, s[i] = "[", s[i + 1] = "v" PROVE FALSE
      BY DEF Versioned
    <3>1. \A j \in 2 .. end - 1 : s[j] \in AddressChar
      BY <2>2, <2>3, <2>6, <2>8, LiteralIs
    <3>2. "v" \notin AddressChar /\ "[" \notin AddressChar /\ DecimalDigit \subseteq AddressChar
      BY DecimalDigitIs DEF AddressChar, HexDigit
    <3>3. \A j \in end + 1 .. Len(s) : s[j] # "["
      <4>1. \A j \in end + 1 .. Len(s) : j = end + 1 \/ j \in end + 2 .. Len(s)
        BY <1>1, <2>2
      <4>2. QED
        BY <2>2, <2>5, <3>2, <4>1
    <3>4. i = 1 \/ i \in 2 .. end - 1 \/ i = end \/ i \in end + 1 .. Len(s)
      BY <1>1, <2>2
    <3>5. i = 1
      BY <2>2, <3>1, <3>2, <3>3, <3>4
    <3>6. 2 \in 2 .. end - 1 /\ i + 1 = 2
      BY <2>2, <2>3, <3>5
    <3>7. QED
      BY <3>1, <3>2, <3>6
  <2>11. QED
    BY <2>9, <2>10
<1>3. CASE ~ IsPrefix(<<"[">>, s)
  <2>1. /\ Range(s) \cap Bracket = {} /\ occurrences(s, ":") <= 1
        /\ last_colon(s) # 0 => digits_only(text_from(s, last_colon(s) + 1))
    BY <1>3, Zenon DEF host_port_ok
  <2>2. \A i \in 1 .. Len(s) : s[i] \in UserinfoChar
    BY <2>1, TextIn DEF HostChar
  <2>3. \A i, j \in 1 .. Len(s) : s[i] = ":" /\ s[j] = ":" => i = j
    BY <2>1, AtMostOnce
  <2>4. /\ last_colon(s) \in 0 .. Len(s)
        /\ \A i \in last_colon(s) + 1 .. Len(s) : s[i] # ":"
        /\ last_colon(s) # 0 => s[last_colon(s)] = ":"
    BY LastColonIs
  <2>5. ASSUME last_colon(s) = 0 PROVE HostPort(s)
    <3>1. \A i \in 1 .. Len(s) : s[i] \in UserinfoChar \ {":"}
      BY <2>2, <2>4, <2>5
    <3>2. Len(s) \in 0 .. Len(s)
      BY <1>1
    <3>3. HostPortTo(s, Len(s))
      BY <3>1, Zenon DEF HostPortTo
    <3>4. QED
      BY <3>2, <3>3, Zenon DEF HostPort
  <2>6. ASSUME last_colon(s) # 0 PROVE HostPort(s)
    <3>1. PICK end \in 0 .. Len(s) : end + 1 = last_colon(s)
      <4>1. last_colon(s) - 1 \in 0 .. Len(s) /\ (last_colon(s) - 1) + 1 = last_colon(s)
        BY <1>1, <2>4, <2>6
      <4>2. QED
        BY <4>1
    <3>2. s[end + 1] = ":" /\ end + 1 \in 1 .. Len(s)
      BY <1>1, <2>4, <2>6, <3>1
    <3>3. \A i \in 1 .. end : i \in 1 .. Len(s) /\ i # end + 1
      BY <1>1
    <3>4. \A i \in 1 .. end : s[i] \in UserinfoChar \ {":"}
      BY <2>2, <2>3, <3>2, <3>3
    <3>5. \A i \in end + 2 .. Len(s) : s[i] \in DecimalDigit
      <4>1. last_colon(s) + 1 = end + 2 /\ end + 2 \in Nat \ {0} /\ Len(s) \in Int /\ Len(s) <= Len(s)
        BY <1>1, <3>1
      <4>2. Range(SubSeq(s, end + 2, Len(s))) \subseteq DecimalDigit
        BY <2>1, <2>6, <4>1 DEF digits_only, text_from
      <4>3. Range(SubSeq(s, end + 2, Len(s))) \subseteq DecimalDigit
              <=> \A i \in end + 2 .. Len(s) : s[i] \in DecimalDigit
        BY <4>1, PieceIn
      <4>4. QED
        BY <4>2, <4>3
    <3>6. HostPortTo(s, end)
      BY <3>2, <3>4, <3>5, Zenon DEF HostPortTo
    <3>7. QED
      BY <3>1, <3>6, Zenon DEF HostPort
  <2>7. ~ Versioned(s)
    <3>1. \A i \in 1 .. Len(s) - 1 : i \in 1 .. Len(s)
      BY <1>1
    <3>2. QED
      BY <2>2, <3>1, CharacterClasses DEF Versioned
  <2>8. QED
    BY <2>5, <2>6, <2>7
<1>4. QED
  BY <1>2, <1>3

-----------------------------------------------------------------------------
(***************************************************************************)
(* Userinfo, host and port: an authority.                                  *)
(***************************************************************************)

AuthorityTo(s, at, end) ==
    LET host == SubSeq(s, at + 1, end)
        port == text_from(s, end + 1)
    IN  /\ at # 0 => s[at] = "@" /\ Range(text_before(s, at)) \subseteq UserinfoChar
        /\ end >= at
        /\ \/ Range(host) \subseteq UserinfoChar \ {":"}
           \/ /\ Len(host) > 2 /\ host[1] = "[" /\ Last(host) = "]"
              /\ Literal(SubSeq(host, 2, Len(host) - 1))
        /\ port_suffix(port)

LEMMA AuthorityFrom ==
  ASSUME NEW s \in Text, NEW at \in 0 .. Len(s), NEW end \in at .. Len(s)
  PROVE  AuthorityTo(s, at, end) <=>
           /\ at # 0 => s[at] = "@" /\ \A i \in 1 .. at - 1 : s[i] \in UserinfoChar
           /\ HostPortTo(text_from(s, at + 1), end - at)
<1> DEFINE h == text_from(s, at + 1)
           k == end - at
           host == SubSeq(s, at + 1, end)
<1>1. Len(s) \in Nat /\ at \in Nat /\ end \in Nat /\ k \in Nat /\ at <= end /\ end <= Len(s)
  BY LenProperties DEF Text
<1>2. /\ h \in Text /\ Len(h) = Len(s) - at
      /\ \A i \in 1 .. Len(s) - at : h[i] = s[at + i]
  <2>1. at + 1 \in Nat \ {0} /\ at + 1 <= Len(s) + 1 /\ Len(s) - (at + 1) + 1 = Len(s) - at
        /\ \A i \in 1 .. Len(s) - at : at + 1 + i - 1 = at + i
    BY <1>1
  <2>2. /\ text_from(s, at + 1) \in Text /\ Len(text_from(s, at + 1)) = Len(s) - (at + 1) + 1
        /\ \A i \in 1 .. Len(s) - (at + 1) + 1 : text_from(s, at + 1)[i] = s[at + 1 + i - 1]
    BY <2>1, TailOf
  <2>3. QED
    BY <2>1, <2>2
<1>3. /\ host \in Text /\ Len(host) = k
      /\ \A i \in 1 .. k : host[i] = s[at + i]
  <2>1. at + 1 \in Nat \ {0} /\ at + 1 <= end + 1 /\ end - (at + 1) + 1 = k
        /\ \A i \in 1 .. k : at + 1 + i - 1 = at + i
    BY <1>1
  <2>2. /\ SubSeq(s, at + 1, end) \in Text /\ Len(SubSeq(s, at + 1, end)) = end - (at + 1) + 1
        /\ \A i \in 1 .. end - (at + 1) + 1 : SubSeq(s, at + 1, end)[i] = s[at + 1 + i - 1]
    BY <1>1, <2>1, PieceOf DEF Text
  <2>3. QED
    BY <2>1, <2>2
<1>4. \A i \in 1 .. k : host[i] = h[i]
  <2>1. \A i \in 1 .. k : i \in 1 .. Len(s) - at
    BY <1>1
  <2>2. QED
    BY <1>2, <1>3, <2>1
<1>5. Range(host) \subseteq UserinfoChar \ {":"} <=> \A i \in 1 .. k : h[i] \in UserinfoChar \ {":"}
  <2>1. Range(host) \subseteq UserinfoChar \ {":"} <=> \A i \in 1 .. k : host[i] \in UserinfoChar \ {":"}
    BY <1>3, TextIn
  <2>2. QED
    BY <1>4, <2>1
<1>6. k > 2 => /\ host[1] = h[1] /\ Last(host) = h[k]
               /\ SubSeq(host, 2, Len(host) - 1) = SubSeq(h, 2, k - 1)
  <2> SUFFICES ASSUME k > 2
               PROVE  /\ host[1] = h[1] /\ Last(host) = h[k]
                      /\ SubSeq(host, 2, Len(host) - 1) = SubSeq(h, 2, k - 1)
    OBVIOUS
  <2>1. 1 \in 1 .. k /\ k \in 1 .. k
    BY <1>1
  <2>2. host[1] = h[1] /\ Last(host) = h[k]
    BY <1>3, <1>4, <2>1 DEF Last
  <2>3. 2 \in Nat \ {0} /\ k - 1 \in Int /\ k - 1 <= end - (at + 1) + 1
        /\ k - 1 <= Len(s) - (at + 1) + 1 /\ at + 1 \in Nat \ {0} /\ at + 1 <= end + 1 /\ at + 1 <= Len(s) + 1
        /\ Len(s) <= Len(s)
    BY <1>1
  <2> HIDE DEF k
  <2>4. SubSeq(SubSeq(s, at + 1, end), 2, k - 1) = SubSeq(s, at + 1 + 2 - 1, at + 1 + (k - 1) - 1)
    BY <1>1, <2>3, PieceOfPiece
  <2>5. SubSeq(SubSeq(s, at + 1, Len(s)), 2, k - 1) = SubSeq(s, at + 1 + 2 - 1, at + 1 + (k - 1) - 1)
    BY <1>1, <2>3, PieceOfPiece
  <2>6. QED
    BY <1>3, <2>2, <2>4, <2>5 DEF text_from
<1>7. port_suffix(text_from(s, end + 1)) <=>
        \/ k = Len(h)
        \/ h[k + 1] = ":" /\ \A i \in k + 2 .. Len(h) : h[i] \in DecimalDigit
  <2>1. end + 1 \in Nat \ {0} /\ end + 1 <= Len(s) + 1 /\ end + 1 + 1 = end + 2
        /\ (end + 1 = Len(s) + 1 <=> k = Len(h))
    BY <1>1, <1>2
  <2>2. port_suffix(text_from(s, end + 1)) <=>
          \/ k = Len(h)
          \/ s[end + 1] = ":" /\ \A i \in end + 2 .. Len(s) : s[i] \in DecimalDigit
    BY <2>1, PortIs
  <2>3. k # Len(h) => h[k + 1] = s[end + 1]
    <3>1. k # Len(h) => k + 1 \in 1 .. Len(s) - at /\ at + (k + 1) = end + 1
      BY <1>1, <1>2
    <3> HIDE DEF k, h
    <3>2. QED
      BY <1>2, <3>1
  <2>4. (\A i \in end + 2 .. Len(s) : s[i] \in DecimalDigit)
          <=> \A i \in k + 2 .. Len(h) : h[i] \in DecimalDigit
    <3>1. \A i \in end + 2 .. Len(s) : i - at \in k + 2 .. Len(h) /\ i - at \in 1 .. Len(s) - at /\ at + (i - at) = i
      BY <1>1, <1>2
    <3>2. \A i \in k + 2 .. Len(h) : at + i \in end + 2 .. Len(s) /\ i \in 1 .. Len(s) - at
      BY <1>1, <1>2
    <3> HIDE DEF k, h
    <3>3. \A i \in end + 2 .. Len(s) : h[i - at] = s[i]
      BY <1>2, <3>1
    <3>4. \A i \in k + 2 .. Len(h) : h[i] = s[at + i]
      BY <1>2, <3>2
    <3>5. QED
      BY <3>1, <3>2, <3>3, <3>4
  <2> HIDE DEF k, h
  <2>5. QED
    BY <2>2, <2>3, <2>4
<1>8. at # 0 => (Range(text_before(s, at)) \subseteq UserinfoChar
                   <=> \A i \in 1 .. at - 1 : s[i] \in UserinfoChar)
  <2>1. 1 \in Nat \ {0} /\ at - 1 \in Int /\ at - 1 <= Len(s)
    BY <1>1
  <2>2. \A b \in Int : b <= Len(s) =>
          (Range(SubSeq(s, 1, b)) \subseteq UserinfoChar <=> \A i \in 1 .. b : s[i] \in UserinfoChar)
    BY <2>1, PieceIn
  <2>3. Range(SubSeq(s, 1, at - 1)) \subseteq UserinfoChar <=> \A i \in 1 .. at - 1 : s[i] \in UserinfoChar
    BY <2>1, <2>2, Zenon
  <2>4. QED
    BY <2>3 DEF text_before
<1>9. AuthorityTo(s, at, end) <=>
        /\ at # 0 => s[at] = "@" /\ \A i \in 1 .. at - 1 : s[i] \in UserinfoChar
        /\ \/ \A i \in 1 .. k : h[i] \in UserinfoChar \ {":"}
           \/ /\ k > 2 /\ h[1] = "[" /\ h[k] = "]"
              /\ Literal(SubSeq(h, 2, k - 1))
        /\ \/ k = Len(h)
           \/ h[k + 1] = ":" /\ \A i \in k + 2 .. Len(h) : h[i] \in DecimalDigit
  <2>1. AuthorityTo(s, at, end) <=>
          /\ at # 0 => s[at] = "@" /\ Range(text_before(s, at)) \subseteq UserinfoChar
          /\ \/ Range(host) \subseteq UserinfoChar \ {":"}
             \/ /\ k > 2 /\ host[1] = "[" /\ Last(host) = "]"
                /\ Literal(SubSeq(host, 2, Len(host) - 1))
          /\ port_suffix(text_from(s, end + 1))
    BY <1>1, <1>3, Zenon DEF AuthorityTo
  <2> HIDE DEF host, h, k
  <2>2. QED
    BY <1>5, <1>6, <1>7, <1>8, <2>1
<1>10. QED
  BY <1>9 DEF HostPortTo

LEMMA AuthorityIs ==
  ASSUME NEW s \in Text
  PROVE  IsAuthority(s) <=>
           \E at \in 0 .. Len(s) :
             /\ at # 0 => s[at] = "@" /\ \A i \in 1 .. at - 1 : s[i] \in UserinfoChar
             /\ HostPort(text_from(s, at + 1))
<1>1. Len(s) \in Nat
  BY LenProperties DEF Text
<1>2. IsAuthority(s) <=> \E at \in 0 .. Len(s), end \in 0 .. Len(s) : AuthorityTo(s, at, end)
  BY Zenon DEF IsAuthority, AuthorityTo, Literal
<1>3. \A t : HostPort(t) <=> \E end \in 0 .. Len(t) : HostPortTo(t, end)
  BY Zenon DEF HostPort, HostPortTo
<1>4. \A at \in 0 .. Len(s) : Len(text_from(s, at + 1)) = Len(s) - at
  <2> SUFFICES ASSUME NEW at \in 0 .. Len(s) PROVE Len(text_from(s, at + 1)) = Len(s) - at
    OBVIOUS
  <2>1. at + 1 \in Nat \ {0} /\ at + 1 <= Len(s) + 1 /\ Len(s) - (at + 1) + 1 = Len(s) - at
    BY <1>1
  <2>2. Len(text_from(s, at + 1)) = Len(s) - (at + 1) + 1
    BY <2>1, TailOf
  <2>3. QED
    BY <2>1, <2>2
<1>5. ASSUME NEW at \in 0 .. Len(s), NEW end \in 0 .. Len(s), AuthorityTo(s, at, end)
      PROVE  /\ at # 0 => s[at] = "@" /\ \A i \in 1 .. at - 1 : s[i] \in UserinfoChar
             /\ HostPort(text_from(s, at + 1))
  <2>1. end \in at .. Len(s)
    BY <1>5 DEF AuthorityTo
  <2>2. /\ at # 0 => s[at] = "@" /\ \A i \in 1 .. at - 1 : s[i] \in UserinfoChar
        /\ HostPortTo(text_from(s, at + 1), end - at)
    BY <1>5, <2>1, AuthorityFrom
  <2>3. end - at \in 0 .. Len(text_from(s, at + 1))
    BY <1>1, <1>4, <2>1
  <2>4. QED
    BY <1>3, <2>2, <2>3
<1>6. ASSUME NEW at \in 0 .. Len(s),
             at # 0 => s[at] = "@" /\ \A i \in 1 .. at - 1 : s[i] \in UserinfoChar,
             HostPort(text_from(s, at + 1))
      PROVE  \E end \in 0 .. Len(s) : AuthorityTo(s, at, end)
  <2>1. PICK k \in 0 .. Len(s) - at : HostPortTo(text_from(s, at + 1), k)
    BY <1>3, <1>4, <1>6
  <2>2. PICK end \in at .. Len(s) : k = end - at
    <3>1. at + k \in at .. Len(s) /\ k = (at + k) - at
      BY <1>1
    <3>2. QED
      BY <3>1
  <2>3. HostPortTo(text_from(s, at + 1), end - at)
    BY <2>1, <2>2
  <2>4. AuthorityTo(s, at, end)
    BY <1>6, <2>3, AuthorityFrom
  <2>5. end \in 0 .. Len(s)
    BY <1>1
  <2>6. QED
    BY <2>4, <2>5
<1>7. QED
  BY <1>2, <1>5, <1>6

\* the authority, as validate_sibling_authority_port looks at it
AuthorityTaken(authority) ==
  LET at == position(authority, "@")
  IN  IF at > Len(authority) THEN host_port_ok(authority)
      ELSE /\ Range(text_before(authority, at)) \cap Bracket = {}
           /\ occurrences(authority, "@") = 1
           /\ host_port_ok(text_from(authority, at + 1))

AuthorityChar == HostChar \cup {"@"}

LEMMA WholeText ==
  ASSUME NEW s \in Text
  PROVE  text_from(s, 0 + 1) = s
<1>1. s \in Seq(Character) /\ 0 + 1 = 1
  BY DEF Text
<1>2. SubSeq(s, 1, Len(s)) = s
  BY <1>1
<1>3. QED
  BY <1>1, <1>2 DEF text_from

LEMMA UserinfoBefore ==
  ASSUME NEW s \in Text, NEW at \in 1 .. Len(s), NEW T
  PROVE  Range(text_before(s, at)) \cap T = {} <=> \A i \in 1 .. at - 1 : s[i] \notin T
<1>1. 1 \in Nat \ {0} /\ at - 1 \in Int /\ at - 1 <= Len(s)
  BY LenProperties DEF Text
<1>2. Range(SubSeq(s, 1, at - 1)) \cap T = {} <=> \A i \in 1 .. at - 1 : s[i] \notin T
  <2>1. \A b \in Int : b <= Len(s) =>
          (Range(SubSeq(s, 1, b)) \cap T = {} <=> \A i \in 1 .. b : s[i] \notin T)
    BY <1>1, PieceIn, Zenon
  <2>2. QED
    BY <1>1, <2>1
<1>3. QED
  BY <1>2 DEF text_before

LEMMA AuthorityAccepted ==
  ASSUME NEW s \in Text, IsAuthority(s)
  PROVE  /\ ~ Versioned(s) => AuthorityTaken(s)
         /\ \A i \in 1 .. Len(s) : s[i] \in AuthorityChar
<1>1. Len(s) \in Nat
  BY LenProperties DEF Text
<1>2. PICK at \in 0 .. Len(s) :
        /\ at # 0 => s[at] = "@" /\ \A i \in 1 .. at - 1 : s[i] \in UserinfoChar
        /\ HostPort(text_from(s, at + 1))
  BY AuthorityIs
<1> DEFINE h == text_from(s, at + 1)
<1>3. h \in Text /\ Len(h) = Len(s) - at /\ \A i \in 1 .. Len(s) - at : h[i] = s[at + i]
  BY AfterUserinfo
<1>4. (~ Versioned(h) => host_port_ok(h)) /\ \A i \in 1 .. Len(h) : h[i] \in HostChar
  BY <1>2, <1>3, HostPortTaken
<1>10. Versioned(h) => Versioned(s)
  <2> SUFFICES ASSUME NEW i \in 1 .. Len(h) - 1, h[i] = "[", h[i + 1] = "v" PROVE Versioned(s)
    BY DEF Versioned
  <2>1. /\ i \in 1 .. Len(s) - at /\ i + 1 \in 1 .. Len(s) - at /\ at + i \in 1 .. Len(s) - 1
        /\ at + (i + 1) = at + i + 1
    BY <1>1, <1>3
  <2>2. s[at + i] = "[" /\ s[at + i + 1] = "v"
    BY <1>3, <2>1
  <2>3. QED
    BY <2>1, <2>2 DEF Versioned
<1>5. "@" \notin HostChar
  BY CharacterClasses DEF HostChar, Bracket
<1>6. \A i \in at + 1 .. Len(s) : s[i] \in HostChar
  <2>1. \A i \in at + 1 .. Len(s) : i - at \in 1 .. Len(s) - at /\ at + (i - at) = i
    BY <1>1
  <2> HIDE DEF h
  <2>2. QED
    BY <1>3, <1>4, <2>1
<1>7. CASE at = 0
  <2>1. h = s
    BY <1>7, WholeText
  <2>2. \A i \in 1 .. Len(s) : s[i] # "@" /\ s[i] \in AuthorityChar
    BY <1>5, <1>6, <1>7 DEF AuthorityChar
  <2>3. position(s, "@") > Len(s)
    BY <1>1, <2>2, PositionIs
  <2>4. ~ Versioned(s) => AuthorityTaken(s)
    BY <1>4, <2>1, <2>3 DEF AuthorityTaken
  <2>5. QED
    BY <2>2, <2>4
<1>8. CASE at # 0
  <2>1. at \in 1 .. Len(s) /\ s[at] = "@"
    BY <1>2, <1>8
  <2>2. \A i \in 1 .. at - 1 : s[i] \in UserinfoChar /\ s[i] # "@" /\ s[i] \notin Bracket
    BY <1>2, <1>8, CharacterClasses DEF Bracket
  <2>3. \A i \in 1 .. Len(s) : i \in 1 .. at - 1 \/ i = at \/ i \in at + 1 .. Len(s)
    BY <1>1
  <2>4. \A i \in 1 .. Len(s) : (s[i] = "@" => i = at) /\ s[i] \in AuthorityChar
    BY <1>5, <1>6, <2>1, <2>2, <2>3 DEF AuthorityChar, HostChar
  <2>5. position(s, "@") = at
    <3>1. /\ position(s, "@") \in 1 .. Len(s) + 1
          /\ \A i \in 1 .. position(s, "@") - 1 : s[i] # "@"
          /\ position(s, "@") <= Len(s) => s[position(s, "@")] = "@"
      BY PositionIs
    <3>2. position(s, "@") <= Len(s)
      <4>1. position(s, "@") > Len(s) => at \in 1 .. position(s, "@") - 1
        BY <1>1, <2>1, <3>1
      <4>2. QED
        BY <1>1, <2>1, <3>1, <4>1
    <3>3. QED
      BY <1>1, <2>4, <3>1, <3>2
  <2>6. occurrences(s, "@") = 1
    BY <2>1, <2>4, AtMostOnce
  <2>7. Range(text_before(s, at)) \cap Bracket = {}
    BY <2>1, <2>2, UserinfoBefore
  <2>8. ~ (at > Len(s))
    BY <1>1
  <2>9. ~ Versioned(s) => AuthorityTaken(s)
    BY <1>4, <1>10, <2>5, <2>6, <2>7, <2>8 DEF AuthorityTaken
  <2>10. QED
    BY <2>4, <2>9
<1>9. QED
  BY <1>7, <1>8

LEMMA AuthorityMeant ==
  ASSUME NEW s \in Text, AuthorityTaken(s), \A i \in 1 .. Len(s) : s[i] \in AuthorityChar
  PROVE  IsAuthority(s) /\ ~ Versioned(s)
<1>1. Len(s) \in Nat
  BY LenProperties DEF Text
<1> DEFINE at == position(s, "@")
<1>2. /\ at \in 1 .. Len(s) + 1
      /\ \A i \in 1 .. at - 1 : s[i] # "@"
      /\ at <= Len(s) => s[at] = "@"
  BY PositionIs
<1>3. CASE at > Len(s)
  <2>1. host_port_ok(s)
    BY <1>3 DEF AuthorityTaken
  <2>2. \A i \in 1 .. Len(s) : i \in 1 .. at - 1
    BY <1>1, <1>2, <1>3
  <2> HIDE DEF at
  <2>3. \A i \in 1 .. Len(s) : s[i] \in HostChar
    BY <1>2, <2>2 DEF AuthorityChar
  <2>4. HostPort(text_from(s, 0 + 1)) /\ ~ Versioned(s)
    BY <2>1, <2>3, HostPortIs, WholeText
  <2>5. 0 \in 0 .. Len(s)
    BY <1>1
  <2>6. QED
    BY <2>4, <2>5, AuthorityIs
<1>4. CASE at <= Len(s)
  <2>1. ~ (at > Len(s)) /\ at \in 1 .. Len(s) /\ at \in 0 .. Len(s) /\ at # 0
    BY <1>1, <1>2, <1>4
  <2>2. /\ Range(text_before(s, at)) \cap Bracket = {} /\ occurrences(s, "@") = 1
        /\ host_port_ok(text_from(s, at + 1))
    BY <2>1, Zenon DEF AuthorityTaken
  <2> HIDE DEF at
  <2>3. \A i, j \in 1 .. Len(s) : s[i] = "@" /\ s[j] = "@" => i = j
    BY <2>2, AtMostOnce
  <2>4. \A i \in 1 .. at - 1 : s[i] \notin Bracket
    BY <2>1, <2>2, UserinfoBefore
  <2>5. \A i \in 1 .. at - 1 : i \in 1 .. Len(s)
    BY <1>1, <2>1
  <2>6. \A i \in 1 .. at - 1 : s[i] \in UserinfoChar
    BY <1>2, <2>4, <2>5 DEF AuthorityChar, HostChar
  <2> DEFINE h == text_from(s, at + 1)
  <2>7. h \in Text /\ Len(h) = Len(s) - at /\ \A i \in 1 .. Len(s) - at : h[i] = s[at + i]
    BY <2>1, AfterUserinfo
  <2>8. \A i \in 1 .. Len(s) - at : at + i \in 1 .. Len(s) /\ at + i # at
    BY <1>1, <2>1
  <2>9. \A i \in 1 .. Len(s) - at : s[at + i] \in HostChar
    BY <1>2, <1>4, <2>1, <2>3, <2>8 DEF AuthorityChar
  <2> HIDE DEF h
  <2>10. \A i \in 1 .. Len(h) : h[i] \in HostChar
    BY <2>7, <2>9
  <2>11. HostPort(h) /\ ~ Versioned(h)
    BY <2>2, <2>7, <2>10, HostPortIs DEF h
  <2>12. ~ Versioned(s)
    <3> SUFFICES ASSUME NEW i \in 1 .. Len(s) - 1, s[i] = "[", s[i + 1] = "v" PROVE FALSE
      BY DEF Versioned
    <3>1. i \in 1 .. at - 1 \/ i = at \/ i > at
      BY <1>1, <2>1
    <3>2. i > at
      BY <1>2, <1>4, <2>4, <2>1, <3>1 DEF Bracket
    <3>3. /\ i - at \in 1 .. Len(h) - 1 /\ i - at \in 1 .. Len(s) - at /\ i - at + 1 \in 1 .. Len(s) - at
          /\ at + (i - at) = i /\ at + (i - at + 1) = i + 1
      BY <1>1, <2>1, <2>7, <3>2
    <3>4. h[i - at] = "[" /\ h[i - at + 1] = "v"
      BY <2>7, <3>3
    <3>5. QED
      BY <2>11, <3>3, <3>4 DEF Versioned
  <2>13. QED
    BY <1>2, <1>4, <2>1, <2>6, <2>11, <2>12, AuthorityIs DEF h
<1>5. QED
  BY <1>1, <1>2, <1>3, <1>4

-----------------------------------------------------------------------------
(***************************************************************************)
(* Where an authority begins and ends.                                     *)
(***************************************************************************)

AuthorityEnds == {"/", "?", "#"}

\* two slashes after the first colon, and where what follows them ends
Slashed(s) ==
  LET colon == position(s, ":")
  IN  colon + 2 <= Len(s) /\ s[colon + 1] = "/" /\ s[colon + 2] = "/"

authority_end(s) ==
  LET colon == position(s, ":") IN colon + 2 + first_of(text_from(s, colon + 3), AuthorityEnds)

authority_piece(s) == SubSeq(s, position(s, ":") + 3, authority_end(s) - 1)

\* a piece from k, looked at again from its own k
LEMMA TailOfPiece ==
  ASSUME NEW s \in Text, NEW a \in Nat \ {0}, NEW b \in Nat, a <= b + 1, b <= Len(s),
         NEW k \in Nat \ {0}
  PROVE  text_from(SubSeq(s, a, b), k) = SubSeq(s, a + k - 1, b)
<1>1. Len(s) \in Nat
  BY LenProperties DEF Text
<1>2. Len(SubSeq(s, a, b)) = b - a + 1
  BY PieceOf DEF Text
<1>3. b - a + 1 \in Int /\ b - a + 1 <= b - a + 1 /\ a + (b - a + 1) - 1 = b
  OBVIOUS
<1>4. SubSeq(SubSeq(s, a, b), k, b - a + 1) = SubSeq(s, a + k - 1, a + (b - a + 1) - 1)
  BY <1>3, PieceOfPiece
<1>5. QED
  BY <1>2, <1>3, <1>4 DEF text_from

LEMMA HeadOfPiece ==
  ASSUME NEW s \in Text, NEW a \in Nat \ {0}, NEW b \in Nat, a <= b + 1, b <= Len(s),
         NEW k \in Nat \ {0}, k <= b - a + 2
  PROVE  text_before(SubSeq(s, a, b), k) = SubSeq(s, a, a + k - 2)
<1>1. Len(s) \in Nat
  BY LenProperties DEF Text
<1>2. k - 1 \in Int /\ k - 1 <= b - a + 1 /\ 1 \in Nat \ {0} /\ a + (k - 1) - 1 = a + k - 2 /\ a + 1 - 1 = a
  BY <1>1
<1>3. SubSeq(SubSeq(s, a, b), 1, k - 1) = SubSeq(s, a + 1 - 1, a + (k - 1) - 1)
  BY <1>2, PieceOfPiece
<1>4. QED
  BY <1>2, <1>3 DEF text_before

LEMMA ColonIs ==
  ASSUME NEW s \in Text, ":" \in Range(s)
  PROVE  /\ position(s, ":") \in 1 .. Len(s) /\ s[position(s, ":")] = ":"
         /\ \A i \in 1 .. position(s, ":") - 1 : s[i] # ":"
         /\ Len(s) \in Nat
<1>1. Len(s) \in Nat /\ DOMAIN s = 1 .. Len(s)
  BY LenProperties DEF Text
<1>2. PICK i \in 1 .. Len(s) : s[i] = ":"
  BY <1>1 DEF Range
<1>3. /\ position(s, ":") \in 1 .. Len(s) + 1
      /\ \A j \in 1 .. position(s, ":") - 1 : s[j] # ":"
      /\ position(s, ":") <= Len(s) => s[position(s, ":")] = ":"
  BY PositionIs
<1>4. position(s, ":") <= Len(s)
  <2>1. position(s, ":") > Len(s) => i \in 1 .. position(s, ":") - 1
    BY <1>1, <1>3
  <2>2. QED
    BY <1>1, <1>2, <1>3, <2>1
<1>5. QED
  BY <1>1, <1>3, <1>4

LEMMA SlashedIs ==
  ASSUME NEW s \in Text, ":" \in Range(s)
  PROVE  IsPrefix(<<"/", "/">>, text_from(s, position(s, ":") + 1)) <=> Slashed(s)
<1> DEFINE c == position(s, ":")
           t == text_from(s, c + 1)
<1>1. c \in 0 .. Len(s) /\ c \in Nat /\ Len(s) \in Nat
  BY ColonIs
<1> HIDE DEF c
<1>2. t \in Text /\ Len(t) = Len(s) - c /\ \A i \in 1 .. Len(s) - c : t[i] = s[c + i]
  BY <1>1, AfterUserinfo
<1> HIDE DEF t
<1>3. IsPrefix(<<"/", "/">>, t) <=> Len(t) >= 2 /\ t[1] = "/" /\ t[2] = "/"
  BY <1>2, BeginsWithTwo
<1>4. Len(t) >= 2 <=> c + 2 <= Len(s)
  BY <1>1, <1>2
<1>5. c + 2 <= Len(s) => t[1] = s[c + 1] /\ t[2] = s[c + 2]
  <2>1. c + 2 <= Len(s) => 1 \in 1 .. Len(s) - c /\ 2 \in 1 .. Len(s) - c
    BY <1>1
  <2>2. QED
    BY <1>2, <2>1
<1>6. QED
  BY <1>3, <1>4, <1>5 DEF Slashed, c, t

LEMMA AuthorityEndIs ==
  ASSUME NEW s \in Text, ":" \in Range(s), Slashed(s)
  PROVE  LET c == position(s, ":")
             e == authority_end(s)
             rest == text_from(text_from(s, c + 1), 3)
         IN  /\ e \in c + 3 .. Len(s) + 1 /\ e \in Nat \ {0} /\ c \in Nat
             /\ \A i \in c + 3 .. e - 1 : s[i] \notin AuthorityEnds
             /\ e <= Len(s) => s[e] \in AuthorityEnds
             /\ rest = text_from(s, c + 3)
             /\ text_before(text_from(s, c + 3), first_of(text_from(s, c + 3), AuthorityEnds)) = authority_piece(s)
             /\ text_from(text_from(s, c + 3), first_of(text_from(s, c + 3), AuthorityEnds)) = SubSeq(s, e, Len(s))
<1> DEFINE c == position(s, ":")
           e == authority_end(s)
           t == text_from(s, c + 3)
           k == first_of(t, AuthorityEnds)
<1>1. c \in 1 .. Len(s) /\ Len(s) \in Nat /\ c + 2 <= Len(s)
  BY ColonIs DEF Slashed
<1>2. e = c + 2 + k
  BY DEF authority_end
<1> HIDE DEF c, e
<1>3. c + 3 \in Nat \ {0} /\ c + 3 <= Len(s) + 1 /\ c + 2 \in 0 .. Len(s) /\ (c + 2) + 1 = c + 3
  BY <1>1
<1>4. t \in Text /\ Len(t) = Len(s) - (c + 2) /\ \A i \in 1 .. Len(s) - (c + 2) : t[i] = s[c + 2 + i]
  BY <1>3, AfterUserinfo
<1>5. t = SubSeq(s, c + 3, Len(s))
  BY DEF text_from
<1> HIDE DEF t
<1>6. /\ k \in 1 .. Len(t) + 1
      /\ \A i \in 1 .. k - 1 : t[i] \notin AuthorityEnds
      /\ k <= Len(t) => t[k] \in AuthorityEnds
  BY <1>4, FirstOfIs
<1> HIDE DEF k
<1>7. e \in c + 3 .. Len(s) + 1 /\ e \in Nat \ {0} /\ c \in Nat
  BY <1>1, <1>2, <1>4, <1>6
<1>8. \A i \in c + 3 .. e - 1 : s[i] \notin AuthorityEnds
  <2>1. \A i \in c + 3 .. e - 1 : /\ i - (c + 2) \in 1 .. k - 1 /\ i - (c + 2) \in 1 .. Len(s) - (c + 2)
                                  /\ c + 2 + (i - (c + 2)) = i
    BY <1>1, <1>2, <1>4, <1>6
  <2>2. QED
    BY <1>4, <1>6, <2>1
<1>9. e <= Len(s) => s[e] \in AuthorityEnds
  <2>1. e <= Len(s) => k <= Len(t) /\ k \in 1 .. Len(s) - (c + 2)
    BY <1>1, <1>2, <1>4, <1>6
  <2>2. QED
    BY <1>2, <1>4, <1>6, <2>1
<1>10. text_from(text_from(s, c + 1), 3) = t
  <2>1. c + 1 \in Nat \ {0} /\ c + 1 <= Len(s) + 1 /\ Len(s) <= Len(s) /\ 3 \in Nat \ {0} /\ c + 1 + 3 - 1 = c + 3
    BY <1>1
  <2>2. text_from(SubSeq(s, c + 1, Len(s)), 3) = SubSeq(s, c + 1 + 3 - 1, Len(s))
    BY <1>1, <2>1, TailOfPiece
  <2>3. QED
    BY <1>5, <2>1, <2>2 DEF text_from
<1>11. text_before(t, k) = SubSeq(s, c + 3, e - 1)
  <2>1. k \in Nat \ {0} /\ k <= Len(s) - (c + 3) + 2 /\ c + 3 + k - 2 = e - 1 /\ Len(s) <= Len(s)
    BY <1>1, <1>2, <1>4, <1>6
  <2>2. text_before(SubSeq(s, c + 3, Len(s)), k) = SubSeq(s, c + 3, c + 3 + k - 2)
    BY <1>1, <1>3, <2>1, HeadOfPiece
  <2>3. QED
    BY <1>5, <2>1, <2>2
<1>12. text_from(t, k) = SubSeq(s, e, Len(s))
  <2>1. k \in Nat \ {0} /\ c + 3 + k - 1 = e /\ Len(s) <= Len(s)
    BY <1>1, <1>2, <1>4, <1>6
  <2>2. text_from(SubSeq(s, c + 3, Len(s)), k) = SubSeq(s, c + 3 + k - 1, Len(s))
    BY <1>1, <1>3, <2>1, TailOfPiece
  <2>3. QED
    BY <1>5, <2>1, <2>2
<1>13. QED
  BY <1>7, <1>8, <1>9, <1>10, <1>11, <1>12 DEF c, e, t, k, authority_piece

LEMMA SiblingReads ==
  ASSUME NEW s \in Text, ":" \in Range(s)
  PROVE  LET c == position(s, ":")
             e == authority_end(s)
         IN  validate_sibling_authority_port(s) <=>
               IF ~ Slashed(s) THEN \A i \in c + 1 .. Len(s) : s[i] \notin Bracket
               ELSE /\ \A i \in e .. Len(s) : s[i] \notin Bracket
                    /\ AuthorityTaken(authority_piece(s))
<1> DEFINE c == position(s, ":")
           e == authority_end(s)
           t == text_from(s, c + 3)
           k == first_of(t, AuthorityEnds)
<1>1. IsPrefix(<<"/", "/">>, text_from(s, c + 1)) <=> Slashed(s)
  BY SlashedIs
<1>2. c \in 1 .. Len(s) /\ Len(s) \in Nat
  BY ColonIs
<1>3. CASE ~ Slashed(s)
  <2>1. validate_sibling_authority_port(s) <=> Range(text_from(s, c + 1)) \cap Bracket = {}
    BY <1>1, <1>3 DEF validate_sibling_authority_port
  <2>2. c + 1 \in Nat \ {0} /\ Len(s) \in Int /\ Len(s) <= Len(s)
    BY <1>2
  <2> HIDE DEF c
  <2>3. Range(SubSeq(s, c + 1, Len(s))) \cap Bracket = {} <=> \A i \in c + 1 .. Len(s) : s[i] \notin Bracket
    BY <2>2, PieceIn
  <2>4. validate_sibling_authority_port(s) <=> \A i \in c + 1 .. Len(s) : s[i] \notin Bracket
    BY <2>1, <2>3 DEF text_from
  <2>5. QED
    BY <1>3, <2>4 DEF c
<1>4. CASE Slashed(s)
  <2>1. /\ e \in Nat \ {0}
        /\ text_from(text_from(s, c + 1), 3) = t
        /\ text_before(t, k) = authority_piece(s)
        /\ text_from(t, k) = SubSeq(s, e, Len(s))
    BY <1>4, AuthorityEndIs
  <2>2. validate_sibling_authority_port(s) <=>
          Range(text_from(t, k)) \cap Bracket = {} /\ AuthorityTaken(text_before(t, k))
    BY <1>1, <1>4, <2>1, Zenon DEF validate_sibling_authority_port, AuthorityTaken, AuthorityEnds
  <2> HIDE DEF t, k, e
  <2>3. Len(s) \in Int /\ Len(s) <= Len(s)
    BY <1>2
  <2>4. Range(SubSeq(s, e, Len(s))) \cap Bracket = {} <=> \A i \in e .. Len(s) : s[i] \notin Bracket
    BY <2>1, <2>3, PieceIn
  <2>5. QED
    BY <1>4, <2>1, <2>2, <2>4 DEF e
<1>5. QED
  BY <1>3, <1>4

query_at(s) == first_of(s, {"?", "#"})

\* the two ways to find the end of the authority
LEMMA HierIs ==
  ASSUME NEW s \in Text, ":" \in Range(s), position(s, ":") < query_at(s)
  PROVE  LET c == position(s, ":")
             q == query_at(s)
             e == authority_end(s)
             hier == SubSeq(s, c + 1, q - 1)
             rest == text_from(hier, 3)
             slash == first_of(rest, {"/"})
         IN  /\ IsPrefix(<<"/", "/">>, hier) <=> Slashed(s)
             /\ Slashed(s) => /\ e \in c + 3 .. q
                              /\ text_before(rest, slash) = authority_piece(s)
                              /\ text_from(rest, slash) = SubSeq(s, e, q - 1)
<1> DEFINE c == position(s, ":")
           q == query_at(s)
           e == authority_end(s)
           hier == SubSeq(s, c + 1, q - 1)
           rest == text_from(hier, 3)
           slash == first_of(rest, {"/"})
<1>1. c \in 1 .. Len(s) /\ Len(s) \in Nat /\ c < q
  BY ColonIs
<1>2. /\ q \in 1 .. Len(s) + 1
      /\ \A i \in 1 .. q - 1 : s[i] \notin {"?", "#"}
      /\ q <= Len(s) => s[q] \in {"?", "#"}
  BY FirstOfIs DEF query_at
<1>3. Slashed(s) <=> c + 2 <= Len(s) /\ s[c + 1] = "/" /\ s[c + 2] = "/"
  BY DEF Slashed
<1>4. Slashed(s) => c + 2 < q
  <2>1. c + 2 <= Len(s) => c + 1 \in 1 .. Len(s) /\ c + 2 \in 1 .. Len(s)
    BY <1>1
  <2>2. Slashed(s) => q # c + 1 /\ q # c + 2
    BY <1>1, <1>2, <1>3, <2>1
  <2>3. QED
    BY <1>1, <1>2, <2>2
<1>5. Slashed(s) => /\ e \in c + 3 .. Len(s) + 1 /\ e \in Nat \ {0}
                    /\ \A i \in c + 3 .. e - 1 : s[i] \notin AuthorityEnds
                    /\ e <= Len(s) => s[e] \in AuthorityEnds
  BY AuthorityEndIs
<1>6. authority_piece(s) = SubSeq(s, c + 3, e - 1)
  BY DEF authority_piece
<1> HIDE DEF c, q, e
<1>7. hier \in Text /\ Len(hier) = q - 1 - c /\ \A i \in 1 .. q - 1 - c : hier[i] = s[c + i]
  <2>1. c + 1 \in Nat \ {0} /\ q - 1 \in Nat /\ c + 1 <= (q - 1) + 1 /\ q - 1 <= Len(s)
        /\ q - 1 - (c + 1) + 1 = q - 1 - c /\ \A i \in 1 .. q - 1 - c : c + 1 + i - 1 = c + i
    BY <1>1, <1>2
  <2>2. /\ SubSeq(s, c + 1, q - 1) \in Text /\ Len(SubSeq(s, c + 1, q - 1)) = q - 1 - (c + 1) + 1
        /\ \A i \in 1 .. q - 1 - (c + 1) + 1 : SubSeq(s, c + 1, q - 1)[i] = s[c + 1 + i - 1]
    BY <2>1, PieceOf DEF Text
  <2>3. QED
    BY <2>1, <2>2
<1> HIDE DEF hier
<1>8. IsPrefix(<<"/", "/">>, hier) <=> Slashed(s)
  <2>1. IsPrefix(<<"/", "/">>, hier) <=> Len(hier) >= 2 /\ hier[1] = "/" /\ hier[2] = "/"
    BY <1>7, BeginsWithTwo
  <2>2. Len(hier) >= 2 <=> c + 2 < q
    BY <1>1, <1>2, <1>7
  <2>3. c + 2 < q => c + 2 <= Len(s)
    BY <1>1, <1>2
  <2>4. c + 2 < q => hier[1] = s[c + 1] /\ hier[2] = s[c + 2]
    <3>1. c + 2 < q => 1 \in 1 .. q - 1 - c /\ 2 \in 1 .. q - 1 - c
      BY <1>1, <1>2
    <3>2. QED
      BY <1>7, <3>1
  <2>5. QED
    BY <1>3, <1>4, <2>1, <2>2, <2>3, <2>4
<1>9. ASSUME Slashed(s)
      PROVE  /\ e \in c + 3 .. q
             /\ text_before(rest, slash) = authority_piece(s)
             /\ text_from(rest, slash) = SubSeq(s, e, q - 1)
  <2>1. c + 2 < q
    BY <1>4, <1>9
  <2>2. rest = SubSeq(s, c + 3, q - 1)
    <3>1. c + 1 \in Nat \ {0} /\ q - 1 \in Nat /\ c + 1 <= (q - 1) + 1 /\ q - 1 <= Len(s) /\ 3 \in Nat \ {0}
          /\ c + 1 + 3 - 1 = c + 3
      BY <1>1, <1>2
    <3>2. text_from(SubSeq(s, c + 1, q - 1), 3) = SubSeq(s, c + 1 + 3 - 1, q - 1)
      BY <3>1, TailOfPiece
    <3>3. QED
      BY <3>1, <3>2 DEF hier
  <2> HIDE DEF rest
  <2>3. rest \in Text /\ Len(rest) = q - 3 - c /\ \A i \in 1 .. q - 3 - c : rest[i] = s[c + 2 + i]
    <3>1. c + 3 \in Nat \ {0} /\ q - 1 \in Nat /\ c + 3 <= (q - 1) + 1 /\ q - 1 <= Len(s)
          /\ q - 1 - (c + 3) + 1 = q - 3 - c /\ \A i \in 1 .. q - 3 - c : c + 3 + i - 1 = c + 2 + i
      BY <1>1, <1>2, <2>1
    <3>2. /\ SubSeq(s, c + 3, q - 1) \in Text /\ Len(SubSeq(s, c + 3, q - 1)) = q - 1 - (c + 3) + 1
          /\ \A i \in 1 .. q - 1 - (c + 3) + 1 : SubSeq(s, c + 3, q - 1)[i] = s[c + 3 + i - 1]
      BY <3>1, PieceOf DEF Text
    <3>3. QED
      BY <2>2, <3>1, <3>2
  <2>4. /\ slash \in 1 .. Len(rest) + 1
        /\ \A i \in 1 .. slash - 1 : rest[i] \notin {"/"}
        /\ slash <= Len(rest) => rest[slash] \in {"/"}
    BY <2>3, FirstOfIs
  <2> HIDE DEF slash
  <2>5. slash <= Len(rest) => s[c + 2 + slash] = "/"
    <3>1. slash <= Len(rest) => slash \in 1 .. q - 3 - c
      BY <1>1, <1>2, <2>3, <2>4
    <3>2. QED
      BY <2>3, <2>4, <3>1
  <2>6. c + 2 + slash \in c + 3 .. q /\ (slash > Len(rest) => c + 2 + slash = q)
        /\ (slash <= Len(rest) => c + 2 + slash <= Len(s))
    BY <1>1, <1>2, <2>1, <2>3, <2>4
  <2>7. c + 2 + slash <= Len(s) => s[c + 2 + slash] \in AuthorityEnds
    <3>1. CASE slash <= Len(rest)
      BY <2>5, <3>1 DEF AuthorityEnds
    <3>2. CASE slash > Len(rest)
      BY <1>2, <2>6, <3>2 DEF AuthorityEnds
    <3>3. QED
      BY <2>3, <2>4, <3>1, <3>2, LenProperties DEF Text
  <2>8. \A i \in c + 3 .. c + 1 + slash : s[i] \notin AuthorityEnds
    <3>1. \A i \in c + 3 .. c + 1 + slash :
            /\ i - (c + 2) \in 1 .. slash - 1 /\ i - (c + 2) \in 1 .. q - 3 - c
            /\ c + 2 + (i - (c + 2)) = i /\ i \in 1 .. q - 1
      BY <1>1, <1>2, <2>3, <2>4
    <3>2. \A i \in c + 3 .. c + 1 + slash : s[i] # "/"
      BY <2>3, <2>4, <3>1
    <3>3. QED
      BY <1>2, <3>1, <3>2 DEF AuthorityEnds
  <2>9. e = c + 2 + slash
    <3> DEFINE f == c + 2 + slash
    <3>1. /\ f \in c + 3 .. q /\ e \in c + 3 .. Len(s) + 1
          /\ f <= Len(s) => s[f] \in AuthorityEnds
          /\ \A i \in c + 3 .. f - 1 : s[i] \notin AuthorityEnds
      <4>1. \A i \in c + 3 .. f - 1 : i \in c + 3 .. c + 1 + slash
        BY <1>1, <1>2, <2>4
      <4>2. QED
        BY <1>5, <1>9, <2>6, <2>7, <2>8, <4>1
    <3> HIDE DEF f
    <3>2. ~ (e < f)
      <4>1. e < f => e \in c + 3 .. f - 1 /\ e <= Len(s)
        BY <1>1, <1>2, <3>1
      <4>2. QED
        BY <1>5, <1>9, <3>1, <4>1
    <3>3. ~ (f < e)
      <4>1. f < e => f \in c + 3 .. e - 1 /\ f <= Len(s)
        BY <1>1, <1>2, <3>1
      <4>2. QED
        BY <1>5, <1>9, <3>1, <4>1
    <3>4. e = f
      BY <1>1, <1>2, <3>1, <3>2, <3>3
    <3>5. QED
      BY <3>4 DEF f
  <2>10. text_before(rest, slash) = SubSeq(s, c + 3, e - 1)
    <3>1. c + 3 \in Nat \ {0} /\ q - 1 \in Nat /\ c + 3 <= (q - 1) + 1 /\ q - 1 <= Len(s)
          /\ slash \in Nat \ {0} /\ slash <= (q - 1) - (c + 3) + 2 /\ c + 3 + slash - 2 = e - 1
      BY <1>1, <1>2, <2>1, <2>3, <2>4, <2>9
    <3>2. text_before(SubSeq(s, c + 3, q - 1), slash) = SubSeq(s, c + 3, c + 3 + slash - 2)
      BY <3>1, HeadOfPiece
    <3>3. QED
      BY <2>2, <3>1, <3>2
  <2>11. text_from(rest, slash) = SubSeq(s, e, q - 1)
    <3>1. c + 3 \in Nat \ {0} /\ q - 1 \in Nat /\ c + 3 <= (q - 1) + 1 /\ q - 1 <= Len(s)
          /\ slash \in Nat \ {0} /\ c + 3 + slash - 1 = e
      BY <1>1, <1>2, <2>1, <2>3, <2>4, <2>9
    <3>2. text_from(SubSeq(s, c + 3, q - 1), slash) = SubSeq(s, c + 3 + slash - 1, q - 1)
      BY <3>1, TailOfPiece
    <3>3. QED
      BY <2>2, <3>1, <3>2
  <2>12. e \in c + 3 .. q
    BY <2>6, <2>9
  <2>13. QED
    BY <1>6, <2>10, <2>11, <2>12
<1>10. QED
  BY <1>8, <1>9 DEF c, q, e, hier, rest, slash

\* the grammar, by the places of its delimiters
LEMMA UriReads ==
  ASSUME NEW s \in Text, ":" \in Range(s)
  PROVE  LET c == position(s, ":")
             q == query_at(s)
             h == position(s, "#")
             e == authority_end(s)
         IN  IsUri(s) <=>
               /\ c < q
               /\ validate_scheme(text_before(s, c))
               /\ \A i \in h + 1 .. Len(s) : s[i] \in QueryChar
               /\ \A i \in q + 1 .. h - 1 : s[i] \in QueryChar
               /\ IF Slashed(s)
                  THEN /\ IsAuthority(authority_piece(s))
                       /\ \A i \in e .. q - 1 : s[i] \in QueryChar \ {"?"}
                  ELSE \A i \in c + 1 .. q - 1 : s[i] \in QueryChar \ {"?"}
<1> DEFINE c == position(s, ":")
           q == query_at(s)
           h == position(s, "#")
           e == authority_end(s)
           hier == SubSeq(s, c + 1, q - 1)
           rest == text_from(hier, 3)
           slash == first_of(rest, {"/"})
<1>1. c \in 1 .. Len(s) /\ Len(s) \in Nat
  BY ColonIs
<1>2. q \in 1 .. Len(s) + 1 /\ h \in 1 .. Len(s) + 1
  BY FirstOfIs, PositionIs DEF query_at
<1>3. IsUri(s) <=>
        /\ c < q
        /\ validate_scheme(text_before(s, c))
        /\ Range(text_from(s, h + 1)) \subseteq QueryChar
        /\ Range(SubSeq(s, q + 1, h - 1)) \subseteq QueryChar
        /\ IF IsPrefix(<<"/", "/">>, hier)
           THEN /\ IsAuthority(text_before(rest, slash))
                /\ Range(text_from(rest, slash)) \subseteq QueryChar \ {"?"}
           ELSE Range(hier) \subseteq QueryChar \ {"?"}
  BY Zenon DEF IsUri, query_at
<1>4. CASE c < q
  <2>1. /\ IsPrefix(<<"/", "/">>, hier) <=> Slashed(s)
        /\ Slashed(s) => /\ e \in c + 3 .. q
                         /\ text_before(rest, slash) = authority_piece(s)
                         /\ text_from(rest, slash) = SubSeq(s, e, q - 1)
    BY <1>4, HierIs
  <2> HIDE DEF c, q, h, e, rest, slash
  <2>2. c + 1 \in Nat \ {0} /\ q + 1 \in Nat \ {0} /\ h + 1 \in Nat \ {0}
        /\ q - 1 \in Int /\ q - 1 <= Len(s) /\ h - 1 \in Int /\ h - 1 <= Len(s)
        /\ Len(s) \in Int /\ Len(s) <= Len(s)
    BY <1>1, <1>2
  <2> DEFINE Piece(a, b, T) ==
               Range(SubSeq(s, a, b)) \subseteq T <=> \A i \in a .. b : s[i] \in T
  <2>9. \A T : \A a \in Nat \ {0}, b \in Int : b <= Len(s) => Piece(a, b, T)
    BY PieceIn
  <2>3. Range(SubSeq(s, h + 1, Len(s))) \subseteq QueryChar <=> \A i \in h + 1 .. Len(s) : s[i] \in QueryChar
    BY <2>2, <2>9, Zenon
  <2>4. Range(SubSeq(s, q + 1, h - 1)) \subseteq QueryChar <=> \A i \in q + 1 .. h - 1 : s[i] \in QueryChar
    BY <2>2, <2>9, Zenon
  <2>5. Range(SubSeq(s, c + 1, q - 1)) \subseteq QueryChar \ {"?"}
          <=> \A i \in c + 1 .. q - 1 : s[i] \in QueryChar \ {"?"}
    BY <2>2, <2>9, Zenon
  <2>6. Slashed(s) => (Range(SubSeq(s, e, q - 1)) \subseteq QueryChar \ {"?"}
                         <=> \A i \in e .. q - 1 : s[i] \in QueryChar \ {"?"})
    <3>1. Slashed(s) => e \in Nat \ {0}
      BY <1>1, <1>2, <2>1
    <3>2. QED
      BY <2>2, <2>9, <3>1, Zenon
  <2>7. text_from(s, h + 1) = SubSeq(s, h + 1, Len(s))
    BY DEF text_from
  <2>8. QED
    BY <1>3, <2>1, <2>3, <2>4, <2>5, <2>6, <2>7 DEF c, q, h, e
<1>5. CASE ~ (c < q)
  BY <1>3, <1>5
<1>6. QED
  BY <1>4, <1>5

-----------------------------------------------------------------------------
(***************************************************************************)
(* Identifiers, and the grammar of RFC 3986.                               *)
(***************************************************************************)

\* what the validator of attestations asks of a text with a colon
SiblingAccepts(s) ==
  /\ validate_scheme(text_before(s, position(s, ":")))
  /\ validate_uri_bytes(s)
  /\ occurrences(s, "#") <= 1
  /\ validate_sibling_authority_port(s)

LEMMA UriBytesIs ==
  ASSUME NEW s \in Text
  PROVE  validate_uri_bytes(s) <=> \A i \in 1 .. Len(s) : s[i] \in UriByte
<1>1. Range(s) \subseteq UriByte <=> \A i \in 1 .. Len(s) : s[i] \in UriByte
  BY TextIn
<1>2. QED
  BY <1>1, Zenon DEF validate_uri_bytes, UriByte

\* where a text with a scheme has its delimiters
LEMMA Delimiters ==
  ASSUME NEW s \in Text, ":" \in Range(s), validate_scheme(text_before(s, position(s, ":")))
  PROVE  LET c == position(s, ":")
             q == query_at(s)
             h == position(s, "#")
         IN  /\ c \in 1 .. Len(s) /\ Len(s) \in Nat /\ s[c] = ":"
             /\ \A i \in 1 .. c - 1 : s[i] \in UserinfoChar \ {":"}
             /\ c < q /\ q <= h /\ h \in 1 .. Len(s) + 1
             /\ \A i \in 1 .. q - 1 : s[i] \notin {"?", "#"}
             /\ \A i \in 1 .. h - 1 : s[i] # "#"
             /\ q <= Len(s) => s[q] \in {"?", "#"}
             /\ h <= Len(s) => s[h] = "#"
<1> DEFINE c == position(s, ":")
           q == query_at(s)
           h == position(s, "#")
<1>1. c \in 1 .. Len(s) /\ Len(s) \in Nat /\ s[c] = ":"
  BY ColonIs
<1>2. /\ q \in 1 .. Len(s) + 1
      /\ \A i \in 1 .. q - 1 : s[i] \notin {"?", "#"}
      /\ q <= Len(s) => s[q] \in {"?", "#"}
  BY FirstOfIs DEF query_at
<1>3. /\ h \in 1 .. Len(s) + 1
      /\ \A i \in 1 .. h - 1 : s[i] # "#"
      /\ h <= Len(s) => s[h] = "#"
  BY PositionIs
<1>4. Range(SubSeq(s, 1, c - 1)) \subseteq SchemeChar
  BY DEF validate_scheme, text_before
<1> HIDE DEF c, q, h
<1>5. \A i \in 1 .. c - 1 : s[i] \in SchemeChar
  <2>1. 1 \in Nat \ {0} /\ c - 1 \in Int /\ c - 1 <= Len(s)
    BY <1>1
  <2>2. Range(SubSeq(s, 1, c - 1)) \subseteq SchemeChar <=> \A i \in 1 .. c - 1 : s[i] \in SchemeChar
    <3>1. \A b \in Int : b <= Len(s) =>
            (Range(SubSeq(s, 1, b)) \subseteq SchemeChar <=> \A i \in 1 .. b : s[i] \in SchemeChar)
      BY <2>1, PieceIn, Zenon
    <3>2. QED
      BY <2>1, <3>1, Zenon
  <2>3. QED
    BY <1>4, <2>2
<1>6. \A i \in 1 .. c - 1 : s[i] \in UserinfoChar \ {":"}
  BY <1>5, CharacterClasses
<1>7. c < q
  <2>1. \A i \in 1 .. c : i \in 1 .. c - 1 \/ i = c
    BY <1>1
  <2>2. \A i \in 1 .. c : s[i] \notin {"?", "#"}
    BY <1>1, <1>6, <2>1, CharacterClasses
  <2>3. q <= c => q \in 1 .. c /\ q <= Len(s)
    BY <1>1, <1>2
  <2>4. QED
    BY <1>1, <1>2, <2>2, <2>3
<1>8. q <= h
  <2>1. h < q => h \in 1 .. q - 1 /\ h <= Len(s)
    BY <1>1, <1>2, <1>3
  <2>2. QED
    BY <1>2, <1>3, <2>1
<1>9. QED
  BY <1>1, <1>2, <1>3, <1>6, <1>7, <1>8 DEF c, q, h

LEMMA AuthorityPieceIs ==
  ASSUME NEW s \in Text, ":" \in Range(s), Slashed(s)
  PROVE  LET c == position(s, ":")
             e == authority_end(s)
             a == authority_piece(s)
         IN  /\ a \in Text /\ Len(a) = e - c - 3
             /\ \A i \in 1 .. e - c - 3 : a[i] = s[c + 2 + i]
             /\ c \in Nat /\ e \in c + 3 .. Len(s) + 1
             /\ \A i \in c + 3 .. e - 1 : s[i] \notin AuthorityEnds
             /\ e <= Len(s) => s[e] \in AuthorityEnds
<1> DEFINE c == position(s, ":")
           e == authority_end(s)
<1>1. /\ e \in c + 3 .. Len(s) + 1 /\ c \in Nat /\ Len(s) \in Nat
      /\ \A i \in c + 3 .. e - 1 : s[i] \notin AuthorityEnds
      /\ e <= Len(s) => s[e] \in AuthorityEnds
  BY AuthorityEndIs, ColonIs
<1>2. authority_piece(s) = SubSeq(s, c + 3, e - 1)
  BY DEF authority_piece
<1> HIDE DEF c, e
<1>3. c + 3 \in Nat \ {0} /\ e - 1 \in Nat /\ c + 3 <= (e - 1) + 1 /\ e - 1 <= Len(s)
      /\ e - 1 - (c + 3) + 1 = e - c - 3 /\ \A i \in 1 .. e - c - 3 : c + 3 + i - 1 = c + 2 + i
  BY <1>1
<1>4. /\ SubSeq(s, c + 3, e - 1) \in Text /\ Len(SubSeq(s, c + 3, e - 1)) = e - 1 - (c + 3) + 1
      /\ \A i \in 1 .. e - 1 - (c + 3) + 1 : SubSeq(s, c + 3, e - 1)[i] = s[c + 3 + i - 1]
  BY <1>3, PieceOf DEF Text
<1>5. QED
  BY <1>1, <1>2, <1>3, <1>4 DEF c, e

LEMMA AuthorityChars ==
  ASSUME NEW s \in Text, ":" \in Range(s), Slashed(s), NEW T
  PROVE  (\A i \in 1 .. Len(authority_piece(s)) : authority_piece(s)[i] \in T)
           <=> \A i \in position(s, ":") + 3 .. authority_end(s) - 1 : s[i] \in T
<1> DEFINE c == position(s, ":")
           e == authority_end(s)
           a == authority_piece(s)
<1>1. /\ Len(a) = e - c - 3 /\ c \in Nat /\ e \in c + 3 .. Len(s) + 1 /\ Len(s) \in Nat
      /\ \A i \in 1 .. e - c - 3 : a[i] = s[c + 2 + i]
  BY AuthorityPieceIs, ColonIs
<1> HIDE DEF c, e, a
<1>2. \A i \in c + 3 .. e - 1 : i - (c + 2) \in 1 .. e - c - 3 /\ c + 2 + (i - (c + 2)) = i
  BY <1>1
<1>3. \A i \in 1 .. e - c - 3 : c + 2 + i \in c + 3 .. e - 1
  BY <1>1
<1>4. \A i \in c + 3 .. e - 1 : a[i - (c + 2)] = s[i]
  BY <1>1, <1>2
<1>5. QED
  BY <1>1, <1>2, <1>3, <1>4 DEF c, e, a

\* a literal of another version stands in the authority or nowhere
LEMMA VersionedPiece ==
  ASSUME NEW s \in Text, ":" \in Range(s), Slashed(s)
  PROVE  /\ Versioned(authority_piece(s)) => Versioned(s)
         /\ (\A i \in 1 .. position(s, ":") + 2 : s[i] # "[")
              /\ (\A i \in authority_end(s) .. Len(s) : s[i] # "[")
              /\ Versioned(s) => Versioned(authority_piece(s))
<1> DEFINE c == position(s, ":")
           e == authority_end(s)
           a == authority_piece(s)
<1>1. /\ Len(a) = e - c - 3 /\ c \in Nat /\ e \in c + 3 .. Len(s) + 1 /\ Len(s) \in Nat
      /\ \A i \in 1 .. e - c - 3 : a[i] = s[c + 2 + i]
      /\ e <= Len(s) => s[e] \in AuthorityEnds
  BY AuthorityPieceIs, ColonIs
<1> HIDE DEF c, e, a
<1>2. \A i \in 1 .. Len(a) - 1 : /\ c + 2 + i \in 1 .. Len(s) - 1 /\ c + 2 + (i + 1) = (c + 2 + i) + 1
                                 /\ i \in 1 .. e - c - 3 /\ i + 1 \in 1 .. e - c - 3
  BY <1>1
<1>3. ASSUME NEW i \in 1 .. Len(a) - 1, a[i] = "[", a[i + 1] = "v" PROVE Versioned(s)
  <2>1. s[c + 2 + i] = "[" /\ s[(c + 2 + i) + 1] = "v"
    BY <1>1, <1>2, <1>3
  <2>2. QED
    BY <1>2, <2>1 DEF Versioned
<1>4. ASSUME \A i \in 1 .. c + 2 : s[i] # "[", \A i \in e .. Len(s) : s[i] # "[",
             NEW i \in 1 .. Len(s) - 1, s[i] = "[", s[i + 1] = "v"
      PROVE  Versioned(a)
  <2>1. i \in 1 .. c + 2 \/ i \in e .. Len(s) \/ i \in c + 3 .. e - 1
    BY <1>1
  <2>2. i \in c + 3 .. e - 1
    BY <1>4, <2>1
  <2>3. i + 1 # e
    <3>1. i + 1 = e => e <= Len(s)
      BY <1>1
    <3>2. "v" \notin AuthorityEnds
      BY DEF AuthorityEnds
    <3>3. QED
      BY <1>1, <1>4, <3>1, <3>2
  <2>4. /\ i - (c + 2) \in 1 .. Len(a) - 1
        /\ i - (c + 2) \in 1 .. e - c - 3 /\ c + 2 + (i - (c + 2)) = i
        /\ (i - (c + 2)) + 1 \in 1 .. e - c - 3 /\ c + 2 + ((i - (c + 2)) + 1) = i + 1
    BY <1>1, <2>2, <2>3
  <2>5. a[i - (c + 2)] = "[" /\ a[(i - (c + 2)) + 1] = "v"
    BY <1>1, <1>4, <2>4
  <2>6. QED
    BY <2>4, <2>5 DEF Versioned
<1>5. QED
  BY <1>3, <1>4 DEF Versioned, c, e, a

\* what the validator takes is a URI
LEMMA SiblingMeansUri ==
  ASSUME NEW s \in Text, ":" \in Range(s), SiblingAccepts(s)
  PROVE  IsUri(s) /\ ~ Versioned(s)
<1> DEFINE c == position(s, ":")
           q == query_at(s)
           h == position(s, "#")
           e == authority_end(s)
<1>1. validate_scheme(text_before(s, c)) /\ occurrences(s, "#") <= 1
  BY DEF SiblingAccepts
<1>2. /\ c \in 1 .. Len(s) /\ Len(s) \in Nat
      /\ c < q /\ q <= h /\ h \in 1 .. Len(s) + 1 /\ q \in Int
      /\ \A i \in 1 .. q - 1 : s[i] \notin {"?", "#"}
      /\ \A i \in 1 .. h - 1 : s[i] # "#"
      /\ h <= Len(s) => s[h] = "#"
  BY <1>1, Delimiters, FirstOfIs DEF query_at
<1>3. \A i \in 1 .. Len(s) : s[i] \in UriByte
  BY UriBytesIs DEF SiblingAccepts
<1>4. \A i, j \in 1 .. Len(s) : s[i] = "#" /\ s[j] = "#" => i = j
  BY <1>1, AtMostOnce
<1>5. IF ~ Slashed(s) THEN \A i \in c + 1 .. Len(s) : s[i] \notin Bracket
      ELSE /\ \A i \in e .. Len(s) : s[i] \notin Bracket
           /\ AuthorityTaken(authority_piece(s))
  BY SiblingReads DEF SiblingAccepts
<1>6. Slashed(s) => e \in c + 3 .. q
  BY <1>2, HierIs
<1>7. PICK from \in 1 .. q :
        /\ \A i \in from .. Len(s) : s[i] \notin Bracket
        /\ from = IF Slashed(s) THEN e ELSE c + 1
  <2> HIDE DEF c, e, q
  <2>1. CASE Slashed(s)
    BY <1>2, <1>5, <1>6, <2>1
  <2>2. CASE ~ Slashed(s)
    <3>1. c + 1 \in 1 .. q
      BY <1>2
    <3>2. QED
      BY <1>5, <2>2, <3>1
  <2>3. QED
    BY <2>1, <2>2
<1> HIDE DEF c, q, h, e
<1>8. \A i \in from .. Len(s) : i # h => s[i] \in QueryChar
  <2> SUFFICES ASSUME NEW i \in from .. Len(s), i # h PROVE s[i] \in QueryChar
    OBVIOUS
  <2>1. i \in 1 .. Len(s)
    BY <1>2
  <2>2. s[i] # "#"
    <3>1. i < h => i \in 1 .. h - 1
      BY <1>2, <2>1
    <3>2. h < i => h \in 1 .. Len(s)
      BY <1>2, <2>1
    <3>3. QED
      BY <1>2, <1>4, <2>1, <3>1, <3>2
  <2>3. QED
    BY <1>3, <1>7, <2>1, <2>2, CharacterClasses DEF Bracket
<1>9. \A i \in h + 1 .. Len(s) : s[i] \in QueryChar
  <2>1. \A i \in h + 1 .. Len(s) : i \in from .. Len(s) /\ i # h
    BY <1>2
  <2>2. QED
    BY <1>8, <2>1
<1>10. \A i \in q + 1 .. h - 1 : s[i] \in QueryChar
  <2>1. \A i \in q + 1 .. h - 1 : i \in from .. Len(s) /\ i # h
    BY <1>2
  <2>2. QED
    BY <1>8, <2>1
<1>11. \A i \in from .. q - 1 : s[i] \in QueryChar \ {"?"}
  <2>1. \A i \in from .. q - 1 : i \in from .. Len(s) /\ i # h /\ i \in 1 .. q - 1
    BY <1>2
  <2>2. QED
    BY <1>2, <1>8, <2>1
<1>12. \A i \in 1 .. c - 1 : s[i] # "["
  BY <1>1, Delimiters, CharacterClasses DEF c
<1>13. CASE Slashed(s)
  <2>1. authority_piece(s) \in Text /\ AuthorityTaken(authority_piece(s))
    BY <1>5, <1>13, AuthorityPieceIs
  <2>2. \A i \in c + 3 .. e - 1 : s[i] \notin AuthorityEnds
    BY <1>13, AuthorityPieceIs DEF c, e
  <2>3. \A i \in c + 3 .. e - 1 : i \in 1 .. Len(s)
    BY <1>2, <1>6, <1>13
  <2>4. \A i \in c + 3 .. e - 1 : s[i] \in AuthorityChar
    BY <1>3, <2>2, <2>3, CharacterClasses DEF AuthorityChar, HostChar, AuthorityEnds, Bracket
  <2>5. \A i \in 1 .. Len(authority_piece(s)) : authority_piece(s)[i] \in AuthorityChar
    BY <1>13, <2>4, AuthorityChars DEF c, e
  <2>6. IsAuthority(authority_piece(s)) /\ ~ Versioned(authority_piece(s))
    BY <2>1, <2>5, AuthorityMeant
  <2>7. IsUri(s)
    BY <1>1, <1>2, <1>7, <1>9, <1>10, <1>11, <1>13, <2>6, UriReads DEF c, q, h, e
  <2>8. \A i \in e .. Len(s) : s[i] # "["
    BY <1>7, <1>13 DEF Bracket
  <2>9. \A i \in 1 .. c + 2 : s[i] # "["
    <3>1. s[c] = ":" /\ s[c + 1] = "/" /\ s[c + 2] = "/"
      BY <1>13, ColonIs DEF Slashed, c
    <3>2. \A i \in 1 .. c + 2 : i \in 1 .. c - 1 \/ i = c \/ i = c + 1 \/ i = c + 2
      BY <1>2
    <3>3. QED
      BY <1>12, <3>1, <3>2
  <2>10. ~ Versioned(s)
    BY <1>13, <2>6, <2>8, <2>9, VersionedPiece DEF c, e
  <2>11. QED
    BY <2>7, <2>10
<1>14. CASE ~ Slashed(s)
  <2>1. IsUri(s)
    BY <1>1, <1>2, <1>7, <1>9, <1>10, <1>11, <1>14, UriReads DEF c, q, h, e
  <2>2. \A i \in 1 .. Len(s) - 1 : i \in 1 .. c - 1 \/ i = c \/ i \in from .. Len(s)
    BY <1>2, <1>7, <1>14
  <2>3. s[c] = ":"
    BY ColonIs DEF c
  <2>4. \A i \in 1 .. Len(s) - 1 : s[i] # "["
    BY <1>7, <1>12, <2>2, <2>3 DEF Bracket
  <2>5. QED
    BY <2>1, <2>4 DEF Versioned
<1>15. QED
  BY <1>13, <1>14

\* and a URI is taken, save with a literal of another version
LEMMA UriIsTaken ==
  ASSUME NEW s \in Text, ":" \in Range(s), IsUri(s)
  PROVE  /\ validate_scheme(text_before(s, position(s, ":"))) /\ validate_uri_bytes(s)
         /\ ~ Versioned(s) => SiblingAccepts(s)
<1> DEFINE c == position(s, ":")
           q == query_at(s)
           h == position(s, "#")
           e == authority_end(s)
<1>1. /\ c < q
      /\ validate_scheme(text_before(s, c))
      /\ \A i \in h + 1 .. Len(s) : s[i] \in QueryChar
      /\ \A i \in q + 1 .. h - 1 : s[i] \in QueryChar
      /\ IF Slashed(s)
         THEN /\ IsAuthority(authority_piece(s))
              /\ \A i \in e .. q - 1 : s[i] \in QueryChar \ {"?"}
         ELSE \A i \in c + 1 .. q - 1 : s[i] \in QueryChar \ {"?"}
  BY UriReads
<1>2. /\ c \in 1 .. Len(s) /\ Len(s) \in Nat /\ s[c] = ":"
      /\ q <= h /\ h \in 1 .. Len(s) + 1 /\ q \in Int
      /\ \A i \in 1 .. c - 1 : s[i] \in UserinfoChar \ {":"}
      /\ \A i \in 1 .. h - 1 : s[i] # "#"
      /\ q <= Len(s) => s[q] \in {"?", "#"}
      /\ h <= Len(s) => s[h] = "#"
  BY <1>1, Delimiters, FirstOfIs DEF query_at
<1>3. Slashed(s) => /\ e \in c + 3 .. q
                    /\ s[c + 1] = "/" /\ s[c + 2] = "/"
  BY <1>1, HierIs DEF Slashed
<1>4. Slashed(s) => /\ ~ Versioned(s) => AuthorityTaken(authority_piece(s))
                    /\ \A i \in c + 3 .. e - 1 : s[i] \in AuthorityChar
  <2> SUFFICES ASSUME Slashed(s)
               PROVE  /\ ~ Versioned(s) => AuthorityTaken(authority_piece(s))
                      /\ \A i \in c + 3 .. e - 1 : s[i] \in AuthorityChar
    OBVIOUS
  <2>1. authority_piece(s) \in Text /\ IsAuthority(authority_piece(s))
    BY <1>1, AuthorityPieceIs
  <2>2. /\ ~ Versioned(authority_piece(s)) => AuthorityTaken(authority_piece(s))
        /\ \A i \in 1 .. Len(authority_piece(s)) : authority_piece(s)[i] \in AuthorityChar
    BY <2>1, AuthorityAccepted
  <2>3. Versioned(authority_piece(s)) => Versioned(s)
    BY VersionedPiece
  <2>4. QED
    BY <2>2, <2>3, AuthorityChars
<1> HIDE DEF c, q, h, e
<1>5. \A i \in 1 .. Len(s) : \/ i \in 1 .. c - 1 \/ i = c \/ i \in c + 1 .. q - 1 \/ i = q
                             \/ i \in q + 1 .. h - 1 \/ i = h \/ i \in h + 1 .. Len(s)
  BY <1>2
<1>6. \A i \in c + 1 .. q - 1 : /\ s[i] \in UriByte
                                /\ Slashed(s) /\ i >= e => s[i] \notin Bracket
                                /\ ~ Slashed(s) => s[i] \notin Bracket
  <2> SUFFICES ASSUME NEW i \in c + 1 .. q - 1
               PROVE  /\ s[i] \in UriByte
                      /\ Slashed(s) /\ i >= e => s[i] \notin Bracket
                      /\ ~ Slashed(s) => s[i] \notin Bracket
    OBVIOUS
  <2>1. QueryChar \subseteq UriByte /\ QueryChar \cap Bracket = {} /\ AuthorityChar \subseteq UriByte
        /\ "/" \in UriByte
    BY CharacterClasses DEF Bracket, AuthorityChar, HostChar
  <2>2. CASE ~ Slashed(s)
    BY <1>1, <2>1, <2>2
  <2>3. CASE Slashed(s)
    <3>1. i = c + 1 \/ i = c + 2 \/ i \in c + 3 .. e - 1 \/ i \in e .. q - 1
      BY <1>2, <1>3, <2>3
    <3>2. i >= e <=> i \in e .. q - 1
      BY <1>2, <1>3, <2>3
    <3>3. QED
      BY <1>1, <1>3, <1>4, <2>1, <2>3, <3>1, <3>2
  <2>4. QED
    BY <2>2, <2>3
<1>7. \A i \in q .. Len(s) : s[i] \in UriByte /\ s[i] \notin Bracket
  <2>1. {"?", "#"} \cup QueryChar \subseteq UriByte /\ ({"?", "#"} \cup QueryChar) \cap Bracket = {}
    BY CharacterClasses DEF Bracket
  <2>2. \A i \in q .. Len(s) : i = q \/ i \in q + 1 .. h - 1 \/ i = h \/ i \in h + 1 .. Len(s)
    BY <1>2
  <2>3. \A i \in q .. Len(s) : s[i] \in {"?", "#"} \cup QueryChar
    BY <1>1, <1>2, <2>2
  <2>4. QED
    BY <2>1, <2>3
<1>8. \A i \in 1 .. Len(s) : s[i] \in UriByte
  <2>1. \A i \in 1 .. Len(s) : i \in 1 .. c - 1 \/ i = c \/ i \in c + 1 .. q - 1 \/ i \in q .. Len(s)
    BY <1>2
  <2>2. UserinfoChar \subseteq UriByte /\ ":" \in UriByte
    BY CharacterClasses
  <2>3. QED
    BY <1>2, <1>6, <1>7, <2>1, <2>2
<1>9. validate_uri_bytes(s)
  BY <1>8, UriBytesIs
<1>10. occurrences(s, "#") <= 1
  <2>1. \A i \in 1 .. Len(s) : i \in 1 .. h - 1 \/ i = h \/ i \in h + 1 .. Len(s)
    BY <1>2
  <2>2. "#" \notin QueryChar
    BY CharacterClasses
  <2>3. \A i \in 1 .. Len(s) : s[i] = "#" => i = h
    BY <1>1, <1>2, <2>1, <2>2
  <2>4. QED
    BY <2>3, AtMostOnce
<1>11. ASSUME ~ Versioned(s) PROVE validate_sibling_authority_port(s)
  <2>1. CASE ~ Slashed(s)
    <3>1. \A i \in c + 1 .. Len(s) : i \in c + 1 .. q - 1 \/ i \in q .. Len(s)
      BY <1>2
    <3>2. \A i \in c + 1 .. Len(s) : s[i] \notin Bracket
      BY <1>6, <1>7, <2>1, <3>1
    <3>3. QED
      BY <2>1, <3>2, SiblingReads DEF c
  <2>2. CASE Slashed(s)
    <3>1. \A i \in e .. Len(s) : i \in q .. Len(s) \/ (i \in c + 1 .. q - 1 /\ i >= e)
      BY <1>2, <1>3, <2>2
    <3>2. \A i \in e .. Len(s) : s[i] \notin Bracket
      BY <1>6, <1>7, <2>2, <3>1
    <3>3. QED
      BY <1>4, <1>11, <2>2, <3>2, SiblingReads DEF e
  <2>3. QED
    BY <2>1, <2>2
<1>12. QED
  BY <1>1, <1>9, <1>10, <1>11 DEF SiblingAccepts, c

\* the older validator refuses for a port just what it misreads
LEMMA MarksAre ==
  ASSUME NEW s \in Text
  PROVE  \A i \in 1 .. Len(s) : IsPrefix(<<":", "/", "/">>, text_from(s, i)) <=> IsMark(s, i)
<1>1. Len(s) \in Nat
  BY LenProperties DEF Text
<1> SUFFICES ASSUME NEW i \in 1 .. Len(s)
             PROVE  IsPrefix(<<":", "/", "/">>, text_from(s, i)) <=> IsMark(s, i)
  OBVIOUS
<1> DEFINE t == text_from(s, i)
<1>2. /\ t \in Text /\ Len(t) = Len(s) - i + 1
      /\ \A j \in 1 .. Len(s) - i + 1 : t[j] = s[i + j - 1]
  <2>1. i \in Nat \ {0} /\ i <= Len(s) + 1
    BY <1>1
  <2>2. QED
    BY <2>1, TailOf
<1> HIDE DEF t
<1>3. IsPrefix(<<":", "/", "/">>, t) <=> Len(t) >= 3 /\ t[1] = ":" /\ t[2] = "/" /\ t[3] = "/"
  BY <1>2, BeginsWithMore
<1>4. Len(t) >= 3 <=> i + 2 <= Len(s)
  BY <1>1, <1>2
<1>5. i + 2 <= Len(s) => t[1] = s[i] /\ t[2] = s[i + 1] /\ t[3] = s[i + 2]
  <2>1. i + 2 <= Len(s) => /\ 1 \in 1 .. Len(s) - i + 1 /\ 2 \in 1 .. Len(s) - i + 1
                           /\ 3 \in 1 .. Len(s) - i + 1
    BY <1>1
  <2>2. i + 1 - 1 = i /\ i + 2 - 1 = i + 1 /\ i + 3 - 1 = i + 2
    BY <1>1
  <2>3. QED
    BY <1>2, <2>1, <2>2
<1>6. QED
  BY <1>3, <1>4, <1>5 DEF IsMark, t

\* the digits that follow the last colon
LEMMA DigitsAfter ==
  ASSUME NEW s \in Text, NEW k \in 0 .. Len(s)
  PROVE  digits_only(text_from(s, k + 1)) <=> \A i \in k + 1 .. Len(s) : s[i] \in DecimalDigit
<1>1. k + 1 \in Nat \ {0} /\ Len(s) \in Int /\ Len(s) <= Len(s)
  BY LenProperties DEF Text
<1>2. \A a \in Nat \ {0} : Range(SubSeq(s, a, Len(s))) \subseteq DecimalDigit
                             <=> \A i \in a .. Len(s) : s[i] \in DecimalDigit
  BY <1>1, PieceIn
<1>3. QED
  BY <1>1, <1>2, Zenon DEF digits_only, text_from

LEMMA PortlessIs ==
  ASSUME NEW a \in Text
  PROVE  ~ Portless(a) <=> \/ IsPrefix(<<"[">>, a)
                           \/ last_colon(a) = 0
                           \/ /\ text_from(a, last_colon(a) + 1) # << >>
                              /\ digits_only(text_from(a, last_colon(a) + 1))
<1> DEFINE k == last_colon(a)
<1>1. /\ k \in 0 .. Len(a) /\ Len(a) \in Nat /\ DOMAIN a = 1 .. Len(a)
      /\ \A i \in k + 1 .. Len(a) : a[i] # ":"
      /\ k # 0 => a[k] = ":"
  BY LastColonIs, LenProperties DEF Text
<1>2. digits_only(text_from(a, k + 1)) <=> \A i \in k + 1 .. Len(a) : a[i] \in DecimalDigit
  BY <1>1, DigitsAfter
<1>3. text_from(a, k + 1) = << >> <=> k = Len(a)
  <2>1. k + 1 \in Nat \ {0} /\ k + 1 <= Len(a) + 1 /\ (k + 1 = Len(a) + 1 <=> k = Len(a))
    BY <1>1
  <2>2. QED
    BY <2>1, TailOf
<1> HIDE DEF k
<1>4. ":" \in Range(a) <=> k # 0
  <2>1. k = 0 => \A i \in DOMAIN a : a[i] # ":"
    BY <1>1
  <2>2. k # 0 => k \in DOMAIN a
    BY <1>1
  <2>3. QED
    BY <1>1, <2>1, <2>2 DEF Range
<1>5. ":" \in Range(a) => (a[1] = "[" <=> IsPrefix(<<"[">>, a))
  <2>1. k # 0 => Len(a) >= 1
    BY <1>1
  <2>2. QED
    BY <1>4, <2>1, BracketIs
<1>6. (\E i \in DOMAIN a : /\ a[i] = ":" /\ i < Len(a)
                          /\ \A j \in i + 1 .. Len(a) : a[j] \in DecimalDigit)
        <=> k # 0 /\ k < Len(a) /\ \A j \in k + 1 .. Len(a) : a[j] \in DecimalDigit
  <2>1. ASSUME NEW i \in DOMAIN a, a[i] = ":", i < Len(a),
               \A j \in i + 1 .. Len(a) : a[j] \in DecimalDigit
        PROVE  i = k
    <3>1. ":" \notin DecimalDigit
      BY CharacterClasses
    <3>2. k > i => k # 0 /\ k \in i + 1 .. Len(a)
      BY <1>1, <2>1
    <3>3. i > k => i \in k + 1 .. Len(a)
      BY <1>1, <2>1
    <3>4. QED
      BY <1>1, <2>1, <3>1, <3>2, <3>3
  <2>2. k # 0 => k \in DOMAIN a
    BY <1>1
  <2>3. QED
    BY <1>1, <2>1, <2>2
<1>7. k < Len(a) <=> k # Len(a)
  <2>1. k \in Int /\ Len(a) \in Int /\ k <= Len(a)
    BY <1>1
  <2> HIDE DEF k
  <2>2. QED
    BY <2>1
<1>8. Portless(a) <=> /\ ":" \in Range(a) /\ a[1] # "["
                      /\ ~ (k # 0 /\ k < Len(a) /\ \A j \in k + 1 .. Len(a) : a[j] \in DecimalDigit)
  BY <1>6, Zenon DEF Portless
<1>9. QED
  BY <1>2, <1>3, <1>4, <1>5, <1>7, <1>8 DEF k

LEMMA AuthorityAtIs ==
  ASSUME NEW s \in Text, NEW i \in 1 .. Len(s), IsMark(s, i)
  PROVE  authority_at(s, i + 3) \in Text
<1> DEFINE t == text_from(s, i + 3)
           k == first_of(t, AuthorityEnds)
<1>1. Len(s) \in Nat /\ i + 3 \in Nat \ {0} /\ i + 3 <= Len(s) + 1
  BY LenProperties DEF Text, IsMark
<1>2. t \in Text /\ Len(t) \in Nat
  BY <1>1, TailOf, LenProperties DEF Text
<1> HIDE DEF t
<1>3. k \in 1 .. Len(t) + 1
  BY <1>2, FirstOfIs
<1> HIDE DEF k
<1>4. SubSeq(t, 1, k - 1) \in Text
  <2>1. 1 \in Nat \ {0} /\ k - 1 \in Nat /\ 1 <= (k - 1) + 1 /\ k - 1 <= Len(t)
    BY <1>2, <1>3
  <2>2. QED
    BY <1>2, <2>1, PieceOf DEF Text
<1>5. QED
  BY <1>4, Zenon DEF authority_at, text_before, AuthorityEnds, t, k

LEMMA MisreadIs ==
  ASSUME NEW s \in Text
  PROVE  validate_authority_port(s) <=> ~ Misread(s)
<1> DEFINE marks == {i \in DOMAIN s : IsPrefix(<<":", "/", "/">>, text_from(s, i))}
           mark == CHOOSE i \in marks : \A j \in marks : i <= j
           rest == text_from(s, mark + 3)
           authority == text_before(rest, first_of(rest, {"/", "?", "#"}))
           port == text_from(authority, last_colon(authority) + 1)
<1>1. Len(s) \in Nat /\ DOMAIN s = 1 .. Len(s)
  BY LenProperties DEF Text
<1>2. \A i : i \in marks <=> i \in 1 .. Len(s) /\ IsMark(s, i)
  BY <1>1, MarksAre
<1>3. validate_authority_port(s) <=>
        \/ marks = {}
        \/ IsPrefix(<<"[">>, authority)
        \/ last_colon(authority) = 0
        \/ port # << >> /\ digits_only(port)
  BY Zenon DEF validate_authority_port
<1>4. authority = authority_at(s, mark + 3)
  BY Zenon DEF authority_at
<1> HIDE DEF marks
<1>5. CASE marks = {}
  BY <1>1, <1>2, <1>3, <1>5 DEF Misread
<1>6. CASE marks # {}
  <2>1. marks \in SUBSET (1 .. Len(s))
    BY <1>2
  <2>2. mark \in marks /\ \A j \in marks : mark <= j
    <3>1. \E i \in marks : \A j \in marks : i <= j
      BY <1>1, <1>6, <2>1, FirstOf
    <3>2. QED
      BY <3>1
  <2> HIDE DEF mark
  <2>3. mark \in 1 .. Len(s) /\ IsMark(s, mark)
    BY <1>2, <2>2
  <2>4. \A i \in 1 .. mark - 1 : ~ IsMark(s, i)
    <3>1. \A i \in 1 .. mark - 1 : i \in 1 .. Len(s) /\ ~ (mark <= i)
      BY <1>1, <2>3
    <3>2. QED
      BY <1>2, <2>2, <3>1
  <2>5. \A i \in 1 .. Len(s) : IsMark(s, i) /\ (\A j \in 1 .. i - 1 : ~ IsMark(s, j)) => i = mark
    <3>1. \A i \in 1 .. Len(s) : /\ mark < i => mark \in 1 .. i - 1
                                 /\ i < mark => i \in 1 .. mark - 1
      BY <1>1, <2>3
    <3>2. \A i \in 1 .. Len(s) : i # mark => i < mark \/ mark < i
      BY <1>1, <2>3
    <3>3. QED
      BY <2>3, <2>4, <3>1, <3>2
  <2>6. Misread(s) <=> Portless(authority_at(s, mark + 3))
    BY <1>1, <2>3, <2>4, <2>5 DEF Misread
  <2>7. authority_at(s, mark + 3) \in Text
    BY <2>3, AuthorityAtIs
  <2> HIDE DEF rest, authority
  <2>8. authority \in Text /\ (Misread(s) <=> Portless(authority))
    BY <1>4, <2>6, <2>7
  <2>9. QED
    BY <1>3, <1>6, <2>8, PortlessIs
<1>7. QED
  BY <1>5, <1>6

OlderAccepts(s) ==
  /\ validate_scheme(text_before(s, position(s, ":")))
  /\ validate_uri_bytes(s)
  /\ validate_authority_port(s)

LEMMA AuthorityTextIs ==
  ASSUME NEW s \in Text, ":" \in Range(s)
  PROVE  /\ has_authority(s) <=> Slashed(s)
         /\ Slashed(s) => authority_text(s) = authority_piece(s)
<1>1. has_authority(s) <=> Slashed(s)
  BY SlashedIs DEF has_authority
<1>2. ASSUME Slashed(s) PROVE authority_text(s) = authority_piece(s)
  <2> DEFINE rest == text_from(s, position(s, ":") + 3)
  <2>1. text_before(rest, first_of(rest, AuthorityEnds)) = authority_piece(s)
    BY <1>2, AuthorityEndIs
  <2>2. QED
    BY <2>1, Zenon DEF authority_text, authority_at, AuthorityEnds
<1>3. QED
  BY <1>1, <1>2

LEMMA OlderTakes ==
  ASSUME NEW s \in Text, ":" \in Range(s), IsUri(s) \/ Tolerable(s), ~ Misread(s)
  PROVE  OlderAccepts(s)
<1>1. validate_authority_port(s)
  BY MisreadIs
<1>2. CASE IsUri(s)
  BY <1>1, <1>2, UriIsTaken DEF OlderAccepts
<1>3. CASE Tolerable(s)
  <2>1. QueryChar \cup {"#"} \cup Bracket \subseteq UriByte
    BY CharacterClasses DEF Bracket
  <2>2. Range(s) \subseteq UriByte /\ validate_scheme(text_before(s, position(s, ":")))
    BY <1>3, <2>1 DEF Tolerable
  <2>3. \A i \in 1 .. Len(s) : s[i] \in UriByte
    BY <2>2, TextIn
  <2>4. QED
    BY <1>1, <2>2, <2>3, UriBytesIs DEF OlderAccepts
<1>4. QED
  BY <1>2, <1>3

LEMMA OccurrencesAre ==
  ASSUME NEW s \in Text, NEW x, ~ (occurrences(s, x) > 1)
  PROVE  occurrences(s, x) <= 1
<1>1. IsFiniteSet(DOMAIN s)
  BY LenProperties, FS_Interval, 1 \in Int DEF Text
<1>2. IsFiniteSet({i \in DOMAIN s : s[i] = x})
  BY <1>1, FS_Subset
<1>3. occurrences(s, x) \in Nat
  BY <1>2, FS_CardinalityType DEF occurrences
<1>4. QED
  BY <1>3

\* an authority without brackets, with one "@" and after it one colon, if any,
\* whose port is one
LEMMA PlainAuthority ==
  ASSUME NEW a \in Text, Range(a) \cap Bracket = {}, ~ Portless(a),
         occurrences(a, "@") <= 1, occurrences(host_text(a), ":") <= 1
  PROVE  AuthorityTaken(a)
<1> DEFINE at == position(a, "@")
           h == host_text(a)
<1>1. /\ at \in 1 .. Len(a) + 1 /\ Len(a) \in Nat /\ DOMAIN a = 1 .. Len(a)
      /\ at <= Len(a) => a[at] = "@"
      /\ \A i \in 1 .. at - 1 : a[i] # "@"
  BY PositionIs, LenProperties DEF Text
<1>2. \A i \in 1 .. Len(a) : a[i] \notin Bracket
  BY TextIn
<1> HIDE DEF at
<1>3. "@" \in Range(a) <=> ~ (at > Len(a))
  <2>1. at > Len(a) => \A i \in 1 .. Len(a) : i \in 1 .. at - 1
    BY <1>1
  <2>2. ~ (at > Len(a)) => at \in 1 .. Len(a) /\ at <= Len(a)
    BY <1>1
  <2>3. QED
    BY <1>1, <2>1, <2>2 DEF Range
<1>4. PICK off \in 0 .. Len(a) : h = text_from(a, off + 1) /\ off = IF at > Len(a) THEN 0 ELSE at
  <2>1. CASE at > Len(a)
    <3>1. h = a
      BY <1>3, <2>1 DEF host_text
    <3>2. 0 \in 0 .. Len(a)
      BY <1>1
    <3>3. text_from(a, 0 + 1) = a
      BY WholeText
    <3>4. QED
      BY <2>1, <3>1, <3>2, <3>3
  <2>2. CASE ~ (at > Len(a))
    <3>1. h = text_from(a, at + 1)
      BY <1>3, <2>2 DEF host_text, at
    <3>2. at \in 0 .. Len(a)
      BY <1>1, <2>2
    <3>3. QED
      BY <2>2, <3>1, <3>2
  <2>3. QED
    BY <2>1, <2>2
<1>5. h \in Text /\ Len(h) = Len(a) - off /\ \A i \in 1 .. Len(a) - off : h[i] = a[off + i]
  <2>1. /\ text_from(a, off + 1) \in Text /\ Len(text_from(a, off + 1)) = Len(a) - off
        /\ \A i \in 1 .. Len(a) - off : text_from(a, off + 1)[i] = a[off + i]
    BY AfterUserinfo
  <2>2. QED
    BY <1>4, <2>1, Zenon
<1>6. occurrences(h, ":") <= 1
  OBVIOUS
<1> HIDE DEF h
<1>7. \A i \in 1 .. Len(h) : off + i \in 1 .. Len(a) /\ h[i] = a[off + i]
  BY <1>1, <1>5
<1>8. \A i \in 1 .. Len(h) : h[i] \notin Bracket
  BY <1>2, <1>7
<1>9. ~ IsPrefix(<<"[">>, h)
  <2>1. Len(h) >= 1 => 1 \in 1 .. Len(h)
    BY <1>1, <1>5
  <2>2. QED
    BY <1>5, <1>8, <2>1, BracketIs DEF Bracket
<1>10. Range(h) \cap Bracket = {}
  BY <1>5, <1>8, TextIn
<1>11. ASSUME last_colon(h) # 0 PROVE digits_only(text_from(h, last_colon(h) + 1))
  <2> DEFINE k == last_colon(h)
  <2>1. k \in 1 .. Len(h) /\ k \in 0 .. Len(h) /\ h[k] = ":"
    BY <1>5, <1>11, LastColonIs
  <2> HIDE DEF k
  <2>2. off + k \in DOMAIN a /\ a[off + k] = ":"
    BY <1>1, <1>7, <2>1
  <2>3. ":" \in Range(a) /\ a[1] # "["
    <3>1. Len(a) >= 1 => 1 \in 1 .. Len(a)
      BY <1>1
    <3>2. Len(a) >= 1
      BY <1>1, <2>2
    <3>3. QED
      BY <1>2, <2>2, <3>1, <3>2 DEF Range, Bracket
  <2>4. PICK i \in DOMAIN a : /\ a[i] = ":" /\ i < Len(a)
                             /\ \A j \in i + 1 .. Len(a) : a[j] \in DecimalDigit
    BY <2>3 DEF Portless
  <2>5. ~ (i < off)
    <3>1. i < off => off = at /\ off \in i + 1 .. Len(a) /\ at <= Len(a)
      BY <1>1, <1>4, <2>4
    <3>2. "@" \notin DecimalDigit
      BY DecimalDigitIs
    <3>3. QED
      BY <1>1, <2>4, <3>1, <3>2
  <2>6. i # off
    <3>1. i = off => off = at /\ at <= Len(a)
      BY <1>1, <1>4, <2>4
    <3>2. QED
      BY <1>1, <2>4, <3>1
  <2>7. i - off \in 1 .. Len(h) /\ off + (i - off) = i
    <3>1. i \in 1 .. Len(a) /\ off \in 0 .. Len(a) /\ Len(a) \in Nat /\ Len(h) = Len(a) - off
      BY <1>1, <1>5, <2>4
    <3>2. QED
      BY <2>5, <2>6, <3>1
  <2>8. h[i - off] = ":"
    BY <1>7, <2>4, <2>7
  <2>9. i - off = k
    <3>1. \A m, n \in 1 .. Len(h) : h[m] = ":" /\ h[n] = ":" => m = n
      BY <1>5, <1>6, AtMostOnce
    <3>2. QED
      BY <2>1, <2>7, <2>8, <3>1
  <2>10. \A j \in k + 1 .. Len(h) : j \in 1 .. Len(h) /\ off + j \in i + 1 .. Len(a)
    BY <1>1, <1>5, <2>1, <2>4, <2>7, <2>9
  <2>11. \A j \in k + 1 .. Len(h) : h[j] \in DecimalDigit
    BY <1>7, <2>4, <2>10
  <2>12. QED
    BY <1>5, <2>1, <2>11, DigitsAfter DEF k
<1>12. host_port_ok(h)
  BY <1>6, <1>9, <1>10, <1>11, Zenon DEF host_port_ok
<1>13. CASE at > Len(a)
  <2>1. off = 0 /\ text_from(a, 0 + 1) = a
    BY <1>4, <1>13, WholeText
  <2>2. host_port_ok(a)
    BY <1>4, <1>12, <2>1
  <2>3. QED
    BY <1>13, <2>2 DEF AuthorityTaken, at
<1>14. CASE ~ (at > Len(a))
  <2>1. at \in 1 .. Len(a) /\ at <= Len(a) /\ a[at] = "@"
    BY <1>1, <1>14
  <2>2. occurrences(a, "@") = 1
    BY <2>1, AtMostOnce
  <2>3. \A i \in 1 .. at - 1 : i \in 1 .. Len(a)
    BY <1>1, <2>1
  <2>4. Range(text_before(a, at)) \cap Bracket = {}
    BY <1>1, <1>2, <2>1, <2>3, UserinfoBefore
  <2>5. host_port_ok(text_from(a, at + 1))
    BY <1>4, <1>12, <1>14
  <2>6. QED
    BY <1>14, <2>2, <2>4, <2>5 DEF AuthorityTaken, at
<1>15. QED
  BY <1>13, <1>14

LEMMA OlderMeans ==
  ASSUME NEW s \in Text, ":" \in Range(s), OlderAccepts(s)
  PROVE  (IsUri(s) \/ Tolerable(s)) /\ ~ Misread(s)
<1> DEFINE a == authority_piece(s)
<1>1. ~ Misread(s)
  BY MisreadIs DEF OlderAccepts
<1>2. SUFFICES ASSUME ~ Tolerable(s) PROVE IsUri(s)
  BY <1>1
<1>3. /\ ~ (Range(s) \cap Bracket # {})
      /\ ~ (occurrences(s, "#") > 1)
      /\ ~ (has_authority(s) /\ occurrences(authority_text(s), "@") > 1)
      /\ ~ (has_authority(s) /\ occurrences(host_text(authority_text(s)), ":") > 1)
  <2>1. UriByte \subseteq QueryChar \cup {"#"} \cup Bracket
    BY CharacterClasses DEF Bracket
  <2>2. \A i \in 1 .. Len(s) : s[i] \in UriByte
    BY UriBytesIs DEF OlderAccepts
  <2>3. Range(s) \subseteq QueryChar \cup {"#"} \cup Bracket
    <3>1. Range(s) \subseteq UriByte
      BY <2>2, TextIn
    <3>2. QED
      BY <2>1, <3>1
  <2>4. QED
    BY <1>2, <2>3 DEF Tolerable, OlderAccepts
<1>4. occurrences(s, "#") <= 1
  BY <1>3, OccurrencesAre
<1>5. \A i \in 1 .. Len(s) : s[i] \notin Bracket
  BY <1>3, TextIn
<1>6. position(s, ":") \in 1 .. Len(s) /\ Len(s) \in Nat
  BY ColonIs
<1>7. CASE ~ Slashed(s)
  <2>1. \A i \in position(s, ":") + 1 .. Len(s) : i \in 1 .. Len(s)
    BY <1>6
  <2>2. validate_sibling_authority_port(s)
    BY <1>5, <1>7, <2>1, SiblingReads
  <2>3. QED
    BY <1>4, <2>2, SiblingMeansUri DEF SiblingAccepts, OlderAccepts
<1>8. CASE Slashed(s)
  <2>1. a \in Text /\ has_authority(s) /\ authority_text(s) = a
    BY <1>8, AuthorityPieceIs, AuthorityTextIs
  <2>2. Range(a) \cap Bracket = {}
    <3>1. \A i \in position(s, ":") + 3 .. authority_end(s) - 1 : i \in 1 .. Len(s)
      BY <1>6, <1>8, AuthorityPieceIs
    <3>2. \A i \in position(s, ":") + 3 .. authority_end(s) - 1 : s[i] \in Character \ Bracket
      <4>1. \A i \in 1 .. Len(s) : s[i] \in Character
        BY ElementOfSeq DEF Text
      <4>2. QED
        BY <1>5, <3>1, <4>1
    <3>3. \A i \in 1 .. Len(a) : a[i] \in Character \ Bracket
      BY <1>8, <3>2, AuthorityChars
    <3>4. QED
      BY <2>1, <3>3, TextIn
  <2>3. ~ Portless(a)
    <3> DEFINE c == position(s, ":")
    <3>1. /\ c \in 1 .. Len(s) /\ s[c] = ":" /\ DOMAIN s = 1 .. Len(s)
          /\ \A i \in 1 .. c - 1 : s[i] # ":"
      BY ColonIs, LenProperties DEF Text
    <3>2. IsMark(s, c)
      BY <1>8, <3>1 DEF Slashed, IsMark
    <3>3. authority_text(s) = authority_at(s, c + 3)
      BY DEF authority_text
    <3> HIDE DEF c
    <3>4. \A j \in 1 .. c - 1 : ~ IsMark(s, j)
      BY <3>1 DEF IsMark
    <3>5. QED
      BY <1>1, <2>1, <3>1, <3>2, <3>3, <3>4 DEF Misread
  <2> HIDE DEF a
  <2>4. host_text(a) \in Text
    <3>1. CASE "@" \in Range(a)
      <4>1. position(a, "@") \in 0 .. Len(a)
        <5>1. DOMAIN a = 1 .. Len(a) /\ Len(a) \in Nat
          BY <2>1, LenProperties DEF Text
        <5>2. PICK i \in 1 .. Len(a) : a[i] = "@"
          BY <3>1, <5>1 DEF Range
        <5>3. /\ position(a, "@") \in 1 .. Len(a) + 1
              /\ \A j \in 1 .. position(a, "@") - 1 : a[j] # "@"
          BY <2>1, PositionIs
        <5>4. i < position(a, "@") => i \in 1 .. position(a, "@") - 1
          BY <5>1, <5>3
        <5>5. QED
          BY <5>1, <5>2, <5>3, <5>4
      <4>2. text_from(a, position(a, "@") + 1) \in Text
        BY <2>1, <4>1, AfterUserinfo
      <4>3. QED
        BY <3>1, <4>2 DEF host_text
    <3>2. CASE "@" \notin Range(a)
      BY <2>1, <3>2 DEF host_text
    <3>3. QED
      BY <3>1, <3>2
  <2>5. occurrences(a, "@") <= 1 /\ occurrences(host_text(a), ":") <= 1
    BY <1>3, <2>1, <2>4, OccurrencesAre
  <2>6. AuthorityTaken(a)
    BY <2>1, <2>2, <2>3, <2>5, PlainAuthority
  <2>7. \A i \in authority_end(s) .. Len(s) : s[i] \notin Bracket
    <3>1. \A i \in authority_end(s) .. Len(s) : i \in 1 .. Len(s)
      BY <1>6, <1>8, AuthorityPieceIs
    <3>2. QED
      BY <1>5, <3>1
  <2>8. validate_sibling_authority_port(s)
    BY <1>8, <2>6, <2>7, SiblingReads DEF a
  <2>9. QED
    BY <1>4, <2>8, SiblingMeansUri DEF SiblingAccepts, OlderAccepts
<1>9. QED
  BY <1>7, <1>8

\* identifiers: a text with a colon is an identifier of an attestation exactly
\* when it is a URI whose literal, if it has one, is an address, and an identifier
\* of a grant exactly when it is a URI, or what that validator takes besides, and
\* is not one of those whose port it misreads: for texts of any length.
THEOREM IdentifiersAreRead == CodecsSpec => []IdentifiersAreUris
<1>1. Answered(task, answer) => IdentifiersAreUris
  <2> SUFFICES ASSUME Answered(task, answer),
                      task.of \in {"validate_identifier", "validate_sibling_identifier"}
               PROVE  IdentifiersAreUris
    BY Zenon DEF IdentifiersAreUris
  <2>1. PICK s \in IdentifierText :
          \/ /\ task = [of |-> "validate_identifier", text |-> s]
             /\ answer = [ok |-> validate_identifier(s)]
          \/ /\ task = [of |-> "validate_sibling_identifier", text |-> s]
             /\ answer = [ok |-> validate_sibling_identifier(s)]
    BY DEF Answered, SignatureAnswered, TextAnswered
  <2>2. s \in Text /\ task.text = s
    BY <2>1, CodecAssumption, StringsAreText
  <2>3. uri_len(s) \in Nat /\ (uri_len(s) = 0 <=> s = << >>) /\ IdentifierBytes \in Nat
    BY <2>2, LengthOfText, IdentifierAssumption
  <2>4. (s # << >> /\ uri_len(s) <= IdentifierBytes) <=> uri_len(s) \in 1 .. IdentifierBytes
    BY <2>3
  <2>5. /\ task.of = "validate_identifier" =>
             (answer.ok <=> /\ s # << >> /\ uri_len(s) <= IdentifierBytes
                            /\ ":" \in Range(s) => OlderAccepts(s))
        /\ task.of = "validate_sibling_identifier" =>
             (answer.ok <=> /\ s # << >> /\ uri_len(s) <= IdentifierBytes
                            /\ ":" \in Range(s) => SiblingAccepts(s))
    <3>1. /\ task.of = "validate_identifier" => answer.ok = validate_identifier(s)
          /\ task.of = "validate_sibling_identifier" => answer.ok = validate_sibling_identifier(s)
      BY <2>1
    <3>2. QED
      BY <3>1, Zenon DEF validate_identifier, validate_sibling_identifier, OlderAccepts, SiblingAccepts
  <2>6. answer.ok \in BOOLEAN
    <3>1. validate_identifier(s) \in BOOLEAN
      BY Zenon DEF validate_identifier
    <3>2. validate_sibling_identifier(s) \in BOOLEAN
      BY Zenon DEF validate_sibling_identifier
    <3>3. QED
      BY <2>1, <3>1, <3>2
  <2>7. CASE ":" \notin Range(s) \/ uri_len(s) > IdentifierBytes
    BY <2>2, <2>3, <2>4, <2>5, <2>7 DEF IdentifiersAreUris
  <2>8. CASE ":" \in Range(s) /\ ~ (uri_len(s) > IdentifierBytes)
    <3>1. s # << >>
      BY <2>2, <2>8, EmptySeq DEF Range
    <3>2. uri_len(s) <= IdentifierBytes
      BY <2>3, <2>8
    <3>3. IsUri(s) /\ ~ Versioned(s) <=> SiblingAccepts(s)
      BY <2>2, <2>8, UriIsTaken, SiblingMeansUri
    <3>4. OlderAccepts(s) <=> (IsUri(s) \/ Tolerable(s)) /\ ~ Misread(s)
      BY <2>2, <2>8, OlderTakes, OlderMeans
    <3>5. IsUri(s) \in BOOLEAN
      BY DEF IsUri
    <3>6. QED
      BY <2>2, <2>5, <2>6, <2>8, <3>1, <3>2, <3>3, <3>4, <3>5 DEF IdentifiersAreUris
  <2>9. QED
    BY <2>7, <2>8
<1>2. QED
  BY <1>1, AnswersAreReturned, PTL
==============================================================================
