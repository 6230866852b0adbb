------------------------ MODULE SelectorSystem_proofs ------------------------
(***************************************************************************)
(* Proofs about selectors and request digests: what host, holder and       *)
(* issuer agree on, for JSON values of any breadth and any depth the       *)
(* library takes.                                                          *)
(***************************************************************************)
EXTENDS SelectorSystem, ChainLemmas, FiniteSetTheorems

LEMMA BoundsAreNat == MaxDepth \in Nat /\ MaxMagnitude \in Nat
BY SelectorBounds

-----------------------------------------------------------------------------
\* Values, layer by layer.

Nest(V) == Scalars \cup [tag : {"array"}, items : Seq(V)]
                   \cup [tag : {"object"}, members : Seq(STRING \X V)]

Layers(n, f) == f = [i \in 0 .. n |-> IF i = 0 THEN Scalars ELSE Nest(f[i - 1])]

LEMMA LayersExist == ASSUME NEW n \in Nat PROVE \E f : Layers(n, f)
<1> DEFINE S == {k \in 0 .. n : \E f : Layers(k, f)}
<1>1. 0 \in S
  <2>1. Layers(0, [i \in 0 .. 0 |-> Scalars])
    BY DEF Layers
  <2>2. QED
    BY <2>1
<1>2. ASSUME NEW k \in 0 .. n - 1, k \in S PROVE k + 1 \in S
  <2>1. PICK f : Layers(k, f)
    BY <1>2
  <2> DEFINE g == [i \in 0 .. k + 1 |-> IF i = 0 THEN Scalars ELSE Nest(f[i - 1])]
  <2>2. \A i \in 0 .. k : g[i] = f[i]
    BY <2>1 DEF Layers
  <2>3. \A i \in 0 .. k + 1 : i # 0 => i - 1 \in 0 .. k /\ g[i] = Nest(g[i - 1])
    BY <2>2
  <2>4. g[0] = Scalars
    OBVIOUS
  <2>5. g = [i \in 0 .. k + 1 |-> g[i]]
    OBVIOUS
  <2> HIDE DEF g
  <2>6. \A i \in 0 .. k + 1 : g[i] = IF i = 0 THEN Scalars ELSE Nest(g[i - 1])
    BY <2>3, <2>4
  <2>7. Layers(k + 1, g)
    BY <2>5, <2>6, Zenon DEF Layers
  <2>8. k + 1 \in 0 .. n
    OBVIOUS
  <2>9. QED
    BY <2>7, <2>8
<1> HIDE DEF S
<1>3. 0 .. n \subseteq S
  BY <1>1, <1>2, IntervalUp
<1>4. n \in S
  BY <1>3
<1>5. QED
  BY <1>4 DEF S

LEMMA NestedIsLayer ==
  ASSUME NEW n \in Nat
  PROVE  \E f : Layers(n, f) /\ nested(n) = f[n]
<1> DEFINE f == CHOOSE g : Layers(n, g)
<1>1. Layers(n, f)
  BY LayersExist, Zenon
<1>2. nested(n) = f[n]
  BY DEF nested, Layers, Nest
<1>3. QED
  BY <1>1, <1>2

LEMMA LayersAgree ==
  ASSUME NEW n \in Nat, NEW m \in Nat, n <= m, NEW f, NEW g, Layers(n, f), Layers(m, g)
  PROVE  \A i \in 0 .. n : f[i] = g[i]
<1> DEFINE S == {i \in 0 .. n : f[i] = g[i]}
<1>1. 0 \in S
  BY DEF Layers
<1>2. ASSUME NEW i \in 0 .. n - 1, i \in S PROVE i + 1 \in S
  <2>1. i + 1 \in 0 .. n /\ i + 1 \in 0 .. m /\ (i + 1) - 1 = i /\ i + 1 # 0
    OBVIOUS
  <2>2. f[i + 1] = Nest(f[i]) /\ g[i + 1] = Nest(g[i])
    BY <2>1 DEF Layers
  <2>3. QED
    BY <1>2, <2>1, <2>2
<1> HIDE DEF S
<1>3. 0 .. n \subseteq S
  BY <1>1, <1>2, IntervalUp
<1>4. QED
  BY <1>3 DEF S

LEMMA NestedUnfolds ==
  /\ nested(0) = Scalars
  /\ \A n \in Nat : nested(n + 1) = Nest(nested(n))
<1>1. nested(0) = Scalars
  BY NestedIsLayer DEF Layers
<1>2. ASSUME NEW n \in Nat PROVE nested(n + 1) = Nest(nested(n))
  <2>1. PICK f : Layers(n, f) /\ nested(n) = f[n]
    BY NestedIsLayer
  <2>2. PICK g : Layers(n + 1, g) /\ nested(n + 1) = g[n + 1]
    BY NestedIsLayer
  <2>3. g[n] = f[n]
    BY <2>1, <2>2, LayersAgree
  <2>4. g[n + 1] = Nest(g[n])
    BY <2>2 DEF Layers
  <2>5. QED
    BY <2>1, <2>2, <2>3, <2>4
<1>3. QED
  BY <1>1, <1>2

LEMMA NestGrows == ASSUME NEW V, NEW W, V \subseteq W PROVE Nest(V) \subseteq Nest(W)
<1>1. Seq(V) \subseteq Seq(W)
  BY SeqMonotonic
<1>2. STRING \X V \subseteq STRING \X W
  OBVIOUS
<1>3. Seq(STRING \X V) \subseteq Seq(STRING \X W)
  BY <1>2, SeqMonotonic
<1> HIDE DEF Nest
<1>4. QED
  BY <1>1, <1>3 DEF Nest

LEMMA NestedGrows == ASSUME NEW n \in Nat PROVE nested(n) \subseteq nested(n + 1)
<1> DEFINE S == {i \in 0 .. n : nested(i) \subseteq nested(i + 1)}
<1>1. 0 \in S
  <2>1. nested(0) \subseteq nested(0 + 1)
    BY NestedUnfolds DEF Nest
  <2>2. QED
    BY <2>1
<1>2. ASSUME NEW i \in 0 .. n - 1, i \in S PROVE i + 1 \in S
  <2>1. Nest(nested(i)) \subseteq Nest(nested(i + 1))
    BY <1>2, NestGrows
  <2>2. i \in Nat /\ i + 1 \in Nat /\ i + 1 \in 0 .. n
    OBVIOUS
  <2>3. nested(i + 1) = Nest(nested(i)) /\ nested((i + 1) + 1) = Nest(nested(i + 1))
    BY <2>2, NestedUnfolds
  <2>4. QED
    BY <2>1, <2>2, <2>3
<1> HIDE DEF S
<1>3. 0 .. n \subseteq S
  BY <1>1, <1>2, IntervalUp
<1>4. n \in S
  BY <1>3
<1>5. QED
  BY <1>4 DEF S

LEMMA NestedWithin == ASSUME NEW n \in 0 .. MaxDepth PROVE nested(n) \subseteq Value
<1> DEFINE S == {i \in Int : nested(n) \subseteq nested(i)}
<1>1. n \in S
  OBVIOUS
<1>2. ASSUME NEW i \in n .. MaxDepth - 1, i \in S PROVE i + 1 \in S
  <2>1. i \in Nat
    BY BoundsAreNat
  <2>2. QED
    BY <1>2, <2>1, NestedGrows
<1> HIDE DEF S
<1>3. n .. MaxDepth \subseteq S
  BY <1>1, <1>2, BoundsAreNat, IntervalUp
<1>4. MaxDepth \in S
  BY <1>3, BoundsAreNat
<1>5. QED
  BY <1>4 DEF S, Value

-----------------------------------------------------------------------------
\* The parts of a value, and induction over them.

Parts(v) ==
  CASE v.tag = "array"  -> {v.items[i] : i \in DOMAIN v.items}
    [] v.tag = "object" -> {v.members[i][2] : i \in DOMAIN v.members}
    [] OTHER            -> {}

\* what a value nested in V is
Shape(v, V) ==
  \/ v \in Scalars /\ v.tag \in {"null", "boolean", "string", "integer", "float"}
  \/ v.tag = "array" /\ v.items \in Seq(V) /\ v = array(v.items)
  \/ v.tag = "object" /\ v.members \in Seq(STRING \X V) /\ v = object(v.members)

LEMMA NestShape == ASSUME NEW V, NEW v \in Nest(V) PROVE Shape(v, V)
<1>1. CASE v \in Scalars
  BY <1>1 DEF Shape, Scalars, Literal, Float, null
<1>2. CASE v \in [tag : {"array"}, items : Seq(V)]
  BY <1>2 DEF Shape, array
<1>3. CASE v \in [tag : {"object"}, members : Seq(STRING \X V)]
  BY <1>3 DEF Shape, object
<1>4. QED
  BY <1>1, <1>2, <1>3 DEF Nest

LEMMA ArrayParts ==
  ASSUME NEW V, NEW v, v.tag = "array", v.items \in Seq(V)
  PROVE  /\ Parts(v) \subseteq V
         /\ Len(v.items) \in Nat /\ DOMAIN v.items = 1 .. Len(v.items)
         /\ \A i \in DOMAIN v.items : v.items[i] \in V /\ v.items[i] \in Parts(v)
<1> DEFINE s == v.items
<1>1. Len(s) \in Nat /\ DOMAIN s = 1 .. Len(s) /\ \A i \in DOMAIN s : s[i] \in V
  <2> s \in Seq(V)
    OBVIOUS
  <2> HIDE DEF s
  <2> QED
    OBVIOUS
<1>2. Parts(v) = {s[i] : i \in DOMAIN s}
  BY DEF Parts
<1> HIDE DEF s
<1>3. QED
  BY <1>1, <1>2 DEF s

LEMMA ObjectParts ==
  ASSUME NEW V, NEW v, v.tag = "object", v.members \in Seq(STRING \X V)
  PROVE  /\ Parts(v) \subseteq V
         /\ Len(v.members) \in Nat /\ DOMAIN v.members = 1 .. Len(v.members)
         /\ \A i \in DOMAIN v.members :
              /\ v.members[i] = <<v.members[i][1], v.members[i][2]>>
              /\ v.members[i][1] \in STRING
              /\ v.members[i][2] \in V /\ v.members[i][2] \in Parts(v)
<1> DEFINE s == v.members
<1>1. Len(s) \in Nat /\ DOMAIN s = 1 .. Len(s) /\ \A i \in DOMAIN s : s[i] \in STRING \X V
  <2> s \in Seq(STRING \X V)
    OBVIOUS
  <2> HIDE DEF s
  <2> QED
    OBVIOUS
<1>2. Parts(v) = {s[i][2] : i \in DOMAIN s}
  BY DEF Parts
<1> HIDE DEF s
<1>3. QED
  BY <1>1, <1>2 DEF s

LEMMA PartsBelow ==
  ASSUME NEW n \in Nat
  PROVE  /\ \A v \in nested(0) : Parts(v) = {}
         /\ \A v \in nested(n + 1) : Shape(v, nested(n)) /\ Parts(v) \subseteq nested(n)
<1>1. ASSUME NEW v \in nested(0) PROVE Parts(v) = {}
  <2>1. v \in Scalars
    BY NestedUnfolds
  <2>2. v.tag \notin {"array", "object"}
    BY <2>1 DEF Scalars, Literal, Float, null
  <2>3. QED
    BY <2>2 DEF Parts
<1>2. ASSUME NEW v \in nested(n + 1)
      PROVE  Shape(v, nested(n)) /\ Parts(v) \subseteq nested(n)
  <2>1. Shape(v, nested(n))
    BY NestedUnfolds, NestShape
  <2>2. CASE v.tag = "array"
    <3>1. v.items \in Seq(nested(n))
      BY <2>1, <2>2 DEF Shape
    <3>2. QED
      BY <2>1, <2>2, <3>1, ArrayParts
  <2>3. CASE v.tag = "object"
    <3>1. v.members \in Seq(STRING \X nested(n))
      BY <2>1, <2>3 DEF Shape
    <3>2. QED
      BY <2>1, <2>3, <3>1, ObjectParts
  <2>4. CASE v.tag \notin {"array", "object"}
    BY <2>1, <2>4 DEF Parts
  <2>5. QED
    BY <2>2, <2>3, <2>4
<1>3. QED
  BY <1>1, <1>2

LEMMA ValueShape ==
  ASSUME NEW v \in Value
  PROVE  Shape(v, Value) /\ Parts(v) \subseteq Value
<1>1. CASE MaxDepth = 0
  <2>1. v \in nested(0)
    BY <1>1 DEF Value
  <2>2. v \in Scalars /\ Parts(v) = {}
    BY <2>1, NestedUnfolds, PartsBelow
  <2>3. v \in Nest(Value)
    BY <2>2 DEF Nest
  <2>4. QED
    BY <2>2, <2>3, NestShape
<1>2. CASE MaxDepth # 0
  <2>1. MaxDepth - 1 \in Nat /\ MaxDepth - 1 \in 0 .. MaxDepth /\ (MaxDepth - 1) + 1 = MaxDepth
    BY <1>2, BoundsAreNat
  <2>2. v \in Nest(nested(MaxDepth - 1)) /\ Parts(v) \subseteq nested(MaxDepth - 1)
    BY <2>1, NestedUnfolds, PartsBelow DEF Value
  <2>3. nested(MaxDepth - 1) \subseteq Value
    BY <2>1, NestedWithin
  <2>4. v \in Nest(Value)
    BY <2>2, <2>3, NestGrows
  <2>5. QED
    BY <2>2, <2>3, <2>4, NestShape
<1>3. QED
  BY <1>1, <1>2

\* what holds of a value if it holds of its parts holds of every value
LEMMA ValueInduction ==
  ASSUME NEW Q, \A v \in Value : Parts(v) \subseteq Q => v \in Q
  PROVE  Value \subseteq Q
<1> DEFINE S == {n \in 0 .. MaxDepth : nested(n) \subseteq Q}
<1>1. \A n \in 0 .. MaxDepth : nested(n) \subseteq Value
  BY NestedWithin
<1>2. 0 \in S
  <2>1. 0 \in 0 .. MaxDepth
    BY BoundsAreNat
  <2>2. \A v \in nested(0) : v \in Value /\ Parts(v) = {}
    BY <1>1, <2>1, PartsBelow
  <2>3. QED
    BY <2>1, <2>2
<1>3. ASSUME NEW n \in 0 .. MaxDepth - 1, n \in S PROVE n + 1 \in S
  <2>1. n \in Nat /\ n + 1 \in 0 .. MaxDepth
    BY BoundsAreNat
  <2>2. \A v \in nested(n + 1) : v \in Value /\ Parts(v) \subseteq Q
    BY <1>1, <1>3, <2>1, PartsBelow
  <2>3. QED
    BY <2>1, <2>2
<1> HIDE DEF S
<1>4. 0 .. MaxDepth \subseteq S
  BY <1>2, <1>3, BoundsAreNat, IntervalUp
<1>5. MaxDepth \in S
  BY <1>4, BoundsAreNat
<1>6. QED
  BY <1>5 DEF S, Value

LEMMA ItemsOfValue ==
  ASSUME NEW v \in Value, v.tag = "array"
  PROVE  /\ v = array(v.items)
         /\ Len(v.items) \in Nat /\ DOMAIN v.items = 1 .. Len(v.items)
         /\ \A i \in DOMAIN v.items : v.items[i] \in Value /\ v.items[i] \in Parts(v)
<1>1. v.items \in Seq(Value) /\ v = array(v.items)
  BY ValueShape DEF Shape
<1>2. QED
  BY <1>1, ArrayParts

LEMMA MembersOfValue ==
  ASSUME NEW v \in Value, v.tag = "object"
  PROVE  /\ v = object(v.members)
         /\ Len(v.members) \in Nat /\ DOMAIN v.members = 1 .. Len(v.members)
         /\ \A i \in DOMAIN v.members :
              /\ v.members[i] = <<v.members[i][1], v.members[i][2]>>
              /\ v.members[i][1] \in STRING
              /\ v.members[i][2] \in Value /\ v.members[i][2] \in Parts(v)
<1>1. v.members \in Seq(STRING \X Value) /\ v = object(v.members)
  BY ValueShape DEF Shape
<1>2. QED
  BY <1>1, ObjectParts

-----------------------------------------------------------------------------
\* The functions that call themselves.  Of each: its body, with what it calls
\* for a parameter; that the body looks at parts only, so that a function with
\* this body exists, layer by layer; and what a call then returns.

\* what encodable decides of a value from what it decided of its parts
WithinBody(f, w) ==
  CASE w.tag = "array"   -> \A i \in DOMAIN w.items : f[w.items[i]]
    [] w.tag = "object"  -> /\ unique_object(w.members)
                            /\ \A i \in DOMAIN w.members : f[w.members[i][2]]
    [] w.tag = "integer" -> w.n \in -MaxMagnitude .. MaxMagnitude
    [] w.tag = "float"   -> w.half \in -2 * MaxMagnitude .. 2 * MaxMagnitude
    [] OTHER             -> TRUE

Within(f) == f = [v \in Value |-> WithinBody(f, v)]

LEMMA WithinBodyOfParts ==
  ASSUME NEW v \in Value, NEW g, NEW h, \A w \in Parts(v) : g[w] = h[w]
  PROVE  WithinBody(g, v) = WithinBody(h, v)
<1>1. CASE v.tag = "array"
  <2>1. \A i \in DOMAIN v.items : g[v.items[i]] = h[v.items[i]]
    BY <1>1, ItemsOfValue
  <2>2. QED
    BY <1>1, <2>1 DEF WithinBody
<1>2. CASE v.tag = "object"
  <2>1. \A i \in DOMAIN v.members : g[v.members[i][2]] = h[v.members[i][2]]
    BY <1>2, MembersOfValue
  <2>2. QED
    BY <1>2, <2>1 DEF WithinBody
<1>3. CASE v.tag \notin {"array", "object"}
  BY <1>3 DEF WithinBody
<1>4. QED
  BY <1>1, <1>2, <1>3

LEMMA WithinExists == \E f : Within(f)
<1> DEFINE Upto(n, f) == f = [v \in nested(n) |-> WithinBody(f, v)]
           S == {n \in 0 .. MaxDepth : \E f : Upto(n, f)}
<1>1. \A n \in 0 .. MaxDepth : nested(n) \subseteq Value
  BY NestedWithin
<1>2. 0 \in S
  <2> DEFINE g == [v \in nested(0) |-> WithinBody(<< >>, v)]
  <2>1. 0 \in 0 .. MaxDepth
    BY BoundsAreNat
  <2>2. \A v \in nested(0) : g[v] = WithinBody(g, v)
    <3> SUFFICES ASSUME NEW v \in nested(0) PROVE g[v] = WithinBody(g, v)
      OBVIOUS
    <3>1. v \in Value /\ Parts(v) = {}
      BY <1>1, <2>1, PartsBelow
    <3>2. g[v] = WithinBody(<< >>, v)
      OBVIOUS
    <3> HIDE DEF g
    <3>3. WithinBody(g, v) = WithinBody(<< >>, v)
      BY <3>1, WithinBodyOfParts
    <3>4. QED
      BY <3>2, <3>3
  <2>3. g = [v \in nested(0) |-> g[v]]
    OBVIOUS
  <2> HIDE DEF g
  <2>4. Upto(0, g)
    BY <2>2, <2>3, Zenon
  <2>5. QED
    BY <2>1, <2>4, Zenon
<1>3. ASSUME NEW n \in 0 .. MaxDepth - 1, n \in S PROVE n + 1 \in S
  <2>1. n \in Nat /\ n \in 0 .. MaxDepth /\ n + 1 \in 0 .. MaxDepth
    BY BoundsAreNat
  <2>2. PICK f : Upto(n, f)
    BY <1>3, Zenon
  <2> DEFINE g == [v \in nested(n + 1) |-> WithinBody(f, v)]
  <2>3. \A v \in nested(n + 1) : v \in Value /\ Parts(v) \subseteq nested(n)
    BY <1>1, <2>1, PartsBelow
  <2>4. \A v \in nested(n) : g[v] = f[v]
    <3>1. nested(n) \subseteq nested(n + 1)
      BY <2>1, NestedGrows
    <3>2. \A v \in nested(n) : f[v] = WithinBody(f, v)
      BY <2>2, Zenon
    <3>3. QED
      BY <3>1, <3>2
  <2>5. \A v \in nested(n + 1) : g[v] = WithinBody(f, v)
    OBVIOUS
  <2>6. g = [v \in nested(n + 1) |-> g[v]]
    OBVIOUS
  <2> HIDE DEF g, Upto
  <2>7. \A v \in nested(n + 1) : g[v] = WithinBody(g, v)
    <3> SUFFICES ASSUME NEW v \in nested(n + 1) PROVE g[v] = WithinBody(g, v)
      OBVIOUS
    <3>1. WithinBody(g, v) = WithinBody(f, v)
      BY <2>3, <2>4, WithinBodyOfParts
    <3>2. QED
      BY <2>5, <3>1
  <2>8. Upto(n + 1, g)
    BY <2>6, <2>7, Zenon DEF Upto
  <2>9. QED
    BY <2>1, <2>8, Zenon
<1> HIDE DEF S
<1>4. 0 .. MaxDepth \subseteq S
  BY <1>2, <1>3, BoundsAreNat, IntervalUp
<1>5. MaxDepth \in S
  BY <1>4, BoundsAreNat
<1>6. PICK f : Upto(MaxDepth, f)
  BY <1>5, Zenon DEF S
<1>7. Within(f)
  BY <1>6, Zenon DEF Within, Value
<1>8. QED
  BY <1>7, Zenon

LEMMA WithinCalled == \E f : Within(f) /\ \A v : encodable(v) <=> v \in Value /\ f[v]
<1> DEFINE f == CHOOSE g : Within(g)
<1>1. Within(f)
  BY WithinExists, Zenon
<1>2. \A v : encodable(v) <=> v \in Value /\ f[v]
  BY Zenon DEF encodable, Within, WithinBody
<1> HIDE DEF f
<1>3. QED
  BY <1>1, <1>2, Zenon

\* what jcs prints of a value from what it printed of its parts
TextBody(f, w) ==
  CASE w.tag = "array"   -> [array |-> [i \in DOMAIN w.items |-> f[w.items[i]]]]
    [] w.tag = "object"  -> [object |-> {<<w.members[i][1], f[w.members[i][2]]>> :
                                           i \in DOMAIN w.members}]
    [] w.tag = "integer" -> [number |-> 2 * w.n]
    [] w.tag = "float"   -> [number |-> w.half]
    [] OTHER             -> [literal |-> w]

Text(f) == f = [v \in Value |-> TextBody(f, v)]

LEMMA TextBodyOfParts ==
  ASSUME NEW v \in Value, NEW g, NEW h, \A w \in Parts(v) : g[w] = h[w]
  PROVE  TextBody(g, v) = TextBody(h, v)
<1>1. CASE v.tag = "array"
  <2>1. \A i \in DOMAIN v.items : g[v.items[i]] = h[v.items[i]]
    BY <1>1, ItemsOfValue
  <2>2. QED
    BY <1>1, <2>1 DEF TextBody
<1>2. CASE v.tag = "object"
  <2>1. \A i \in DOMAIN v.members : g[v.members[i][2]] = h[v.members[i][2]]
    BY <1>2, MembersOfValue
  <2>2. {<<v.members[i][1], g[v.members[i][2]]>> : i \in DOMAIN v.members}
          = {<<v.members[i][1], h[v.members[i][2]]>> : i \in DOMAIN v.members}
    BY <2>1
  <2>3. \A f : TextBody(f, v) =
                 [object |-> {<<v.members[i][1], f[v.members[i][2]]>> : i \in DOMAIN v.members}]
    BY <1>2 DEF TextBody
  <2>4. QED
    BY <2>2, <2>3
<1>3. CASE v.tag \notin {"array", "object"}
  BY <1>3 DEF TextBody
<1>4. QED
  BY <1>1, <1>2, <1>3

LEMMA TextExists == \E f : Text(f)
<1> DEFINE Upto(n, f) == f = [v \in nested(n) |-> TextBody(f, v)]
           S == {n \in 0 .. MaxDepth : \E f : Upto(n, f)}
<1>1. \A n \in 0 .. MaxDepth : nested(n) \subseteq Value
  BY NestedWithin
<1>2. 0 \in S
  <2> DEFINE g == [v \in nested(0) |-> TextBody(<< >>, v)]
  <2>1. 0 \in 0 .. MaxDepth
    BY BoundsAreNat
  <2>2. \A v \in nested(0) : g[v] = TextBody(g, v)
    <3> SUFFICES ASSUME NEW v \in nested(0) PROVE g[v] = TextBody(g, v)
      OBVIOUS
    <3>1. v \in Value /\ Parts(v) = {}
      BY <1>1, <2>1, PartsBelow
    <3>2. g[v] = TextBody(<< >>, v)
      OBVIOUS
    <3> HIDE DEF g
    <3>3. TextBody(g, v) = TextBody(<< >>, v)
      BY <3>1, TextBodyOfParts
    <3>4. QED
      BY <3>2, <3>3
  <2>3. g = [v \in nested(0) |-> g[v]]
    OBVIOUS
  <2> HIDE DEF g
  <2>4. Upto(0, g)
    BY <2>2, <2>3, Zenon
  <2>5. QED
    BY <2>1, <2>4, Zenon
<1>3. ASSUME NEW n \in 0 .. MaxDepth - 1, n \in S PROVE n + 1 \in S
  <2>1. n \in Nat /\ n \in 0 .. MaxDepth /\ n + 1 \in 0 .. MaxDepth
    BY BoundsAreNat
  <2>2. PICK f : Upto(n, f)
    BY <1>3, Zenon
  <2> DEFINE g == [v \in nested(n + 1) |-> TextBody(f, v)]
  <2>3. \A v \in nested(n + 1) : v \in Value /\ Parts(v) \subseteq nested(n)
    BY <1>1, <2>1, PartsBelow
  <2>4. \A v \in nested(n) : g[v] = f[v]
    <3>1. nested(n) \subseteq nested(n + 1)
      BY <2>1, NestedGrows
    <3>2. \A v \in nested(n) : f[v] = TextBody(f, v)
      BY <2>2, Zenon
    <3>3. QED
      BY <3>1, <3>2
  <2>5. \A v \in nested(n + 1) : g[v] = TextBody(f, v)
    OBVIOUS
  <2>6. g = [v \in nested(n + 1) |-> g[v]]
    OBVIOUS
  <2> HIDE DEF g, Upto
  <2>7. \A v \in nested(n + 1) : g[v] = TextBody(g, v)
    <3> SUFFICES ASSUME NEW v \in nested(n + 1) PROVE g[v] = TextBody(g, v)
      OBVIOUS
    <3>1. TextBody(g, v) = TextBody(f, v)
      BY <2>3, <2>4, TextBodyOfParts
    <3>2. QED
      BY <2>5, <3>1
  <2>8. Upto(n + 1, g)
    BY <2>6, <2>7, Zenon DEF Upto
  <2>9. QED
    BY <2>1, <2>8, Zenon
<1> HIDE DEF S
<1>4. 0 .. MaxDepth \subseteq S
  BY <1>2, <1>3, BoundsAreNat, IntervalUp
<1>5. MaxDepth \in S
  BY <1>4, BoundsAreNat
<1>6. PICK f : Upto(MaxDepth, f)
  BY <1>5, Zenon DEF S
<1>7. Text(f)
  BY <1>6, Zenon DEF Text, Value
<1>8. QED
  BY <1>7, Zenon

LEMMA TextCalled == \E f : Text(f) /\ \A v : jcs(v) = f[v]
<1> DEFINE f == CHOOSE g : Text(g)
<1>1. Text(f)
  BY TextExists, Zenon
<1>2. \A v : jcs(v) = f[v]
  BY Zenon DEF jcs, Text, TextBody
<1> HIDE DEF f
<1>3. QED
  BY <1>1, <1>2, Zenon

\* the projection of a value from those of its parts
ProjectBody(f, w) ==
  CASE w.tag = "array"  -> array(<<string("array"),
                             array([i \in DOMAIN w.items |-> f[w.items[i]]])>>)
    [] w.tag = "object" -> array(<<string("object"), object([i \in DOMAIN w.members |->
                             <<w.members[i][1], f[w.members[i][2]]>>])>>)
    [] w.tag = "null"   -> array(<<string("null")>>)
    [] OTHER            -> array(<<string(w.tag), w>>)

Project(f) == f = [v \in Value |-> ProjectBody(f, v)]

LEMMA ProjectBodyOfParts ==
  ASSUME NEW v \in Value, NEW g, NEW h, \A w \in Parts(v) : g[w] = h[w]
  PROVE  ProjectBody(g, v) = ProjectBody(h, v)
<1>1. CASE v.tag = "array"
  <2>1. \A i \in DOMAIN v.items : g[v.items[i]] = h[v.items[i]]
    BY <1>1, ItemsOfValue
  <2>2. QED
    BY <1>1, <2>1 DEF ProjectBody
<1>2. CASE v.tag = "object"
  <2>1. \A i \in DOMAIN v.members : g[v.members[i][2]] = h[v.members[i][2]]
    BY <1>2, MembersOfValue
  <2>2. QED
    BY <1>2, <2>1 DEF ProjectBody
<1>3. CASE v.tag \notin {"array", "object"}
  BY <1>3 DEF ProjectBody
<1>4. QED
  BY <1>1, <1>2, <1>3

LEMMA ProjectExists == \E f : Project(f)
<1> DEFINE Upto(n, f) == f = [v \in nested(n) |-> ProjectBody(f, v)]
           S == {n \in 0 .. MaxDepth : \E f : Upto(n, f)}
<1>1. \A n \in 0 .. MaxDepth : nested(n) \subseteq Value
  BY NestedWithin
<1>2. 0 \in S
  <2> DEFINE g == [v \in nested(0) |-> ProjectBody(<< >>, v)]
  <2>1. 0 \in 0 .. MaxDepth
    BY BoundsAreNat
  <2>2. \A v \in nested(0) : g[v] = ProjectBody(g, v)
    <3> SUFFICES ASSUME NEW v \in nested(0) PROVE g[v] = ProjectBody(g, v)
      OBVIOUS
    <3>1. v \in Value /\ Parts(v) = {}
      BY <1>1, <2>1, PartsBelow
    <3>2. g[v] = ProjectBody(<< >>, v)
      OBVIOUS
    <3> HIDE DEF g
    <3>3. ProjectBody(g, v) = ProjectBody(<< >>, v)
      BY <3>1, ProjectBodyOfParts
    <3>4. QED
      BY <3>2, <3>3
  <2>3. g = [v \in nested(0) |-> g[v]]
    OBVIOUS
  <2> HIDE DEF g
  <2>4. Upto(0, g)
    BY <2>2, <2>3, Zenon
  <2>5. QED
    BY <2>1, <2>4, Zenon
<1>3. ASSUME NEW n \in 0 .. MaxDepth - 1, n \in S PROVE n + 1 \in S
  <2>1. n \in Nat /\ n \in 0 .. MaxDepth /\ n + 1 \in 0 .. MaxDepth
    BY BoundsAreNat
  <2>2. PICK f : Upto(n, f)
    BY <1>3, Zenon
  <2> DEFINE g == [v \in nested(n + 1) |-> ProjectBody(f, v)]
  <2>3. \A v \in nested(n + 1) : v \in Value /\ Parts(v) \subseteq nested(n)
    BY <1>1, <2>1, PartsBelow
  <2>4. \A v \in nested(n) : g[v] = f[v]
    <3>1. nested(n) \subseteq nested(n + 1)
      BY <2>1, NestedGrows
    <3>2. \A v \in nested(n) : f[v] = ProjectBody(f, v)
      BY <2>2, Zenon
    <3>3. QED
      BY <3>1, <3>2
  <2>5. \A v \in nested(n + 1) : g[v] = ProjectBody(f, v)
    OBVIOUS
  <2>6. g = [v \in nested(n + 1) |-> g[v]]
    OBVIOUS
  <2> HIDE DEF g, Upto
  <2>7. \A v \in nested(n + 1) : g[v] = ProjectBody(g, v)
    <3> SUFFICES ASSUME NEW v \in nested(n + 1) PROVE g[v] = ProjectBody(g, v)
      OBVIOUS
    <3>1. ProjectBody(g, v) = ProjectBody(f, v)
      BY <2>3, <2>4, ProjectBodyOfParts
    <3>2. QED
      BY <2>5, <3>1
  <2>8. Upto(n + 1, g)
    BY <2>6, <2>7, Zenon DEF Upto
  <2>9. QED
    BY <2>1, <2>8, Zenon
<1> HIDE DEF S
<1>4. 0 .. MaxDepth \subseteq S
  BY <1>2, <1>3, BoundsAreNat, IntervalUp
<1>5. MaxDepth \in S
  BY <1>4, BoundsAreNat
<1>6. PICK f : Upto(MaxDepth, f)
  BY <1>5, Zenon DEF S
<1>7. Project(f)
  BY <1>6, Zenon DEF Project, Value
<1>8. QED
  BY <1>7, Zenon

LEMMA ProjectCalled == \E f : Project(f) /\ \A v : typed(v) = f[v]
<1> DEFINE f == CHOOSE g : Project(g)
<1>1. Project(f)
  BY ProjectExists, Zenon
<1>2. \A v : typed(v) = f[v]
  BY Zenon DEF typed, Project, ProjectBody
<1> HIDE DEF f
<1>3. QED
  BY <1>1, <1>2, Zenon

\* the values identical to a value, from those identical to its parts
IdenticalBody(f, x) ==
  [y \in Value |->
     /\ x.tag = y.tag
     /\ CASE x.tag = "array" ->
               /\ Len(x.items) = Len(y.items)
               /\ \A i \in DOMAIN x.items : f[x.items[i]][y.items[i]]
          [] x.tag = "object" ->
               /\ unique_object(x.members) /\ unique_object(y.members)
               /\ Len(x.members) = Len(y.members)
               /\ \A i \in DOMAIN x.members : \E j \in DOMAIN y.members :
                    /\ y.members[j][1] = x.members[i][1]
                    /\ f[x.members[i][2]][y.members[j][2]]
          [] x.tag = "float" -> x.half = y.half
          [] OTHER -> x = y]

Identical(f) == f = [v \in Value |-> IdenticalBody(f, v)]

LEMMA IdenticalBodyOfParts ==
  ASSUME NEW v \in Value, NEW g, NEW h, \A w \in Parts(v) : g[w] = h[w]
  PROVE  IdenticalBody(g, v) = IdenticalBody(h, v)
<1>1. CASE v.tag = "array"
  <2>1. \A i \in DOMAIN v.items : g[v.items[i]] = h[v.items[i]]
    BY <1>1, ItemsOfValue
  <2>2. QED
    BY <1>1, <2>1 DEF IdenticalBody
<1>2. CASE v.tag = "object"
  <2>1. \A i \in DOMAIN v.members : g[v.members[i][2]] = h[v.members[i][2]]
    BY <1>2, MembersOfValue
  <2>2. QED
    BY <1>2, <2>1 DEF IdenticalBody
<1>3. CASE v.tag \notin {"array", "object"}
  BY <1>3 DEF IdenticalBody
<1>4. QED
  BY <1>1, <1>2, <1>3

LEMMA IdenticalExists == \E f : Identical(f)
<1> DEFINE Upto(n, f) == f = [v \in nested(n) |-> IdenticalBody(f, v)]
           S == {n \in 0 .. MaxDepth : \E f : Upto(n, f)}
<1>1. \A n \in 0 .. MaxDepth : nested(n) \subseteq Value
  BY NestedWithin
<1>2. 0 \in S
  <2> DEFINE g == [v \in nested(0) |-> IdenticalBody(<< >>, v)]
  <2>1. 0 \in 0 .. MaxDepth
    BY BoundsAreNat
  <2>2. \A v \in nested(0) : g[v] = IdenticalBody(g, v)
    <3> SUFFICES ASSUME NEW v \in nested(0) PROVE g[v] = IdenticalBody(g, v)
      OBVIOUS
    <3>1. v \in Value /\ Parts(v) = {}
      BY <1>1, <2>1, PartsBelow
    <3>2. g[v] = IdenticalBody(<< >>, v)
      OBVIOUS
    <3> HIDE DEF g
    <3>3. IdenticalBody(g, v) = IdenticalBody(<< >>, v)
      BY <3>1, IdenticalBodyOfParts
    <3>4. QED
      BY <3>2, <3>3
  <2>3. g = [v \in nested(0) |-> g[v]]
    OBVIOUS
  <2> HIDE DEF g
  <2>4. Upto(0, g)
    BY <2>2, <2>3, Zenon
  <2>5. QED
    BY <2>1, <2>4, Zenon
<1>3. ASSUME NEW n \in 0 .. MaxDepth - 1, n \in S PROVE n + 1 \in S
  <2>1. n \in Nat /\ n \in 0 .. MaxDepth /\ n + 1 \in 0 .. MaxDepth
    BY BoundsAreNat
  <2>2. PICK f : Upto(n, f)
    BY <1>3, Zenon
  <2> DEFINE g == [v \in nested(n + 1) |-> IdenticalBody(f, v)]
  <2>3. \A v \in nested(n + 1) : v \in Value /\ Parts(v) \subseteq nested(n)
    BY <1>1, <2>1, PartsBelow
  <2>4. \A v \in nested(n) : g[v] = f[v]
    <3>1. nested(n) \subseteq nested(n + 1)
      BY <2>1, NestedGrows
    <3>2. \A v \in nested(n) : f[v] = IdenticalBody(f, v)
      BY <2>2, Zenon
    <3>3. QED
      BY <3>1, <3>2
  <2>5. \A v \in nested(n + 1) : g[v] = IdenticalBody(f, v)
    OBVIOUS
  <2>6. g = [v \in nested(n + 1) |-> g[v]]
    OBVIOUS
  <2> HIDE DEF g, Upto
  <2>7. \A v \in nested(n + 1) : g[v] = IdenticalBody(g, v)
    <3> SUFFICES ASSUME NEW v \in nested(n + 1) PROVE g[v] = IdenticalBody(g, v)
      OBVIOUS
    <3>1. IdenticalBody(g, v) = IdenticalBody(f, v)
      BY <2>3, <2>4, IdenticalBodyOfParts
    <3>2. QED
      BY <2>5, <3>1
  <2>8. Upto(n + 1, g)
    BY <2>6, <2>7, Zenon DEF Upto
  <2>9. QED
    BY <2>1, <2>8, Zenon
<1> HIDE DEF S
<1>4. 0 .. MaxDepth \subseteq S
  BY <1>2, <1>3, BoundsAreNat, IntervalUp
<1>5. MaxDepth \in S
  BY <1>4, BoundsAreNat
<1>6. PICK f : Upto(MaxDepth, f)
  BY <1>5, Zenon DEF S
<1>7. Identical(f)
  BY <1>6, Zenon DEF Identical, Value
<1>8. QED
  BY <1>7, Zenon

LEMMA IdenticalCalled == \E f : Identical(f) /\ \A v, w : semantic_identity(v, w) = f[v][w]
<1> DEFINE f == CHOOSE g : Identical(g)
<1>1. Identical(f)
  BY IdenticalExists, Zenon
<1>2. \A v, w : semantic_identity(v, w) = f[v][w]
  BY Zenon DEF semantic_identity, Identical, IdenticalBody
<1> HIDE DEF f
<1>3. QED
  BY <1>1, <1>2, Zenon

\* the same for SameValue
SameBody(f, x) ==
  [y \in Value |->
     /\ x.tag = y.tag
     /\ CASE x.tag = "array"  -> /\ Len(x.items) = Len(y.items)
                                 /\ \A i \in DOMAIN x.items : f[x.items[i]][y.items[i]]
          [] x.tag = "object" -> /\ keys(x.members) = keys(y.members)
                                 /\ \A i \in DOMAIN x.members, j \in DOMAIN y.members :
                                      x.members[i][1] = y.members[j][1] =>
                                        f[x.members[i][2]][y.members[j][2]]
          [] x.tag = "float"  -> x.half = y.half
          [] OTHER            -> x = y]

Same(f) == f = [v \in Value |-> SameBody(f, v)]

LEMMA SameBodyOfParts ==
  ASSUME NEW v \in Value, NEW g, NEW h, \A w \in Parts(v) : g[w] = h[w]
  PROVE  SameBody(g, v) = SameBody(h, v)
<1>1. CASE v.tag = "array"
  <2>1. \A i \in DOMAIN v.items : g[v.items[i]] = h[v.items[i]]
    BY <1>1, ItemsOfValue
  <2>2. QED
    BY <1>1, <2>1 DEF SameBody
<1>2. CASE v.tag = "object"
  <2>1. \A i \in DOMAIN v.members : g[v.members[i][2]] = h[v.members[i][2]]
    BY <1>2, MembersOfValue
  <2>2. QED
    BY <1>2, <2>1 DEF SameBody
<1>3. CASE v.tag \notin {"array", "object"}
  BY <1>3 DEF SameBody
<1>4. QED
  BY <1>1, <1>2, <1>3

LEMMA SameExists == \E f : Same(f)
<1> DEFINE Upto(n, f) == f = [v \in nested(n) |-> SameBody(f, v)]
           S == {n \in 0 .. MaxDepth : \E f : Upto(n, f)}
<1>1. \A n \in 0 .. MaxDepth : nested(n) \subseteq Value
  BY NestedWithin
<1>2. 0 \in S
  <2> DEFINE g == [v \in nested(0) |-> SameBody(<< >>, v)]
  <2>1. 0 \in 0 .. MaxDepth
    BY BoundsAreNat
  <2>2. \A v \in nested(0) : g[v] = SameBody(g, v)
    <3> SUFFICES ASSUME NEW v \in nested(0) PROVE g[v] = SameBody(g, v)
      OBVIOUS
    <3>1. v \in Value /\ Parts(v) = {}
      BY <1>1, <2>1, PartsBelow
    <3>2. g[v] = SameBody(<< >>, v)
      OBVIOUS
    <3> HIDE DEF g
    <3>3. SameBody(g, v) = SameBody(<< >>, v)
      BY <3>1, SameBodyOfParts
    <3>4. QED
      BY <3>2, <3>3
  <2>3. g = [v \in nested(0) |-> g[v]]
    OBVIOUS
  <2> HIDE DEF g
  <2>4. Upto(0, g)
    BY <2>2, <2>3, Zenon
  <2>5. QED
    BY <2>1, <2>4, Zenon
<1>3. ASSUME NEW n \in 0 .. MaxDepth - 1, n \in S PROVE n + 1 \in S
  <2>1. n \in Nat /\ n \in 0 .. MaxDepth /\ n + 1 \in 0 .. MaxDepth
    BY BoundsAreNat
  <2>2. PICK f : Upto(n, f)
    BY <1>3, Zenon
  <2> DEFINE g == [v \in nested(n + 1) |-> SameBody(f, v)]
  <2>3. \A v \in nested(n + 1) : v \in Value /\ Parts(v) \subseteq nested(n)
    BY <1>1, <2>1, PartsBelow
  <2>4. \A v \in nested(n) : g[v] = f[v]
    <3>1. nested(n) \subseteq nested(n + 1)
      BY <2>1, NestedGrows
    <3>2. \A v \in nested(n) : f[v] = SameBody(f, v)
      BY <2>2, Zenon
    <3>3. QED
      BY <3>1, <3>2
  <2>5. \A v \in nested(n + 1) : g[v] = SameBody(f, v)
    OBVIOUS
  <2>6. g = [v \in nested(n + 1) |-> g[v]]
    OBVIOUS
  <2> HIDE DEF g, Upto
  <2>7. \A v \in nested(n + 1) : g[v] = SameBody(g, v)
    <3> SUFFICES ASSUME NEW v \in nested(n + 1) PROVE g[v] = SameBody(g, v)
      OBVIOUS
    <3>1. SameBody(g, v) = SameBody(f, v)
      BY <2>3, <2>4, SameBodyOfParts
    <3>2. QED
      BY <2>5, <3>1
  <2>8. Upto(n + 1, g)
    BY <2>6, <2>7, Zenon DEF Upto
  <2>9. QED
    BY <2>1, <2>8, Zenon
<1> HIDE DEF S
<1>4. 0 .. MaxDepth \subseteq S
  BY <1>2, <1>3, BoundsAreNat, IntervalUp
<1>5. MaxDepth \in S
  BY <1>4, BoundsAreNat
<1>6. PICK f : Upto(MaxDepth, f)
  BY <1>5, Zenon DEF S
<1>7. Same(f)
  BY <1>6, Zenon DEF Same, Value
<1>8. QED
  BY <1>7, Zenon

LEMMA SameCalled == \E f : Same(f) /\ \A v, w : SameValue(v, w) = f[v][w]
<1> DEFINE f == CHOOSE g : Same(g)
<1>1. Same(f)
  BY SameExists, Zenon
<1>2. \A v, w : SameValue(v, w) = f[v][w]
  BY Zenon DEF SameValue, Same, SameBody
<1> HIDE DEF f
<1>3. QED
  BY <1>1, <1>2, Zenon

\* the same for HasIntegralFloat
IntegralBody(f, w) ==
  CASE w.tag = "array"  -> \E i \in DOMAIN w.items : f[w.items[i]]
    [] w.tag = "object" -> \E i \in DOMAIN w.members : f[w.members[i][2]]
    [] w.tag = "float"  -> w.half % 2 = 0
    [] OTHER            -> FALSE

Integral(f) == f = [v \in Value |-> IntegralBody(f, v)]

LEMMA IntegralBodyOfParts ==
  ASSUME NEW v \in Value, NEW g, NEW h, \A w \in Parts(v) : g[w] = h[w]
  PROVE  IntegralBody(g, v) = IntegralBody(h, v)
<1>1. CASE v.tag = "array"
  <2>1. \A i \in DOMAIN v.items : g[v.items[i]] = h[v.items[i]]
    BY <1>1, ItemsOfValue
  <2>2. QED
    BY <1>1, <2>1 DEF IntegralBody
<1>2. CASE v.tag = "object"
  <2>1. \A i \in DOMAIN v.members : g[v.members[i][2]] = h[v.members[i][2]]
    BY <1>2, MembersOfValue
  <2>2. QED
    BY <1>2, <2>1 DEF IntegralBody
<1>3. CASE v.tag \notin {"array", "object"}
  BY <1>3 DEF IntegralBody
<1>4. QED
  BY <1>1, <1>2, <1>3

LEMMA IntegralExists == \E f : Integral(f)
<1> DEFINE Upto(n, f) == f = [v \in nested(n) |-> IntegralBody(f, v)]
           S == {n \in 0 .. MaxDepth : \E f : Upto(n, f)}
<1>1. \A n \in 0 .. MaxDepth : nested(n) \subseteq Value
  BY NestedWithin
<1>2. 0 \in S
  <2> DEFINE g == [v \in nested(0) |-> IntegralBody(<< >>, v)]
  <2>1. 0 \in 0 .. MaxDepth
    BY BoundsAreNat
  <2>2. \A v \in nested(0) : g[v] = IntegralBody(g, v)
    <3> SUFFICES ASSUME NEW v \in nested(0) PROVE g[v] = IntegralBody(g, v)
      OBVIOUS
    <3>1. v \in Value /\ Parts(v) = {}
      BY <1>1, <2>1, PartsBelow
    <3>2. g[v] = IntegralBody(<< >>, v)
      OBVIOUS
    <3> HIDE DEF g
    <3>3. IntegralBody(g, v) = IntegralBody(<< >>, v)
      BY <3>1, IntegralBodyOfParts
    <3>4. QED
      BY <3>2, <3>3
  <2>3. g = [v \in nested(0) |-> g[v]]
    OBVIOUS
  <2> HIDE DEF g
  <2>4. Upto(0, g)
    BY <2>2, <2>3, Zenon
  <2>5. QED
    BY <2>1, <2>4, Zenon
<1>3. ASSUME NEW n \in 0 .. MaxDepth - 1, n \in S PROVE n + 1 \in S
  <2>1. n \in Nat /\ n \in 0 .. MaxDepth /\ n + 1 \in 0 .. MaxDepth
    BY BoundsAreNat
  <2>2. PICK f : Upto(n, f)
    BY <1>3, Zenon
  <2> DEFINE g == [v \in nested(n + 1) |-> IntegralBody(f, v)]
  <2>3. \A v \in nested(n + 1) : v \in Value /\ Parts(v) \subseteq nested(n)
    BY <1>1, <2>1, PartsBelow
  <2>4. \A v \in nested(n) : g[v] = f[v]
    <3>1. nested(n) \subseteq nested(n + 1)
      BY <2>1, NestedGrows
    <3>2. \A v \in nested(n) : f[v] = IntegralBody(f, v)
      BY <2>2, Zenon
    <3>3. QED
      BY <3>1, <3>2
  <2>5. \A v \in nested(n + 1) : g[v] = IntegralBody(f, v)
    OBVIOUS
  <2>6. g = [v \in nested(n + 1) |-> g[v]]
    OBVIOUS
  <2> HIDE DEF g, Upto
  <2>7. \A v \in nested(n + 1) : g[v] = IntegralBody(g, v)
    <3> SUFFICES ASSUME NEW v \in nested(n + 1) PROVE g[v] = IntegralBody(g, v)
      OBVIOUS
    <3>1. IntegralBody(g, v) = IntegralBody(f, v)
      BY <2>3, <2>4, IntegralBodyOfParts
    <3>2. QED
      BY <2>5, <3>1
  <2>8. Upto(n + 1, g)
    BY <2>6, <2>7, Zenon DEF Upto
  <2>9. QED
    BY <2>1, <2>8, Zenon
<1> HIDE DEF S
<1>4. 0 .. MaxDepth \subseteq S
  BY <1>2, <1>3, BoundsAreNat, IntervalUp
<1>5. MaxDepth \in S
  BY <1>4, BoundsAreNat
<1>6. PICK f : Upto(MaxDepth, f)
  BY <1>5, Zenon DEF S
<1>7. Integral(f)
  BY <1>6, Zenon DEF Integral, Value
<1>8. QED
  BY <1>7, Zenon

LEMMA IntegralCalled == \E f : Integral(f) /\ \A v : HasIntegralFloat(v) = f[v]
<1> DEFINE f == CHOOSE g : Integral(g)
<1>1. Integral(f)
  BY IntegralExists, Zenon
<1>2. \A v : HasIntegralFloat(v) = f[v]
  BY Zenon DEF HasIntegralFloat, Integral, IntegralBody
<1> HIDE DEF f
<1>3. QED
  BY <1>1, <1>2, Zenon

-----------------------------------------------------------------------------
\* Canonical texts, layer by layer in the same way, and what decode returns.

Canonical == texts(MaxDepth)

Plain == [number : Int] \cup [literal : Literal]

Printed(T) == Plain \cup [array : Seq(T)]
                    \cup [object : {m \in SUBSET (STRING \X T) : IsFiniteSet(m)}]

TextLayers(n, f) == f = [i \in 0 .. n |-> IF i = 0 THEN Plain ELSE Printed(f[i - 1])]

LEMMA TextLayersExist == ASSUME NEW n \in Nat PROVE \E f : TextLayers(n, f)
<1> DEFINE S == {k \in 0 .. n : \E f : TextLayers(k, f)}
<1>1. 0 \in S
  <2>1. TextLayers(0, [i \in 0 .. 0 |-> Plain])
    BY DEF TextLayers
  <2>2. QED
    BY <2>1
<1>2. ASSUME NEW k \in 0 .. n - 1, k \in S PROVE k + 1 \in S
  <2>1. PICK f : TextLayers(k, f)
    BY <1>2
  <2> DEFINE g == [i \in 0 .. k + 1 |-> IF i = 0 THEN Plain ELSE Printed(f[i - 1])]
  <2>2. \A i \in 0 .. k : g[i] = f[i]
    BY <2>1 DEF TextLayers
  <2>3. \A i \in 0 .. k + 1 : i # 0 => i - 1 \in 0 .. k /\ g[i] = Printed(g[i - 1])
    <3> SUFFICES ASSUME NEW i \in 0 .. k + 1, i # 0
                 PROVE  i - 1 \in 0 .. k /\ g[i] = Printed(g[i - 1])
      OBVIOUS
    <3>1. i - 1 \in 0 .. k
      OBVIOUS
    <3>2. g[i] = Printed(f[i - 1])
      BY Zenon
    <3>3. QED
      BY <2>2, <3>1, <3>2, Zenon
  <2>4. g[0] = Plain
    OBVIOUS
  <2>5. g = [i \in 0 .. k + 1 |-> g[i]]
    OBVIOUS
  <2> HIDE DEF g
  <2>6. \A i \in 0 .. k + 1 : g[i] = IF i = 0 THEN Plain ELSE Printed(g[i - 1])
    BY <2>3, <2>4
  <2>7. TextLayers(k + 1, g)
    BY <2>5, <2>6, Zenon DEF TextLayers
  <2>8. k + 1 \in 0 .. n
    OBVIOUS
  <2>9. QED
    BY <2>7, <2>8
<1> HIDE DEF S
<1>3. 0 .. n \subseteq S
  BY <1>1, <1>2, IntervalUp
<1>4. n \in S
  BY <1>3
<1>5. QED
  BY <1>4 DEF S

LEMMA TextsAreLayer ==
  ASSUME NEW n \in Nat
  PROVE  \E f : TextLayers(n, f) /\ texts(n) = f[n]
<1> DEFINE f == CHOOSE g : TextLayers(n, g)
<1>1. TextLayers(n, f)
  BY TextLayersExist, Zenon
<1>2. texts(n) = f[n]
  BY DEF texts, TextLayers, Printed, Plain
<1>3. QED
  BY <1>1, <1>2

LEMMA TextLayersAgree ==
  ASSUME NEW n \in Nat, NEW m \in Nat, n <= m, NEW f, NEW g, TextLayers(n, f), TextLayers(m, g)
  PROVE  \A i \in 0 .. n : f[i] = g[i]
<1> DEFINE S == {i \in 0 .. n : f[i] = g[i]}
<1>1. 0 \in S
  BY DEF TextLayers
<1>2. ASSUME NEW i \in 0 .. n - 1, i \in S PROVE i + 1 \in S
  <2>1. i + 1 \in 0 .. n /\ i + 1 \in 0 .. m /\ (i + 1) - 1 = i /\ i + 1 # 0
    OBVIOUS
  <2>2. f[i + 1] = Printed(f[i]) /\ g[i + 1] = Printed(g[i])
    BY <2>1 DEF TextLayers
  <2>3. QED
    BY <1>2, <2>1, <2>2
<1> HIDE DEF S
<1>3. 0 .. n \subseteq S
  BY <1>1, <1>2, IntervalUp
<1>4. QED
  BY <1>3 DEF S

LEMMA TextsUnfold ==
  /\ texts(0) = Plain
  /\ \A n \in Nat : texts(n + 1) = Printed(texts(n))
<1>1. texts(0) = Plain
  BY TextsAreLayer DEF TextLayers
<1>2. ASSUME NEW n \in Nat PROVE texts(n + 1) = Printed(texts(n))
  <2>1. PICK f : TextLayers(n, f) /\ texts(n) = f[n]
    BY TextsAreLayer
  <2>2. PICK g : TextLayers(n + 1, g) /\ texts(n + 1) = g[n + 1]
    BY TextsAreLayer
  <2>3. g[n] = f[n]
    BY <2>1, <2>2, TextLayersAgree
  <2>4. g[n + 1] = Printed(g[n])
    BY <2>2 DEF TextLayers
  <2>5. QED
    BY <2>1, <2>2, <2>3, <2>4
<1>3. QED
  BY <1>1, <1>2

LEMMA PrintedGrows == ASSUME NEW V, NEW W, V \subseteq W PROVE Printed(V) \subseteq Printed(W)
<1>1. Seq(V) \subseteq Seq(W)
  BY SeqMonotonic
<1>2. STRING \X V \subseteq STRING \X W
  OBVIOUS
<1> DEFINE sets(T) == {m \in SUBSET (STRING \X T) : IsFiniteSet(m)}
<1>3. sets(V) \subseteq sets(W)
  BY <1>2
<1> HIDE DEF sets
<1>4. [object : sets(V)] \subseteq [object : sets(W)] /\ [array : Seq(V)] \subseteq [array : Seq(W)]
  BY <1>1, <1>3
<1>5. Printed(V) = Plain \cup [array : Seq(V)] \cup [object : sets(V)]
      /\ Printed(W) = Plain \cup [array : Seq(W)] \cup [object : sets(W)]
  BY Zenon DEF Printed, sets
<1>6. QED
  BY <1>4, <1>5

LEMMA TextsGrow == ASSUME NEW n \in Nat PROVE texts(n) \subseteq texts(n + 1)
<1> DEFINE S == {i \in 0 .. n : texts(i) \subseteq texts(i + 1)}
<1>1. 0 \in S
  <2>1. texts(0) \subseteq texts(0 + 1)
    BY TextsUnfold DEF Printed
  <2>2. QED
    BY <2>1
<1>2. ASSUME NEW i \in 0 .. n - 1, i \in S PROVE i + 1 \in S
  <2>1. Printed(texts(i)) \subseteq Printed(texts(i + 1))
    BY <1>2, PrintedGrows
  <2>2. i \in Nat /\ i + 1 \in Nat /\ i + 1 \in 0 .. n
    OBVIOUS
  <2>3. texts(i + 1) = Printed(texts(i)) /\ texts((i + 1) + 1) = Printed(texts(i + 1))
    BY <2>2, TextsUnfold
  <2>4. QED
    BY <2>1, <2>2, <2>3
<1> HIDE DEF S
<1>3. 0 .. n \subseteq S
  BY <1>1, <1>2, IntervalUp
<1>4. n \in S
  BY <1>3
<1>5. QED
  BY <1>4 DEF S

LEMMA TextsWithin == ASSUME NEW n \in 0 .. MaxDepth PROVE texts(n) \subseteq Canonical
<1> DEFINE S == {i \in Int : texts(n) \subseteq texts(i)}
<1>1. n \in S
  OBVIOUS
<1>2. ASSUME NEW i \in n .. MaxDepth - 1, i \in S PROVE i + 1 \in S
  <2>1. i \in Nat
    BY BoundsAreNat
  <2>2. QED
    BY <1>2, <2>1, TextsGrow
<1> HIDE DEF S
<1>3. n .. MaxDepth \subseteq S
  BY <1>1, <1>2, BoundsAreNat, IntervalUp
<1>4. MaxDepth \in S
  BY <1>3, BoundsAreNat
<1>5. QED
  BY <1>4 DEF S, Canonical

\* the texts in a text
TextParts(t) ==
  CASE "array" \in DOMAIN t  -> {t.array[i] : i \in DOMAIN t.array}
    [] "object" \in DOMAIN t -> {m[2] : m \in t.object}
    [] OTHER                  -> {}

TextShape(t, T) ==
  \/ t \in Plain /\ DOMAIN t \in {{"number"}, {"literal"}}
  \/ DOMAIN t = {"array"} /\ t = [array |-> t.array] /\ t.array \in Seq(T)
  \/ /\ DOMAIN t = {"object"} /\ t = [object |-> t.object]
     /\ t.object \subseteq STRING \X T /\ IsFiniteSet(t.object)

LEMMA PrintedShape ==
  ASSUME NEW T, NEW t \in Printed(T)
  PROVE  TextShape(t, T) /\ TextParts(t) \subseteq T
<1>1. CASE t \in Plain
  <2>1. DOMAIN t \in {{"number"}, {"literal"}}
    BY <1>1 DEF Plain
  <2>2. QED
    BY <1>1, <2>1 DEF TextShape, TextParts
<1>2. CASE t \in [array : Seq(T)]
  <2>1. DOMAIN t = {"array"} /\ t = [array |-> t.array] /\ t.array \in Seq(T)
    BY <1>2
  <2>2. \A i \in DOMAIN t.array : t.array[i] \in T
    BY <2>1
  <2>3. QED
    BY <2>1, <2>2 DEF TextShape, TextParts
<1>3. CASE t \in [object : {m \in SUBSET (STRING \X T) : IsFiniteSet(m)}]
  <2>1. DOMAIN t = {"object"} /\ t = [object |-> t.object]
        /\ t.object \subseteq STRING \X T /\ IsFiniteSet(t.object)
    BY <1>3
  <2>2. \A m \in t.object : m[2] \in T
    BY <2>1
  <2>3. QED
    BY <2>1, <2>2 DEF TextShape, TextParts
<1>4. QED
  BY <1>1, <1>2, <1>3 DEF Printed

LEMMA TextPartsBelow ==
  ASSUME NEW n \in Nat
  PROVE  /\ \A t \in texts(0) : TextParts(t) = {} /\ TextShape(t, {})
         /\ \A t \in texts(n + 1) : TextShape(t, texts(n)) /\ TextParts(t) \subseteq texts(n)
<1>1. ASSUME NEW t \in texts(0) PROVE TextParts(t) = {} /\ TextShape(t, {})
  <2>1. t \in Plain
    BY TextsUnfold
  <2>2. DOMAIN t \in {{"number"}, {"literal"}}
    BY <2>1 DEF Plain
  <2>3. QED
    BY <2>1, <2>2 DEF TextParts, TextShape
<1>2. QED
  BY <1>1, TextsUnfold, PrintedShape

\* SetToSeq lists a finite set, each element once
LEMMA Listed ==
  ASSUME NEW S, IsFiniteSet(S)
  PROVE  LET s == SetToSeq(S)
         IN  /\ Len(s) = Cardinality(S) /\ Len(s) \in Nat /\ s \in Seq(S)
             /\ DOMAIN s = 1 .. Len(s)
             /\ \A i \in DOMAIN s : s[i] \in S
             /\ \A i, j \in DOMAIN s : s[i] = s[j] => i = j
             /\ \A m \in S : \E i \in DOMAIN s : s[i] = m
<1> DEFINE n == Cardinality(S)
           s == SetToSeq(S)
<1>1. n \in Nat /\ ExistsBijection(1 .. n, S)
  BY FS_CardinalityType
<1>2. PICK f : f \in Bijection(1 .. n, S)
  BY <1>1 DEF ExistsBijection
<1>3. f \in [1 .. n -> S] /\ IsInjective(f)
  BY <1>2 DEF Bijection, Injection, IsInjective
<1>4. s \in [1 .. n -> S] /\ IsInjective(s)
  BY <1>3, Zenon DEF SetToSeq
<1> HIDE DEF s
<1>5. s \in Injection(1 .. n, S)
  BY <1>4 DEF Injection
<1>6. IsFiniteSet(1 .. n) /\ Cardinality(1 .. n) = n
  BY <1>1, FS_Interval
<1>7. s \in Surjection(1 .. n, S)
  BY <1>5, <1>6, FS_Injection
<1>8. \A m \in S : \E i \in 1 .. n : s[i] = m
  BY <1>7 DEF Surjection
<1> HIDE DEF n
<1>9. s \in Seq(S) /\ DOMAIN s = 1 .. n /\ Len(s) = n
  BY <1>1, <1>4
<1>10. \A i, j \in DOMAIN s : s[i] = s[j] => i = j
  BY <1>4 DEF IsInjective
<1>11. QED
  BY <1>1, <1>4, <1>8, <1>9, <1>10 DEF n, s

\* the value decode reads from a text, from those it read from its parts
ReadBody(f, t) ==
  CASE "array" \in DOMAIN t  -> array([i \in DOMAIN t.array |-> f[t.array[i]]])
    [] "object" \in DOMAIN t ->
         LET listed == SetToSeq(t.object)
         IN  object([i \in DOMAIN listed |-> <<listed[i][1], f[listed[i][2]]>>])
    [] "number" \in DOMAIN t -> number_value(t.number)
    [] OTHER                  -> t.literal

Read(f) == f = [t \in Canonical |-> ReadBody(f, t)]

LEMMA CanonicalShape ==
  ASSUME NEW t \in Canonical
  PROVE  TextShape(t, Canonical) /\ TextParts(t) \subseteq Canonical
<1>1. CASE MaxDepth = 0
  <2>1. t \in Plain
    BY <1>1, TextsUnfold DEF Canonical
  <2>2. QED
    BY <2>1, PrintedShape DEF Printed
<1>2. CASE MaxDepth # 0
  <2>1. MaxDepth - 1 \in Nat /\ MaxDepth - 1 \in 0 .. MaxDepth /\ (MaxDepth - 1) + 1 = MaxDepth
    BY <1>2, BoundsAreNat
  <2>2. t \in Printed(texts(MaxDepth - 1))
    BY <2>1, TextsUnfold DEF Canonical
  <2>3. t \in Printed(Canonical)
    BY <2>1, <2>2, TextsWithin, PrintedGrows
  <2>4. QED
    BY <2>3, PrintedShape
<1>3. QED
  BY <1>1, <1>2

LEMMA ReadBodyOfParts ==
  ASSUME NEW t \in Canonical, NEW g, NEW h, \A w \in TextParts(t) : g[w] = h[w]
  PROVE  ReadBody(g, t) = ReadBody(h, t)
<1> DOMAIN t \in {{"array"}, {"object"}, {"number"}, {"literal"}} /\ (DOMAIN t = {"object"} => IsFiniteSet(t.object))
  BY CanonicalShape DEF TextShape
<1>1. CASE DOMAIN t = {"array"}
  <2>1. TextParts(t) = {t.array[i] : i \in DOMAIN t.array}
    BY <1>1 DEF TextParts
  <2>2. \A i \in DOMAIN t.array : g[t.array[i]] = h[t.array[i]]
    BY <2>1
  <2>3. [i \in DOMAIN t.array |-> g[t.array[i]]] = [i \in DOMAIN t.array |-> h[t.array[i]]]
    BY <2>2
  <2>4. /\ ReadBody(g, t) = array([i \in DOMAIN t.array |-> g[t.array[i]]])
        /\ ReadBody(h, t) = array([i \in DOMAIN t.array |-> h[t.array[i]]])
    BY <1>1, Zenon DEF ReadBody
  <2>5. QED
    BY <2>3, <2>4
<1>2. CASE DOMAIN t = {"object"}
  <2> DEFINE listed == SetToSeq(t.object)
  <2>1. IsFiniteSet(t.object)
    BY <1>2
  <2>2. \A i \in DOMAIN listed : listed[i] \in t.object
    BY <2>1, Listed
  <2> HIDE DEF listed
  <2>3. \A i \in DOMAIN listed : g[listed[i][2]] = h[listed[i][2]]
    <3>1. TextParts(t) = {m[2] : m \in t.object}
      BY <1>2 DEF TextParts
    <3>2. QED
      BY <2>2, <3>1
  <2>4. [i \in DOMAIN listed |-> <<listed[i][1], g[listed[i][2]]>>]
          = [i \in DOMAIN listed |-> <<listed[i][1], h[listed[i][2]]>>]
    BY <2>3
  <2>5. /\ ReadBody(g, t) = object([i \in DOMAIN listed |-> <<listed[i][1], g[listed[i][2]]>>])
        /\ ReadBody(h, t) = object([i \in DOMAIN listed |-> <<listed[i][1], h[listed[i][2]]>>])
    BY <1>2 DEF ReadBody, listed
  <2>6. QED
    BY <2>4, <2>5
<1>3. CASE DOMAIN t \in {{"number"}, {"literal"}}
  BY <1>3 DEF ReadBody
<1>4. QED
  BY <1>1, <1>2, <1>3

LEMMA ReadExists == \E f : Read(f)
<1> DEFINE Upto(n, f) == f = [t \in texts(n) |-> ReadBody(f, t)]
           S == {n \in 0 .. MaxDepth : \E f : Upto(n, f)}
<1>1. \A n \in 0 .. MaxDepth : texts(n) \subseteq Canonical
  BY TextsWithin
<1>2. 0 \in S
  <2> DEFINE g == [t \in texts(0) |-> ReadBody(<< >>, t)]
  <2>1. 0 \in 0 .. MaxDepth
    BY BoundsAreNat
  <2>2. \A t \in texts(0) : g[t] = ReadBody(g, t)
    <3> SUFFICES ASSUME NEW t \in texts(0) PROVE g[t] = ReadBody(g, t)
      OBVIOUS
    <3>1. t \in Canonical /\ TextParts(t) = {}
      BY <1>1, <2>1, TextPartsBelow
    <3>2. g[t] = ReadBody(<< >>, t)
      OBVIOUS
    <3> HIDE DEF g
    <3>3. ReadBody(g, t) = ReadBody(<< >>, t)
      BY <3>1, ReadBodyOfParts
    <3>4. QED
      BY <3>2, <3>3
  <2>3. g = [t \in texts(0) |-> g[t]]
    OBVIOUS
  <2> HIDE DEF g
  <2>4. Upto(0, g)
    BY <2>2, <2>3, Zenon
  <2>5. QED
    BY <2>1, <2>4, Zenon
<1>3. ASSUME NEW n \in 0 .. MaxDepth - 1, n \in S PROVE n + 1 \in S
  <2>1. n \in Nat /\ n \in 0 .. MaxDepth /\ n + 1 \in 0 .. MaxDepth
    BY BoundsAreNat
  <2>2. PICK f : Upto(n, f)
    BY <1>3, Zenon
  <2> DEFINE g == [t \in texts(n + 1) |-> ReadBody(f, t)]
  <2>3. \A t \in texts(n + 1) : t \in Canonical /\ TextParts(t) \subseteq texts(n)
    BY <1>1, <2>1, TextPartsBelow
  <2>4. \A t \in texts(n) : g[t] = f[t]
    <3>1. texts(n) \subseteq texts(n + 1)
      BY <2>1, TextsGrow
    <3>2. \A t \in texts(n) : f[t] = ReadBody(f, t)
      BY <2>2, Zenon
    <3>3. QED
      BY <3>1, <3>2
  <2>5. \A t \in texts(n + 1) : g[t] = ReadBody(f, t)
    OBVIOUS
  <2>6. g = [t \in texts(n + 1) |-> g[t]]
    OBVIOUS
  <2> HIDE DEF g, Upto
  <2>7. \A t \in texts(n + 1) : g[t] = ReadBody(g, t)
    <3> SUFFICES ASSUME NEW t \in texts(n + 1) PROVE g[t] = ReadBody(g, t)
      OBVIOUS
    <3>1. ReadBody(g, t) = ReadBody(f, t)
      BY <2>3, <2>4, ReadBodyOfParts
    <3>2. QED
      BY <2>5, <3>1
  <2>8. Upto(n + 1, g)
    BY <2>6, <2>7, Zenon DEF Upto
  <2>9. QED
    BY <2>1, <2>8, Zenon
<1> HIDE DEF S
<1>4. 0 .. MaxDepth \subseteq S
  BY <1>2, <1>3, BoundsAreNat, IntervalUp
<1>5. MaxDepth \in S
  BY <1>4, BoundsAreNat
<1>6. PICK f : Upto(MaxDepth, f)
  BY <1>5, Zenon DEF S
<1>7. Read(f)
  BY <1>6, Zenon DEF Read, Canonical
<1>8. QED
  BY <1>7, Zenon

LEMMA ReadCalled == \E f : Read(f) /\ \A t : decode(t) = f[t]
<1> DEFINE f == CHOOSE g : Read(g)
<1>1. Read(f)
  BY ReadExists, Zenon
<1>2. \A t : decode(t) = f[t]
  BY Zenon DEF decode, Read, ReadBody, Canonical
<1> HIDE DEF f
<1>3. QED
  BY <1>1, <1>2, Zenon

-----------------------------------------------------------------------------
\* The same, case by case.

LEMMA EncodableCases ==
  ASSUME NEW v \in Value
  PROVE  /\ v.tag = "array" =>
              (encodable(v) <=> \A i \in DOMAIN v.items : encodable(v.items[i]))
         /\ v.tag = "object" =>
              (encodable(v) <=> /\ unique_object(v.members)
                                /\ \A i \in DOMAIN v.members : encodable(v.members[i][2]))
         /\ v.tag = "integer" => (encodable(v) <=> v.n \in -MaxMagnitude .. MaxMagnitude)
         /\ v.tag = "float" => (encodable(v) <=> v.half \in -2 * MaxMagnitude .. 2 * MaxMagnitude)
         /\ v.tag \in {"null", "boolean", "string"} => encodable(v)
<1>1. PICK f : Within(f) /\ \A w : encodable(w) <=> w \in Value /\ f[w]
  BY WithinCalled
<1>2. encodable(v) <=> WithinBody(f, v)
  BY <1>1 DEF Within
<1>3. ASSUME v.tag = "array" PROVE encodable(v) <=> \A i \in DOMAIN v.items : encodable(v.items[i])
  <2>1. WithinBody(f, v) <=> \A i \in DOMAIN v.items : f[v.items[i]]
    BY <1>3 DEF WithinBody
  <2>2. QED
    BY <1>1, <1>2, <1>3, <2>1, ItemsOfValue
<1>4. ASSUME v.tag = "object"
      PROVE  encodable(v) <=> /\ unique_object(v.members)
                              /\ \A i \in DOMAIN v.members : encodable(v.members[i][2])
  <2>1. WithinBody(f, v) <=> /\ unique_object(v.members)
                             /\ \A i \in DOMAIN v.members : f[v.members[i][2]]
    BY <1>4 DEF WithinBody
  <2>2. QED
    BY <1>1, <1>2, <1>4, <2>1, MembersOfValue
<1>5. QED
  BY <1>2, <1>3, <1>4 DEF WithinBody

LEMMA JcsCases ==
  ASSUME NEW v \in Value
  PROVE  /\ v.tag = "array" =>
              jcs(v) = [array |-> [i \in DOMAIN v.items |-> jcs(v.items[i])]]
         /\ v.tag = "object" =>
              jcs(v) = [object |-> {<<v.members[i][1], jcs(v.members[i][2])>> :
                                      i \in DOMAIN v.members}]
         /\ v.tag = "integer" => jcs(v) = [number |-> 2 * v.n]
         /\ v.tag = "float" => jcs(v) = [number |-> v.half]
         /\ v.tag \in {"null", "boolean", "string"} => jcs(v) = [literal |-> v]
<1>1. PICK f : Text(f) /\ \A w : jcs(w) = f[w]
  BY TextCalled
<1>2. jcs(v) = TextBody(f, v)
  BY <1>1 DEF Text
<1>3. ASSUME v.tag = "array"
      PROVE  jcs(v) = [array |-> [i \in DOMAIN v.items |-> jcs(v.items[i])]]
  <2>1. TextBody(f, v) = [array |-> [i \in DOMAIN v.items |-> f[v.items[i]]]]
    BY <1>3 DEF TextBody
  <2>2. QED
    BY <1>1, <1>2, <2>1, Zenon
<1>4. ASSUME v.tag = "object"
      PROVE  jcs(v) = [object |-> {<<v.members[i][1], jcs(v.members[i][2])>> :
                                     i \in DOMAIN v.members}]
  <2>1. TextBody(f, v) = [object |-> {<<v.members[i][1], f[v.members[i][2]]>> :
                                        i \in DOMAIN v.members}]
    BY <1>4 DEF TextBody
  <2>2. QED
    BY <1>1, <1>2, <2>1, Zenon
<1>5. QED
  BY <1>2, <1>3, <1>4 DEF TextBody

LEMMA TypedCases ==
  ASSUME NEW v \in Value
  PROVE  /\ v.tag = "array" =>
              typed(v) = array(<<string("array"),
                                 array([i \in DOMAIN v.items |-> typed(v.items[i])])>>)
         /\ v.tag = "object" =>
              typed(v) = array(<<string("object"),
                                 object([i \in DOMAIN v.members |->
                                          <<v.members[i][1], typed(v.members[i][2])>>])>>)
         /\ v.tag = "null" => typed(v) = array(<<string("null")>>)
         /\ v.tag \in {"boolean", "string", "integer", "float"} =>
              typed(v) = array(<<string(v.tag), v>>)
<1>1. PICK f : Project(f) /\ \A w : typed(w) = f[w]
  BY ProjectCalled
<1>2. typed(v) = ProjectBody(f, v)
  BY <1>1 DEF Project
<1>3. ASSUME v.tag = "array"
      PROVE  typed(v) = array(<<string("array"),
                                array([i \in DOMAIN v.items |-> typed(v.items[i])])>>)
  <2>1. ProjectBody(f, v) = array(<<string("array"),
                                    array([i \in DOMAIN v.items |-> f[v.items[i]]])>>)
    BY <1>3 DEF ProjectBody
  <2>2. QED
    BY <1>1, <1>2, <2>1, Zenon
<1>4. ASSUME v.tag = "object"
      PROVE  typed(v) = array(<<string("object"),
                                object([i \in DOMAIN v.members |->
                                         <<v.members[i][1], typed(v.members[i][2])>>])>>)
  <2>1. ProjectBody(f, v) = array(<<string("object"),
                                    object([i \in DOMAIN v.members |->
                                             <<v.members[i][1], f[v.members[i][2]]>>])>>)
    BY <1>4 DEF ProjectBody
  <2>2. QED
    BY <1>1, <1>2, <2>1, Zenon
<1>5. QED
  BY <1>2, <1>3, <1>4 DEF ProjectBody

LEMMA DecodeCases ==
  ASSUME NEW t \in Canonical
  PROVE  /\ DOMAIN t = {"array"} =>
              decode(t) = array([i \in DOMAIN t.array |-> decode(t.array[i])])
         /\ DOMAIN t = {"object"} =>
              LET listed == SetToSeq(t.object)
              IN  decode(t) = object([i \in DOMAIN listed |->
                                       <<listed[i][1], decode(listed[i][2])>>])
         /\ DOMAIN t = {"number"} => decode(t) = number_value(t.number)
         /\ DOMAIN t = {"literal"} => decode(t) = t.literal
<1>1. PICK f : Read(f) /\ \A w : decode(w) = f[w]
  BY ReadCalled
<1>2. decode(t) = ReadBody(f, t)
  BY <1>1 DEF Read
<1>3. ASSUME DOMAIN t = {"array"}
      PROVE  decode(t) = array([i \in DOMAIN t.array |-> decode(t.array[i])])
  <2>1. ReadBody(f, t) = array([i \in DOMAIN t.array |-> f[t.array[i]]])
    BY <1>3 DEF ReadBody
  <2>2. QED
    BY <1>1, <1>2, <2>1, Zenon
<1> DEFINE listed == SetToSeq(t.object)
<1>4. ASSUME DOMAIN t = {"object"}
      PROVE  decode(t) = object([i \in DOMAIN listed |-> <<listed[i][1], decode(listed[i][2])>>])
  <2>1. ReadBody(f, t) = object([i \in DOMAIN listed |-> <<listed[i][1], f[listed[i][2]]>>])
    BY <1>4 DEF ReadBody
  <2>2. QED
    BY <1>1, <1>2, <2>1, Zenon
<1>5. QED
  BY <1>2, <1>3, <1>4 DEF ReadBody

LEMMA IdentityCases ==
  ASSUME NEW a \in Value, NEW b \in Value
  PROVE  semantic_identity(a, b) <=>
           /\ a.tag = b.tag
           /\ a.tag = "array" =>
                /\ Len(a.items) = Len(b.items)
                /\ \A i \in DOMAIN a.items : semantic_identity(a.items[i], b.items[i])
           /\ a.tag = "object" =>
                /\ unique_object(a.members) /\ unique_object(b.members)
                /\ Len(a.members) = Len(b.members)
                /\ \A i \in DOMAIN a.members : \E j \in DOMAIN b.members :
                     /\ b.members[j][1] = a.members[i][1]
                     /\ semantic_identity(a.members[i][2], b.members[j][2])
           /\ a.tag = "float" => a.half = b.half
           /\ a.tag \notin {"array", "object", "float"} => a = b
<1>1. PICK f : Identical(f) /\ \A v, w : semantic_identity(v, w) = f[v][w]
  BY IdenticalCalled
<1>2. semantic_identity(a, b) = IdenticalBody(f, a)[b]
  BY <1>1 DEF Identical
<1>3. IdenticalBody(f, a)[b] <=>
           /\ a.tag = b.tag
           /\ a.tag = "array" =>
                /\ Len(a.items) = Len(b.items)
                /\ \A i \in DOMAIN a.items : f[a.items[i]][b.items[i]]
           /\ a.tag = "object" =>
                /\ unique_object(a.members) /\ unique_object(b.members)
                /\ Len(a.members) = Len(b.members)
                /\ \A i \in DOMAIN a.members : \E j \in DOMAIN b.members :
                     /\ b.members[j][1] = a.members[i][1]
                     /\ f[a.members[i][2]][b.members[j][2]]
           /\ a.tag = "float" => a.half = b.half
           /\ a.tag \notin {"array", "object", "float"} => a = b
  BY DEF IdenticalBody
<1>4. QED
  BY <1>1, <1>2, <1>3

LEMMA SameCases ==
  ASSUME NEW a \in Value, NEW b \in Value
  PROVE  SameValue(a, b) <=>
           /\ a.tag = b.tag
           /\ a.tag = "array" =>
                /\ Len(a.items) = Len(b.items)
                /\ \A i \in DOMAIN a.items : SameValue(a.items[i], b.items[i])
           /\ a.tag = "object" =>
                /\ keys(a.members) = keys(b.members)
                /\ \A i \in DOMAIN a.members, j \in DOMAIN b.members :
                     a.members[i][1] = b.members[j][1] =>
                       SameValue(a.members[i][2], b.members[j][2])
           /\ a.tag = "float" => a.half = b.half
           /\ a.tag \notin {"array", "object", "float"} => a = b
<1>1. PICK f : Same(f) /\ \A v, w : SameValue(v, w) = f[v][w]
  BY SameCalled
<1>2. SameValue(a, b) = SameBody(f, a)[b]
  BY <1>1 DEF Same
<1>3. SameBody(f, a)[b] <=>
           /\ a.tag = b.tag
           /\ a.tag = "array" =>
                /\ Len(a.items) = Len(b.items)
                /\ \A i \in DOMAIN a.items : f[a.items[i]][b.items[i]]
           /\ a.tag = "object" =>
                /\ keys(a.members) = keys(b.members)
                /\ \A i \in DOMAIN a.members, j \in DOMAIN b.members :
                     a.members[i][1] = b.members[j][1] => f[a.members[i][2]][b.members[j][2]]
           /\ a.tag = "float" => a.half = b.half
           /\ a.tag \notin {"array", "object", "float"} => a = b
  BY DEF SameBody
<1>4. QED
  BY <1>1, <1>2, <1>3

LEMMA IntegralCases ==
  ASSUME NEW v \in Value, ~ HasIntegralFloat(v)
  PROVE  /\ v.tag = "array" => \A i \in DOMAIN v.items : ~ HasIntegralFloat(v.items[i])
         /\ v.tag = "object" => \A i \in DOMAIN v.members : ~ HasIntegralFloat(v.members[i][2])
         /\ v.tag = "float" => v.half % 2 # 0
<1>1. PICK f : Integral(f) /\ \A w : HasIntegralFloat(w) = f[w]
  BY IntegralCalled
<1>2. ~ IntegralBody(f, v)
  BY <1>1 DEF Integral
<1>3. /\ v.tag = "array" => \A i \in DOMAIN v.items : ~ f[v.items[i]]
      /\ v.tag = "object" => \A i \in DOMAIN v.members : ~ f[v.members[i][2]]
      /\ v.tag = "float" => v.half % 2 # 0
  BY <1>2 DEF IntegralBody
<1>4. QED
  BY <1>1, <1>3

LEMMA ScalarCases ==
  ASSUME NEW v \in Value
  PROVE  /\ v.tag \in {"null", "boolean", "string", "integer", "float", "array", "object"}
         /\ v.tag = "null" => v = null
         /\ v.tag = "integer" => v.n \in Int /\ v = integer(v.n)
         /\ v.tag = "float" => v.half \in Int /\ v \in Float
         /\ v.tag \in {"null", "boolean", "string"} => v \in Literal
<1>1. CASE v \in Scalars
  BY <1>1 DEF Scalars, Literal, Float, null, integer
<1>2. CASE v \notin Scalars
  BY <1>2, ValueShape DEF Shape
<1>3. QED
  BY <1>1, <1>2

-----------------------------------------------------------------------------
\* Objects whose names are distinct.

LEMMA KeysCounted ==
  ASSUME NEW V, NEW m \in Seq(STRING \X V), unique_object(m)
  PROVE  IsFiniteSet(keys(m)) /\ Cardinality(keys(m)) = Len(m)
<1> DEFINE f == [i \in 1 .. Len(m) |-> m[i][1]]
<1>1. Len(m) \in Nat /\ DOMAIN m = 1 .. Len(m)
  OBVIOUS
<1>2. f \in Injection(1 .. Len(m), keys(m))
  BY <1>1 DEF Injection, IsInjective, keys, unique_object
<1>3. f \in Surjection(1 .. Len(m), keys(m))
  BY <1>1 DEF Surjection, keys
<1>4. ExistsBijection(1 .. Len(m), keys(m))
  BY <1>2, <1>3 DEF ExistsBijection, Bijection
<1>5. IsFiniteSet(1 .. Len(m)) /\ Cardinality(1 .. Len(m)) = Len(m)
  BY <1>1, FS_Interval
<1>6. QED
  BY <1>4, <1>5, FS_Bijection

LEMMA UniqueObjects ==
  ASSUME NEW v \in Value, v.tag = "object", unique_object(v.members)
  PROVE  /\ IsFiniteSet(keys(v.members)) /\ Cardinality(keys(v.members)) = Len(v.members)
         /\ \A i, j \in DOMAIN v.members : v.members[i][1] = v.members[j][1] => i = j
<1>1. v.members \in Seq(STRING \X Value)
  BY ValueShape DEF Shape
<1>2. QED
  BY <1>1, KeysCounted DEF unique_object

-----------------------------------------------------------------------------
\* The projection tells apart what semantic_identity tells apart.

\* what the projection of a value holds beside the name of its type
Payload(v) ==
  CASE v.tag = "array"  -> array([i \in DOMAIN v.items |-> typed(v.items[i])])
    [] v.tag = "object" -> object([i \in DOMAIN v.members |->
                                    <<v.members[i][1], typed(v.members[i][2])>>])
    [] OTHER            -> v

LEMMA TypedText ==
  ASSUME NEW v \in Value, encodable(typed(v))
  PROVE  /\ v.tag = "null" => jcs(typed(v)) = [array |-> <<[literal |-> string("null")]>>]
         /\ v.tag # "null" =>
              /\ Payload(v) \in Value /\ encodable(Payload(v))
              /\ jcs(typed(v)) = [array |-> <<[literal |-> string(v.tag)], jcs(Payload(v))>>]
<1> DEFINE u == typed(v)
<1>1. u \in Value
  BY DEF encodable
<1>2. CASE v.tag = "null"
  <2>1. u = array(<<string("null")>>)
    BY <1>2, TypedCases
  <2>2. u.tag = "array" /\ u.items = <<string("null")>>
    BY <2>1 DEF array
  <2> HIDE DEF u
  <2>3. DOMAIN u.items = {1} /\ string("null") \in Value
    BY <1>1, <2>2, ItemsOfValue
  <2>4. jcs(string("null")) = [literal |-> string("null")]
    BY <2>3, JcsCases DEF string
  <2>5. jcs(u) = [array |-> [i \in DOMAIN u.items |-> jcs(u.items[i])]]
    BY <1>1, <2>2, JcsCases
  <2>6. [i \in DOMAIN u.items |-> jcs(u.items[i])] = <<[literal |-> string("null")]>>
    BY <2>2, <2>3, <2>4
  <2>7. QED
    BY <1>2, <2>5, <2>6 DEF u
<1>3. CASE v.tag # "null"
  <2>1. u = array(<<string(v.tag), Payload(v)>>)
    BY <1>3, TypedCases, ScalarCases DEF Payload
  <2>2. u.tag = "array" /\ u.items = <<string(v.tag), Payload(v)>>
    BY <2>1 DEF array
  <2>3. encodable(u)
    OBVIOUS
  <2> HIDE DEF u
  <2>4. DOMAIN u.items = 1 .. 2 /\ string(v.tag) \in Value /\ Payload(v) \in Value
    BY <1>1, <2>2, ItemsOfValue
  <2>5. encodable(Payload(v))
    BY <1>1, <2>2, <2>3, <2>4, EncodableCases
  <2>6. jcs(string(v.tag)) = [literal |-> string(v.tag)]
    BY <2>4, JcsCases DEF string
  <2>7. jcs(u) = [array |-> [i \in DOMAIN u.items |-> jcs(u.items[i])]]
    BY <1>1, <2>2, JcsCases
  <2>8. [i \in DOMAIN u.items |-> jcs(u.items[i])]
          = <<[literal |-> string(v.tag)], jcs(Payload(v))>>
    BY <2>2, <2>4, <2>6
  <2>9. QED
    BY <1>3, <2>4, <2>5, <2>7, <2>8 DEF u
<1>4. QED
  BY <1>2, <1>3

LEMMA PayloadCases ==
  ASSUME NEW v \in Value, Payload(v) \in Value, encodable(Payload(v))
  PROVE  /\ v.tag = "array" =>
              /\ \A i \in DOMAIN v.items : encodable(typed(v.items[i]))
              /\ jcs(Payload(v)) = [array |-> [i \in DOMAIN v.items |-> jcs(typed(v.items[i]))]]
         /\ v.tag = "object" =>
              /\ unique_object(v.members)
              /\ \A i \in DOMAIN v.members : encodable(typed(v.members[i][2]))
              /\ jcs(Payload(v)) = [object |-> {<<v.members[i][1], jcs(typed(v.members[i][2]))>> :
                                                  i \in DOMAIN v.members}]
         /\ v.tag \notin {"array", "object"} => Payload(v) = v
<1> DEFINE p == Payload(v)
<1>1. CASE v.tag = "array"
  <2>1. p.tag = "array" /\ p.items = [i \in DOMAIN v.items |-> typed(v.items[i])]
    BY <1>1 DEF Payload, array
  <2>2. DOMAIN p.items = DOMAIN v.items /\ \A i \in DOMAIN v.items : p.items[i] = typed(v.items[i])
    BY <2>1
  <2>3. p \in Value /\ encodable(p)
    OBVIOUS
  <2> HIDE DEF p
  <2>4. \A i \in DOMAIN v.items : encodable(typed(v.items[i]))
    BY <2>1, <2>2, <2>3, EncodableCases
  <2>5. jcs(p) = [array |-> [i \in DOMAIN p.items |-> jcs(p.items[i])]]
    BY <2>1, <2>3, JcsCases
  <2>6. [i \in DOMAIN p.items |-> jcs(p.items[i])] = [i \in DOMAIN v.items |-> jcs(typed(v.items[i]))]
    BY <2>2
  <2>7. QED
    BY <1>1, <2>4, <2>5, <2>6 DEF p
<1>2. CASE v.tag = "object"
  <2>1. p.tag = "object" /\ p.members = [i \in DOMAIN v.members |->
                                           <<v.members[i][1], typed(v.members[i][2])>>]
    BY <1>2 DEF Payload, object
  <2>2. /\ DOMAIN p.members = DOMAIN v.members
        /\ \A i \in DOMAIN v.members : /\ p.members[i][1] = v.members[i][1]
                                       /\ p.members[i][2] = typed(v.members[i][2])
    BY <2>1
  <2>3. p \in Value /\ encodable(p)
    OBVIOUS
  <2> HIDE DEF p
  <2>4. unique_object(p.members) /\ \A i \in DOMAIN v.members : encodable(typed(v.members[i][2]))
    BY <2>1, <2>2, <2>3, EncodableCases
  <2>5. unique_object(v.members)
    BY <2>2, <2>4 DEF unique_object
  <2>6. jcs(p) = [object |-> {<<p.members[i][1], jcs(p.members[i][2])>> : i \in DOMAIN p.members}]
    BY <2>1, <2>3, JcsCases
  <2>7. {<<p.members[i][1], jcs(p.members[i][2])>> : i \in DOMAIN p.members}
          = {<<v.members[i][1], jcs(typed(v.members[i][2]))>> : i \in DOMAIN v.members}
    BY <2>2
  <2>8. QED
    BY <1>2, <2>4, <2>5, <2>6, <2>7 DEF p
<1>3. CASE v.tag \notin {"array", "object"}
  BY <1>3 DEF Payload
<1>4. QED
  BY <1>1, <1>2, <1>3

LEMMA TextNames ==
  ASSUME NEW a \in Value, NEW b \in Value,
         encodable(typed(a)), encodable(typed(b)), jcs(typed(a)) = jcs(typed(b))
  PROVE  a.tag = b.tag /\ (a.tag # "null" => jcs(Payload(a)) = jcs(Payload(b)))
<1> DEFINE name(v) == [literal |-> string(v.tag)]
           text(v) == IF v.tag = "null" THEN <<name(v)>> ELSE <<name(v), jcs(Payload(v))>>
<1>1. jcs(typed(a)) = [array |-> text(a)] /\ jcs(typed(b)) = [array |-> text(b)]
  BY TypedText
<1>2. text(a) = text(b)
  <2> HIDE DEF text
  <2>1. [array |-> text(a)] = [array |-> text(b)]
    BY <1>1
  <2>2. [array |-> text(a)].array = text(a) /\ [array |-> text(b)].array = text(b)
    OBVIOUS
  <2>3. QED
    BY <2>1, <2>2
<1>3. text(a)[1] = name(a) /\ text(b)[1] = name(b)
  OBVIOUS
<1>4. name(a) = name(b)
  BY <1>2, <1>3
<1>5. name(a).literal.s = a.tag /\ name(b).literal.s = b.tag
  BY DEF string
<1>6. a.tag = b.tag
  BY <1>4, <1>5
<1>7. ASSUME a.tag # "null" PROVE jcs(Payload(a)) = jcs(Payload(b))
  <2>1. text(a)[2] = jcs(Payload(a)) /\ text(b)[2] = jcs(Payload(b))
    BY <1>6, <1>7
  <2>2. QED
    BY <1>2, <2>1
<1>8. QED
  BY <1>6, <1>7

\* arguments of one digest are identical, both ways round
LEMMA OneDigest ==
  ASSUME NEW a \in Value, NEW b \in Value,
         encodable(typed(a)), encodable(typed(b)), jcs(typed(a)) = jcs(typed(b))
  PROVE  semantic_identity(a, b)
<1> DEFINE likes(v, w) ==
             (encodable(typed(v)) /\ encodable(typed(w)) /\ jcs(typed(v)) = jcs(typed(w)))
               => semantic_identity(v, w)
           Q == {v \in Value : \A w \in Value : likes(v, w)}
<1>1. ASSUME NEW v \in Value, Parts(v) \subseteq Q PROVE v \in Q
  <2> SUFFICES ASSUME NEW w \in Value, encodable(typed(v)), encodable(typed(w)),
                      jcs(typed(v)) = jcs(typed(w))
               PROVE  semantic_identity(v, w)
    OBVIOUS
  <2>1. \A p \in Parts(v), q \in Value : likes(p, q)
    BY <1>1
  <2> HIDE DEF Q
  <2>2. v.tag = w.tag /\ (v.tag # "null" => jcs(Payload(v)) = jcs(Payload(w)))
    BY TextNames
  <2>3. CASE v.tag = "null"
    BY <2>2, <2>3, ScalarCases, IdentityCases
  <2>4. v.tag # "null" => /\ Payload(v) \in Value /\ encodable(Payload(v))
                          /\ Payload(w) \in Value /\ encodable(Payload(w))
    BY <2>2, TypedText
  <2>5. CASE v.tag = "array"
    <3> DEFINE f == [i \in DOMAIN v.items |-> jcs(typed(v.items[i]))]
               g == [i \in DOMAIN w.items |-> jcs(typed(w.items[i]))]
    <3>1. /\ jcs(Payload(v)) = [array |-> f] /\ jcs(Payload(w)) = [array |-> g]
          /\ \A i \in DOMAIN v.items : encodable(typed(v.items[i]))
          /\ \A i \in DOMAIN w.items : encodable(typed(w.items[i]))
      BY <2>2, <2>4, <2>5, PayloadCases
    <3>2. DOMAIN f = DOMAIN v.items /\ \A i \in DOMAIN v.items : f[i] = jcs(typed(v.items[i]))
      OBVIOUS
    <3>3. DOMAIN g = DOMAIN w.items /\ \A i \in DOMAIN w.items : g[i] = jcs(typed(w.items[i]))
      OBVIOUS
    <3> HIDE DEF f, g
    <3>4. [array |-> f].array = f /\ [array |-> g].array = g
      OBVIOUS
    <3>5. f = g
      BY <2>2, <2>5, <3>1, <3>4
    <3>6. Len(v.items) = Len(w.items)
      BY <2>2, <2>5, <3>2, <3>3, <3>5, ItemsOfValue
    <3>7. \A i \in DOMAIN v.items : semantic_identity(v.items[i], w.items[i])
      BY <2>1, <2>2, <2>5, <3>1, <3>2, <3>3, <3>5, ItemsOfValue
    <3>8. QED
      BY <2>2, <2>5, <3>6, <3>7, IdentityCases
  <2>6. CASE v.tag = "object"
    <3> DEFINE f == {<<v.members[i][1], jcs(typed(v.members[i][2]))>> : i \in DOMAIN v.members}
               g == {<<w.members[i][1], jcs(typed(w.members[i][2]))>> : i \in DOMAIN w.members}
    <3>1. /\ jcs(Payload(v)) = [object |-> f] /\ jcs(Payload(w)) = [object |-> g]
          /\ \A i \in DOMAIN v.members : encodable(typed(v.members[i][2]))
          /\ \A i \in DOMAIN w.members : encodable(typed(w.members[i][2]))
          /\ unique_object(v.members) /\ unique_object(w.members)
      BY <2>2, <2>4, <2>6, PayloadCases
    <3>2. \A i \in DOMAIN v.members : f = g => \E j \in DOMAIN w.members :
            <<v.members[i][1], jcs(typed(v.members[i][2]))>>
              = <<w.members[j][1], jcs(typed(w.members[j][2]))>>
      OBVIOUS
    <3>3. \A j \in DOMAIN w.members : f = g => \E i \in DOMAIN v.members :
            <<v.members[i][1], jcs(typed(v.members[i][2]))>>
              = <<w.members[j][1], jcs(typed(w.members[j][2]))>>
      OBVIOUS
    <3> HIDE DEF f, g
    <3>4. [object |-> f].object = f /\ [object |-> g].object = g
      OBVIOUS
    <3>5. f = g
      BY <2>2, <2>6, <3>1, <3>4
    <3>6. keys(v.members) = keys(w.members)
      BY <3>2, <3>3, <3>5 DEF keys
    <3>7. Len(v.members) = Len(w.members)
      BY <2>2, <2>6, <3>1, <3>6, UniqueObjects
    <3>8. \A i \in DOMAIN v.members : \E j \in DOMAIN w.members :
             /\ w.members[j][1] = v.members[i][1]
             /\ semantic_identity(v.members[i][2], w.members[j][2])
      <4> SUFFICES ASSUME NEW i \in DOMAIN v.members
                   PROVE  \E j \in DOMAIN w.members :
                             /\ w.members[j][1] = v.members[i][1]
                             /\ semantic_identity(v.members[i][2], w.members[j][2])
        OBVIOUS
      <4>1. PICK j \in DOMAIN w.members :
              <<v.members[i][1], jcs(typed(v.members[i][2]))>>
                = <<w.members[j][1], jcs(typed(w.members[j][2]))>>
        BY <3>2, <3>5
      <4>2. w.members[j][1] = v.members[i][1]
            /\ jcs(typed(v.members[i][2])) = jcs(typed(w.members[j][2]))
        BY <4>1
      <4>3. v.members[i][2] \in Parts(v) /\ w.members[j][2] \in Value
        BY <2>2, <2>6, MembersOfValue
      <4>4. semantic_identity(v.members[i][2], w.members[j][2])
        BY <2>1, <3>1, <4>2, <4>3
      <4>5. QED
        BY <4>2, <4>4
    <3>9. QED
      BY <2>2, <2>6, <3>1, <3>7, <3>8, IdentityCases
  <2>7. CASE v.tag \in {"boolean", "string", "integer", "float"}
    <3>1. jcs(v) = jcs(w)
      BY <2>2, <2>4, <2>7, PayloadCases
    <3>2. CASE v.tag \in {"boolean", "string"}
      <4>1. [literal |-> v] = [literal |-> w]
        BY <2>2, <3>1, <3>2, JcsCases
      <4>2. v = w
        BY <4>1
      <4>3. QED
        BY <3>2, <4>2, IdentityCases
    <3>3. CASE v.tag = "integer"
      <4>1. [number |-> 2 * v.n] = [number |-> 2 * w.n]
        BY <2>2, <3>1, <3>3, JcsCases
      <4>2. 2 * v.n = 2 * w.n
        BY <4>1
      <4>3. v.n \in Int /\ v = integer(v.n) /\ w.n \in Int /\ w = integer(w.n)
        BY <2>2, <3>3, ScalarCases
      <4>4. v.n = w.n
        BY <4>2, <4>3
      <4>5. v = w
        BY <4>3, <4>4, Zenon
      <4>6. QED
        BY <3>3, <4>5, IdentityCases
    <3>4. CASE v.tag = "float"
      <4>1. [number |-> v.half] = [number |-> w.half]
        BY <2>2, <3>1, <3>4, JcsCases
      <4>2. v.half = w.half
        BY <4>1
      <4>3. QED
        BY <2>2, <3>4, <4>2, IdentityCases
    <3>5. QED
      BY <2>7, <3>2, <3>3, <3>4
  <2>8. QED
    BY <2>3, <2>5, <2>6, <2>7, ScalarCases
<1>2. Value \subseteq Q
  <2> HIDE DEF Q
  <2>1. QED
    BY <1>1, ValueInduction
<1>3. QED
  BY <1>2

-----------------------------------------------------------------------------
\* semantic_identity is an equivalence, and finer than SameValue.

LEMMA ObjectIdentity ==
  ASSUME NEW a \in Value, NEW b \in Value, a.tag = "object", semantic_identity(a, b)
  PROVE  /\ b.tag = "object" /\ keys(a.members) = keys(b.members)
         /\ unique_object(a.members) /\ unique_object(b.members)
         /\ Len(a.members) = Len(b.members)
         /\ \A i \in DOMAIN a.members, j \in DOMAIN b.members :
              a.members[i][1] = b.members[j][1] =>
                semantic_identity(a.members[i][2], b.members[j][2])
         /\ \A i \in DOMAIN a.members : \E j \in DOMAIN b.members :
              a.members[i][1] = b.members[j][1]
         /\ \A j \in DOMAIN b.members : \E i \in DOMAIN a.members :
              a.members[i][1] = b.members[j][1]
<1>1. /\ b.tag = "object"
      /\ unique_object(a.members) /\ unique_object(b.members)
      /\ Len(a.members) = Len(b.members)
      /\ \A i \in DOMAIN a.members : \E j \in DOMAIN b.members :
           /\ b.members[j][1] = a.members[i][1]
           /\ semantic_identity(a.members[i][2], b.members[j][2])
  BY IdentityCases
<1>2. keys(a.members) \subseteq keys(b.members)
  BY <1>1 DEF keys
<1>3. /\ IsFiniteSet(keys(b.members)) /\ Cardinality(keys(a.members)) = Len(a.members)
      /\ Cardinality(keys(b.members)) = Len(b.members)
      /\ \A i, j \in DOMAIN b.members : b.members[i][1] = b.members[j][1] => i = j
  BY <1>1, UniqueObjects
<1>4. keys(a.members) = keys(b.members)
  BY <1>1, <1>2, <1>3, FS_Subset
<1>5. \A j \in DOMAIN b.members : b.members[j][1] \in keys(a.members)
  BY <1>4 DEF keys
<1>6. \A j \in DOMAIN b.members : \E i \in DOMAIN a.members : a.members[i][1] = b.members[j][1]
  BY <1>5 DEF keys
<1>7. \A i \in DOMAIN a.members, j \in DOMAIN b.members :
        a.members[i][1] = b.members[j][1] => semantic_identity(a.members[i][2], b.members[j][2])
  BY <1>1, <1>3
<1>8. QED
  BY <1>1, <1>4, <1>6, <1>7

LEMMA IdentitySymmetric ==
  ASSUME NEW a \in Value, NEW b \in Value, semantic_identity(a, b)
  PROVE  semantic_identity(b, a)
<1> DEFINE Q == {v \in Value : \A w \in Value : semantic_identity(v, w) => semantic_identity(w, v)}
<1>1. ASSUME NEW v \in Value, Parts(v) \subseteq Q PROVE v \in Q
  <2> SUFFICES ASSUME NEW w \in Value, semantic_identity(v, w) PROVE semantic_identity(w, v)
    OBVIOUS
  <2>1. \A p \in Parts(v), q \in Value : semantic_identity(p, q) => semantic_identity(q, p)
    BY <1>1
  <2> HIDE DEF Q
  <2>2. v.tag = w.tag
    BY IdentityCases
  <2>3. CASE v.tag = "array"
    <3>1. Len(v.items) = Len(w.items)
          /\ \A i \in DOMAIN v.items : semantic_identity(v.items[i], w.items[i])
      BY <2>3, IdentityCases
    <3>2. \A i \in DOMAIN w.items : semantic_identity(w.items[i], v.items[i])
      BY <2>1, <2>2, <2>3, <3>1, ItemsOfValue
    <3>3. QED
      BY <2>2, <2>3, <3>1, <3>2, IdentityCases
  <2>4. CASE v.tag = "object"
    <3>1. /\ unique_object(v.members) /\ unique_object(w.members)
          /\ Len(v.members) = Len(w.members)
          /\ \A i \in DOMAIN v.members, j \in DOMAIN w.members :
               v.members[i][1] = w.members[j][1] =>
                 semantic_identity(v.members[i][2], w.members[j][2])
          /\ \A j \in DOMAIN w.members : \E i \in DOMAIN v.members :
               v.members[i][1] = w.members[j][1]
      BY <2>4, ObjectIdentity
    <3>2. \A i \in DOMAIN v.members : v.members[i][2] \in Parts(v)
      BY <2>4, MembersOfValue
    <3>3. \A j \in DOMAIN w.members : w.members[j][2] \in Value
      BY <2>2, <2>4, MembersOfValue
    <3>4. \A j \in DOMAIN w.members : \E i \in DOMAIN v.members :
            /\ v.members[i][1] = w.members[j][1]
            /\ semantic_identity(w.members[j][2], v.members[i][2])
      BY <2>1, <3>1, <3>2, <3>3
    <3>5. QED
      BY <2>2, <2>4, <3>1, <3>4, IdentityCases
  <2>5. CASE v.tag \notin {"array", "object"}
    BY <2>2, <2>5, IdentityCases
  <2>6. QED
    BY <2>3, <2>4, <2>5
<1>2. Value \subseteq Q
  <2> HIDE DEF Q
  <2>1. QED
    BY <1>1, ValueInduction
<1>3. QED
  BY <1>2

LEMMA IdentityTransitive ==
  ASSUME NEW a \in Value, NEW b \in Value, NEW c \in Value,
         semantic_identity(a, b), semantic_identity(b, c)
  PROVE  semantic_identity(a, c)
<1> DEFINE linked(v, w, x) == semantic_identity(v, w) /\ semantic_identity(w, x)
           Q == {v \in Value : \A w, x \in Value : linked(v, w, x) => semantic_identity(v, x)}
<1>1. ASSUME NEW v \in Value, Parts(v) \subseteq Q PROVE v \in Q
  <2> SUFFICES ASSUME NEW w \in Value, NEW x \in Value,
                      semantic_identity(v, w), semantic_identity(w, x)
               PROVE  semantic_identity(v, x)
    OBVIOUS
  <2>1. \A p \in Parts(v), q, r \in Value :
          semantic_identity(p, q) /\ semantic_identity(q, r) => semantic_identity(p, r)
    BY <1>1
  <2> HIDE DEF Q
  <2>2. v.tag = w.tag /\ w.tag = x.tag
    BY IdentityCases
  <2>3. CASE v.tag = "array"
    <3>1. /\ Len(v.items) = Len(w.items) /\ Len(w.items) = Len(x.items)
          /\ \A i \in DOMAIN v.items : semantic_identity(v.items[i], w.items[i])
          /\ \A i \in DOMAIN w.items : semantic_identity(w.items[i], x.items[i])
      BY <2>2, <2>3, IdentityCases
    <3>2. /\ DOMAIN v.items = DOMAIN w.items /\ DOMAIN w.items = DOMAIN x.items
          /\ \A i \in DOMAIN v.items : v.items[i] \in Parts(v)
          /\ \A i \in DOMAIN w.items : w.items[i] \in Value
          /\ \A i \in DOMAIN x.items : x.items[i] \in Value
      BY <2>2, <2>3, <3>1, ItemsOfValue
    <3>3. \A i \in DOMAIN v.items : semantic_identity(v.items[i], x.items[i])
      BY <2>1, <3>1, <3>2
    <3>4. QED
      BY <2>2, <2>3, <3>1, <3>3, IdentityCases
  <2>4. CASE v.tag = "object"
    <3>1. /\ unique_object(v.members) /\ Len(v.members) = Len(w.members)
          /\ \A i \in DOMAIN v.members, j \in DOMAIN w.members :
               v.members[i][1] = w.members[j][1] =>
                 semantic_identity(v.members[i][2], w.members[j][2])
          /\ \A i \in DOMAIN v.members : \E j \in DOMAIN w.members :
               v.members[i][1] = w.members[j][1]
      BY <2>4, ObjectIdentity
    <3>2. /\ unique_object(x.members) /\ Len(w.members) = Len(x.members)
          /\ \A i \in DOMAIN w.members, j \in DOMAIN x.members :
               w.members[i][1] = x.members[j][1] =>
                 semantic_identity(w.members[i][2], x.members[j][2])
          /\ \A i \in DOMAIN w.members : \E j \in DOMAIN x.members :
               w.members[i][1] = x.members[j][1]
      BY <2>2, <2>4, ObjectIdentity
    <3>3. /\ \A i \in DOMAIN v.members : v.members[i][2] \in Parts(v)
          /\ \A i \in DOMAIN w.members : w.members[i][2] \in Value
          /\ \A i \in DOMAIN x.members : x.members[i][2] \in Value
      BY <2>2, <2>4, MembersOfValue
    <3>4. \A i \in DOMAIN v.members : \E j \in DOMAIN x.members :
            /\ x.members[j][1] = v.members[i][1]
            /\ semantic_identity(v.members[i][2], x.members[j][2])
      <4> SUFFICES ASSUME NEW i \in DOMAIN v.members
                   PROVE  \E j \in DOMAIN x.members :
                            /\ x.members[j][1] = v.members[i][1]
                            /\ semantic_identity(v.members[i][2], x.members[j][2])
        OBVIOUS
      <4>1. PICK k \in DOMAIN w.members : v.members[i][1] = w.members[k][1]
        BY <3>1
      <4>2. PICK j \in DOMAIN x.members : w.members[k][1] = x.members[j][1]
        BY <3>2
      <4>3. /\ semantic_identity(v.members[i][2], w.members[k][2])
            /\ semantic_identity(w.members[k][2], x.members[j][2])
        BY <3>1, <3>2, <4>1, <4>2
      <4>4. QED
        BY <2>1, <3>3, <4>1, <4>2, <4>3
    <3>5. QED
      BY <2>2, <2>4, <3>1, <3>2, <3>4, IdentityCases
  <2>5. CASE v.tag \notin {"array", "object"}
    BY <2>2, <2>5, IdentityCases
  <2>6. QED
    BY <2>3, <2>4, <2>5
<1>2. Value \subseteq Q
  <2> HIDE DEF Q
  <2>1. QED
    BY <1>1, ValueInduction
<1>3. QED
  BY <1>2

LEMMA IdenticalAreSame ==
  ASSUME NEW a \in Value, NEW b \in Value, semantic_identity(a, b)
  PROVE  SameValue(a, b)
<1> DEFINE Q == {v \in Value : \A w \in Value : semantic_identity(v, w) => SameValue(v, w)}
<1>1. ASSUME NEW v \in Value, Parts(v) \subseteq Q PROVE v \in Q
  <2> SUFFICES ASSUME NEW w \in Value, semantic_identity(v, w) PROVE SameValue(v, w)
    OBVIOUS
  <2>1. \A p \in Parts(v), q \in Value : semantic_identity(p, q) => SameValue(p, q)
    BY <1>1
  <2> HIDE DEF Q
  <2>2. v.tag = w.tag
    BY IdentityCases
  <2>3. CASE v.tag = "array"
    <3>1. Len(v.items) = Len(w.items)
          /\ \A i \in DOMAIN v.items : semantic_identity(v.items[i], w.items[i])
      BY <2>3, IdentityCases
    <3>2. \A i \in DOMAIN v.items : SameValue(v.items[i], w.items[i])
      BY <2>1, <2>2, <2>3, <3>1, ItemsOfValue
    <3>3. QED
      BY <2>2, <2>3, <3>1, <3>2, SameCases
  <2>4. CASE v.tag = "object"
    <3>1. /\ keys(v.members) = keys(w.members)
          /\ \A i \in DOMAIN v.members, j \in DOMAIN w.members :
               v.members[i][1] = w.members[j][1] =>
                 semantic_identity(v.members[i][2], w.members[j][2])
      BY <2>4, ObjectIdentity
    <3>2. /\ \A i \in DOMAIN v.members : v.members[i][2] \in Parts(v)
          /\ \A j \in DOMAIN w.members : w.members[j][2] \in Value
      BY <2>2, <2>4, MembersOfValue
    <3>3. \A i \in DOMAIN v.members, j \in DOMAIN w.members :
            v.members[i][1] = w.members[j][1] => SameValue(v.members[i][2], w.members[j][2])
      BY <2>1, <3>1, <3>2
    <3>4. QED
      BY <2>2, <2>4, <3>1, <3>3, SameCases
  <2>5. CASE v.tag \notin {"array", "object"}
    BY <2>2, <2>5, IdentityCases, SameCases
  <2>6. QED
    BY <2>3, <2>4, <2>5
<1>2. Value \subseteq Q
  <2> HIDE DEF Q
  <2>1. QED
    BY <1>1, ValueInduction
<1>3. QED
  BY <1>2

-----------------------------------------------------------------------------
\* Through canonical bytes and back.

LEMMA JcsPrints ==
  ASSUME NEW V \in SUBSET Value, NEW T, NEW v \in Value, Parts(v) \subseteq V,
         \A w \in V : jcs(w) \in T
  PROVE  jcs(v) \in Printed(T)
<1>1. CASE v.tag = "array"
  <2> DEFINE f == [i \in DOMAIN v.items |-> jcs(v.items[i])]
  <2>1. jcs(v) = [array |-> f]
    BY <1>1, JcsCases
  <2>2. Len(v.items) \in Nat /\ f \in [1 .. Len(v.items) -> T]
    BY <1>1, ItemsOfValue
  <2> HIDE DEF f
  <2>3. f \in Seq(T)
    BY <2>2
  <2>4. QED
    BY <2>1, <2>3 DEF Printed
<1>2. CASE v.tag = "object"
  <2> DEFINE m(i) == <<v.members[i][1], jcs(v.members[i][2])>>
             s == {m(i) : i \in DOMAIN v.members}
  <2>1. jcs(v) = [object |-> s]
    BY <1>2, JcsCases
  <2>2. \A i \in DOMAIN v.members : m(i) \in STRING \X T
    BY <1>2, MembersOfValue
  <2>3. s \subseteq STRING \X T
    BY <2>2
  <2>4. IsFiniteSet(s)
    <3> DEFINE f == [i \in DOMAIN v.members |-> m(i)]
    <3> HIDE DEF m
    <3>1. f \in [DOMAIN v.members -> s] /\ \A e \in s : \E i \in DOMAIN v.members : f[i] = e
      OBVIOUS
    <3> HIDE DEF f, s
    <3>2. f \in Surjection(DOMAIN v.members, s)
      BY <3>1 DEF Surjection
    <3>3. IsFiniteSet(DOMAIN v.members)
      <4>1. Len(v.members) \in Nat /\ DOMAIN v.members = 1 .. Len(v.members)
        BY <1>2, MembersOfValue
      <4>2. IsFiniteSet(1 .. Len(v.members))
        BY <4>1, FS_Interval
      <4>3. QED
        BY <4>1, <4>2
    <3>4. QED
      BY <3>2, <3>3, FS_Surjection
  <2> HIDE DEF s
  <2>5. [object |-> s] \in [object : {n \in SUBSET (STRING \X T) : IsFiniteSet(n)}]
    BY <2>3, <2>4
  <2>6. QED
    BY <2>1, <2>5 DEF Printed
<1>3. CASE v.tag \notin {"array", "object"}
  <2>1. jcs(v) \in Plain
    BY <1>3, JcsCases, ScalarCases DEF Plain
  <2>2. QED
    BY <2>1 DEF Printed
<1>4. QED
  BY <1>1, <1>2, <1>3

LEMMA JcsIsCanonical == \A v \in Value : jcs(v) \in Canonical
<1> DEFINE S == {n \in 0 .. MaxDepth : \A v \in nested(n) : jcs(v) \in texts(n)}
<1>1. \A n \in 0 .. MaxDepth : nested(n) \subseteq Value
  BY NestedWithin
<1>2. 0 \in S
  <2>1. 0 \in 0 .. MaxDepth
    BY BoundsAreNat
  <2>2. ASSUME NEW v \in nested(0) PROVE jcs(v) \in texts(0)
    <3>1. v \in Value /\ v \in Scalars
      BY <1>1, <2>1, NestedUnfolds
    <3>2. v.tag \notin {"array", "object"}
      BY <3>1 DEF Scalars, Literal, Float, null
    <3>3. jcs(v) \in Plain
      BY <3>1, <3>2, JcsCases, ScalarCases DEF Plain
    <3>4. QED
      BY <3>3, TextsUnfold
  <2>3. QED
    BY <2>1, <2>2
<1>3. ASSUME NEW n \in 0 .. MaxDepth - 1, n \in S PROVE n + 1 \in S
  <2>1. n \in Nat /\ n \in 0 .. MaxDepth /\ n + 1 \in 0 .. MaxDepth
    BY BoundsAreNat
  <2>2. ASSUME NEW v \in nested(n + 1) PROVE jcs(v) \in texts(n + 1)
    <3>1. v \in Value /\ Parts(v) \subseteq nested(n) /\ nested(n) \subseteq Value
      BY <1>1, <2>1, PartsBelow
    <3>2. \A w \in nested(n) : jcs(w) \in texts(n)
      BY <1>3
    <3>3. jcs(v) \in Printed(texts(n))
      BY <3>1, <3>2, JcsPrints
    <3>4. QED
      BY <2>1, <3>3, TextsUnfold
  <2>3. QED
    BY <2>1, <2>2
<1> HIDE DEF S
<1>4. 0 .. MaxDepth \subseteq S
  BY <1>2, <1>3, BoundsAreNat, IntervalUp
<1>5. MaxDepth \in S
  BY <1>4, BoundsAreNat
<1>6. QED
  BY <1>5 DEF S, Value, Canonical

LEMMA NumberValue ==
  ASSUME NEW half \in Int
  PROVE  /\ number_value(half) \in Scalars
         /\ half % 2 = 0 => number_value(half) = integer(half \div 2)
         /\ half % 2 # 0 => number_value(half) = float(half)
BY DEF number_value, Scalars, Float, integer, float

LEMMA DecodeReads ==
  ASSUME NEW T \in SUBSET Canonical, NEW V, NEW t \in Canonical, TextParts(t) \subseteq T,
         \A w \in T : decode(w) \in V
  PROVE  decode(t) \in Nest(V)
<1>1. TextShape(t, Canonical)
  BY CanonicalShape
<1>2. CASE DOMAIN t = {"array"}
  <2> DEFINE f == [i \in DOMAIN t.array |-> decode(t.array[i])]
  <2>1. decode(t) = array(f)
    BY <1>2, DecodeCases
  <2>2. t.array \in Seq(Canonical)
    BY <1>1, <1>2 DEF TextShape, Plain
  <2>3. TextParts(t) = {t.array[i] : i \in DOMAIN t.array}
    BY <1>2 DEF TextParts
  <2>4. \A i \in DOMAIN t.array : decode(t.array[i]) \in V
    BY <2>3
  <2>5. Len(t.array) \in Nat /\ DOMAIN t.array = 1 .. Len(t.array)
    BY <2>2
  <2>6. f \in [1 .. Len(t.array) -> V]
    BY <2>4, <2>5
  <2> HIDE DEF f
  <2>7. f \in Seq(V)
    BY <2>5, <2>6
  <2>8. QED
    BY <2>1, <2>7 DEF Nest, array
<1>3. CASE DOMAIN t = {"object"}
  <2> DEFINE listed == SetToSeq(t.object)
             f == [i \in DOMAIN listed |-> <<listed[i][1], decode(listed[i][2])>>]
  <2>1. decode(t) = object(f)
    BY <1>3, DecodeCases
  <2>2. t.object \subseteq STRING \X Canonical /\ IsFiniteSet(t.object)
    BY <1>1, <1>3 DEF TextShape, Plain
  <2>3. TextParts(t) = {m[2] : m \in t.object}
    BY <1>3 DEF TextParts
  <2>4. Len(listed) \in Nat /\ DOMAIN listed = 1 .. Len(listed)
        /\ \A i \in DOMAIN listed : listed[i] \in t.object
    BY <2>2, Listed
  <2> HIDE DEF listed
  <2>5. \A i \in DOMAIN listed : listed[i][1] \in STRING /\ decode(listed[i][2]) \in V
    BY <2>2, <2>3, <2>4
  <2>6. f \in [1 .. Len(listed) -> STRING \X V]
    BY <2>4, <2>5
  <2> HIDE DEF f
  <2>7. f \in Seq(STRING \X V)
    BY <2>4, <2>6
  <2>8. QED
    BY <2>1, <2>7 DEF Nest, object
<1>4. CASE DOMAIN t \in {{"number"}, {"literal"}}
  <2>1. t \in Plain
    BY <1>1, <1>4 DEF TextShape
  <2>2. decode(t) \in Scalars
    <3>1. CASE DOMAIN t = {"number"}
      <4>1. t.number \in Int
        BY <2>1, <3>1 DEF Plain
      <4>2. QED
        BY <3>1, <4>1, DecodeCases, NumberValue
    <3>2. CASE DOMAIN t = {"literal"}
      <4>1. t.literal \in Literal
        BY <2>1, <3>2 DEF Plain
      <4>2. QED
        BY <3>2, <4>1, DecodeCases DEF Scalars
    <3>3. QED
      BY <1>4, <3>1, <3>2
  <2>3. QED
    BY <2>2 DEF Nest
<1>5. QED
  BY <1>1, <1>2, <1>3, <1>4 DEF TextShape

LEMMA DecodeIsValue == \A t \in Canonical : decode(t) \in Value
<1> DEFINE S == {n \in 0 .. MaxDepth : \A t \in texts(n) : decode(t) \in nested(n)}
<1>1. \A n \in 0 .. MaxDepth : texts(n) \subseteq Canonical
  BY TextsWithin
<1>2. 0 \in S
  <2>1. 0 \in 0 .. MaxDepth
    BY BoundsAreNat
  <2>2. ASSUME NEW t \in texts(0) PROVE decode(t) \in nested(0)
    <3>1. t \in Canonical /\ t \in Plain
      BY <1>1, <2>1, TextsUnfold
    <3>2. CASE DOMAIN t = {"number"}
      <4>1. t.number \in Int
        BY <3>1, <3>2 DEF Plain
      <4>2. QED
        BY <3>1, <3>2, <4>1, DecodeCases, NumberValue, NestedUnfolds
    <3>3. CASE DOMAIN t = {"literal"}
      <4>1. t.literal \in Literal
        BY <3>1, <3>3 DEF Plain
      <4>2. QED
        BY <3>1, <3>3, <4>1, DecodeCases, NestedUnfolds DEF Scalars
    <3>4. QED
      BY <3>1, <3>2, <3>3 DEF Plain
  <2>3. QED
    BY <2>1, <2>2
<1>3. ASSUME NEW n \in 0 .. MaxDepth - 1, n \in S PROVE n + 1 \in S
  <2>1. n \in Nat /\ n \in 0 .. MaxDepth /\ n + 1 \in 0 .. MaxDepth
    BY BoundsAreNat
  <2>2. ASSUME NEW t \in texts(n + 1) PROVE decode(t) \in nested(n + 1)
    <3>1. t \in Canonical /\ TextParts(t) \subseteq texts(n) /\ texts(n) \subseteq Canonical
      BY <1>1, <2>1, TextPartsBelow
    <3>2. \A w \in texts(n) : decode(w) \in nested(n)
      BY <1>3
    <3>3. decode(t) \in Nest(nested(n))
      BY <3>1, <3>2, DecodeReads
    <3>4. QED
      BY <2>1, <3>3, NestedUnfolds
  <2>3. QED
    BY <2>1, <2>2
<1> HIDE DEF S
<1>4. 0 .. MaxDepth \subseteq S
  BY <1>2, <1>3, BoundsAreNat, IntervalUp
<1>5. MaxDepth \in S
  BY <1>4, BoundsAreNat
<1>6. QED
  BY <1>5 DEF S, Value, Canonical

\* an encodable value without an integral float comes back from its canonical
\* bytes as a value identical to it
LEMMA RoundTrip ==
  ASSUME NEW v \in Value, encodable(v), ~ HasIntegralFloat(v)
  PROVE  encodable(decode(jcs(v))) /\ semantic_identity(v, decode(jcs(v)))
<1> DEFINE returns(w) == encodable(decode(jcs(w))) /\ semantic_identity(w, decode(jcs(w)))
           Q == {w \in Value : encodable(w) /\ ~ HasIntegralFloat(w) => returns(w)}
<1>1. ASSUME NEW w \in Value, Parts(w) \subseteq Q PROVE w \in Q
  <2> SUFFICES ASSUME encodable(w), ~ HasIntegralFloat(w) PROVE returns(w)
    OBVIOUS
  <2>1. \A p \in Parts(w) : encodable(p) /\ ~ HasIntegralFloat(p) =>
          encodable(decode(jcs(p))) /\ semantic_identity(p, decode(jcs(p)))
    BY <1>1
  <2> DEFINE t == jcs(w)
             u == decode(t)
  <2>2. t \in Canonical /\ u \in Value
    BY JcsIsCanonical, DecodeIsValue
  <2>3. SUFFICES encodable(u) /\ semantic_identity(w, u)
    OBVIOUS
  <2> HIDE DEF Q, u, returns
  <2>4. CASE w.tag = "array"
    <3> DEFINE f == [i \in DOMAIN w.items |-> jcs(w.items[i])]
               g == [i \in DOMAIN w.items |-> decode(jcs(w.items[i]))]
    <3>1. t = [array |-> f]
      BY <2>4, JcsCases
    <3>2. DOMAIN f = DOMAIN w.items /\ \A i \in DOMAIN w.items : f[i] = jcs(w.items[i])
      OBVIOUS
    <3> HIDE DEF f, t
    <3>3. DOMAIN t = {"array"} /\ t.array = f
      BY <3>1
    <3>4. u = array([i \in DOMAIN f |-> decode(f[i])])
      BY <2>2, <3>3, DecodeCases DEF u
    <3>5. [i \in DOMAIN f |-> decode(f[i])] = g
      BY <3>2
    <3>6. u.tag = "array" /\ u.items = g
      BY <3>4, <3>5 DEF array
    <3>7. DOMAIN g = DOMAIN w.items /\ \A i \in DOMAIN w.items : g[i] = decode(jcs(w.items[i]))
      OBVIOUS
    <3> HIDE DEF g
    <3>8. \A i \in DOMAIN w.items : encodable(w.items[i]) /\ ~ HasIntegralFloat(w.items[i])
                                    /\ w.items[i] \in Parts(w)
      BY <2>4, EncodableCases, IntegralCases, ItemsOfValue
    <3>9. \A i \in DOMAIN w.items : encodable(g[i]) /\ semantic_identity(w.items[i], g[i])
      BY <2>1, <3>7, <3>8
    <3>10. encodable(u)
      BY <2>2, <3>6, <3>7, <3>9, EncodableCases
    <3>11. Len(w.items) = Len(u.items)
      BY <2>2, <2>4, <3>6, <3>7, ItemsOfValue
    <3>12. QED
      BY <2>2, <2>4, <3>6, <3>9, <3>10, <3>11, IdentityCases
  <2>5. CASE w.tag = "object"
    <3> DEFINE m(i) == <<w.members[i][1], jcs(w.members[i][2])>>
               s == {m(i) : i \in DOMAIN w.members}
               listed == SetToSeq(s)
               g == [i \in DOMAIN listed |-> <<listed[i][1], decode(listed[i][2])>>]
    <3>1. t = [object |-> s]
      BY <2>5, JcsCases
    <3>2. \A e \in s : \E i \in DOMAIN w.members : e = m(i)
      OBVIOUS
    <3>3. \A i \in DOMAIN w.members : m(i) \in s
      OBVIOUS
    <3>4. \A i \in DOMAIN w.members : m(i)[1] = w.members[i][1] /\ m(i)[2] = jcs(w.members[i][2])
      OBVIOUS
    <3> HIDE DEF m, s, t
    <3>5. DOMAIN t = {"object"} /\ t.object = s
      BY <3>1
    <3>6. IsFiniteSet(s)
      BY <2>2, <3>5, CanonicalShape DEF TextShape, Plain
    <3>7. u = object(g)
      BY <2>2, <3>5, DecodeCases DEF u
    <3>8. u.tag = "object" /\ u.members = g
      BY <3>7 DEF object
    <3>9. /\ DOMAIN g = DOMAIN listed
          /\ \A j \in DOMAIN g : g[j][1] = listed[j][1] /\ g[j][2] = decode(listed[j][2])
      OBVIOUS
    <3>10. /\ \A j \in DOMAIN listed : listed[j] \in s
           /\ \A i, j \in DOMAIN listed : listed[i] = listed[j] => i = j
           /\ \A e \in s : \E j \in DOMAIN listed : listed[j] = e
      BY <3>6, Listed
    <3> HIDE DEF listed, g
    <3>11. /\ unique_object(w.members)
           /\ \A i \in DOMAIN w.members :
                encodable(w.members[i][2]) /\ ~ HasIntegralFloat(w.members[i][2])
                /\ w.members[i][2] \in Parts(w)
      BY <2>5, EncodableCases, IntegralCases, MembersOfValue
    <3>12. \A j \in DOMAIN g : \E i \in DOMAIN w.members :
             listed[j] = m(i) /\ g[j][1] = w.members[i][1] /\ g[j][2] = decode(jcs(w.members[i][2]))
      BY <3>2, <3>4, <3>9, <3>10
    <3>13. \A i \in DOMAIN w.members : \E j \in DOMAIN g :
             g[j][1] = w.members[i][1] /\ g[j][2] = decode(jcs(w.members[i][2]))
      BY <3>3, <3>4, <3>9, <3>10
    <3>14. \A i \in DOMAIN w.members : encodable(decode(jcs(w.members[i][2])))
              /\ semantic_identity(w.members[i][2], decode(jcs(w.members[i][2])))
      BY <2>1, <3>11
    <3>15. unique_object(g)
      <4> SUFFICES ASSUME NEW j \in DOMAIN g, NEW k \in DOMAIN g, g[j][1] = g[k][1] PROVE j = k
        BY DEF unique_object
      <4>1. PICK i \in DOMAIN w.members : listed[j] = m(i) /\ g[j][1] = w.members[i][1]
        BY <3>12
      <4>2. PICK l \in DOMAIN w.members : listed[k] = m(l) /\ g[k][1] = w.members[l][1]
        BY <3>12
      <4>3. i = l
        BY <3>11, <4>1, <4>2 DEF unique_object
      <4>4. QED
        BY <3>9, <3>10, <4>1, <4>2, <4>3
    <3>16. \A j \in DOMAIN g : encodable(g[j][2])
      BY <3>12, <3>14
    <3>17. encodable(u)
      BY <2>2, <3>8, <3>15, <3>16, EncodableCases
    <3>18. keys(w.members) = keys(g)
      BY <3>12, <3>13 DEF keys
    <3>19. Len(w.members) = Len(u.members)
      BY <2>2, <2>5, <3>8, <3>11, <3>15, <3>18, UniqueObjects
    <3>20. \A i \in DOMAIN w.members : \E j \in DOMAIN u.members :
             /\ u.members[j][1] = w.members[i][1]
             /\ semantic_identity(w.members[i][2], u.members[j][2])
      BY <3>8, <3>13, <3>14
    <3>21. QED
      BY <2>2, <2>5, <3>8, <3>11, <3>15, <3>17, <3>19, <3>20, IdentityCases
  <2>6. CASE w.tag = "integer"
    <3>1. w.n \in Int /\ w = integer(w.n) /\ t = [number |-> 2 * w.n]
      BY <2>6, ScalarCases, JcsCases
    <3> HIDE DEF t
    <3>2. DOMAIN t = {"number"} /\ t.number = 2 * w.n
      BY <3>1
    <3>3. u = number_value(2 * w.n)
      BY <2>2, <3>2, DecodeCases DEF u
    <3>4. 2 * w.n \in Int /\ (2 * w.n) % 2 = 0 /\ (2 * w.n) \div 2 = w.n
      BY <3>1
    <3>5. number_value(2 * w.n) = integer((2 * w.n) \div 2)
      BY <3>4, NumberValue
    <3>6. u = w
      BY <3>1, <3>3, <3>4, <3>5
    <3>7. QED
      BY <2>6, <3>6, IdentityCases
  <2>7. CASE w.tag = "float"
    <3>1. w.half \in Int /\ w.half % 2 # 0 /\ t = [number |-> w.half]
      BY <2>7, ScalarCases, JcsCases, IntegralCases
    <3> HIDE DEF t
    <3>2. DOMAIN t = {"number"} /\ t.number = w.half
      BY <3>1
    <3>3. u = float(w.half)
      BY <2>2, <3>1, <3>2, DecodeCases, NumberValue DEF u
    <3>4. u.tag = "float" /\ u.half = w.half
      BY <3>3 DEF float
    <3>5. encodable(u)
      BY <2>2, <2>7, <3>4, EncodableCases
    <3>6. QED
      BY <2>2, <2>7, <3>4, <3>5, IdentityCases
  <2>8. CASE w.tag \in {"null", "boolean", "string"}
    <3>1. t = [literal |-> w]
      BY <2>8, JcsCases
    <3> HIDE DEF t
    <3>2. DOMAIN t = {"literal"} /\ t.literal = w
      BY <3>1
    <3>3. u = w
      BY <2>2, <3>2, DecodeCases DEF u
    <3>4. QED
      BY <2>8, <3>3, IdentityCases
  <2>9. QED
    BY <2>4, <2>5, <2>6, <2>7, <2>8, ScalarCases
<1>2. Value \subseteq Q
  <2> HIDE DEF Q
  <2>1. QED
    BY <1>1, ValueInduction
<1>3. QED
  BY <1>2

-----------------------------------------------------------------------------
\* Selectors do not tell identical arguments apart.

LEMMA IdentityReflexive ==
  ASSUME NEW v \in Value, encodable(v)
  PROVE  semantic_identity(v, v)
<1> DEFINE Q == {w \in Value : encodable(w) => semantic_identity(w, w)}
<1>1. ASSUME NEW w \in Value, Parts(w) \subseteq Q PROVE w \in Q
  <2> SUFFICES ASSUME encodable(w) PROVE semantic_identity(w, w)
    OBVIOUS
  <2>1. \A p \in Parts(w) : encodable(p) => semantic_identity(p, p)
    BY <1>1
  <2> HIDE DEF Q
  <2>2. CASE w.tag = "array"
    <3>1. \A i \in DOMAIN w.items : semantic_identity(w.items[i], w.items[i])
      BY <2>1, <2>2, EncodableCases, ItemsOfValue
    <3>2. QED
      BY <2>2, <3>1, IdentityCases
  <2>3. CASE w.tag = "object"
    <3>1. unique_object(w.members)
          /\ \A i \in DOMAIN w.members : semantic_identity(w.members[i][2], w.members[i][2])
      BY <2>1, <2>3, EncodableCases, MembersOfValue
    <3>2. QED
      BY <2>3, <3>1, IdentityCases
  <2>4. CASE w.tag \notin {"array", "object"}
    BY <2>4, IdentityCases
  <2>5. QED
    BY <2>2, <2>3, <2>4
<1>2. Value \subseteq Q
  <2> HIDE DEF Q
  <2>1. QED
    BY <1>1, ValueInduction
<1>3. QED
  BY <1>2

\* every value of A is identical to one of B
Matched(A, B) ==
  A \subseteq Value /\ B \subseteq Value /\ \A x \in A : \E y \in B : semantic_identity(x, y)

LEMMA MembersMatched ==
  ASSUME NEW a \in Value, NEW b \in Value, semantic_identity(a, b), NEW name
  PROVE  Matched(member_named(a, name), member_named(b, name))
<1>1. a.tag = b.tag
  BY IdentityCases
<1>2. CASE a.tag # "object"
  BY <1>1, <1>2 DEF member_named, Matched
<1>3. CASE a.tag = "object"
  <2> DEFINE A == first_named(a.members, name)
             B == first_named(b.members, name)
  <2>1. /\ \A i, j \in DOMAIN b.members : b.members[i][1] = b.members[j][1] => i = j
        /\ \A i \in DOMAIN a.members, j \in DOMAIN b.members :
             a.members[i][1] = b.members[j][1] =>
               semantic_identity(a.members[i][2], b.members[j][2])
        /\ \A i \in DOMAIN a.members : \E j \in DOMAIN b.members :
             a.members[i][1] = b.members[j][1]
    BY <1>3, ObjectIdentity DEF unique_object
  <2>2. /\ Len(b.members) \in Nat /\ DOMAIN b.members = 1 .. Len(b.members)
        /\ \A i \in DOMAIN a.members : a.members[i][2] \in Value
        /\ \A j \in DOMAIN b.members : b.members[j][2] \in Value
    BY <1>1, <1>3, MembersOfValue
  <2>3. A \subseteq DOMAIN a.members /\ B \subseteq DOMAIN b.members
        /\ \A i \in A : a.members[i][1] = name
    BY DEF first_named
  <2>4. \A j \in DOMAIN b.members : b.members[j][1] = name => j \in B
    <3> SUFFICES ASSUME NEW j \in DOMAIN b.members, b.members[j][1] = name,
                        NEW k \in 1 .. j - 1
                 PROVE  b.members[k][1] # name
      BY DEF first_named
    <3>1. k \in DOMAIN b.members /\ k # j
      BY <2>2
    <3>2. QED
      BY <2>1, <3>1
  <2>5. member_named(a, name) = {a.members[i][2] : i \in A}
        /\ member_named(b, name) = {b.members[j][2] : j \in B}
    BY <1>1, <1>3 DEF member_named
  <2> HIDE DEF A, B
  <2>6. \A i \in A : \E j \in B : semantic_identity(a.members[i][2], b.members[j][2])
    BY <2>1, <2>3, <2>4
  <2>7. QED
    BY <2>2, <2>3, <2>5, <2>6 DEF Matched
<1>4. QED
  BY <1>2, <1>3

\* the values a walk along a path stands at
Walk(v, path, f) ==
  f = [i \in 0 .. Len(path) |->
        IF i = 0 THEN {v} ELSE UNION {member_named(w, path[i]) : w \in f[i - 1]}]

LEMMA WalkExists == ASSUME NEW v, NEW path \in Seq(STRING) PROVE \E f : Walk(v, path, f)
<1> DEFINE step(i, A) == UNION {member_named(w, path[i]) : w \in A}
           upto(k, f) == f = [i \in 0 .. k |-> IF i = 0 THEN {v} ELSE step(i, f[i - 1])]
           S == {k \in 0 .. Len(path) : \E f : upto(k, f)}
<1>1. Len(path) \in Nat
  OBVIOUS
<1>2. 0 \in S
  <2> HIDE DEF step
  <2>1. upto(0, [i \in 0 .. 0 |-> {v}])
    OBVIOUS
  <2>2. 0 \in 0 .. Len(path)
    BY <1>1
  <2> HIDE DEF upto
  <2>3. QED
    BY <2>1, <2>2
<1>3. ASSUME NEW k \in 0 .. Len(path) - 1, k \in S PROVE k + 1 \in S
  <2>1. PICK f : upto(k, f)
    BY <1>3, Zenon
  <2> HIDE DEF step
  <2> DEFINE g == [i \in 0 .. k + 1 |-> IF i = 0 THEN {v} ELSE step(i, f[i - 1])]
  <2>2. \A i \in 0 .. k : g[i] = f[i]
    <3>1. \A i \in 0 .. k : f[i] = IF i = 0 THEN {v} ELSE step(i, f[i - 1])
      BY <2>1, Zenon
    <3>2. \A i \in 0 .. k : i \in 0 .. k + 1
      BY <1>1
    <3>3. QED
      BY <3>1, <3>2, Zenon
  <2>3. \A i \in 0 .. k + 1 : i # 0 => g[i] = step(i, g[i - 1])
    <3> SUFFICES ASSUME NEW i \in 0 .. k + 1, i # 0 PROVE g[i] = step(i, g[i - 1])
      OBVIOUS
    <3>1. i - 1 \in 0 .. k
      BY <1>1
    <3>2. g[i] = step(i, f[i - 1])
      BY Zenon
    <3>3. QED
      BY <2>2, <3>1, <3>2, Zenon
  <2>4. g[0] = {v}
    BY <1>1
  <2>5. g = [i \in 0 .. k + 1 |-> g[i]]
    OBVIOUS
  <2> HIDE DEF g
  <2>6. \A i \in 0 .. k + 1 : g[i] = IF i = 0 THEN {v} ELSE step(i, g[i - 1])
    BY <2>3, <2>4
  <2>7. upto(k + 1, g)
    BY <2>5, <2>6, Zenon
  <2>8. k + 1 \in 0 .. Len(path)
    BY <1>1
  <2> HIDE DEF upto
  <2>9. QED
    BY <2>7, <2>8
<1> HIDE DEF S
<1>4. 0 .. Len(path) \subseteq S
  <2>1. 0 \in Int /\ Len(path) \in Int /\ \A i \in 0 .. Len(path) - 1 : i \in S => i + 1 \in S
    BY <1>1, <1>3
  <2>2. QED
    BY <1>2, <2>1, IntervalUp, Zenon
<1>5. Len(path) \in S
  BY <1>1, <1>4
<1>6. PICK f : upto(Len(path), f)
  BY <1>5, Zenon DEF S
<1>7. Walk(v, path, f)
  BY <1>6, Zenon DEF Walk
<1>8. QED
  BY <1>7, Zenon

LEMMA WalkCalled ==
  ASSUME NEW v, NEW path \in Seq(STRING)
  PROVE  \E f : Walk(v, path, f) /\ traverse(v, path) = f[Len(path)]
<1> DEFINE f == CHOOSE g : Walk(v, path, g)
<1>1. Walk(v, path, f)
  BY WalkExists, Zenon
<1>2. traverse(v, path) = f[Len(path)]
  BY Zenon DEF traverse, Walk
<1> HIDE DEF f
<1>3. QED
  BY <1>1, <1>2, Zenon

LEMMA TraverseMatched ==
  ASSUME NEW a \in Value, NEW b \in Value, semantic_identity(a, b), NEW path \in Seq(STRING)
  PROVE  Matched(traverse(a, path), traverse(b, path))
<1>1. PICK f : Walk(a, path, f) /\ traverse(a, path) = f[Len(path)]
  BY WalkCalled
<1>2. PICK g : Walk(b, path, g) /\ traverse(b, path) = g[Len(path)]
  BY WalkCalled
<1> DEFINE S == {i \in 0 .. Len(path) : Matched(f[i], g[i])}
<1>3. Len(path) \in Nat
  OBVIOUS
<1>4. 0 \in S
  <2>1. f[0] = {a} /\ g[0] = {b}
    BY <1>1, <1>2, <1>3 DEF Walk
  <2>2. QED
    BY <1>3, <2>1 DEF Matched
<1>5. ASSUME NEW i \in 0 .. Len(path) - 1, i \in S PROVE i + 1 \in S
  <2> DEFINE k == i + 1
  <2>1. k \in 0 .. Len(path) /\ k # 0 /\ k - 1 = i
    BY <1>3
  <2> HIDE DEF k
  <2>2. f[k] = UNION {member_named(w, path[k]) : w \in f[i]}
    BY <1>1, <2>1 DEF Walk
  <2>3. g[k] = UNION {member_named(w, path[k]) : w \in g[i]}
    BY <1>2, <2>1 DEF Walk
  <2>4. Matched(f[i], g[i])
    BY <1>5
  <2> DEFINE next(A) == {member_named(w, path[k]) : w \in A}
  <2>5. f[k] = UNION next(f[i]) /\ g[k] = UNION next(g[i])
    BY <2>2, <2>3
  <2>6. ASSUME NEW w \in f[i]
        PROVE  \E y \in g[i] : Matched(member_named(w, path[k]), member_named(y, path[k]))
    <3>1. PICK y \in g[i] : semantic_identity(w, y)
      BY <2>4 DEF Matched
    <3>2. w \in Value /\ y \in Value
      BY <2>4 DEF Matched
    <3>3. QED
      BY <3>1, <3>2, MembersMatched
  <2>7. \A y \in Value : member_named(y, path[k]) \subseteq Value
    <3> SUFFICES ASSUME NEW y \in Value PROVE member_named(y, path[k]) \subseteq Value
      OBVIOUS
    <3>1. CASE y.tag = "object"
      <4>1. \A j \in DOMAIN y.members : y.members[j][2] \in Value
        BY <3>1, MembersOfValue
      <4>2. QED
        BY <3>1, <4>1 DEF member_named, first_named
    <3>2. CASE y.tag # "object"
      BY <3>2 DEF member_named
    <3>3. QED
      BY <3>1, <3>2
  <2>8. f[k] \subseteq Value /\ g[k] \subseteq Value
    <3>1. \A A \in SUBSET Value : UNION next(A) \subseteq Value
      BY <2>7
    <3>2. QED
      BY <2>4, <2>5, <3>1 DEF Matched
  <2>9. \A x \in f[k] : \E y \in g[k] : semantic_identity(x, y)
    <3> SUFFICES ASSUME NEW x \in f[k] PROVE \E y \in g[k] : semantic_identity(x, y)
      OBVIOUS
    <3>1. PICK w \in f[i] : x \in member_named(w, path[k])
      BY <2>5
    <3>2. PICK z \in g[i] : Matched(member_named(w, path[k]), member_named(z, path[k]))
      BY <2>6
    <3>3. PICK y \in member_named(z, path[k]) : semantic_identity(x, y)
      BY <3>1, <3>2 DEF Matched
    <3>4. y \in g[k]
      BY <2>5, <3>3
    <3>5. QED
      BY <3>3, <3>4
  <2>10. Matched(f[k], g[k])
    BY <2>8, <2>9 DEF Matched
  <2>11. QED
    BY <2>1, <2>10 DEF k
<1> HIDE DEF S
<1>6. 0 .. Len(path) \subseteq S
  <2>1. 0 \in Int /\ Len(path) \in Int /\ \A i \in 0 .. Len(path) - 1 : i \in S => i + 1 \in S
    BY <1>3, <1>5
  <2>2. QED
    BY <1>4, <2>1, IntervalUp, Zenon
<1>7. Len(path) \in S
  BY <1>3, <1>6
<1>8. QED
  BY <1>1, <1>2, <1>7 DEF S

LEMMA LteAgrees ==
  ASSUME NEW a \in Value, NEW b \in Value, NEW c \in Value, NEW d \in Value,
         semantic_identity(a, c), semantic_identity(b, d), lte(a, b)
  PROVE  lte(c, d)
<1>1. a.tag = b.tag /\ a.tag = c.tag /\ b.tag = d.tag /\ a.tag \in {"integer", "float"}
  BY IdentityCases DEF lte, number
<1>2. CASE a.tag = "integer"
  <2>1. a = c
    BY <1>1, <1>2, IdentityCases
  <2>2. b = d
    BY <1>1, <1>2, IdentityCases
  <2>3. QED
    BY <2>1, <2>2
<1>3. CASE a.tag = "float"
  <2>1. a.half = c.half /\ b.half = d.half
    BY <1>1, <1>3, IdentityCases
  <2>2. doubled(a) = doubled(c) /\ doubled(b) = doubled(d)
    BY <1>1, <1>3, <2>1 DEF doubled
  <2>3. QED
    BY <1>1, <2>2 DEF lte, number
<1>4. QED
  BY <1>1, <1>2, <1>3

\* a selector of the same kind and path, with values identical to those of s
Alike(s, z) ==
  /\ z.kind = s.kind
  /\ s.kind # "all" => s.path \in Seq(STRING) /\ z.path = s.path
  /\ s.kind \in {"equals", "lte", "gte"} => semantic_identity(s.value, z.value)
  /\ s.kind = "one_of" => /\ DOMAIN s.values = DOMAIN z.values
                          /\ \A i \in DOMAIN s.values :
                               semantic_identity(s.values[i], z.values[i])

LEMMA EvaluateAgrees ==
  ASSUME NEW major, NEW s, NEW z, NEW a \in Value, NEW b \in Value,
         semantic_identity(a, b), Alike(s, z), validate(major, z), evaluate(major, s, a)
  PROVE  evaluate(major, z, b)
<1>1. CASE s.kind = "all"
  BY <1>1 DEF Alike, evaluate
<1>2. CASE s.kind # "all"
  <2>1. validate(major, s) /\ z.kind = s.kind /\ s.path \in Seq(STRING) /\ z.path = s.path
        /\ s.kind \in {"equals", "one_of", "lte", "gte"}
    BY <1>2 DEF Alike, evaluate, validate, Kinds
  <2>2. PICK found \in traverse(a, s.path) :
           CASE s.kind = "equals" -> semantic_identity(found, s.value)
             [] s.kind = "one_of" ->
                  \E i \in DOMAIN s.values : semantic_identity(s.values[i], found)
             [] s.kind = "lte"    -> lte(found, s.value)
             [] s.kind = "gte"    -> lte(s.value, found)
    BY <1>2 DEF evaluate
  <2>3. Matched(traverse(a, s.path), traverse(b, z.path))
    BY <2>1, TraverseMatched
  <2>4. PICK other \in traverse(b, z.path) : semantic_identity(found, other)
    BY <2>3 DEF Matched
  <2>5. found \in Value /\ other \in Value
    BY <2>3 DEF Matched
  <2>6. SUFFICES CASE z.kind = "equals" -> semantic_identity(other, z.value)
                   [] z.kind = "one_of" ->
                        \E i \in DOMAIN z.values : semantic_identity(z.values[i], other)
                   [] z.kind = "lte"    -> lte(other, z.value)
                   [] z.kind = "gte"    -> lte(z.value, other)
    BY <1>2, <2>1, <2>4 DEF evaluate
  <2>7. CASE s.kind = "one_of"
    <3>1. PICK i \in DOMAIN s.values : semantic_identity(s.values[i], found)
      BY <2>2, <2>7
    <3>2. i \in DOMAIN z.values /\ semantic_identity(s.values[i], z.values[i])
      BY <2>7 DEF Alike
    <3>3. s.values[i] \in Value /\ z.values[i] \in Value
      BY <2>1, <2>7, <3>2 DEF validate, encodable
    <3>4. semantic_identity(z.values[i], s.values[i])
      BY <3>2, <3>3, IdentitySymmetric
    <3>5. semantic_identity(z.values[i], found)
      BY <2>5, <3>1, <3>3, <3>4, IdentityTransitive
    <3>6. semantic_identity(z.values[i], other)
      BY <2>4, <2>5, <3>3, <3>5, IdentityTransitive
    <3>7. QED
      BY <2>1, <2>7, <3>2, <3>6
  <2>8. CASE s.kind \in {"equals", "lte", "gte"}
    <3>1. s.value \in Value /\ z.value \in Value /\ semantic_identity(s.value, z.value)
      BY <2>1, <2>8 DEF validate, encodable, Alike
    <3>2. CASE s.kind = "equals"
      <4>1. semantic_identity(found, s.value)
        BY <2>2, <3>2
      <4>2. semantic_identity(found, z.value)
        BY <2>5, <3>1, <4>1, IdentityTransitive
      <4>3. semantic_identity(other, found)
        BY <2>4, <2>5, IdentitySymmetric
      <4>4. semantic_identity(other, z.value)
        BY <2>5, <3>1, <4>2, <4>3, IdentityTransitive
      <4>5. QED
        BY <2>1, <3>2, <4>4
    <3>3. CASE s.kind = "lte"
      <4>1. lte(found, s.value)
        BY <2>2, <3>3
      <4>2. lte(other, z.value)
        BY <2>4, <2>5, <3>1, <4>1, LteAgrees
      <4>3. QED
        BY <2>1, <3>3, <4>2
    <3>4. CASE s.kind = "gte"
      <4>1. lte(s.value, found)
        BY <2>2, <3>4
      <4>2. lte(z.value, other)
        BY <2>4, <2>5, <3>1, <4>1, LteAgrees
      <4>3. QED
        BY <2>1, <3>4, <4>2
    <3>5. QED
      BY <2>8, <3>2, <3>3, <3>4
  <2>9. QED
    BY <2>1, <2>7, <2>8
<1>3. QED
  BY <1>1, <1>2

-----------------------------------------------------------------------------
\* A selector, and what the wire makes of it.

Received(s) == selector(mapped(s, jcs))

LEMMA SelectorReceived ==
  ASSUME NEW s \in Selector
  PROVE  /\ DOMAIN Received(s) = DOMAIN s /\ Received(s).kind = s.kind
         /\ "path" \in DOMAIN s => s.path \in Seq(STRING) /\ Received(s).path = s.path
         /\ "value" \in DOMAIN s => Received(s).value = decode(jcs(s.value))
         /\ "values" \in DOMAIN s =>
              /\ Len(Received(s).values) = Len(s.values)
              /\ DOMAIN Received(s).values = DOMAIN s.values
              /\ \A i \in DOMAIN s.values :
                   Received(s).values[i] = decode(jcs(s.values[i]))
<1> DEFINE w == mapped(s, jcs)
           z == selector(w)
<1>1. CASE s \in [kind : STRING]
  <2>1. DOMAIN s = {"kind"}
    BY <1>1
  <2>2. w = s
    BY <2>1 DEF mapped
  <2>3. z = s
    BY <2>1, <2>2 DEF selector, mapped
  <2>4. QED
    BY <2>1, <2>3 DEF Received
<1>2. CASE s \in [kind : STRING, path : Seq(STRING), value : nested(Nesting)]
  <2>1. DOMAIN s = {"kind", "path", "value"} /\ s.path \in Seq(STRING)
    BY <1>2
  <2>2. w = [s EXCEPT !.value = jcs(@)]
    BY <2>1 DEF mapped
  <2>3. DOMAIN w = DOMAIN s /\ w.kind = s.kind /\ w.path = s.path /\ w.value = jcs(s.value)
    BY <2>1, <2>2
  <2> HIDE DEF w
  <2>4. z = [w EXCEPT !.value = decode(@)]
    BY <2>1, <2>3 DEF selector, mapped
  <2>5. DOMAIN z = DOMAIN s /\ z.kind = s.kind /\ z.path = s.path /\ z.value = decode(jcs(s.value))
    BY <2>1, <2>3, <2>4
  <2> HIDE DEF z
  <2>6. Received(s) = z
    BY DEF Received, z, w
  <2>7. QED
    BY <2>1, <2>5, <2>6
<1>3. CASE s \in [kind : STRING, path : Seq(STRING), values : Seq(nested(Nesting))]
  <2>1. DOMAIN s = {"kind", "path", "values"} /\ s.path \in Seq(STRING)
        /\ s.values \in Seq(nested(Nesting))
    BY <1>3
  <2>2. Len(s.values) \in Nat /\ DOMAIN s.values = 1 .. Len(s.values)
    BY <2>1
  <2> DEFINE f == [i \in DOMAIN s.values |-> jcs(s.values[i])]
             g == [i \in DOMAIN f |-> decode(f[i])]
  <2>3. w = [s EXCEPT !.values = f]
    BY <2>1 DEF mapped
  <2>4. DOMAIN f = DOMAIN s.values /\ \A i \in DOMAIN s.values : f[i] = jcs(s.values[i])
    OBVIOUS
  <2> HIDE DEF f
  <2>5. DOMAIN w = DOMAIN s /\ w.kind = s.kind /\ w.path = s.path /\ w.values = f
    BY <2>1, <2>3
  <2> HIDE DEF w
  <2>6. z = [w EXCEPT !.values = g]
    BY <2>1, <2>5 DEF selector, mapped
  <2>7. DOMAIN g = DOMAIN s.values /\ \A i \in DOMAIN s.values : g[i] = decode(jcs(s.values[i]))
    BY <2>4
  <2>8. Len(g) = Len(s.values)
    BY <2>2, <2>4
  <2> HIDE DEF g
  <2>9. DOMAIN z = DOMAIN s /\ z.kind = s.kind /\ z.path = s.path /\ z.values = g
    BY <2>1, <2>5, <2>6
  <2> HIDE DEF z
  <2>10. Received(s) = z
    BY DEF Received, z, w
  <2>11. QED
    BY <2>1, <2>7, <2>8, <2>9, <2>10
<1>4. QED
  BY <1>1, <1>2, <1>3 DEF Selector

\* WireExact, of one selector
Exact(s) ==
  CASE s.kind \in {"equals", "lte", "gte"} -> ~ HasIntegralFloat(s.value)
    [] s.kind = "one_of" -> \A j \in DOMAIN s.values : ~ HasIntegralFloat(s.values[j])
    [] OTHER -> TRUE

LEMMA ReceivedAlike ==
  ASSUME NEW major, NEW s \in Selector, validate(major, s), Exact(s)
  PROVE  validate(major, Received(s)) /\ Alike(s, Received(s)) /\ Alike(Received(s), s)
<1> DEFINE z == Received(s)
<1>1. /\ DOMAIN z = DOMAIN s /\ z.kind = s.kind
      /\ "path" \in DOMAIN s => s.path \in Seq(STRING) /\ z.path = s.path
      /\ "value" \in DOMAIN s => z.value = decode(jcs(s.value))
      /\ "values" \in DOMAIN s =>
           /\ Len(z.values) = Len(s.values) /\ DOMAIN z.values = DOMAIN s.values
           /\ \A i \in DOMAIN s.values : z.values[i] = decode(jcs(s.values[i]))
  BY SelectorReceived
<1> HIDE DEF z
<1>2. s.kind \in {"all", "equals", "one_of", "lte", "gte"}
  BY DEF validate, Kinds
<1>3. CASE s.kind = "all"
  BY <1>1, <1>3 DEF validate, Alike, recognized_member_set, z
<1>4. CASE s.kind \in {"equals", "lte", "gte"}
  <2>1. /\ "path" \in DOMAIN s /\ "value" \in DOMAIN s /\ encodable(s.value)
        /\ s.kind \in {"lte", "gte"} => number(s.value)
    BY <1>4 DEF validate
  <2>2. ~ HasIntegralFloat(s.value)
    BY <1>4 DEF Exact
  <2>3. s.value \in Value
    BY <2>1 DEF encodable
  <2>4. encodable(z.value) /\ semantic_identity(s.value, z.value)
    BY <1>1, <2>1, <2>2, <2>3, RoundTrip
  <2>5. z.value \in Value
    BY <2>4 DEF encodable
  <2>6. semantic_identity(z.value, s.value) /\ z.value.tag = s.value.tag
    BY <2>3, <2>4, <2>5, IdentitySymmetric, IdentityCases
  <2>7. validate(major, z)
    BY <1>1, <1>4, <2>1, <2>4, <2>6 DEF validate, recognized_member_set, valid_path, number
  <2>8. Alike(s, z) /\ Alike(z, s)
    BY <1>1, <1>4, <2>1, <2>4, <2>6 DEF Alike
  <2>9. QED
    BY <2>7, <2>8 DEF z
<1>5. CASE s.kind = "one_of"
  <2>1. /\ "path" \in DOMAIN s /\ "values" \in DOMAIN s
        /\ \A i \in DOMAIN s.values : encodable(s.values[i])
    BY <1>5 DEF validate
  <2>2. \A i \in DOMAIN s.values : ~ HasIntegralFloat(s.values[i])
    BY <1>5 DEF Exact
  <2>3. \A i \in DOMAIN s.values : s.values[i] \in Value
    BY <2>1 DEF encodable
  <2>4. \A i \in DOMAIN s.values : encodable(z.values[i])
                                   /\ semantic_identity(s.values[i], z.values[i])
    BY <1>1, <2>1, <2>2, <2>3, RoundTrip
  <2>5. \A i \in DOMAIN s.values : z.values[i] \in Value
    BY <2>4 DEF encodable
  <2>6. \A i \in DOMAIN s.values : semantic_identity(z.values[i], s.values[i])
    BY <2>3, <2>4, <2>5, IdentitySymmetric
  <2>7. validate(major, z)
    BY <1>1, <1>5, <2>1, <2>4 DEF validate, recognized_member_set, valid_path
  <2>8. Alike(s, z) /\ Alike(z, s)
    BY <1>1, <1>5, <2>1, <2>4, <2>6 DEF Alike
  <2>9. QED
    BY <2>7, <2>8 DEF z
<1>6. QED
  BY <1>2, <1>3, <1>4, <1>5

-----------------------------------------------------------------------------
\* What holder and host compare, and what the host makes of a grant.

LEMMA ProjectionText ==
  ASSUME NEW operation, NEW args, digestible(operation, args)
  PROVE  /\ args \in Value /\ encodable(typed(args))
         /\ jcs(projection(operation, args))
              = [array |-> <<[literal |-> string(operation)], jcs(typed(args))>>]
<1> DEFINE u == projection(operation, args)
<1>1. u \in Value /\ encodable(u) /\ args \in Value
  BY DEF digestible, encodable
<1>2. u.tag = "array" /\ u.items = <<string(operation), typed(args)>>
  BY DEF projection, array
<1> HIDE DEF u
<1>3. DOMAIN u.items = 1 .. 2 /\ string(operation) \in Value /\ typed(args) \in Value
  BY <1>1, <1>2, ItemsOfValue
<1>4. encodable(typed(args))
  BY <1>1, <1>2, <1>3, EncodableCases
<1>5. jcs(string(operation)) = [literal |-> string(operation)]
  BY <1>3, JcsCases DEF string
<1>6. jcs(u) = [array |-> [i \in DOMAIN u.items |-> jcs(u.items[i])]]
  BY <1>1, <1>2, JcsCases
<1>7. [i \in DOMAIN u.items |-> jcs(u.items[i])]
        = <<[literal |-> string(operation)], jcs(typed(args))>>
  BY <1>2, <1>3, <1>5
<1>8. QED
  BY <1>1, <1>4, <1>6, <1>7 DEF u

LEMMA SharedDigest ==
  ASSUME NEW major, NEW operation, NEW a, NEW b,
         digestible(operation, a), digestible(operation, b),
         digest(major, operation, a) = digest(major, operation, b)
  PROVE  a \in Value /\ b \in Value /\ semantic_identity(a, b)
<1> DEFINE p(v) == <<[literal |-> string(operation)], jcs(typed(v))>>
<1>1. /\ a \in Value /\ encodable(typed(a)) /\ jcs(projection(operation, a)) = [array |-> p(a)]
      /\ b \in Value /\ encodable(typed(b)) /\ jcs(projection(operation, b)) = [array |-> p(b)]
  BY ProjectionText
<1>2. jcs(projection(operation, a)) = jcs(projection(operation, b))
  BY DEF digest
<1>3. p(a)[2] = jcs(typed(a)) /\ p(b)[2] = jcs(typed(b))
  OBVIOUS
<1> HIDE DEF p
<1>4. [array |-> p(a)].array = p(a) /\ [array |-> p(b)].array = p(b)
  OBVIOUS
<1>5. jcs(typed(a)) = jcs(typed(b))
  BY <1>1, <1>2, <1>3, <1>4
<1>6. QED
  BY <1>1, <1>5, OneDigest

LEMMA DecodedSelectors ==
  ASSUME NEW major, NEW selectors, NEW s \in decode_selectors(major, encode_selectors(selectors))
  PROVE  s = [i \in DOMAIN selectors |-> Received(selectors[i])] /\ valid_selectors(major, s)
<1> DEFINE wire == encode_selectors(selectors)
           decoded == [i \in DOMAIN wire |-> selector(wire[i])]
<1>1. DOMAIN wire = DOMAIN selectors
      /\ \A i \in DOMAIN selectors : wire[i] = mapped(selectors[i], jcs)
  BY DEF encode_selectors
<1> HIDE DEF wire
<1>2. decoded = [i \in DOMAIN selectors |-> Received(selectors[i])]
  BY <1>1 DEF Received
<1>3. s = decoded /\ valid_selectors(major, decoded)
  BY DEF decode_selectors, wire
<1>4. QED
  BY <1>2, <1>3

LEMMA SelectorsDecoded ==
  ASSUME NEW major, NEW selectors,
         valid_selectors(major, [i \in DOMAIN selectors |-> Received(selectors[i])])
  PROVE  [i \in DOMAIN selectors |-> Received(selectors[i])]
           \in decode_selectors(major, encode_selectors(selectors))
<1> DEFINE wire == encode_selectors(selectors)
           decoded == [i \in DOMAIN wire |-> selector(wire[i])]
<1>1. DOMAIN wire = DOMAIN selectors
      /\ \A i \in DOMAIN selectors : wire[i] = mapped(selectors[i], jcs)
  BY DEF encode_selectors
<1> HIDE DEF wire
<1>2. decoded = [i \in DOMAIN selectors |-> Received(selectors[i])]
  BY <1>1 DEF Received
<1>3. decode_selectors(major, wire) = IF valid_selectors(major, decoded) THEN {decoded} ELSE {}
  BY DEF decode_selectors
<1>4. QED
  BY <1>2, <1>3 DEF wire

LEMMA ExactSelectors ==
  ASSUME NEW selectors, WireExact(selectors)
  PROVE  \A i \in DOMAIN selectors : Exact(selectors[i])
BY DEF WireExact, Exact

-----------------------------------------------------------------------------
\* The invariant: how each grant, request and service came about.

\* a grant's wire is the encoding of selectors that were valid as written
GrantsMade ==
  \A g \in grants : /\ g.meant \in SelectorList /\ valid_selectors(g.major, g.meant)
                    /\ g.wire = encode_selectors(g.meant)

\* a request carries the digest of what its holder meant
RequestsMade ==
  \A r \in requests : /\ r.grant \in grants
                      /\ digestible(r.grant.operation, r.meant)
                      /\ r.digest = digest(r.grant.major, r.grant.operation, r.meant)

\* a host went on with what it admitted
ServedMade ==
  \A x \in served : /\ x.request \in requests
                    /\ admitted(x.request, x.request.grant.operation, x.cast)

Made == GrantsMade /\ RequestsMade /\ ServedMade

LEMMA MadeInitially == Init => Made
BY DEF Init, Made, GrantsMade, RequestsMade, ServedMade

LEMMA MadeStays == Made /\ [Next]_vars => Made'
<1> SUFFICES ASSUME Made, [Next]_vars PROVE Made'
  OBVIOUS
<1>1. CASE Mint
  <2>1. PICK major \in Major, operation \in Operation, selectors \in SelectorList :
          /\ valid_selectors(major, selectors)
          /\ grants' = grants \cup {[major |-> major, operation |-> operation,
                                     meant |-> selectors, wire |-> encode_selectors(selectors)]}
    BY <1>1 DEF Mint
  <2>2. UNCHANGED <<requests, served>>
    BY <1>1 DEF Mint
  <2>3. GrantsMade'
    BY <2>1 DEF Made, GrantsMade
  <2>4. RequestsMade' /\ ServedMade'
    BY <2>1, <2>2 DEF Made, RequestsMade, ServedMade
  <2>5. QED
    BY <2>3, <2>4 DEF Made
<1>2. CASE Sign
  <2>1. PICK g \in grants, args \in Argument :
          /\ digestible(g.operation, args)
          /\ requests' = requests \cup {[grant |-> g, meant |-> args,
                                         digest |-> digest(g.major, g.operation, args)]}
    BY <1>2 DEF Sign
  <2>2. UNCHANGED <<grants, served>>
    BY <1>2 DEF Sign
  <2>3. GrantsMade' /\ ServedMade'
    BY <2>1, <2>2 DEF Made, GrantsMade, ServedMade
  <2>4. RequestsMade'
    BY <2>1, <2>2 DEF Made, RequestsMade
  <2>5. QED
    BY <2>3, <2>4 DEF Made
<1>3. CASE Serve
  <2>1. PICK r \in requests, operation \in Operation, cast \in Argument :
          admitted(r, operation, cast) /\ served' = served \cup {[request |-> r, cast |-> cast]}
    BY <1>3 DEF Serve
  <2>2. UNCHANGED <<grants, requests>>
    BY <1>3 DEF Serve
  <2>3. operation = r.grant.operation
    BY <2>1 DEF admitted
  <2>4. ServedMade'
    BY <2>1, <2>2, <2>3 DEF Made, ServedMade
  <2>5. GrantsMade' /\ RequestsMade'
    BY <2>2 DEF Made, GrantsMade, RequestsMade
  <2>6. QED
    BY <2>4, <2>5 DEF Made
<1>4. CASE UNCHANGED vars
  BY <1>4 DEF vars, Made, GrantsMade, RequestsMade, ServedMade
<1>5. QED
  BY <1>1, <1>2, <1>3, <1>4 DEF Next

LEMMA MadeAlways == Spec => []Made
BY MadeInitially, MadeStays, PTL DEF Spec

-----------------------------------------------------------------------------
\* What follows from it.

\* what a host serves is identical to what the holder meant
LEMMA ServedIsMeant ==
  ASSUME Made, NEW x \in served
  PROVE  /\ x.cast \in Value /\ x.request.meant \in Value
         /\ semantic_identity(x.cast, x.request.meant)
<1>1. /\ x.request \in requests
      /\ admitted(x.request, x.request.grant.operation, x.cast)
  BY DEF Made, ServedMade
<1>2. /\ digestible(x.request.grant.operation, x.request.meant)
      /\ x.request.digest
           = digest(x.request.grant.major, x.request.grant.operation, x.request.meant)
  BY <1>1 DEF Made, RequestsMade
<1>3. QED
  BY <1>1, <1>2, SharedDigest DEF admitted

\* each selector of a grant, as written
LEMMA SelectorsOfGrant ==
  ASSUME Made, NEW g \in grants
  PROVE  /\ Len(g.meant) \in 1 .. MaxSelectors /\ DOMAIN g.meant = 1 .. Len(g.meant)
         /\ \A i \in DOMAIN g.meant : g.meant[i] \in Selector /\ validate(g.major, g.meant[i])
<1>1. g.meant \in SelectorList /\ valid_selectors(g.major, g.meant)
  BY DEF Made, GrantsMade
<1>2. g.meant \in Seq(Selector)
  BY <1>1, SelectorAssumption
<1> DEFINE s == g.meant
<1> HIDE DEF s
<1>3. s \in Seq(Selector)
  BY <1>2 DEF s
<1>4. DOMAIN s = 1 .. Len(s) /\ \A i \in DOMAIN s : s[i] \in Selector
  BY <1>3
<1>5. QED
  BY <1>1, <1>4 DEF s, valid_selectors

\* holder and host: a host that goes on goes on with the holder's value, and
\* the selectors it read would admit the holder's own arguments
THEOREM HolderIsNotBetrayed == Spec => []HolderNotBetrayed
<1>1. Made => HolderNotBetrayed
  <2> SUFFICES ASSUME Made, NEW x \in served
               PROVE  LET g == x.request.grant
                      IN  /\ SameValue(x.cast, x.request.meant)
                          /\ \A selectors \in decode_selectors(g.major, g.wire) :
                               evaluate_all(g.major, selectors, x.request.meant)
    BY DEF HolderNotBetrayed
  <2> DEFINE g == x.request.grant
  <2>1. /\ x.cast \in Value /\ x.request.meant \in Value
        /\ semantic_identity(x.cast, x.request.meant)
    BY ServedIsMeant
  <2>2. SameValue(x.cast, x.request.meant)
    BY <2>1, IdenticalAreSame
  <2>3. x.request \in requests /\ g \in grants
        /\ admitted(x.request, x.request.grant.operation, x.cast)
    BY DEF Made, ServedMade, RequestsMade
  <2>4. g.wire = encode_selectors(g.meant)
    BY <2>3 DEF Made, GrantsMade
  <2>5. PICK read \in decode_selectors(g.major, g.wire) : evaluate_all(g.major, read, x.cast)
    BY <2>3 DEF admitted
  <2> HIDE DEF g
  <2>6. /\ read = [i \in DOMAIN g.meant |-> Received(g.meant[i])]
        /\ valid_selectors(g.major, read)
    BY <2>4, <2>5, DecodedSelectors
  <2>7. \A selectors \in decode_selectors(g.major, g.wire) : selectors = read
    BY <2>4, <2>6, DecodedSelectors
  <2>8. ASSUME NEW i \in DOMAIN read PROVE evaluate(g.major, read[i], x.request.meant)
    <3> DEFINE s == g.meant[i]
    <3>1. read[i] = Received(s) /\ i \in DOMAIN g.meant
      BY <2>6
    <3>2. s \in Selector
      BY <2>3, <3>1, SelectorsOfGrant
    <3>3. evaluate(g.major, read[i], x.cast) /\ validate(g.major, read[i])
      BY <2>5, <2>6 DEF evaluate_all, valid_selectors
    <3>4. Alike(read[i], read[i])
      <4> DEFINE z == read[i]
      <4>1. /\ z.kind # "all" => "path" \in DOMAIN z
            /\ z.kind \in {"equals", "lte", "gte"} => encodable(z.value)
            /\ z.kind = "one_of" => \A j \in DOMAIN z.values : encodable(z.values[j])
        BY <3>3 DEF validate
      <4>2. "path" \in DOMAIN z => z.path \in Seq(STRING)
        BY <3>1, <3>2, SelectorReceived
      <4> HIDE DEF z
      <4>3. /\ z.kind \in {"equals", "lte", "gte"} => z.value \in Value
            /\ z.kind = "one_of" => \A j \in DOMAIN z.values : z.values[j] \in Value
        BY <4>1 DEF encodable
      <4>4. Alike(z, z)
        BY <4>1, <4>2, <4>3, IdentityReflexive DEF Alike
      <4>5. QED
        BY <4>4 DEF z
    <3>5. QED
      BY <2>1, <3>3, <3>4, EvaluateAgrees
  <2>9. QED
    BY <2>2, <2>7, <2>8 DEF evaluate_all, g
<1>2. QED
  BY <1>1, MadeAlways, PTL

\* issuer and host: what a host goes on with the issuer's own selectors admit,
\* unless they name an integral float
THEOREM IssuerIsObeyed == Spec => []IssuerObeyed
<1>1. Made => IssuerObeyed
  <2> SUFFICES ASSUME Made, NEW x \in served, WireExact(x.request.grant.meant)
               PROVE  evaluate_all(x.request.grant.major, x.request.grant.meant, x.cast)
    BY DEF IssuerObeyed
  <2> DEFINE g == x.request.grant
  <2>1. /\ x.cast \in Value /\ x.request.meant \in Value
        /\ semantic_identity(x.cast, x.request.meant)
    BY ServedIsMeant
  <2>2. semantic_identity(x.cast, x.cast)
    BY <2>1, IdentitySymmetric, IdentityTransitive
  <2>3. g \in grants /\ admitted(x.request, x.request.grant.operation, x.cast)
    BY DEF Made, ServedMade, RequestsMade
  <2>4. g.wire = encode_selectors(g.meant)
    BY <2>3 DEF Made, GrantsMade
  <2>5. PICK read \in decode_selectors(g.major, g.wire) : evaluate_all(g.major, read, x.cast)
    BY <2>3 DEF admitted
  <2>6. WireExact(g.meant)
    OBVIOUS
  <2> HIDE DEF g
  <2>7. read = [i \in DOMAIN g.meant |-> Received(g.meant[i])]
    BY <2>4, <2>5, DecodedSelectors
  <2>8. ASSUME NEW i \in DOMAIN g.meant PROVE evaluate(g.major, g.meant[i], x.cast)
    <3>1. evaluate(g.major, Received(g.meant[i]), x.cast)
      BY <2>5, <2>7 DEF evaluate_all
    <3>2. g.meant[i] \in Selector /\ validate(g.major, g.meant[i]) /\ Exact(g.meant[i])
      BY <2>3, <2>6, SelectorsOfGrant, ExactSelectors
    <3>3. Alike(Received(g.meant[i]), g.meant[i])
      BY <3>2, ReceivedAlike
    <3>4. QED
      BY <2>1, <2>2, <3>1, <3>2, <3>3, EvaluateAgrees
  <2>9. QED
    BY <2>8 DEF evaluate_all, g
<1>2. QED
  BY <1>1, MadeAlways, PTL

\* and the other way round: what the holder signed and the issuer's selectors
\* admit the host admits
THEOREM NothingIsLost == Spec => []NothingLost
<1>1. Made => NothingLost
  <2> SUFFICES ASSUME Made, NEW r \in requests, WireExact(r.grant.meant),
                      evaluate_all(r.grant.major, r.grant.meant, r.meant)
               PROVE  admitted(r, r.grant.operation, r.meant)
    BY DEF NothingLost
  <2> DEFINE g == r.grant
             read == [i \in DOMAIN g.meant |-> Received(g.meant[i])]
  <2>1. /\ g \in grants /\ digestible(g.operation, r.meant)
        /\ r.digest = digest(g.major, g.operation, r.meant)
    BY DEF Made, RequestsMade
  <2>2. g.wire = encode_selectors(g.meant)
    BY <2>1 DEF Made, GrantsMade
  <2>3. r.meant \in Value /\ semantic_identity(r.meant, r.meant)
    BY <2>1, SharedDigest
  <2>4. WireExact(g.meant) /\ evaluate_all(g.major, g.meant, r.meant)
    OBVIOUS
  <2> HIDE DEF g
  <2>5. /\ Len(g.meant) \in 1 .. MaxSelectors /\ DOMAIN g.meant = 1 .. Len(g.meant)
        /\ \A i \in DOMAIN g.meant : g.meant[i] \in Selector /\ validate(g.major, g.meant[i])
                                     /\ Exact(g.meant[i])
    BY <2>1, <2>4, SelectorsOfGrant, ExactSelectors
  <2>6. DOMAIN read = DOMAIN g.meant /\ \A i \in DOMAIN read : read[i] = Received(g.meant[i])
    OBVIOUS
  <2>7. Len(read) = Len(g.meant)
    BY <2>5
  <2> HIDE DEF read
  <2>8. \A i \in DOMAIN read : validate(g.major, read[i]) /\ Alike(g.meant[i], read[i])
    BY <2>5, <2>6, ReceivedAlike
  <2>9. valid_selectors(g.major, read)
    BY <2>5, <2>7, <2>8 DEF valid_selectors
  <2>10. read \in decode_selectors(g.major, g.wire)
    BY <2>2, <2>9, SelectorsDecoded DEF read
  <2>11. ASSUME NEW i \in DOMAIN read PROVE evaluate(g.major, read[i], r.meant)
    <3>1. evaluate(g.major, g.meant[i], r.meant)
      BY <2>4, <2>6 DEF evaluate_all
    <3>2. QED
      BY <2>3, <2>8, <3>1, EvaluateAgrees
  <2>12. evaluate_all(g.major, read, r.meant)
    BY <2>11 DEF evaluate_all
  <2>13. QED
    BY <2>1, <2>10, <2>12 DEF admitted, g
<1>2. QED
  BY <1>1, MadeAlways, PTL
=============================================================================
