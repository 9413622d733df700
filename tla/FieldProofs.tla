---------------------------- MODULE FieldProofs ----------------------------
(***************************************************************************)
(* What is in the packets, proved: fields of every type are read as they   *)
(* were written, whole rows of them, and rows that are cut off as far as   *)
(* they go.  So the packets the client takes have the values they were     *)
(* sent with, and few of them can end its thread.                          *)
(***************************************************************************)
EXTENDS PacketProofs

(* What the reading of a field of any type gives *)

\* One read gives whether it has returned, the value, and bytes that are left.
Outcome(V) == [ok : BOOLEAN, value : V, rest : Seq(Octet)]
Flat == Seq(Int)
Nested == Seq(Seq(Int))

LEMMA OctetsFlat == Seq(Octet) \subseteq Flat /\ <<>> \in Flat /\ <<>> \in Nested
<1>1. Octet \subseteq Int
  BY OctetIs
<1>2. ASSUME NEW s \in Seq(Octet) PROVE s \in Seq(Int)
  BY <1>1, SeqMonotonic
<1>3. <<>> \in Seq(Int) /\ <<>> \in Seq(Seq(Int))
  OBVIOUS
<1>4. QED
  BY <1>2, <1>3 DEF Flat, Nested

LEMMA GotOutcome ==
  ASSUME NEW V, NEW v \in V, NEW r \in Seq(Octet)
  PROVE  Got(v, r) \in Outcome(V) /\ Got(v, r).ok /\ Got(v, r).value = v /\ Got(v, r).rest = r
BY DEF Got, Outcome

LEMMA RaisedOutcome ==
  ASSUME NEW V, <<>> \in V, NEW r \in Seq(Octet)
  PROVE  Raised(r) \in Outcome(V) /\ ~Raised(r).ok
BY DEF Raised, Outcome

LEMMA FixedOutcome ==
  ASSUME NEW n \in Nat, NEW s \in Seq(Octet)
  PROVE  ReadFixed(n, s) \in Outcome(Flat)
<1>a. <<>> \in Seq(Octet)
  OBVIOUS
<1>1. Took(n, s) \in Seq(Octet) /\ Left(n, s) \in Seq(Octet)
  BY PartsAnywhere
<1>2. Raised(<<>>) \in Outcome(Flat)
  BY <1>a, OctetsFlat, RaisedOutcome, Zenon
<1>3. Got(Took(n, s), Left(n, s)) \in Outcome(Flat)
  <2>1. Took(n, s) \in Flat
    BY <1>1, OctetsFlat
  <2>2. QED
    BY <1>1, <2>1, GotOutcome, Zenon
<1>4. QED
  BY <1>2, <1>3, Zenon DEF ReadFixed

LEMMA NumberOutcome ==
  ASSUME NEW s \in Seq(Octet)
  PROVE  /\ ReadVarInt(s) \in Outcome(Flat)
         /\ ReadVarInt(s).ok => ReadVarInt(s).value[1] \in VarInts
<1>1. <<>> \in Seq(Octet)
  OBVIOUS
<1>2. CASE ~Whole(s)
  <2>1. ReadVarInt(s) = Raised(<<>>)
    BY <1>2, Zenon DEF ReadVarInt
  <2>2. QED
    BY <1>1, <2>1, OctetsFlat, RaisedOutcome
<1>3. CASE Whole(s)
  <2>1. PICK v, u : v = Received(s) /\ u = Used(s)
    OBVIOUS
  <2>2. v \in VarInts /\ u \in Nat
    BY <1>3, <2>1, ReceivedIs
  <2>3. <<v>> \in Flat
    BY <2>2 DEF VarInts, Flat
  <2>4. Left(u, s) \in Seq(Octet)
    BY <2>2, PartsAnywhere
  <2>5. ReadVarInt(s) = Got(<<v>>, Left(u, s))
    BY <1>3, <2>1, Zenon DEF ReadVarInt
  <2>6. <<v>>[1] = v
    OBVIOUS
  <2>7. QED
    BY <2>2, <2>3, <2>4, <2>5, <2>6, GotOutcome
<1>4. QED
  BY <1>2, <1>3

LEMMA VarIntsNat == VarInts \subseteq Nat
BY DEF VarInts

LEMMA TextOutcome ==
  ASSUME NEW s \in Seq(Octet)
  PROVE  ReadString(s) \in Outcome(Flat)
<1>1. PICK n : n = ReadVarInt(s)
  OBVIOUS
<1>2. n \in Outcome(Flat) /\ (n.ok => n.value[1] \in Nat) /\ n.rest \in Seq(Octet)
  BY <1>1, NumberOutcome, VarIntsNat DEF Outcome
<1>3. CASE ~n.ok
  BY <1>1, <1>2, <1>3, Zenon DEF ReadString
<1>4. CASE n.ok
  <2>1. PICK t, r : t = Took(n.value[1], n.rest) /\ r = Left(n.value[1], n.rest)
    OBVIOUS
  <2>2. t \in Seq(Octet) /\ r \in Seq(Octet)
    BY <1>2, <1>4, <2>1, PartsAnywhere
  <2>3. Got(t, r) \in Outcome(Flat) /\ Raised(r) \in Outcome(Flat)
    BY <2>2, OctetsFlat, GotOutcome, RaisedOutcome
  <2>4. ReadString(s) = IF Utf8(t) THEN Got(t, r) ELSE Raised(r)
    BY <1>1, <1>4, <2>1, Zenon DEF ReadString
  <2>5. QED
    BY <2>3, <2>4
<1>5. QED
  BY <1>3, <1>4

LEMMA BytesOutcome ==
  ASSUME NEW s \in Seq(Octet)
  PROVE  ReadBytes(s) \in Outcome(Flat)
<1>1. PICK n : n = ReadVarInt(s)
  OBVIOUS
<1>2. n \in Outcome(Flat) /\ (n.ok => n.value[1] \in Nat) /\ n.rest \in Seq(Octet)
  BY <1>1, NumberOutcome, VarIntsNat DEF Outcome
<1>3. n.ok => ReadFixed(n.value[1], n.rest) \in Outcome(Flat)
  BY <1>2, FixedOutcome
<1>4. ReadBytes(s) = IF n.ok THEN ReadFixed(n.value[1], n.rest) ELSE n
  BY <1>1, Zenon DEF ReadBytes
<1>5. QED
  BY <1>2, <1>3, <1>4

LEMMA NbtOutcome ==
  ASSUME NEW s \in Seq(Octet)
  PROVE  ReadNbt(s) \in Outcome(Flat)
BY FixedOutcome, RaisedOutcome, OctetsFlat DEF ReadNbt

\* What Then makes of one read and the next.
Thence(got, next) == IF ~got.ok THEN got ELSE [next EXCEPT !.value = got.value \o @]

\* What a reading after another gives.
LEMMA ThenceOutcome ==
  ASSUME NEW V, NEW got \in Outcome(Seq(V)), NEW next \in Outcome(Seq(V))
  PROVE  /\ Thence(got, next) \in Outcome(Seq(V))
         /\ Thence(got, next).ok <=> got.ok /\ next.ok
         /\ got.ok => /\ Thence(got, next).value = got.value \o next.value
                      /\ Thence(got, next).rest = next.rest
<1>1. CASE ~got.ok
  BY <1>1 DEF Thence
<1>2. CASE got.ok
  <2>1. PICK v : v = got.value \o next.value
    OBVIOUS
  <2>2. v \in Seq(V)
    BY <2>1, JoinType DEF Outcome
  <2>3. next = [ok |-> next.ok, value |-> next.value, rest |-> next.rest]
    BY DEF Outcome
  <2>4. Thence(got, next) = [ok |-> next.ok, value |-> v, rest |-> next.rest]
    BY <1>2, <2>1, <2>3 DEF Thence
  <2>5. next.ok \in BOOLEAN /\ next.rest \in Seq(Octet)
    BY DEF Outcome
  <2>6. QED
    BY <1>2, <2>1, <2>2, <2>4, <2>5 DEF Outcome
<1>3. QED
  BY <1>1, <1>2

-----------------------------------------------------------------------------
(* The numbers struct unpacks *)

Shift == [p \in Int \X Octet |-> 2 * Group * p[1] + p[2]]
Raise == [p \in Int \X Octet |-> 2 * Group * p[1]]

LEMMA ShiftIs ==
  /\ Folding(Shift, Int, Octet) /\ Folding(Raise, Int, Octet)
  /\ \A n \in Int, b \in Octet : Shift[<<n, b>>] = 2 * Group * n + b
  /\ \A n \in Int, b \in Octet : Raise[<<n, b>>] = 2 * Group * n
<1>1. Octet \subseteq Int /\ Group \in Int
  BY OctetIs, VarIntAssumption DEF VarIntAssumption
<1>2. ASSUME NEW p \in Int \X Octet
      PROVE  2 * Group * p[1] + p[2] \in Int /\ 2 * Group * p[1] \in Int
  <2>1. p[1] \in Int /\ p[2] \in Int
    BY <1>1
  <2>2. PICK n : n = p[1] /\ n \in Int
    BY <2>1
  <2>3. 2 * Group * n \in Int
    BY <1>1, <2>2
  <2>4. QED
    BY <2>1, <2>2, <2>3
<1>3. Shift \in [Int \X Octet -> Int] /\ Raise \in [Int \X Octet -> Int]
  BY <1>2 DEF Shift, Raise
<1>4. \A n \in Int, b \in Octet : Shift[<<n, b>>] = 2 * Group * n + b
  BY DEF Shift
<1>5. \A n \in Int, b \in Octet : Raise[<<n, b>>] = 2 * Group * n
  BY DEF Raise
<1>6. QED
  BY <1>3, <1>4, <1>5 DEF Folding

LEMMA ShiftFolds ==
  ASSUME NEW s \in Seq(Octet)
  PROVE  FoldLeft(LAMBDA n, b : 2 * Group * n + b, 0, s) = Fold(Shift, 0, s)
<1> DEFINE A == Int
           B == Octet
           F == Shift
           base == 0
           w == s
           op(z, b) == 2 * Group * z + b
           P(g) == g = [t \in SUBSET DOMAIN w |->
                          IF t = {} THEN base ELSE op(g[t \ {Max(t)}], w[Max(t)])]
           c == CHOOSE g : P(g)
<1>1. FoldLeft(LAMBDA n, b : 2 * Group * n + b, 0, s) = c[DOMAIN w]
  BY DEF FoldLeft, MapThenFoldSet
<1>2. F \in [A \X B -> A] /\ \A z \in A, b \in B : F[<<z, b>>] = op(z, b)
  BY ShiftIs DEF Folding
<1>3. w \in Seq(B) /\ base \in A
  OBVIOUS
<1> HIDE DEF op, F, A, B, base, w
<1>4. PICK g \in [SUBSET DOMAIN w -> A] : Folds(g, F, base, w)
  BY <1>2, <1>3, FoldsExists
<1>5. P(g)
  <2>1. ASSUME NEW t \in SUBSET DOMAIN w, t # {}
        PROVE  F[<<g[t \ {Max(t)}], w[Max(t)]>>] = op(g[t \ {Max(t)}], w[Max(t)])
    <3>1. w[Max(t)] \in B /\ g[t \ {Max(t)}] \in A
      BY <1>3, <2>1, LastOf
    <3>2. QED
      BY <1>2, <3>1
  <2>2. QED
    BY <1>4, <2>1 DEF Folds
<1>6. P(c)
  BY <1>5
<1> HIDE DEF c
<1>7. c[{}] = base
  BY <1>6
<1>8. ASSUME NEW t \in SUBSET DOMAIN w, t # {}, c[t \ {Max(t)}] \in A
      PROVE  c[t] = F[<<c[t \ {Max(t)}], w[Max(t)]>>]
  <2>1. w[Max(t)] \in B
    BY <1>3, <1>8, LastOf
  <2>2. c[t] = op(c[t \ {Max(t)}], w[Max(t)])
    BY <1>6, <1>8
  <2>3. QED
    BY <1>2, <1>8, <2>1, <2>2
<1>9. GoesOn(c, A, F, w)
  BY <1>8, Zenon DEF GoesOn
<1> HIDE DEF P
<1>10. Folding(F, A, B)
  BY <1>2 DEF Folding
<1>11. c[DOMAIN w] = Fold(F, base, w)
  BY <1>3, <1>7, <1>9, <1>10, FoldChosen
<1>12. QED
  BY <1>1, <1>11, Zenon DEF F, base, w

LEMMA RaiseFolds ==
  ASSUME NEW s \in Seq(Octet)
  PROVE  FoldLeft(LAMBDA n, b : 2 * Group * n, 1, s) = Fold(Raise, 1, s)
<1> DEFINE A == Int
           B == Octet
           F == Raise
           base == 1
           w == s
           op(z, b) == 2 * Group * z
           P(g) == g = [t \in SUBSET DOMAIN w |->
                          IF t = {} THEN base ELSE op(g[t \ {Max(t)}], w[Max(t)])]
           c == CHOOSE g : P(g)
<1>1. FoldLeft(LAMBDA n, b : 2 * Group * n, 1, s) = c[DOMAIN w]
  BY DEF FoldLeft, MapThenFoldSet
<1>2. F \in [A \X B -> A] /\ \A z \in A, b \in B : F[<<z, b>>] = op(z, b)
  BY ShiftIs DEF Folding
<1>3. w \in Seq(B) /\ base \in A
  OBVIOUS
<1> HIDE DEF op, F, A, B, base, w
<1>4. PICK g \in [SUBSET DOMAIN w -> A] : Folds(g, F, base, w)
  BY <1>2, <1>3, FoldsExists
<1>5. P(g)
  <2>1. ASSUME NEW t \in SUBSET DOMAIN w, t # {}
        PROVE  F[<<g[t \ {Max(t)}], w[Max(t)]>>] = op(g[t \ {Max(t)}], w[Max(t)])
    <3>1. w[Max(t)] \in B /\ g[t \ {Max(t)}] \in A
      BY <1>3, <2>1, LastOf
    <3>2. QED
      BY <1>2, <3>1
  <2>2. QED
    BY <1>4, <2>1 DEF Folds
<1>6. P(c)
  BY <1>5
<1> HIDE DEF c
<1>7. c[{}] = base
  BY <1>6
<1>8. ASSUME NEW t \in SUBSET DOMAIN w, t # {}, c[t \ {Max(t)}] \in A
      PROVE  c[t] = F[<<c[t \ {Max(t)}], w[Max(t)]>>]
  <2>1. w[Max(t)] \in B
    BY <1>3, <1>8, LastOf
  <2>2. c[t] = op(c[t \ {Max(t)}], w[Max(t)])
    BY <1>6, <1>8
  <2>3. QED
    BY <1>2, <1>8, <2>1, <2>2
<1>9. GoesOn(c, A, F, w)
  BY <1>8, Zenon DEF GoesOn
<1> HIDE DEF P
<1>10. Folding(F, A, B)
  BY <1>2 DEF Folding
<1>11. c[DOMAIN w] = Fold(F, base, w)
  BY <1>3, <1>7, <1>9, <1>10, FoldChosen
<1>12. QED
  BY <1>1, <1>11, Zenon DEF F, base, w

LEMMA SignedIs ==
  ASSUME NEW s \in Seq(Octet)
  PROVE  /\ Signed(s) = Fold(Shift, 0, s) - IF s[1] < Group THEN 0 ELSE Fold(Raise, 1, s)
         /\ Signed(s) \in Int
<1>1. FoldLeft(LAMBDA n, b : 2 * Group * n + b, 0, s) = Fold(Shift, 0, s)
  BY ShiftFolds, Zenon
<1>2. FoldLeft(LAMBDA n, b : 2 * Group * n, 1, s) = Fold(Raise, 1, s)
  BY RaiseFolds, Zenon
<1>3. Signed(s) = Fold(Shift, 0, s) - IF s[1] < Group THEN 0 ELSE Fold(Raise, 1, s)
  BY <1>1, <1>2, Zenon DEF Signed
<1>4. Fold(Shift, 0, s) \in Int /\ Fold(Raise, 1, s) \in Int
  <2>1. ASSUME NEW F, Folding(F, Int, Octet), NEW base \in Int PROVE Fold(F, base, s) \in Int
    BY <2>1, FoldIs
  <2>2. QED
    BY <2>1, ShiftIs
<1>5. QED
  BY <1>3, <1>4

\* A fold over two elements.
LEMMA FoldTwo ==
  ASSUME NEW A, NEW B, NEW F, Folding(F, A, B), NEW base \in A, NEW a \in B, NEW b \in B
  PROVE  /\ Fold(F, base, <<a, b>>) = F[<<F[<<base, a>>], b>>]
         /\ F[<<base, a>>] \in A
<1>1. <<a, b>> = Append(<<a>>, b) /\ <<a>> = Append(<<>>, a)
  BY AppendOne
<1>2. <<>> \in Seq(B) /\ <<a>> \in Seq(B)
  OBVIOUS
<1>3. /\ Fold(F, base, <<>>) = base
      /\ \A q \in Seq(B), e \in B : Fold(F, base, Append(q, e)) = F[<<Fold(F, base, q), e>>]
  BY FoldIs
<1>4. Fold(F, base, <<a>>) = F[<<base, a>>]
  BY <1>1, <1>2, <1>3
<1>5. Fold(F, base, Append(<<a>>, b)) = F[<<Fold(F, base, <<a>>), b>>]
  BY <1>2, <1>3
<1>6. F[<<base, a>>] \in A
  BY DEF Folding
<1>7. QED
  BY <1>1, <1>4, <1>5, <1>6, Zenon

LEMMA AppendThird ==
  ASSUME NEW B, NEW x \in B, NEW y \in B, NEW z \in B
  PROVE  Append(<<x, y>>, z) = <<x, y, z>>
<1> DEFINE a == Append(<<x, y>>, z)
           b == <<x, y, z>>
<1>1. b \in Seq(B) /\ Len(b) = 3 /\ b[1] = x /\ b[2] = y /\ b[3] = z
  OBVIOUS
<1>2. <<x, y>> \in Seq(B) /\ Len(<<x, y>>) = 2
  OBVIOUS
<1>3. a \in Seq(B) /\ Len(a) = 3 /\ a[1] = x /\ a[2] = y /\ a[3] = z
  BY <1>2, AppendProperties
<1> HIDE DEF a, b
<1>4. \A i \in 1 .. Len(a) : a[i] = b[i]
  BY <1>1, <1>3
<1>5. QED
  BY <1>1, <1>3, <1>4, SeqEqual DEF a, b

LEMMA AppendFourth ==
  ASSUME NEW B, NEW x \in B, NEW y \in B, NEW z \in B, NEW w \in B
  PROVE  Append(<<x, y, z>>, w) = <<x, y, z, w>>
<1> DEFINE a == Append(<<x, y, z>>, w)
           b == <<x, y, z, w>>
<1>1. b \in Seq(B) /\ Len(b) = 4 /\ b[1] = x /\ b[2] = y /\ b[3] = z /\ b[4] = w
  OBVIOUS
<1>2. <<x, y, z>> \in Seq(B) /\ Len(<<x, y, z>>) = 3
  OBVIOUS
<1>3. a \in Seq(B) /\ Len(a) = 4 /\ a[1] = x /\ a[2] = y /\ a[3] = z /\ a[4] = w
  BY <1>2, AppendProperties
<1> HIDE DEF a, b
<1>4. \A i \in 1 .. Len(a) : a[i] = b[i]
  BY <1>1, <1>3
<1>5. QED
  BY <1>1, <1>3, <1>4, SeqEqual DEF a, b

\* A fold over four elements.
LEMMA FoldFour ==
  ASSUME NEW A, NEW B, NEW F, Folding(F, A, B), NEW base \in A,
         NEW a \in B, NEW b \in B, NEW c \in B, NEW d \in B
  PROVE  Fold(F, base, <<a, b, c, d>>) = F[<<F[<<F[<<F[<<base, a>>], b>>], c>>], d>>]
<1>1. <<a, b>> \in Seq(B) /\ <<a, b, c>> \in Seq(B)
  OBVIOUS
<1>2. Append(<<a, b>>, c) = <<a, b, c>> /\ Append(<<a, b, c>>, d) = <<a, b, c, d>>
  BY AppendThird, AppendFourth
<1>3. Fold(F, base, <<a, b>>) = F[<<F[<<base, a>>], b>>]
  BY FoldTwo
<1>4. \A s \in Seq(B), e \in B : Fold(F, base, Append(s, e)) = F[<<Fold(F, base, s), e>>]
  BY FoldIs
<1>5. Fold(F, base, Append(<<a, b>>, c)) = F[<<Fold(F, base, <<a, b>>), c>>]
  BY <1>1, <1>4, Zenon
<1>6. Fold(F, base, Append(<<a, b, c>>, d)) = F[<<Fold(F, base, <<a, b, c>>), d>>]
  BY <1>1, <1>4, Zenon
<1>7. QED
  BY <1>2, <1>3, <1>5, <1>6, Zenon

\* A number of two bytes.
LEMMA SignedTwo ==
  ASSUME NEW a \in Octet, NEW b \in Octet,
         NEW k, k = (2 * Group) * a, NEW m, m = (2 * Group) * (2 * Group)
  PROVE  Signed(<<a, b>>) = IF a < Group THEN k + b ELSE (k + b) - m
<1>1. <<a, b>> \in Seq(Octet) /\ <<a, b>>[1] = a
  OBVIOUS
<1>2. Group \in Int /\ a \in Int /\ b \in Int /\ 0 \in Int /\ 1 \in Int
  BY OctetIs, VarIntAssumption DEF VarIntAssumption
<1>3. Fold(Shift, 0, <<a, b>>) = Shift[<<Shift[<<0, a>>], b>>]
  <2>1. Folding(Shift, Int, Octet) /\ 0 \in Int
    BY ShiftIs
  <2>2. QED
    BY <2>1, FoldTwo
<1>4. Fold(Raise, 1, <<a, b>>) = Raise[<<Raise[<<1, a>>], b>>]
  <2>1. Folding(Raise, Int, Octet) /\ 1 \in Int
    BY ShiftIs
  <2>2. QED
    BY <2>1, FoldTwo
<1>5. Shift[<<0, a>>] = a /\ Raise[<<1, a>>] = 2 * Group
  BY <1>2, ShiftIs
<1>6. Shift[<<a, b>>] = (2 * Group) * a + b
  BY <1>2, ShiftIs
<1>7. Raise[<<2 * Group, b>>] = (2 * Group) * (2 * Group)
  <2>1. 2 * Group \in Int
    BY <1>2
  <2>2. QED
    BY <2>1, ShiftIs
<1>8. Fold(Shift, 0, <<a, b>>) = (2 * Group) * a + b
  BY <1>3, <1>5, <1>6, Zenon
<1>9. Fold(Raise, 1, <<a, b>>) = (2 * Group) * (2 * Group)
  BY <1>4, <1>5, <1>7, Zenon
<1>10. PICK x : x = <<a, b>>
  OBVIOUS
<1>11. Signed(x) = Fold(Shift, 0, x) - IF x[1] < Group THEN 0 ELSE Fold(Raise, 1, x)
  BY <1>1, <1>10, SignedIs
<1>12. x[1] = a
  BY <1>1, <1>10
<1>13. Fold(Shift, 0, x) = k + b /\ Fold(Raise, 1, x) = m
  BY <1>8, <1>9, <1>10
<1>14. k \in Int /\ m \in Int
  BY <1>2
<1>15. Signed(x) = (k + b) - IF a < Group THEN 0 ELSE m
  BY <1>11, <1>12, <1>13
<1>16. QED
  BY <1>2, <1>10, <1>14, <1>15

\* ... and a small one of four.
LEMMA SignedFour ==
  ASSUME NEW n \in Octet
  PROVE  Signed(<<0, 0, 0, n>>) = n
<1>1. 0 \in Octet /\ <<0, 0, 0, n>> \in Seq(Octet) /\ <<0, 0, 0, n>>[1] = 0
  BY VarIntAssumption DEF VarIntAssumption, Octet
<1>2. Group \in Int /\ n \in Int /\ 0 < Group
  BY OctetIs, VarIntAssumption DEF VarIntAssumption
<1>3. Fold(Shift, 0, <<0, 0, 0, n>>) = Shift[<<Shift[<<Shift[<<Shift[<<0, 0>>], 0>>], 0>>], n>>]
  <2>1. Folding(Shift, Int, Octet) /\ 0 \in Int
    BY ShiftIs
  <2>2. QED
    BY <1>1, <2>1, FoldFour
<1>4. Shift[<<0, 0>>] = 0 /\ Shift[<<0, n>>] = n
  BY <1>1, <1>2, ShiftIs
<1>5. PICK x : x = <<0, 0, 0, n>>
  OBVIOUS
<1>6. Signed(x) = Fold(Shift, 0, x) - IF x[1] < Group THEN 0 ELSE Fold(Raise, 1, x)
  BY <1>1, <1>5, SignedIs
<1>7. Fold(Shift, 0, x) = n /\ x[1] = 0
  BY <1>1, <1>3, <1>4, <1>5
<1>8. Signed(x) = n
  BY <1>2, <1>6, <1>7
<1>9. QED
  BY <1>5, <1>8

\* Of the numbers of two bytes, MinusOne is -1.
LEMMA MinusOneIs ==
  ASSUME NEW a \in Octet, NEW b \in Octet
  PROVE  Signed(<<a, b>>) = -1 <=> <<a, b>> = MinusOne
<1>1. PICK g : g = 2 * Group
  OBVIOUS
<1>2. g \in Int /\ g > 2 /\ a \in 0 .. g - 1 /\ b \in 0 .. g - 1 /\ Group \in Int
  BY <1>1, VarIntAssumption DEF VarIntAssumption, Octet
<1>3. PICK k, m : k = g * a /\ m = g * g
  OBVIOUS
<1>4. k \in Int /\ m \in Int
  BY <1>2, <1>3
<1>5. Signed(<<a, b>>) = IF a < Group THEN k + b ELSE (k + b) - m
  BY <1>1, <1>3, SignedTwo
<1>6. MinusOne = <<g - 1, g - 1>>
  BY <1>1 DEF MinusOne
<1>7. k >= 0
  <2>1. \A i, j \in Nat : i * j >= 0
    OBVIOUS
  <2>2. g \in Nat /\ a \in Nat
    BY <1>2
  <2>3. QED
    BY <1>3, <2>1, <2>2
<1>8. a = g - 1 => k = m - g
  <2>1. \A i \in Int : i * (i - 1) = i * i - i
    OBVIOUS
  <2>2. g * (g - 1) = g * g - g
    BY <1>2, <2>1
  <2>3. QED
    BY <1>3, <2>2
<1>9. a < g - 1 => k <= (m - g) - g
  <2>1. \A i \in Nat : \A j \in Int : j <= i - 2 => i * j <= i * (i - 2)
    OBVIOUS
  <2>2. \A i \in Int : i * (i - 2) = (i * i - i) - i
    OBVIOUS
  <2>3. g * (g - 2) = (m - g) - g
    BY <1>2, <1>3, <2>2
  <2>4. SUFFICES ASSUME a < g - 1 PROVE k <= (m - g) - g
    OBVIOUS
  <2>5. g \in Nat /\ a \in Int /\ a <= g - 2
    BY <1>2, <2>4
  <2>6. g * a <= g * (g - 2)
    BY <2>1, <2>5
  <2>7. QED
    BY <1>3, <2>3, <2>6
<1>10. <<a, b>> = MinusOne <=> a = g - 1 /\ b = g - 1
  BY <1>6
<1>11. a < Group => a < g - 1
  BY <1>1, <1>2
<1>12. CASE a = g - 1
  BY <1>2, <1>4, <1>5, <1>8, <1>10, <1>11, <1>12
<1>13. CASE a < g - 1
  <2>1. k + b >= 0 /\ (k + b) - m < -1
    BY <1>2, <1>4, <1>7, <1>9, <1>13
  <2>2. Signed(<<a, b>>) # -1
    BY <1>5, <2>1
  <2>3. QED
    BY <1>2, <1>10, <1>13, <2>2
<1>14. QED
  BY <1>2, <1>12, <1>13

\* What Packed makes of a number of a few elements is that number.
LEMMA PackedSigned ==
  ASSUME NEW n \in Nat, n < Group
  PROVE  /\ Signed(Packed(2, n)) = n /\ Signed(Packed(4, n)) = n
         /\ Len(Packed(2, n)) = 2 /\ Len(Packed(4, n)) = 4
<1>1. n \in Octet /\ 0 \in Octet /\ 0 < Group
  BY VarIntAssumption DEF VarIntAssumption, Octet
<1>2. Packed(2, n) = <<0, n>>
  BY DEF Packed
<1>3. Packed(4, n) = <<0, 0, 0, n>>
  BY DEF Packed
<1>4. Signed(<<0, n>>) = n
  <2>1. PICK k, m : k = (2 * Group) * 0 /\ m = (2 * Group) * (2 * Group)
    OBVIOUS
  <2>2. Signed(<<0, n>>) = IF 0 < Group THEN k + n ELSE (k + n) - m
    BY <1>1, <2>1, SignedTwo
  <2>3. k = 0
    BY <2>1, VarIntAssumption DEF VarIntAssumption
  <2>4. QED
    BY <1>1, <2>2, <2>3
<1>5. Signed(<<0, 0, 0, n>>) = n
  BY <1>1, SignedFour
<1>6. QED
  BY <1>2, <1>3, <1>4, <1>5

\* So many bytes, first, are what a reading of that many gives; less is not enough.
LEMMA FixedFirst ==
  ASSUME NEW x \in Seq(Octet), NEW y \in Seq(Octet)
  PROVE  ReadFixed(Len(x), x \o y) = Got(x, y)
<1>1. Took(Len(x), x \o y) = x /\ Left(Len(x), x \o y) = y
  BY JoinedApart
<1>2. Len(x \o y) = Len(x) + Len(y) /\ Len(x) \in Nat /\ Len(y) \in Nat
  OBVIOUS
<1>3. ~(Len(x \o y) < Len(x))
  BY <1>2
<1>4. QED
  BY <1>1, <1>3, Zenon DEF ReadFixed

LEMMA FixedShort ==
  ASSUME NEW n \in Nat, NEW s \in Seq(Octet), Len(s) < n
  PROVE  ~ReadFixed(n, s).ok
BY DEF ReadFixed, Raised

-----------------------------------------------------------------------------
(* The elements of the arrays *)

LEMMA SlotThence ==
  ASSUME NEW s, NEW block, block = ReadFixed(2, s), NEW two,
         two = Thence(block, ReadFixed(3, block.rest))
  PROVE  ReadSlot(s) = IF ~block.ok \/ Signed(block.value) = -1 THEN block
                       ELSE Thence(two, ReadNbt(two.rest))
<1>1. Then(block, LAMBDA r : ReadFixed(3, r)) = two
  BY Zenon DEF Then, Thence
<1>2. Then(two, ReadNbt) = Thence(two, ReadNbt(two.rest))
  BY Zenon DEF Then, Thence
<1>3. ReadSlot(s) = IF ~block.ok \/ Signed(block.value) = -1 THEN block
                    ELSE Then(Then(block, LAMBDA r : ReadFixed(3, r)), ReadNbt)
  BY Zenon DEF ReadSlot
<1>4. QED
  BY <1>1, <1>2, <1>3, Zenon

LEMMA RecordThence ==
  ASSUME NEW s, NEW two, two = ReadFixed(2, s)
  PROVE  ReadRecord(s) = Thence(two, ReadVarInt(two.rest))
BY Zenon DEF ReadRecord, Then, Thence

\* What the reading of a slot may give.
LEMMA SlotOutcome ==
  ASSUME NEW s \in Seq(Octet)
  PROVE  ReadSlot(s) \in Outcome(Flat)
<1>1. PICK block : block = ReadFixed(2, s)
  OBVIOUS
<1>2. block \in Outcome(Flat) /\ block.rest \in Seq(Octet)
  BY <1>1, FixedOutcome DEF Outcome
<1>3. PICK two : two = Thence(block, ReadFixed(3, block.rest))
  OBVIOUS
<1>4. two \in Outcome(Flat) /\ two.rest \in Seq(Octet)
  <2>1. ReadFixed(3, block.rest) \in Outcome(Flat)
    BY <1>2, FixedOutcome
  <2>2. two \in Outcome(Flat)
    BY <1>2, <1>3, <2>1, ThenceOutcome DEF Flat
  <2>3. QED
    BY <2>2 DEF Outcome
<1>5. Thence(two, ReadNbt(two.rest)) \in Outcome(Flat)
  <2>1. ReadNbt(two.rest) \in Outcome(Flat)
    BY <1>4, NbtOutcome
  <2>2. QED
    BY <1>4, <2>1, ThenceOutcome DEF Flat
<1>6. QED
  BY <1>1, <1>2, <1>3, <1>5, SlotThence

LEMMA RecordOutcome ==
  ASSUME NEW s \in Seq(Octet)
  PROVE  ReadRecord(s) \in Outcome(Flat)
<1>1. PICK two : two = ReadFixed(2, s)
  OBVIOUS
<1>2. two \in Outcome(Flat) /\ two.rest \in Seq(Octet)
  BY <1>1, FixedOutcome DEF Outcome
<1>3. ReadVarInt(two.rest) \in Outcome(Flat)
  BY <1>2, NumberOutcome
<1>4. Thence(two, ReadVarInt(two.rest)) \in Outcome(Flat)
  BY <1>2, <1>3, ThenceOutcome DEF Flat
<1>5. QED
  BY <1>1, <1>4, RecordThence

\* What one read and the next give, when both return and when one raises.
LEMMA ThenceGot ==
  ASSUME NEW v, NEW r, NEW w, NEW q
  PROVE  Thence(Got(v, r), Got(w, q)) = Got(v \o w, q)
BY DEF Thence, Got

LEMMA ThenceBad ==
  ASSUME NEW got \in Outcome(Flat), NEW next \in Outcome(Flat), ~got.ok \/ ~next.ok
  PROVE  ~Thence(got, next).ok
BY ThenceOutcome DEF Flat

\* The parts of a slot that is not empty.
LEMMA SlotParts ==
  ASSUME NEW v \in Seq(Octet), Len(v) = 6
  PROVE  \E a, b, c \in Seq(Octet) :
           /\ Len(a) = 2 /\ Len(b) = 3 /\ Len(c) = 1
           /\ a = SubSeq(v, 1, 2) /\ v = a \o (b \o c)
<1>1. PICK a, t : a = Took(2, v) /\ t = Left(2, v)
  OBVIOUS
<1>2. a \in Seq(Octet) /\ t \in Seq(Octet) /\ Len(a) = 2 /\ Len(t) = 4 /\ v = a \o t
  <2>1. Len(v) \in Nat /\ 2 \in 0 .. Len(v)
    OBVIOUS
  <2>2. /\ Took(2, v) \in Seq(Octet) /\ Left(2, v) \in Seq(Octet)
        /\ Len(Took(2, v)) = 2 /\ Len(Left(2, v)) = Len(v) - 2
        /\ Took(2, v) \o Left(2, v) = v
    BY <2>1, Splits
  <2>3. QED
    BY <1>1, <2>2
<1>3. PICK b, c : b = Took(3, t) /\ c = Left(3, t)
  OBVIOUS
<1>4. b \in Seq(Octet) /\ c \in Seq(Octet) /\ Len(b) = 3 /\ Len(c) = 1 /\ t = b \o c
  <2>1. 3 \in 0 .. Len(t)
    BY <1>2
  <2>2. /\ Took(3, t) \in Seq(Octet) /\ Left(3, t) \in Seq(Octet)
        /\ Len(Took(3, t)) = 3 /\ Len(Left(3, t)) = Len(t) - 3
        /\ Took(3, t) \o Left(3, t) = t
    BY <1>2, <2>1, Splits
  <2>3. QED
    BY <1>2, <1>3, <2>2
<1>5. a = SubSeq(v, 1, 2)
  BY <1>1 DEF Took
<1>6. QED
  BY <1>2, <1>4, <1>5

LEMMA NotEmpty ==
  ASSUME NEW a \in Seq(Octet), Len(a) = 2
  PROVE  /\ Signed(a) = -1 <=> a = MinusOne
         /\ \A y \in Seq(Octet) : ReadFixed(2, a \o y) = Got(a, y)
<1>1. a[1] \in Octet /\ a[2] \in Octet /\ a = <<a[1], a[2]>>
  <2>1. 1 \in 1 .. Len(a) /\ 2 \in 1 .. Len(a)
    OBVIOUS
  <2>2. a[1] \in Octet /\ a[2] \in Octet
    BY <2>1, ElementOfSeq
  <2>3. PICK x, y, b : x = a[1] /\ y = a[2] /\ b = <<x, y>>
    OBVIOUS
  <2>4. b \in Seq(Octet) /\ Len(b) = 2 /\ b[1] = x /\ b[2] = y
    BY <2>2, <2>3
  <2>5. \A i \in 1 .. Len(a) : a[i] = b[i]
    BY <2>3, <2>4
  <2>6. a = b
    BY <2>4, <2>5, SeqEqual
  <2>7. QED
    BY <2>2, <2>3, <2>6
<1>2. PICK x, y : x = a[1] /\ y = a[2]
  OBVIOUS
<1>3. Signed(<<x, y>>) = -1 <=> <<x, y>> = MinusOne
  BY <1>1, <1>2, MinusOneIs
<1>4. \A z \in Seq(Octet) : ReadFixed(2, a \o z) = Got(a, z)
  BY FixedFirst
<1>5. QED
  BY <1>1, <1>2, <1>3, <1>4

LEMMA ThreeIs == ASSUME NEW b \in Seq(Octet), Len(b) = 3
                 PROVE  \A y \in Seq(Octet) : ReadFixed(3, b \o y) = Got(b, y)
BY FixedFirst

LEMMA NbtFirst ==
  ASSUME NEW c \in Seq(Octet), Len(c) = 1, NEW y \in Seq(Octet)
  PROVE  ReadNbt(c \o y) = Got(c, y) \/ ~ReadNbt(c \o y).ok
<1>1. ReadFixed(1, c \o y) = Got(c, y)
  BY FixedFirst
<1>2. QED
  BY <1>1 DEF ReadNbt, Raised

LEMMA SlotIs ==
  ASSUME NEW v, IsSlot(v)
  PROVE  /\ v \in Seq(Octet) /\ v # <<>>
         /\ \/ v = MinusOne /\ Len(v) = 2
            \/ Len(v) = 6 /\ SubSeq(v, 1, 2) # MinusOne
<1>1. Len(MinusOne) = 2
  BY DEF MinusOne
<1>2. QED
  BY <1>1 DEF IsSlot

LEMMA NotNil ==
  ASSUME NEW S, NEW s \in Seq(S), Len(s) # 0
  PROVE  s # <<>>
OBVIOUS

\* What a server writes for a slot is read as that, but for its tag.
LEMMA SlotFirst ==
  ASSUME NEW v, IsSlot(v), NEW y \in Seq(Octet)
  PROVE  \/ ReadSlot(v \o y) = Got(v, y)
         \/ ~ReadSlot(v \o y).ok /\ Len(v) > 2
<1>1. CASE v = MinusOne /\ Len(v) = 2
  <2>1. v \in Seq(Octet)
    BY SlotIs
  <2>2. Signed(v) = -1 /\ ReadFixed(2, v \o y) = Got(v, y)
    BY <1>1, <2>1, NotEmpty
  <2>3. PICK block, two, s : block = Got(v, y) /\ two = Thence(block, ReadFixed(3, block.rest))
                             /\ s = v \o y
    OBVIOUS
  <2>4. block.value = v
    BY <2>3 DEF Got
  <2>5. ReadSlot(s) = block
    BY <2>2, <2>3, <2>4, SlotThence
  <2>6. QED
    BY <2>3, <2>5
<1>2. CASE Len(v) = 6 /\ SubSeq(v, 1, 2) # MinusOne
  <2>1. v \in Seq(Octet)
    BY SlotIs
  <2>2. PICK a, b, c \in Seq(Octet) :
           /\ Len(a) = 2 /\ Len(b) = 3 /\ Len(c) = 1
           /\ a = SubSeq(v, 1, 2) /\ v = a \o (b \o c)
    BY <1>2, <2>1, SlotParts
  <2>x. a \in Seq(Octet) /\ b \in Seq(Octet) /\ c \in Seq(Octet)
    BY <2>2
  <2>3. PICK s, r, q : s = v \o y /\ r = b \o (c \o y) /\ q = c \o y
    OBVIOUS
  <2>4. r \in Seq(Octet) /\ q \in Seq(Octet) /\ s = a \o r /\ r = b \o q /\ (a \o b) \o c = v
    <3>1. v = a \o (b \o c) /\ q = c \o y /\ r = b \o q
      BY <2>2, <2>3
    <3>2. q \in Seq(Octet) /\ b \o c \in Seq(Octet)
      BY <2>x, <3>1, JoinType
    <3>3. r \in Seq(Octet)
      BY <2>x, <3>1, <3>2, JoinType
    <3>4. Reassociates(Octet)
      BY Reassociate
    <3>5. \A x, t, u \in Seq(Octet) : (x \o t) \o u = x \o (t \o u)
      BY <3>4, Zenon DEF Reassociates
    <3>6. (a \o (b \o c)) \o y = a \o ((b \o c) \o y)
      BY <2>x, <3>2, <3>5, Zenon
    <3>7. (b \o c) \o y = b \o (c \o y)
      BY <2>x, <3>5, Zenon
    <3>8. (a \o b) \o c = a \o (b \o c)
      BY <2>x, <3>5, Zenon
    <3>9. v \o y = a \o r /\ (a \o b) \o c = v
      BY <3>1, <3>6, <3>7, <3>8, Zenon
    <3>10. QED
      BY <2>3, <3>1, <3>2, <3>3, <3>9
  <2>5. ReadFixed(2, s) = Got(a, r) /\ Signed(a) # -1
    BY <1>2, <2>2, <2>4, NotEmpty
  <2>6. ReadFixed(3, r) = Got(b, q)
    BY <2>2, <2>4, ThreeIs
  <2>7. Thence(Got(a, r), Got(b, q)) = Got(a \o b, q)
    BY ThenceGot
  <2>8. ReadNbt(q) = Got(c, y) \/ ~ReadNbt(q).ok
    BY <2>2, <2>3, NbtFirst
  <2>9. PICK block, two : block = Got(a, r) /\ two = Got(a \o b, q)
    OBVIOUS
  <2>10. block.ok /\ block.value = a /\ block.rest = r /\ two.rest = q
    BY <2>9 DEF Got
  <2>11. two = Thence(block, ReadFixed(3, block.rest))
    BY <2>6, <2>7, <2>9, <2>10
  <2>12. ReadSlot(s) = Thence(two, ReadNbt(two.rest))
    <3>1. block = ReadFixed(2, s) /\ ~(~block.ok \/ Signed(block.value) = -1)
      BY <2>5, <2>9, <2>10
    <3>2. ReadSlot(s) = IF ~block.ok \/ Signed(block.value) = -1 THEN block
                        ELSE Thence(two, ReadNbt(two.rest))
      BY <2>11, <3>1, SlotThence
    <3>3. QED
      BY <3>1, <3>2, Zenon
  <2>13. CASE ReadNbt(q) = Got(c, y)
    <3>1. Thence(Got(a \o b, q), Got(c, y)) = Got((a \o b) \o c, y)
      BY ThenceGot
    <3>2. ReadSlot(s) = Got(v, y)
      BY <2>4, <2>9, <2>10, <2>12, <2>13, <3>1
    <3>3. QED
      BY <2>3, <3>2
  <2>14. CASE ~ReadNbt(q).ok
    <3>1. a \o b \in Flat /\ q \in Seq(Octet)
      BY <2>4, JoinType, OctetsFlat
    <3>2. two \in Outcome(Flat)
      BY <2>9, <3>1, GotOutcome
    <3>3. ReadNbt(q) \in Outcome(Flat)
      BY <2>4, NbtOutcome
    <3>4. ~Thence(two, ReadNbt(q)).ok
      BY <2>14, <3>2, <3>3, ThenceBad
    <3>5. ~ReadSlot(s).ok
      BY <2>10, <2>12, <3>4
    <3>6. QED
      BY <1>2, <2>3, <3>5
  <2>15. QED
    BY <2>8, <2>13, <2>14
<1>3. QED
  BY <1>1, <1>2, SlotIs

\* ... and without its last byte it is not read.
LEMMA SlotCut ==
  ASSUME NEW v, IsSlot(v)
  PROVE  Front(v) \in Seq(Octet) /\ ~ReadSlot(Front(v)).ok
<1>0. v \in Seq(Octet) /\ v # <<>>
  BY SlotIs
<1>1. CASE v = MinusOne /\ Len(v) = 2
  <2>1. PICK f, e : f = Front(v) /\ e \in Octet /\ f \in Seq(Octet) /\ v = Append(f, e)
    BY <1>0, FrontIs
  <2>2. Len(f) < 2
    BY <1>1, <2>1, AppendProperties
  <2>3. ~ReadFixed(2, f).ok
    BY <2>1, <2>2, FixedShort
  <2>4. PICK block, two : block = ReadFixed(2, f) /\ two = Thence(block, ReadFixed(3, block.rest))
    OBVIOUS
  <2>5. ReadSlot(f) = block
    BY <2>3, <2>4, SlotThence
  <2>6. QED
    BY <2>1, <2>3, <2>4, <2>5
<1>2. CASE Len(v) = 6 /\ SubSeq(v, 1, 2) # MinusOne
  <2>2. PICK a, b, c \in Seq(Octet) :
           /\ Len(a) = 2 /\ Len(b) = 3 /\ Len(c) = 1
           /\ a = SubSeq(v, 1, 2) /\ v = a \o (b \o c)
    BY <1>2, <1>0, SlotParts
  <2>x. a \in Seq(Octet) /\ b \in Seq(Octet) /\ c \in Seq(Octet) /\ Len(b) = 3 /\ Len(c) = 1
    BY <2>2
  <2>y. c # <<>>
    BY <2>x, NotNil
  <2>a. PICK r : r = b \o Front(c)
    OBVIOUS
  <2>b. PICK q : q = Front(c)
    OBVIOUS
  <2>c. PICK e \in Octet : c = Append(q, e) /\ q \in Seq(Octet)
    <3>2. QED
      BY <2>b, <2>x, <2>y, FrontIs
  <2>d. Len(q) = 0
    BY <2>2, <2>c, AppendProperties
  <2>3. Front(v) = a \o (b \o q) /\ b \o q \in Seq(Octet)
    <3>1. b \o c # <<>> /\ c # <<>> /\ b \o c \in Seq(Octet)
      <4>1. b \o c \in Seq(Octet) /\ Len(b \o c) = 4
        <5>1. b \o c \in Seq(Octet) /\ Len(b \o c) = Len(b) + Len(c)
          BY <2>x, ConcatProperties, Zenon
        <5>2. QED
          BY <2>x, <5>1
      <4>2. QED
        BY <2>x, <2>y, <4>1, NotNil
    <3>2. Front(a \o (b \o c)) = a \o Front(b \o c) /\ Front(b \o c) = b \o Front(c)
      BY <2>2, <3>1, FrontJoined
    <3>3. b \o q \in Seq(Octet)
      BY <2>2, <2>c, JoinType
    <3>4. QED
      BY <2>2, <2>b, <3>2, <3>3
  <2>4. PICK s : s = a \o r
    OBVIOUS
  <2>r. r = b \o q /\ r \in Seq(Octet)
    BY <2>3, <2>a, <2>b
  <2>s. s \in Seq(Octet) /\ s = Front(v)
    BY <2>3, <2>4, <2>r, JoinType
  <2>5. ReadFixed(2, s) = Got(a, r) /\ Signed(a) # -1
    BY <1>2, <2>2, <2>4, <2>r, NotEmpty
  <2>6. ReadFixed(3, r) = Got(b, q)
    BY <2>2, <2>c, <2>r, ThreeIs
  <2>7. Thence(Got(a, r), Got(b, q)) = Got(a \o b, q)
    BY ThenceGot
  <2>8. ~ReadNbt(q).ok
    <3>1. ~ReadFixed(1, q).ok
      <4>1. q \in Seq(Octet) /\ 1 \in Nat /\ Len(q) < 1
        BY <2>c, <2>d
      <4>2. QED
        BY <4>1, FixedShort
    <3>2. QED
      BY <3>1 DEF ReadNbt, Raised
  <2>9. PICK block, two : block = Got(a, r) /\ two = Got(a \o b, q)
    OBVIOUS
  <2>10. block.ok /\ block.value = a /\ block.rest = r /\ two.rest = q
    BY <2>9 DEF Got
  <2>11. two = Thence(block, ReadFixed(3, block.rest))
    BY <2>6, <2>7, <2>9, <2>10
  <2>12. ReadSlot(s) = Thence(two, ReadNbt(two.rest))
    <3>1. block = ReadFixed(2, s) /\ ~(~block.ok \/ Signed(block.value) = -1)
      BY <2>5, <2>9, <2>10
    <3>2. ReadSlot(s) = IF ~block.ok \/ Signed(block.value) = -1 THEN block
                        ELSE Thence(two, ReadNbt(two.rest))
      BY <2>11, <3>1, SlotThence
    <3>3. QED
      BY <3>1, <3>2, Zenon
  <2>14. ~ReadSlot(s).ok
    <3>1. a \o b \in Flat
      BY JoinType, OctetsFlat
    <3>2. two \in Outcome(Flat)
      BY <2>9, <2>c, <3>1, GotOutcome
    <3>3. ReadNbt(q) \in Outcome(Flat)
      BY <2>c, NbtOutcome
    <3>4. ~Thence(two, ReadNbt(q)).ok
      BY <2>8, <3>2, <3>3, ThenceBad
    <3>5. QED
      BY <2>10, <2>12, <3>4
  <2>15. QED
    BY <2>s, <2>14
<1>3. QED
  BY <1>1, <1>2, SlotIs

\* A record as a server may write it, and its bytes.
IsRecord(r) == r \in Seq(Nat) /\ Len(r) = 3 /\ {r[1], r[2]} \subseteq Octet /\ r[3] \in VarInts
RecordSent(r) == SubSeq(r, 1, 2) \o Sent(r[3])

LEMMA RecordIs ==
  ASSUME NEW r, IsRecord(r), NEW a, a = SubSeq(r, 1, 2)
  PROVE  a \in Seq(Octet) /\ Len(a) = 2 /\ a \o <<r[3]>> = r /\ r \in Flat
<1>1. PICK x, y, z : x = r[1] /\ y = r[2] /\ z = r[3]
  OBVIOUS
<1>2. r \in Seq(Nat) /\ Len(r) = 3 /\ x \in Octet /\ y \in Octet /\ z \in VarInts
  BY <1>1 DEF IsRecord
<1>3. x \in Nat /\ y \in Nat /\ z \in Nat
  BY <1>2, OctetIs, VarIntsNat
<1>4. a = <<x, y>>
  <2>1. a \in Seq(Nat) /\ Len(a) = 2 /\ a[1] = x /\ a[2] = y
    BY <1>1, <1>2, SubSeqProperties
  <2>2. PICK b : b = <<x, y>>
    OBVIOUS
  <2>3. b \in Seq(Nat) /\ Len(b) = 2 /\ b[1] = x /\ b[2] = y
    BY <1>3, <2>2
  <2>4. \A i \in 1 .. Len(a) : a[i] = b[i]
    BY <2>1, <2>3
  <2>5. a = b
    BY <2>1, <2>3, <2>4, SeqEqual
  <2>6. QED
    BY <2>2, <2>5
<1>5. a \in Seq(Octet) /\ Len(a) = 2
  BY <1>2, <1>4
<1>6. a \o <<z>> = <<x, y, z>>
  <2>1. <<x, y>> \in Seq(Nat)
    BY <1>3
  <2>2. Append(<<x, y>>, z) = <<x, y>> \o <<z>>
    BY <1>3, <2>1, AppendIsConcat
  <2>3. Append(<<x, y>>, z) = <<x, y, z>>
    BY <1>3, AppendThird
  <2>4. QED
    BY <1>4, <2>2, <2>3, Zenon
<1>7. r = <<x, y, z>>
  <2>1. PICK b : b = <<x, y, z>>
    OBVIOUS
  <2>2. b \in Seq(Nat) /\ Len(b) = 3 /\ b[1] = x /\ b[2] = y /\ b[3] = z
    BY <1>3, <2>1
  <2>3. \A i \in 1 .. Len(r) : r[i] = b[i]
    BY <1>1, <1>2, <2>2
  <2>4. r = b
    BY <1>2, <2>2, <2>3, SeqEqual
  <2>5. QED
    BY <2>1, <2>4
<1>8. r \in Flat
  BY <1>2, SeqMonotonic DEF Flat
<1>9. QED
  BY <1>1, <1>5, <1>6, <1>7, <1>8

LEMMA RecordFirst ==
  ASSUME NEW r, IsRecord(r), NEW y \in Seq(Octet)
  PROVE  RecordSent(r) \in Seq(Octet) /\ ReadRecord(RecordSent(r) \o y) = Got(r, y)
<1>1. PICK a, n : a = SubSeq(r, 1, 2) /\ n = r[3]
  OBVIOUS
<1>2. a \in Seq(Octet) /\ Len(a) = 2 /\ a \o <<n>> = r /\ n \in VarInts
  BY <1>1, RecordIs DEF IsRecord
<1>3. PICK t : t = Sent(n)
  OBVIOUS
<1>4. t \in Seq(Octet)
  BY <1>2, <1>3, SentIs
<1>5. RecordSent(r) = a \o t /\ a \o t \in Seq(Octet)
  BY <1>1, <1>2, <1>3, <1>4, JoinType DEF RecordSent
<1>6. Reassociates(Octet)
  BY Reassociate
<1>7. (a \o t) \o y = a \o (t \o y) /\ t \o y \in Seq(Octet)
  BY <1>2, <1>4, <1>6, JoinType, Zenon DEF Reassociates
<1>8. ReadFixed(2, a \o (t \o y)) = Got(a, t \o y)
  BY <1>2, <1>7, NotEmpty
<1>9. ReadVarInt(t \o y) = Got(<<n>>, y)
  BY <1>2, <1>3, NumberFirst
<1>10. Thence(Got(a, t \o y), Got(<<n>>, y)) = Got(r, y)
  <2>1. Thence(Got(a, t \o y), Got(<<n>>, y)) = Got(a \o <<n>>, y)
    BY ThenceGot
  <2>2. QED
    BY <1>2, <2>1
<1>11. PICK s, two : s = a \o (t \o y) /\ two = Got(a, t \o y)
  OBVIOUS
<1>12. two.rest = t \o y
  BY <1>11 DEF Got
<1>13. ReadRecord(s) = Thence(two, ReadVarInt(two.rest))
  BY <1>8, <1>11, RecordThence
<1>14. QED
  BY <1>5, <1>7, <1>9, <1>10, <1>11, <1>12, <1>13

LEMMA RecordCut ==
  ASSUME NEW r, IsRecord(r)
  PROVE  Front(RecordSent(r)) \in Seq(Octet) /\ ~ReadRecord(Front(RecordSent(r))).ok
<1>1. PICK a, n : a = SubSeq(r, 1, 2) /\ n = r[3]
  OBVIOUS
<1>2. a \in Seq(Octet) /\ Len(a) = 2 /\ n \in VarInts
  BY <1>1, RecordIs DEF IsRecord
<1>3. PICK t, q : t = Sent(n) /\ q = Front(Sent(n))
  OBVIOUS
<1>4. t \in Seq(Octet) /\ t # <<>> /\ q \in Seq(Octet) /\ ~Whole(q)
  <2>1. t \in Seq(Octet) /\ Len(t) = Size(n) /\ Size(n) \in 1 .. 5
    BY <1>2, <1>3, SentIs, SizeIs
  <2>2. q \in Seq(Octet) /\ ~Whole(q)
    BY <1>2, <1>3, SentFront
  <2>3. QED
    BY <2>1, <2>2
<1>5. Front(RecordSent(r)) = a \o q
  BY <1>1, <1>2, <1>3, <1>4, FrontJoined DEF RecordSent
<1>6. ReadFixed(2, a \o q) = Got(a, q)
  BY <1>2, <1>4, NotEmpty
<1>7. PICK s, two : s = a \o q /\ two = Got(a, q)
  OBVIOUS
<1>8. two.rest = q /\ two \in Outcome(Flat)
  <2>1. two.rest = q
    BY <1>7 DEF Got
  <2>2. a \in Flat
    BY <1>2, OctetsFlat
  <2>3. QED
    BY <1>4, <1>7, <2>1, <2>2, GotOutcome
<1>9. ~ReadVarInt(q).ok /\ ReadVarInt(q) \in Outcome(Flat)
  BY <1>4, NumberOutcome DEF ReadVarInt, Raised
<1>10. ReadRecord(s) = Thence(two, ReadVarInt(q))
  BY <1>6, <1>7, <1>8, RecordThence
<1>11. ~ReadRecord(s).ok
  BY <1>8, <1>9, <1>10, ThenceBad
<1>12. QED
  BY <1>2, <1>4, <1>5, <1>7, <1>11, JoinType

-----------------------------------------------------------------------------
(* The reading of an array: element after element *)

\* What is gathered of n elements that G reads.
One(got) == [got EXCEPT !.value = <<got.value>>]
Gathering(G) == [p \in Outcome(Nested) \X Nat |-> Thence(p[1], One(G[p[1].rest]))]
Count(n) == [x \in 1 .. n |-> x]
Gathered(G, n, s) == Fold(Gathering(G), Got(<<>>, s), Count(n))

Slots == [r \in Seq(Octet) |-> ReadSlot(r)]
Triples == [r \in Seq(Octet) |-> ReadFixed(3, r)]
Records == [r \in Seq(Octet) |-> ReadRecord(r)]
Elements == [Seq(Octet) -> Outcome(Flat)]

LEMMA ElementsAre ==
  /\ Slots \in Elements /\ Triples \in Elements /\ Records \in Elements
  /\ \A r \in Seq(Octet) : /\ Slots[r] = ReadSlot(r) /\ Triples[r] = ReadFixed(3, r)
                           /\ Records[r] = ReadRecord(r)
<1>1. \A r \in Seq(Octet) : /\ ReadSlot(r) \in Outcome(Flat) /\ ReadFixed(3, r) \in Outcome(Flat)
                            /\ ReadRecord(r) \in Outcome(Flat)
  BY SlotOutcome, RecordOutcome, FixedOutcome
<1>2. QED
  BY <1>1 DEF Slots, Triples, Records, Elements

LEMMA OneOutcome ==
  ASSUME NEW got \in Outcome(Flat)
  PROVE  /\ One(got) \in Outcome(Nested) /\ One(got).ok = got.ok
         /\ One(got).value = <<got.value>> /\ One(got).rest = got.rest
<1>1. got = [ok |-> got.ok, value |-> got.value, rest |-> got.rest]
  BY DEF Outcome
<1>2. One(got) = [ok |-> got.ok, value |-> <<got.value>>, rest |-> got.rest]
  BY <1>1 DEF One
<1>3. got.ok \in BOOLEAN /\ got.value \in Flat /\ got.rest \in Seq(Octet)
  BY DEF Outcome
<1>4. <<got.value>> \in Nested
  BY <1>3 DEF Nested, Flat
<1>5. QED
  BY <1>2, <1>3, <1>4 DEF Outcome

LEMMA NextGathered ==
  ASSUME NEW got \in Outcome(Nested), NEW next \in Outcome(Nested)
  PROVE  /\ Thence(got, next) \in Outcome(Nested)
         /\ Thence(got, next).ok <=> got.ok /\ next.ok
<1> DEFINE V == Seq(Int)
<1>1. got \in Outcome(Seq(V)) /\ next \in Outcome(Seq(V))
  BY DEF Nested
<1> HIDE DEF V
<1>2. /\ Thence(got, next) \in Outcome(Seq(V))
      /\ Thence(got, next).ok <=> got.ok /\ next.ok
  BY <1>1, ThenceOutcome
<1>3. QED
  BY <1>2 DEF V, Nested

LEMMA GatheringIs ==
  ASSUME NEW G \in Elements
  PROVE  /\ Folding(Gathering(G), Outcome(Nested), Nat)
         /\ \A got \in Outcome(Nested), x \in Nat :
              Gathering(G)[<<got, x>>] = Thence(got, One(G[got.rest]))
<1>1. ASSUME NEW got \in Outcome(Nested) PROVE Thence(got, One(G[got.rest])) \in Outcome(Nested)
  <2>1. got.rest \in Seq(Octet)
    BY DEF Outcome
  <2>2. G[got.rest] \in Outcome(Flat)
    BY <2>1 DEF Elements
  <2>3. QED
    BY <2>2, OneOutcome, NextGathered
<1>2. ASSUME NEW p \in Outcome(Nested) \X Nat
      PROVE  Thence(p[1], One(G[p[1].rest])) \in Outcome(Nested)
  BY <1>1
<1>3. Gathering(G) \in [Outcome(Nested) \X Nat -> Outcome(Nested)]
  BY <1>2 DEF Gathering
<1>4. ASSUME NEW got \in Outcome(Nested), NEW x \in Nat
      PROVE  Gathering(G)[<<got, x>>] = Thence(got, One(G[got.rest]))
  BY DEF Gathering
<1>5. QED
  BY <1>3, <1>4 DEF Folding

LEMMA CountIs ==
  /\ \A n \in Int : Count(n) \in Seq(Nat)
  /\ Count(0) = <<>>
  /\ \A n \in Nat : Count(n + 1) = Append(Count(n), n + 1)
<1>1. ASSUME NEW n \in Nat PROVE Count(n) \in Seq(Nat) /\ Len(Count(n)) = n
                                 /\ \A i \in 1 .. n : Count(n)[i] = i
  BY DEF Count
<1>2. ASSUME NEW n \in Int, n < 0 PROVE Count(n) = Count(0)
  <2>1. 1 .. n = 1 .. 0
    BY <1>2
  <2>2. QED
    BY <2>1 DEF Count
<1>3. \A n \in Int : Count(n) \in Seq(Nat)
  BY <1>1, <1>2
<1>4. Count(0) = <<>>
  BY DEF Count
<1>5. ASSUME NEW n \in Nat PROVE Count(n + 1) = Append(Count(n), n + 1)
  <2>1. PICK a, b : a = Count(n + 1) /\ b = Append(Count(n), n + 1)
    OBVIOUS
  <2>2. n + 1 \in Nat
    OBVIOUS
  <2>3. a \in Seq(Nat) /\ Len(a) = n + 1 /\ \A i \in 1 .. n + 1 : a[i] = i
    BY <1>1, <2>1, <2>2
  <2>4. b \in Seq(Nat) /\ Len(b) = n + 1 /\ \A i \in 1 .. n : b[i] = i /\ b[n + 1] = n + 1
    <3>1. PICK c : c = Count(n) /\ c \in Seq(Nat) /\ Len(c) = n /\ \A i \in 1 .. n : c[i] = i
      BY <1>1
    <3>2. /\ b \in Seq(Nat) /\ Len(b) = Len(c) + 1
          /\ \A i \in 1 .. Len(c) : b[i] = c[i]
          /\ b[Len(c) + 1] = n + 1
      BY <2>1, <2>2, <3>1, AppendProperties
    <3>3. QED
      BY <3>1, <3>2
  <2>5. b[n + 1] = n + 1
    <3>1. PICK c : c = Count(n) /\ c \in Seq(Nat) /\ Len(c) = n
      BY <1>1
    <3>2. b[Len(c) + 1] = n + 1
      BY <2>1, <2>2, <3>1, AppendProperties
    <3>3. QED
      BY <3>1, <3>2
  <2>6. \A i \in 1 .. n + 1 : a[i] = b[i]
    BY <2>3, <2>4, <2>5
  <2>7. a = b
    BY <2>3, <2>4, <2>6, SeqEqual
  <2>8. QED
    BY <2>1, <2>7
<1>6. QED
  BY <1>3, <1>4, <1>5

LEMMA GatherNext ==
  ASSUME NEW G \in Elements, NEW s \in Seq(Octet)
  PROVE  /\ \A n \in Int : Gathered(G, n, s) \in Outcome(Nested)
         /\ Gathered(G, 0, s) = Got(<<>>, s)
         /\ \A n \in Nat : Gathered(G, n + 1, s)
                             = Thence(Gathered(G, n, s), One(G[Gathered(G, n, s).rest]))
<1> DEFINE F == Gathering(G)
           A == Outcome(Nested)
           base == Got(<<>>, s)
<1>1. Folding(F, A, Nat) /\ \A got \in A, x \in Nat : F[<<got, x>>] = Thence(got, One(G[got.rest]))
  BY GatheringIs
<1>2. base \in A
  BY GotOutcome, OctetsFlat
<1>3. \A n \in Int : Gathered(G, n, s) = Fold(F, base, Count(n))
  BY Zenon DEF Gathered
<1> HIDE DEF F, A, base
<1>4. /\ \A q \in Seq(Nat) : Fold(F, base, q) \in A
      /\ Fold(F, base, <<>>) = base
      /\ \A q \in Seq(Nat), e \in Nat : Fold(F, base, Append(q, e)) = F[<<Fold(F, base, q), e>>]
  BY <1>1, <1>2, FoldIs
<1>5. \A n \in Int : Gathered(G, n, s) \in A
  BY <1>3, <1>4, CountIs
<1>6. Gathered(G, 0, s) = base
  BY <1>3, <1>4, CountIs
<1>7. ASSUME NEW n \in Nat
      PROVE  Gathered(G, n + 1, s) = Thence(Gathered(G, n, s), One(G[Gathered(G, n, s).rest]))
  <2>0. n \in Int /\ n + 1 \in Int /\ n + 1 \in Nat
    OBVIOUS
  <2>1. Count(n) \in Seq(Nat) /\ Count(n + 1) = Append(Count(n), n + 1) /\ n + 1 \in Nat
    BY <2>0, CountIs, Zenon
  <2>2. Fold(F, base, Count(n + 1)) = F[<<Fold(F, base, Count(n)), n + 1>>]
    BY <1>4, <2>1
  <2>3. Fold(F, base, Count(n)) \in A
    BY <1>4, <2>1
  <2>4. Gathered(G, n + 1, s) = F[<<Gathered(G, n, s), n + 1>>] /\ Gathered(G, n, s) \in A
    BY <1>3, <2>0, <2>1, <2>2, <2>3, Zenon
  <2>5. QED
    BY <1>1, <2>1, <2>4
<1>8. QED
  BY <1>5, <1>6, <1>7 DEF A, base

\* The elements of the three arrays, gathered.
LEMMA SlotsGathered ==
  ASSUME NEW n \in Int, NEW s \in Seq(Octet)
  PROVE  ReadTimes(n, ReadSlot, s) = Gathered(Slots, n, s)
<1> DEFINE A == Outcome(Nested)
           B == Nat
           F == Gathering(Slots)
           base == Got(<<>>, s)
           w == Count(n)
           op(z, b) == Thence(z, One(ReadSlot(z.rest)))
           P(g) == g = [t \in SUBSET DOMAIN w |->
                          IF t = {} THEN base ELSE op(g[t \ {Max(t)}], w[Max(t)])]
           c == CHOOSE g : P(g)
<1>1. ReadTimes(n, ReadSlot, s) = c[DOMAIN w]
  BY DEF ReadTimes, Then, Thence, One, Count, FoldLeft, MapThenFoldSet
<1>2. F \in [A \X B -> A] /\ \A z \in A, b \in B : F[<<z, b>>] = op(z, b)
  <2>1. F \in [A \X B -> A] /\ \A z \in A, b \in B : F[<<z, b>>] = Thence(z, One(Slots[z.rest]))
    BY ElementsAre, GatheringIs DEF Folding
  <2>2. ASSUME NEW z \in A PROVE Slots[z.rest] = ReadSlot(z.rest)
    <3>1. z.rest \in Seq(Octet)
      BY DEF Outcome
    <3>2. QED
      BY <3>1, ElementsAre
  <2>3. QED
    BY <2>1, <2>2
<1>3. w \in Seq(B) /\ base \in A
  BY CountIs, GotOutcome, OctetsFlat
<1> HIDE DEF op, F, A, B, base, w
<1>4. PICK g \in [SUBSET DOMAIN w -> A] : Folds(g, F, base, w)
  BY <1>2, <1>3, FoldsExists
<1>5. P(g)
  <2>1. ASSUME NEW t \in SUBSET DOMAIN w, t # {}
        PROVE  F[<<g[t \ {Max(t)}], w[Max(t)]>>] = op(g[t \ {Max(t)}], w[Max(t)])
    <3>1. w[Max(t)] \in B /\ g[t \ {Max(t)}] \in A
      BY <1>3, <2>1, LastOf
    <3>2. QED
      BY <1>2, <3>1
  <2>2. QED
    BY <1>4, <2>1 DEF Folds
<1>6. P(c)
  BY <1>5
<1> HIDE DEF c
<1>7. c[{}] = base
  BY <1>6
<1>8. ASSUME NEW t \in SUBSET DOMAIN w, t # {}, c[t \ {Max(t)}] \in A
      PROVE  c[t] = F[<<c[t \ {Max(t)}], w[Max(t)]>>]
  <2>1. w[Max(t)] \in B
    BY <1>3, <1>8, LastOf
  <2>2. c[t] = op(c[t \ {Max(t)}], w[Max(t)])
    BY <1>6, <1>8
  <2>3. QED
    BY <1>2, <1>8, <2>1, <2>2
<1>9. GoesOn(c, A, F, w)
  BY <1>8, Zenon DEF GoesOn
<1> HIDE DEF P
<1>10. Folding(F, A, B)
  BY <1>2 DEF Folding
<1>11. c[DOMAIN w] = Fold(F, base, w)
  BY <1>3, <1>7, <1>9, <1>10, FoldChosen
<1>12. QED
  BY <1>1, <1>11 DEF F, base, w, Gathered

LEMMA TriplesGathered ==
  ASSUME NEW n \in Int, NEW s \in Seq(Octet)
  PROVE  ReadTimes(n, LAMBDA r : ReadFixed(3, r), s) = Gathered(Triples, n, s)
<1> DEFINE A == Outcome(Nested)
           B == Nat
           F == Gathering(Triples)
           base == Got(<<>>, s)
           w == Count(n)
           op(z, b) == Thence(z, One(ReadFixed(3, z.rest)))
           P(g) == g = [t \in SUBSET DOMAIN w |->
                          IF t = {} THEN base ELSE op(g[t \ {Max(t)}], w[Max(t)])]
           c == CHOOSE g : P(g)
<1>1. ReadTimes(n, LAMBDA r : ReadFixed(3, r), s) = c[DOMAIN w]
  BY DEF ReadTimes, Then, Thence, One, Count, FoldLeft, MapThenFoldSet
<1>2. F \in [A \X B -> A] /\ \A z \in A, b \in B : F[<<z, b>>] = op(z, b)
  <2>1. F \in [A \X B -> A] /\ \A z \in A, b \in B : F[<<z, b>>] = Thence(z, One(Triples[z.rest]))
    BY ElementsAre, GatheringIs DEF Folding
  <2>2. ASSUME NEW z \in A PROVE Triples[z.rest] = ReadFixed(3, z.rest)
    <3>1. z.rest \in Seq(Octet)
      BY DEF Outcome
    <3>2. QED
      BY <3>1, ElementsAre
  <2>3. QED
    BY <2>1, <2>2
<1>3. w \in Seq(B) /\ base \in A
  BY CountIs, GotOutcome, OctetsFlat
<1> HIDE DEF op, F, A, B, base, w
<1>4. PICK g \in [SUBSET DOMAIN w -> A] : Folds(g, F, base, w)
  BY <1>2, <1>3, FoldsExists
<1>5. P(g)
  <2>1. ASSUME NEW t \in SUBSET DOMAIN w, t # {}
        PROVE  F[<<g[t \ {Max(t)}], w[Max(t)]>>] = op(g[t \ {Max(t)}], w[Max(t)])
    <3>1. w[Max(t)] \in B /\ g[t \ {Max(t)}] \in A
      BY <1>3, <2>1, LastOf
    <3>2. QED
      BY <1>2, <3>1
  <2>2. QED
    BY <1>4, <2>1 DEF Folds
<1>6. P(c)
  BY <1>5
<1> HIDE DEF c
<1>7. c[{}] = base
  BY <1>6
<1>8. ASSUME NEW t \in SUBSET DOMAIN w, t # {}, c[t \ {Max(t)}] \in A
      PROVE  c[t] = F[<<c[t \ {Max(t)}], w[Max(t)]>>]
  <2>1. w[Max(t)] \in B
    BY <1>3, <1>8, LastOf
  <2>2. c[t] = op(c[t \ {Max(t)}], w[Max(t)])
    BY <1>6, <1>8
  <2>3. QED
    BY <1>2, <1>8, <2>1, <2>2
<1>9. GoesOn(c, A, F, w)
  BY <1>8, Zenon DEF GoesOn
<1> HIDE DEF P
<1>10. Folding(F, A, B)
  BY <1>2 DEF Folding
<1>11. c[DOMAIN w] = Fold(F, base, w)
  BY <1>3, <1>7, <1>9, <1>10, FoldChosen
<1>12. QED
  BY <1>1, <1>11 DEF F, base, w, Gathered

LEMMA RecordsGathered ==
  ASSUME NEW n \in Int, NEW s \in Seq(Octet)
  PROVE  ReadTimes(n, ReadRecord, s) = Gathered(Records, n, s)
<1> DEFINE A == Outcome(Nested)
           B == Nat
           F == Gathering(Records)
           base == Got(<<>>, s)
           w == Count(n)
           op(z, b) == Thence(z, One(ReadRecord(z.rest)))
           P(g) == g = [t \in SUBSET DOMAIN w |->
                          IF t = {} THEN base ELSE op(g[t \ {Max(t)}], w[Max(t)])]
           c == CHOOSE g : P(g)
<1>1. ReadTimes(n, ReadRecord, s) = c[DOMAIN w]
  BY DEF ReadTimes, Then, Thence, One, Count, FoldLeft, MapThenFoldSet
<1>2. F \in [A \X B -> A] /\ \A z \in A, b \in B : F[<<z, b>>] = op(z, b)
  <2>1. F \in [A \X B -> A] /\ \A z \in A, b \in B : F[<<z, b>>] = Thence(z, One(Records[z.rest]))
    BY ElementsAre, GatheringIs DEF Folding
  <2>2. ASSUME NEW z \in A PROVE Records[z.rest] = ReadRecord(z.rest)
    <3>1. z.rest \in Seq(Octet)
      BY DEF Outcome
    <3>2. QED
      BY <3>1, ElementsAre
  <2>3. QED
    BY <2>1, <2>2
<1>3. w \in Seq(B) /\ base \in A
  BY CountIs, GotOutcome, OctetsFlat
<1> HIDE DEF op, F, A, B, base, w
<1>4. PICK g \in [SUBSET DOMAIN w -> A] : Folds(g, F, base, w)
  BY <1>2, <1>3, FoldsExists
<1>5. P(g)
  <2>1. ASSUME NEW t \in SUBSET DOMAIN w, t # {}
        PROVE  F[<<g[t \ {Max(t)}], w[Max(t)]>>] = op(g[t \ {Max(t)}], w[Max(t)])
    <3>1. w[Max(t)] \in B /\ g[t \ {Max(t)}] \in A
      BY <1>3, <2>1, LastOf
    <3>2. QED
      BY <1>2, <3>1
  <2>2. QED
    BY <1>4, <2>1 DEF Folds
<1>6. P(c)
  BY <1>5
<1> HIDE DEF c
<1>7. c[{}] = base
  BY <1>6
<1>8. ASSUME NEW t \in SUBSET DOMAIN w, t # {}, c[t \ {Max(t)}] \in A
      PROVE  c[t] = F[<<c[t \ {Max(t)}], w[Max(t)]>>]
  <2>1. w[Max(t)] \in B
    BY <1>3, <1>8, LastOf
  <2>2. c[t] = op(c[t \ {Max(t)}], w[Max(t)])
    BY <1>6, <1>8
  <2>3. QED
    BY <1>2, <1>8, <2>1, <2>2
<1>9. GoesOn(c, A, F, w)
  BY <1>8, Zenon DEF GoesOn
<1> HIDE DEF P
<1>10. Folding(F, A, B)
  BY <1>2 DEF Folding
<1>11. c[DOMAIN w] = Fold(F, base, w)
  BY <1>3, <1>7, <1>9, <1>10, FoldChosen
<1>12. QED
  BY <1>1, <1>11 DEF F, base, w, Gathered

LEMMA NestedIs == Nested = Seq(Flat)
BY DEF Nested, Flat

LEMMA PairGot ==
  ASSUME NEW a, NEW r, NEW e, NEW z
  PROVE  Thence(Got(a, r), One(Got(e, z))) = Got(a \o <<e>>, z)
BY DEF Thence, One, Got

\* Elements that are read as they were written, or not at all, one after another.
Faithful(G, v, f, bad) ==
  \A i \in 1 .. Len(v) : \A z \in Seq(Octet) :
    G[f[i] \o z] = Got(v[i], z) \/ (~G[f[i] \o z].ok /\ bad)

LEMMA FirstElements ==
  ASSUME NEW V, NEW v \in Seq(V), NEW k \in Nat, k < Len(v)
  PROVE  /\ SubSeq(v, 1, k) \in Seq(V) /\ v[k + 1] \in V
         /\ SubSeq(v, 1, k) \o <<v[k + 1]>> = SubSeq(v, 1, k + 1)
<1>0. Len(v) \in Nat /\ k + 1 \in 1 .. Len(v) /\ \A i \in 1 .. Len(v) : v[i] \in V
  BY ElementOfSeq
<1>1. PICK a, b, e : a = SubSeq(v, 1, k) /\ b = SubSeq(v, 1, k + 1) /\ e = v[k + 1]
  OBVIOUS
<1>2. a \in Seq(V) /\ Len(a) = k /\ \A i \in 1 .. k : a[i] = v[i]
  BY <1>0, <1>1, SubSeqProperties
<1>3. b \in Seq(V) /\ Len(b) = k + 1 /\ \A i \in 1 .. k + 1 : b[i] = v[i]
  BY <1>0, <1>1, SubSeqProperties
<1>4. e \in V
  BY <1>0, <1>1
<1>5. PICK c : c = Append(a, e)
  OBVIOUS
<1>6. /\ c \in Seq(V) /\ Len(c) = Len(a) + 1
      /\ \A i \in 1 .. Len(a) : c[i] = a[i]
      /\ c[Len(a) + 1] = e
  BY <1>2, <1>4, <1>5, AppendProperties
<1>7. \A i \in 1 .. k + 1 : c[i] = b[i]
  <2>1. b[k + 1] = e
    <3>1. k + 1 \in 1 .. k + 1
      OBVIOUS
    <3>2. QED
      BY <1>1, <1>3, <3>1
  <2>2. c[k + 1] = e
    BY <1>2, <1>6
  <2>3. ASSUME NEW i \in 1 .. k + 1 PROVE c[i] = b[i]
    <3>1. i \in 1 .. k \/ i = k + 1
      OBVIOUS
    <3>2. i \in 1 .. k => c[i] = a[i] /\ a[i] = v[i] /\ b[i] = v[i]
      BY <1>2, <1>3, <1>6
    <3>3. QED
      BY <2>1, <2>2, <3>1, <3>2
  <2>4. QED
    BY <2>3
<1>8. c = b
  BY <1>2, <1>3, <1>6, <1>7, SeqEqual
<1>9. c = a \o <<e>>
  BY <1>2, <1>4, <1>5, AppendIsConcat
<1>10. QED
  BY <1>1, <1>2, <1>4, <1>8, <1>9

\* The bytes s of elements v as they were written one by one, and of y behind them.
Array(G, v, f, bad, y, s) ==
  /\ G \in Elements /\ v \in Seq(Flat) /\ f \in Seq(Seq(Octet)) /\ Len(f) = Len(v)
  /\ bad \in BOOLEAN /\ Faithful(G, v, f, bad) /\ y \in Seq(Octet) /\ s = FlattenSeq(f) \o y

\* What has been gathered after n elements, and what is left.
Begun(v, n, f, y) == Got(SubSeq(v, 1, n), Rest(f, n) \o y)

\* The first elements of an array are read as they were written, unless one cannot be read.
LEMMA GathersSome ==
  ASSUME NEW G, NEW v, NEW f, NEW bad, NEW y, NEW s, Array(G, v, f, bad, y, s), NEW n \in Nat, n <= Len(v)
  PROVE  Gathered(G, n, s) = Begun(v, n, f, y) \/ (~Gathered(G, n, s).ok /\ bad)
<1>a. /\ G \in Elements /\ v \in Seq(Flat) /\ f \in Seq(Seq(Octet)) /\ Len(f) = Len(v)
      /\ bad \in BOOLEAN /\ Faithful(G, v, f, bad) /\ y \in Seq(Octet) /\ s = FlattenSeq(f) \o y
  BY DEF Array
<1> DEFINE P(k) == k <= Len(v) =>
                     \/ Gathered(G, k, s) = Got(SubSeq(v, 1, k), Rest(f, k) \o y)
                     \/ ~Gathered(G, k, s).ok /\ bad
           T == {k \in Nat : P(k)}
<1>0. Len(v) \in Nat /\ s \in Seq(Octet) /\ FlattenSeq(f) \in Seq(Octet)
  BY <1>a, FlattenType, JoinType
<1>1. 0 \in T
  <2>1. SubSeq(f, 1, Len(f)) = f /\ SubSeq(v, 1, 0) = <<>>
    <3>1. SubSeq(f, 1, Len(f)) = f
      <4> DEFINE R == Seq(Octet)
      <4>1. f \in Seq(R)
        BY <1>a
      <4> HIDE DEF R
      <4>2. QED
        BY <4>1
    <3>2. SubSeq(v, 1, 0) = <<>>
      BY SubSeqEmpty
    <3>3. QED
      BY <3>1, <3>2
  <2>2. Rest(f, 0) = FlattenSeq(f)
    <3>1. 0 + 1 = 1
      OBVIOUS
    <3>2. Rest(f, 0) = FlattenSeq(SubSeq(f, 0 + 1, Len(f)))
      BY Zenon DEF Rest
    <3>3. QED
      BY <2>1, <3>1, <3>2
  <2>3. Gathered(G, 0, s) = Got(<<>>, s)
    BY <1>a, <1>0, GatherNext
  <2>4. Gathered(G, 0, s) = Got(SubSeq(v, 1, 0), Rest(f, 0) \o y)
    BY <1>a, <2>1, <2>2, <2>3, Zenon
  <2>5. P(0)
    BY <2>4
  <2>6. QED
    BY <2>5
<1>2. ASSUME NEW k \in Nat, P(k) PROVE P(k + 1)
  <2>0. SUFFICES ASSUME k + 1 <= Len(v)
                 PROVE  \/ Gathered(G, k + 1, s) = Got(SubSeq(v, 1, k + 1), Rest(f, k + 1) \o y)
                        \/ ~Gathered(G, k + 1, s).ok /\ bad
    OBVIOUS
  <2>1. k < Len(v) /\ k <= Len(v) /\ k + 1 \in 1 .. Len(v) /\ k \in Int
    BY <1>0, <2>0
  <2>2. PICK got : got = Gathered(G, k, s)
    OBVIOUS
  <2>3. got \in Outcome(Nested) /\ Gathered(G, k + 1, s) = Thence(got, One(G[got.rest]))
    BY <1>a, <1>0, <2>1, <2>2, GatherNext
  <2>4. CASE ~got.ok /\ bad
    <3>1. Thence(got, One(G[got.rest])) = got
      BY <2>4, Zenon DEF Thence
    <3>2. QED
      BY <2>3, <2>4, <3>1
  <2>5. CASE got = Got(SubSeq(v, 1, k), Rest(f, k) \o y)
    <3>1. PICK z : z = Rest(f, k + 1) \o y
      OBVIOUS
    <3>2. z \in Seq(Octet) /\ f[k + 1] \in Seq(Octet) /\ Rest(f, k) \o y = f[k + 1] \o z
      <4>1. (k + 1) - 1 = k /\ k + 1 \in 1 .. Len(f) /\ k + 1 \in 0 .. Len(f)
        BY <1>a, <2>1
      <4>2. Rest(f, k) = f[k + 1] \o Rest(f, k + 1)
        <5>1. Rest(f, (k + 1) - 1) = f[k + 1] \o Rest(f, k + 1)
          BY <1>a, <4>1, PartsNext
        <5>2. QED
          BY <4>1, <5>1
      <4>3. Rest(f, k + 1) \in Seq(Octet)
        BY <1>a, <4>1, PartsType
      <4>4. f[k + 1] \in Seq(Octet)
        <5> DEFINE R == Seq(Octet)
        <5>1. f \in Seq(R)
          BY <1>a
        <5> HIDE DEF R
        <5>2. f[k + 1] \in R
          BY <4>1, <5>1, ElementOfSeq
        <5>3. QED
          BY <5>2 DEF R
      <4>5. Reassociates(Octet)
        BY Reassociate
      <4>6. \A a, b, c \in Seq(Octet) : (a \o b) \o c = a \o (b \o c)
        BY <4>5, Zenon DEF Reassociates
      <4>7. (f[k + 1] \o Rest(f, k + 1)) \o y = f[k + 1] \o (Rest(f, k + 1) \o y)
        BY <1>a, <4>3, <4>4, <4>6, Zenon
      <4>8. z \in Seq(Octet)
        BY <1>a, <3>1, <4>3, JoinType
      <4>9. QED
        BY <3>1, <4>2, <4>4, <4>7, <4>8, Zenon
    <3>3. PICK x : x = f[k + 1] \o z
      OBVIOUS
    <3>4. got = Got(SubSeq(v, 1, k), x) /\ got.rest = x /\ got.ok
      BY <2>5, <3>2, <3>3 DEF Got
    <3>5. G[x] = Got(v[k + 1], z) \/ (~G[x].ok /\ bad)
      BY <1>a, <2>1, <3>2, <3>3, Zenon DEF Faithful
    <3>6. CASE G[x] = Got(v[k + 1], z)
      <4>1. Thence(Got(SubSeq(v, 1, k), x), One(Got(v[k + 1], z)))
              = Got(SubSeq(v, 1, k) \o <<v[k + 1]>>, z)
        BY PairGot
      <4>2. SubSeq(v, 1, k) \o <<v[k + 1]>> = SubSeq(v, 1, k + 1)
        BY <2>1, FirstElements
      <4>3. Gathered(G, k + 1, s) = Got(SubSeq(v, 1, k + 1), z)
        BY <2>3, <3>4, <3>6, <4>1, <4>2
      <4>4. QED
        BY <3>1, <4>3
    <3>7. CASE ~G[x].ok /\ bad
      <4>1. x \in Seq(Octet)
        BY <3>2, <3>3, JoinType
      <4>2. G[x] \in Outcome(Flat)
        BY <1>a, <4>1 DEF Elements
      <4>3. One(G[x]) \in Outcome(Nested) /\ ~One(G[x]).ok
        BY <3>7, <4>2, OneOutcome
      <4>4. ~Thence(got, One(G[x])).ok
        BY <2>3, <4>3, NextGathered
      <4>5. QED
        BY <2>3, <3>4, <3>7, <4>4
    <3>8. QED
      BY <3>5, <3>6, <3>7
  <2>6. QED
    BY <1>2, <2>1, <2>2, <2>4, <2>5
<1> HIDE DEF P
<1>3. T \in SUBSET Nat /\ \A k \in T : k + 1 \in T
  BY <1>2
<1>4. T = Nat
  BY <1>1, <1>3, Induct
<1>5. \A k \in Nat : P(k)
  BY <1>4
<1>6. P(n)
  BY <1>5
<1>7. QED
  BY <1>6 DEF P, Begun

\* So are all of them.
LEMMA GathersAll ==
  ASSUME NEW G, NEW v, NEW f, NEW bad, NEW y, NEW s, Array(G, v, f, bad, y, s)
  PROVE  \/ Gathered(G, Len(v), s) = Got(v, y)
         \/ ~Gathered(G, Len(v), s).ok /\ bad
<1>a. /\ G \in Elements /\ v \in Seq(Flat) /\ f \in Seq(Seq(Octet)) /\ Len(f) = Len(v)
      /\ bad \in BOOLEAN /\ Faithful(G, v, f, bad) /\ y \in Seq(Octet) /\ s = FlattenSeq(f) \o y
  BY DEF Array
<1>1. PICK n : n = Len(v) /\ n \in Nat
  BY <1>a
<1>2. SubSeq(v, 1, n) = v
  <2> DEFINE R == Flat
  <2>1. v \in Seq(R)
    BY <1>a
  <2> HIDE DEF R
  <2>2. QED
    BY <1>1, <2>1
<1>3. Rest(f, n) = <<>>
  BY <1>a, <1>1, PartsType
<1>4. <<>> \o y = y
  BY ConcatEmptySeq
<1>5. n \in Nat /\ n <= Len(v)
  BY <1>1
<1>6. Gathered(G, n, s) = Begun(v, n, f, y) \/ (~Gathered(G, n, s).ok /\ bad)
  BY <1>5, GathersSome
<1>7. Begun(v, n, f, y) = Got(v, y)
  BY <1>2, <1>3, <1>4, Zenon DEF Begun
<1>8. QED
  BY <1>1, <1>6, <1>7

\* One element more, which cannot be read.
LEMMA GathersCut ==
  ASSUME NEW G, NEW v, NEW f, NEW bad, NEW z, NEW s, Array(G, v, f, bad, z, s), ~G[z].ok
  PROVE  ~Gathered(G, Len(v) + 1, s).ok
<1>a. /\ G \in Elements /\ v \in Seq(Flat) /\ f \in Seq(Seq(Octet)) /\ Len(f) = Len(v)
      /\ bad \in BOOLEAN /\ Faithful(G, v, f, bad) /\ z \in Seq(Octet) /\ s = FlattenSeq(f) \o z
  BY DEF Array
<1>1. PICK n, got : n = Len(v) /\ got = Gathered(G, n, s)
  OBVIOUS
<1>2. n \in Nat /\ n \in Int /\ s \in Seq(Octet)
  BY <1>a, <1>1, FlattenType, JoinType
<1>3. got = Got(v, z) \/ ~got.ok
  BY <1>1, GathersAll
<1>4. got \in Outcome(Nested) /\ Gathered(G, n + 1, s) = Thence(got, One(G[got.rest]))
  BY <1>a, <1>1, <1>2, GatherNext
<1>5. CASE ~got.ok
  BY <1>1, <1>4, <1>5, Zenon DEF Thence
<1>6. CASE got = Got(v, z)
  <2>1. got.rest = z
    BY <1>6 DEF Got
  <2>2. G[z] \in Outcome(Flat)
    BY <1>a DEF Elements
  <2>3. One(G[z]) \in Outcome(Nested) /\ ~One(G[z]).ok
    BY <2>2, OneOutcome
  <2>4. QED
    BY <1>1, <1>4, <2>1, <2>3, NextGathered
<1>7. QED
  BY <1>3, <1>5, <1>6

-----------------------------------------------------------------------------
(* The reading of a field, type by type *)

Readable == Types \ {NoDict}

LEMMA ReadIs ==
  /\ \A type \in DOMAIN Width : \A s : Read(type, s) = ReadFixed(Width[type], s)
  /\ \A s : /\ Read("VarInt", s) = ReadVarInt(s) /\ Read("String", s) = ReadString(s)
            /\ Read("VarIntPrefixedByteArray", s) = ReadBytes(s)
            /\ Read("NBT", s) = ReadNbt(s) /\ Read("Slot", s) = ReadSlot(s)
<1> DEFINE W == DOMAIN Width
<1>1. /\ "VarInt" \notin W /\ "String" \notin W /\ "VarIntPrefixedByteArray" \notin W
      /\ "NBT" \notin W /\ "Slot" \notin W
  BY DEF Width
<1>2. ASSUME NEW type \in W, NEW s PROVE Read(type, s) = ReadFixed(Width[type], s)
  <2>1. type \notin {"VarInt", "String", "VarIntPrefixedByteArray", "NBT", "Slot", "SlotArray",
                     "TripleByteArray", "RecordArray"}
    BY <1>2 DEF Width
  <2>2. QED
    BY <1>2, <2>1, Zenon DEF Read
<1>3. ASSUME NEW s PROVE Read("VarInt", s) = ReadVarInt(s)
  BY <1>1, Zenon DEF Read
<1>4. ASSUME NEW s PROVE Read("String", s) = ReadString(s)
  BY <1>1, Zenon DEF Read
<1>5. ASSUME NEW s PROVE Read("VarIntPrefixedByteArray", s) = ReadBytes(s)
  BY <1>1, Zenon DEF Read
<1>6. ASSUME NEW s PROVE Read("NBT", s) = ReadNbt(s)
  BY <1>1, Zenon DEF Read
<1>7. ASSUME NEW s PROVE Read("Slot", s) = ReadSlot(s)
  BY <1>1, Zenon DEF Read
<1>8. QED
  BY <1>2, <1>3, <1>4, <1>5, <1>6, <1>7

LEMMA ReadArrayIs ==
  ASSUME NEW s \in Seq(Octet), NEW short, short = ReadFixed(2, s),
         NEW int, int = ReadFixed(4, s), NEW count, count = ReadVarInt(s)
  PROVE  /\ Read("SlotArray", s) = IF short.ok
               THEN Gathered(Slots, Signed(short.value), short.rest) ELSE short
         /\ Read("TripleByteArray", s) = IF int.ok
               THEN Gathered(Triples, Signed(int.value), int.rest) ELSE int
         /\ Read("RecordArray", s) = IF count.ok
               THEN Gathered(Records, count.value[1], count.rest) ELSE count
<1>1. /\ "SlotArray" \notin DOMAIN Width /\ "TripleByteArray" \notin DOMAIN Width
      /\ "RecordArray" \notin DOMAIN Width
  BY DEF Width
<1>2. short.rest \in Seq(Octet) /\ int.rest \in Seq(Octet) /\ count.rest \in Seq(Octet)
  BY FixedOutcome, NumberOutcome DEF Outcome
<1>3. count.ok => count.value[1] \in Int
  <2>1. count.ok => count.value[1] \in Nat
    BY NumberOutcome, VarIntsNat
  <2>2. QED
    BY <2>1
<1>4. short.ok => short.value \in Seq(Octet) /\ Signed(short.value) \in Int
  <2>1. short.ok => short.value \in Seq(Octet)
    BY ReadFixedIs DEF Reading, Words
  <2>2. QED
    BY <2>1, SignedIs
<1>5. int.ok => int.value \in Seq(Octet) /\ Signed(int.value) \in Int
  <2>1. int.ok => int.value \in Seq(Octet)
    BY ReadFixedIs DEF Reading, Words
  <2>2. QED
    BY <2>1, SignedIs
<1>6. Read("SlotArray", s) = IF short.ok
               THEN ReadTimes(Signed(short.value), ReadSlot, short.rest) ELSE short
  BY <1>1, Zenon DEF Read
<1>7. Read("TripleByteArray", s) = IF int.ok
               THEN ReadTimes(Signed(int.value), LAMBDA r : ReadFixed(3, r), int.rest) ELSE int
  BY <1>1, Zenon DEF Read
<1>8. Read("RecordArray", s) = IF count.ok
               THEN ReadTimes(count.value[1], ReadRecord, count.rest) ELSE count
  BY <1>1, Zenon DEF Read
<1>9. short.ok => ReadTimes(Signed(short.value), ReadSlot, short.rest)
                    = Gathered(Slots, Signed(short.value), short.rest)
  BY <1>2, <1>4, SlotsGathered
<1>10. int.ok => ReadTimes(Signed(int.value), LAMBDA r : ReadFixed(3, r), int.rest)
                    = Gathered(Triples, Signed(int.value), int.rest)
  BY <1>2, <1>5, TriplesGathered
<1>11. count.ok => ReadTimes(count.value[1], ReadRecord, count.rest)
                    = Gathered(Records, count.value[1], count.rest)
  BY <1>2, <1>3, RecordsGathered
<1>12. QED
  BY <1>6, <1>7, <1>8, <1>9, <1>10, <1>11, Zenon

AnyValue == Flat \cup Nested

LEMMA FlatAny == ASSUME NEW got \in Outcome(Flat) PROVE got \in Outcome(AnyValue)
BY DEF Outcome, AnyValue

LEMMA NestedAny == ASSUME NEW got \in Outcome(Nested) PROVE got \in Outcome(AnyValue)
BY DEF Outcome, AnyValue

LEMMA ReadOutcome ==
  ASSUME NEW type \in Readable, NEW s \in Seq(Octet)
  PROVE  Read(type, s) \in Outcome(AnyValue)
<1>1. CASE type \in DOMAIN Width
  <2>1. Read(type, s) = ReadFixed(Width[type], s) /\ Width[type] \in Nat
    BY <1>1, ReadIs, WidthIs
  <2>2. QED
    BY <2>1, FixedOutcome, FlatAny
<1>2. CASE type = "VarInt"
  BY <1>2, ReadIs, NumberOutcome, FlatAny
<1>3. CASE type = "String"
  BY <1>3, ReadIs, TextOutcome, FlatAny
<1>4. CASE type = "VarIntPrefixedByteArray"
  BY <1>4, ReadIs, BytesOutcome, FlatAny
<1>5. CASE type = "NBT"
  BY <1>5, ReadIs, NbtOutcome, FlatAny
<1>6. CASE type = "Slot"
  BY <1>6, ReadIs, SlotOutcome, FlatAny
<1>7. CASE type \in {"SlotArray", "TripleByteArray", "RecordArray"}
  <2>1. PICK short, int, count :
          short = ReadFixed(2, s) /\ int = ReadFixed(4, s) /\ count = ReadVarInt(s)
    OBVIOUS
  <2>2. /\ short \in Outcome(AnyValue) /\ int \in Outcome(AnyValue) /\ count \in Outcome(AnyValue)
        /\ short.rest \in Seq(Octet) /\ int.rest \in Seq(Octet) /\ count.rest \in Seq(Octet)
    BY <2>1, FixedOutcome, NumberOutcome, FlatAny DEF Outcome
  <2>3. count.ok => count.value[1] \in Int
    <3>1. count.ok => count.value[1] \in Nat
      BY <2>1, NumberOutcome, VarIntsNat
    <3>2. QED
      BY <3>1
  <2>4. short.ok => Signed(short.value) \in Int
    <3>1. short.ok => short.value \in Seq(Octet)
      BY <2>1, ReadFixedIs DEF Reading, Words
    <3>2. QED
      BY <3>1, SignedIs
  <2>5. int.ok => Signed(int.value) \in Int
    <3>1. int.ok => int.value \in Seq(Octet)
      BY <2>1, ReadFixedIs DEF Reading, Words
    <3>2. QED
      BY <3>1, SignedIs
  <2>6. ASSUME NEW G \in Elements, NEW n \in Int, NEW r \in Seq(Octet)
        PROVE  Gathered(G, n, r) \in Outcome(AnyValue)
    BY GatherNext, NestedAny
  <2>7. Slots \in Elements /\ Triples \in Elements /\ Records \in Elements
    BY ElementsAre
  <2>8. short.ok => Gathered(Slots, Signed(short.value), short.rest) \in Outcome(AnyValue)
    BY <2>2, <2>4, <2>6, <2>7
  <2>9. int.ok => Gathered(Triples, Signed(int.value), int.rest) \in Outcome(AnyValue)
    BY <2>2, <2>5, <2>6, <2>7
  <2>10. count.ok => Gathered(Records, count.value[1], count.rest) \in Outcome(AnyValue)
    BY <2>2, <2>3, <2>6, <2>7
  <2>11. /\ Read("SlotArray", s) = IF short.ok
               THEN Gathered(Slots, Signed(short.value), short.rest) ELSE short
         /\ Read("TripleByteArray", s) = IF int.ok
               THEN Gathered(Triples, Signed(int.value), int.rest) ELSE int
         /\ Read("RecordArray", s) = IF count.ok
               THEN Gathered(Records, count.value[1], count.rest) ELSE count
    BY <2>1, ReadArrayIs
  <2>12. /\ Read("SlotArray", s) \in Outcome(AnyValue) /\ Read("TripleByteArray", s) \in Outcome(AnyValue)
         /\ Read("RecordArray", s) \in Outcome(AnyValue)
    BY <2>2, <2>8, <2>9, <2>10, <2>11
  <2>13. QED
    BY <1>7, <2>12
<1>8. type \in DOMAIN Width \/ type \in {"VarInt", "String", "VarIntPrefixedByteArray", "NBT", "Slot",
                     "SlotArray", "TripleByteArray", "RecordArray"}
  BY DEF Readable, Types
<1>9. QED
  BY <1>1, <1>2, <1>3, <1>4, <1>5, <1>6, <1>7, <1>8

-----------------------------------------------------------------------------
(* Arrays, from their writing to their reading *)

Arrays == {"SlotArray", "TripleByteArray", "RecordArray"}

\* What reads an element, what tells how many there are, and the bytes of each.
ReaderOf(type) == IF type = "SlotArray" THEN Slots
                  ELSE IF type = "TripleByteArray" THEN Triples ELSE Records
CountSent(type, n) == IF type = "SlotArray" THEN Packed(2, n)
                      ELSE IF type = "TripleByteArray" THEN Packed(4, n) ELSE Sent(n)
EachSent(type, v) == IF type = "RecordArray" THEN [i \in DOMAIN v |-> RecordSent(v[i])] ELSE v

\* The number of elements is read as it was written.
LEMMA CountRead ==
  ASSUME NEW type \in Arrays, NEW n \in Nat, n < Group, NEW r \in Seq(Octet)
  PROVE  Read(type, CountSent(type, n) \o r) = Gathered(ReaderOf(type), n, r)
<1>0. n \in VarInts
  BY FewNumbers
<1>1. PICK h, s : h = CountSent(type, n) /\ s = h \o r
  OBVIOUS
<1>2. CASE type = "SlotArray"
  <2>1. h = Packed(2, n) /\ h \in Seq(Octet) /\ Len(h) = 2 /\ Signed(h) = n
    BY <1>1, <1>2, PackedType, PackedSigned DEF CountSent
  <2>2. PICK short : short = Got(h, r)
    OBVIOUS
  <2>3. ReadFixed(2, s) = short
    BY <1>1, <2>1, <2>2, NotEmpty
  <2>4. short.ok /\ short.value = h /\ short.rest = r
    BY <2>2 DEF Got
  <2>5. s \in Seq(Octet)
    BY <1>1, <2>1, JoinType
  <2>6. Read("SlotArray", s) = IF short.ok
           THEN Gathered(Slots, Signed(short.value), short.rest) ELSE short
    BY <2>3, <2>5, ReadArrayIs
  <2>7. Read("SlotArray", s) = Gathered(Slots, n, r)
    BY <2>1, <2>4, <2>6
  <2>8. QED
    BY <1>1, <1>2, <2>7 DEF ReaderOf
<1>3. CASE type = "TripleByteArray"
  <2>1. h = Packed(4, n) /\ h \in Seq(Octet) /\ Len(h) = 4 /\ Signed(h) = n
    BY <1>1, <1>3, PackedType, PackedSigned DEF CountSent
  <2>2. PICK int : int = Got(h, r)
    OBVIOUS
  <2>3. ReadFixed(4, s) = int
    <3>1. ReadFixed(Len(h), h \o r) = Got(h, r)
      BY <2>1, FixedFirst
    <3>2. QED
      BY <1>1, <2>1, <2>2, <3>1
  <2>4. int.ok /\ int.value = h /\ int.rest = r
    BY <2>2 DEF Got
  <2>5. s \in Seq(Octet)
    BY <1>1, <2>1, JoinType
  <2>6. Read("TripleByteArray", s) = IF int.ok
           THEN Gathered(Triples, Signed(int.value), int.rest) ELSE int
    BY <2>3, <2>5, ReadArrayIs
  <2>7. Read("TripleByteArray", s) = Gathered(Triples, n, r)
    BY <2>1, <2>4, <2>6
  <2>8. QED
    BY <1>1, <1>3, <2>7 DEF ReaderOf
<1>4. CASE type = "RecordArray"
  <2>1. h = Sent(n) /\ h \in Seq(Octet)
    BY <1>0, <1>1, <1>4, SentIs DEF CountSent
  <2>2. PICK count : count = Got(<<n>>, r)
    OBVIOUS
  <2>3. ReadVarInt(s) = count
    BY <1>0, <1>1, <2>1, <2>2, NumberFirst
  <2>4. count.ok /\ count.value[1] = n /\ count.rest = r
    BY <2>2 DEF Got
  <2>5. s \in Seq(Octet)
    BY <1>1, <2>1, JoinType
  <2>6. Read("RecordArray", s) = IF count.ok
           THEN Gathered(Records, count.value[1], count.rest) ELSE count
    BY <2>3, <2>5, ReadArrayIs
  <2>7. Read("RecordArray", s) = Gathered(Records, n, r)
    BY <2>4, <2>6
  <2>8. QED
    BY <1>1, <1>4, <2>7 DEF ReaderOf
<1>5. QED
  BY <1>2, <1>3, <1>4 DEF Arrays

LEMMA FrontShorter ==
  ASSUME NEW s \in Seq(Octet), s # <<>>
  PROVE  Front(s) \in Seq(Octet) /\ Len(Front(s)) < Len(s)
<1>1. PICK e \in Octet : Front(s) \in Seq(Octet) /\ s = Append(Front(s), e)
  BY FrontIs
<1>2. PICK f : f = Front(s)
  OBVIOUS
<1>3. e \in Octet /\ f \in Seq(Octet) /\ s = Append(f, e)
  BY <1>1, <1>2
<1>4. Len(s) = Len(f) + 1
  BY <1>3, AppendProperties
<1>5. QED
  BY <1>2, <1>3, <1>4

LEMMA Longish ==
  ASSUME NEW h \in Seq(Octet), NEW n \in Nat, Len(h) = n, n # 0
  PROVE  h # <<>>
BY NotNil

LEMMA CountCut ==
  ASSUME NEW type \in Arrays, NEW n \in Nat, n < Group
  PROVE  /\ CountSent(type, n) \in Seq(Octet) /\ CountSent(type, n) # <<>>
         /\ Front(CountSent(type, n)) \in Seq(Octet)
         /\ ~Read(type, Front(CountSent(type, n))).ok
<1>0. n \in VarInts
  BY FewNumbers
<1>1. PICK h, s : h = CountSent(type, n) /\ s = Front(h)
  OBVIOUS
<1>2. CASE type = "SlotArray"
  <2>1. h \in Seq(Octet) /\ Len(h) = 2
    BY <1>1, <1>2, PackedType, PackedSigned DEF CountSent
  <2>2. h # <<>>
    BY <2>1, Longish
  <2>3. s \in Seq(Octet) /\ Len(s) < 2
    BY <1>1, <2>1, <2>2, FrontShorter
  <2>4. ~ReadFixed(2, s).ok
    BY <2>3, FixedShort
  <2>5. ~Read(type, s).ok
    BY <1>2, <2>3, <2>4, ReadArrayIs
  <2>6. QED
    BY <1>1, <2>1, <2>2, <2>3, <2>5
<1>3. CASE type = "TripleByteArray"
  <2>1. h \in Seq(Octet) /\ Len(h) = 4
    BY <1>1, <1>3, PackedType, PackedSigned DEF CountSent
  <2>2. h # <<>>
    BY <2>1, Longish
  <2>3. s \in Seq(Octet) /\ Len(s) < 4
    BY <1>1, <2>1, <2>2, FrontShorter
  <2>4. ~ReadFixed(4, s).ok
    BY <2>3, FixedShort
  <2>5. ~Read(type, s).ok
    BY <1>3, <2>3, <2>4, ReadArrayIs
  <2>6. QED
    BY <1>1, <2>1, <2>2, <2>3, <2>5
<1>4. CASE type = "RecordArray"
  <2>1. h = Sent(n) /\ h \in Seq(Octet) /\ Len(h) = Size(n) /\ Size(n) \in 1 .. 5
    BY <1>0, <1>1, <1>4, SentIs, SizeIs DEF CountSent
  <2>2. h # <<>>
    BY <2>1, NotNil
  <2>3. s \in Seq(Octet) /\ ~Whole(s)
    BY <1>0, <1>1, <2>1, SentFront
  <2>4. ~ReadVarInt(s).ok
    BY <2>3 DEF ReadVarInt, Raised
  <2>5. ~Read(type, s).ok
    BY <1>4, <2>3, <2>4, ReadArrayIs
  <2>6. QED
    BY <1>1, <2>1, <2>2, <2>3, <2>5
<1>5. QED
  BY <1>2, <1>3, <1>4 DEF Arrays

LEMMA ArraySent ==
  ASSUME NEW type \in Arrays, NEW v, Fits(type, v)
  PROVE  /\ v \in Seq(Seq(Nat)) /\ Len(v) \in Nat /\ Len(v) < Group /\ DOMAIN v = 1 .. Len(v)
         /\ \A i \in 1 .. Len(v) :
              /\ type = "SlotArray" => IsSlot(v[i])
              /\ type = "TripleByteArray" => v[i] \in Seq(Octet) /\ Len(v[i]) = 3
              /\ type = "RecordArray" => IsRecord(v[i])
<1>1. CASE type = "SlotArray"
  <2>1. Few(IsSlot, v)
    BY <1>1, FitsIs
  <2>2. QED
    BY <1>1, <2>1 DEF Few
<1>2. CASE type = "TripleByteArray"
  <2>1. Few(LAMBDA r : r \in Seq(Octet) /\ Len(r) = 3, v)
    BY <1>2, FitsIs
  <2>2. QED
    BY <1>2, <2>1 DEF Few
<1>3. CASE type = "RecordArray"
  <2>1. Few(LAMBDA r : Len(r) = 3 /\ {r[1], r[2]} \subseteq Octet /\ r[3] \in VarInts, v)
    BY <1>3, FitsIs
  <2>2. QED
    BY <1>3, <2>1 DEF Few, IsRecord
<1>4. QED
  BY <1>1, <1>2, <1>3 DEF Arrays

LEMMA TagsAre ==
  ASSUME NEW v, Len(v) \in Nat, DOMAIN v = 1 .. Len(v)
  PROVE  /\ Tagged("SlotArray", v) \in BOOLEAN
         /\ \A i \in 1 .. Len(v) : Len(v[i]) > 2 => Tagged("SlotArray", v)
BY DEF Tagged

\* The bytes of an element, as ReaderOf reads them, and without the last of them.
ElementRead(G, x, e, bad) ==
  /\ x \in Flat /\ e \in Seq(Octet) /\ e # <<>>
  /\ \A z \in Seq(Octet) : G[e \o z] = Got(x, z) \/ (~G[e \o z].ok /\ bad)
  /\ Front(e) \in Seq(Octet) /\ ~G[Front(e)].ok

LEMMA SlotElement ==
  ASSUME NEW x, IsSlot(x), NEW bad \in BOOLEAN, Len(x) > 2 => bad
  PROVE  ElementRead(Slots, x, x, bad)
<1>1. x \in Seq(Octet) /\ x # <<>>
  BY SlotIs
<1>2. x \in Flat
  BY <1>1, OctetsFlat
<1>3. Front(x) \in Seq(Octet) /\ ~ReadSlot(Front(x)).ok
  BY SlotCut
<1>4. ~Slots[Front(x)].ok
  BY <1>3, ElementsAre
<1>5. ASSUME NEW z \in Seq(Octet)
      PROVE  Slots[x \o z] = Got(x, z) \/ (~Slots[x \o z].ok /\ bad)
  <2>1. x \o z \in Seq(Octet)
    BY <1>1, JoinType
  <2>2. Slots[x \o z] = ReadSlot(x \o z)
    BY <2>1, ElementsAre
  <2>3. ReadSlot(x \o z) = Got(x, z) \/ (~ReadSlot(x \o z).ok /\ Len(x) > 2)
    BY SlotFirst
  <2>4. QED
    BY <2>2, <2>3
<1>6. QED
  BY <1>1, <1>2, <1>3, <1>4, <1>5 DEF ElementRead

LEMMA TripleElement ==
  ASSUME NEW x \in Seq(Octet), Len(x) = 3, NEW bad
  PROVE  ElementRead(Triples, x, x, bad)
<1>1. x \in Seq(Octet) /\ x # <<>>
  BY Longish
<1>2. x \in Flat
  BY <1>1, OctetsFlat
<1>3. Front(x) \in Seq(Octet) /\ Len(Front(x)) < 3
  BY <1>1, FrontShorter
<1>4. ~Triples[Front(x)].ok
  <2>1. ~ReadFixed(3, Front(x)).ok
    BY <1>3, FixedShort
  <2>2. QED
    BY <1>3, <2>1, ElementsAre
<1>5. ASSUME NEW z \in Seq(Octet)
      PROVE  Triples[x \o z] = Got(x, z)
  <2>1. x \o z \in Seq(Octet)
    BY <1>1, JoinType
  <2>2. Triples[x \o z] = ReadFixed(3, x \o z)
    BY <2>1, ElementsAre
  <2>3. ReadFixed(3, x \o z) = Got(x, z)
    BY ThreeIs
  <2>4. QED
    BY <2>2, <2>3
<1>6. QED
  BY <1>1, <1>2, <1>3, <1>4, <1>5 DEF ElementRead

LEMMA RecordElement ==
  ASSUME NEW x, IsRecord(x), NEW bad
  PROVE  ElementRead(Records, x, RecordSent(x), bad)
<1>1. PICK e : e = RecordSent(x)
  OBVIOUS
<1>2. x \in Flat
  BY RecordIs
<1>3. e \in Seq(Octet)
  <2>1. <<>> \in Seq(Octet)
    OBVIOUS
  <2>2. QED
    BY <1>1, <2>1, RecordFirst
<1>4. e # <<>>
  <2>1. PICK a : a = SubSeq(x, 1, 2)
    OBVIOUS
  <2>2. a \in Seq(Octet) /\ Len(a) = 2
    BY <2>1, RecordIs
  <2>3. x[3] \in VarInts /\ e = a \o Sent(x[3])
    BY <1>1, <2>1 DEF IsRecord, RecordSent
  <2>4. Sent(x[3]) \in Seq(Octet)
    BY <2>3, SentSizes
  <2>5. Len(e) >= 2
    BY <2>2, <2>3, <2>4, JoinBegins
  <2>6. QED
    BY <1>3, <2>5, Longish
<1>5. Front(e) \in Seq(Octet) /\ ~ReadRecord(Front(e)).ok
  BY <1>1, RecordCut
<1>6. ~Records[Front(e)].ok
  BY <1>5, ElementsAre
<1>7. ASSUME NEW z \in Seq(Octet)
      PROVE  Records[e \o z] = Got(x, z)
  <2>1. e \o z \in Seq(Octet)
    BY <1>3, JoinType
  <2>2. Records[e \o z] = ReadRecord(e \o z)
    BY <2>1, ElementsAre
  <2>3. ReadRecord(e \o z) = Got(x, z)
    BY <1>1, RecordFirst
  <2>4. QED
    BY <2>2, <2>3
<1>8. QED
  BY <1>1, <1>2, <1>3, <1>4, <1>5, <1>6, <1>7 DEF ElementRead

LEMMA EachRead ==
  ASSUME NEW type \in Arrays, NEW v, Fits(type, v), NEW i \in 1 .. Len(v)
  PROVE  /\ DOMAIN EachSent(type, v) = 1 .. Len(v) /\ ReaderOf(type) \in Elements
         /\ ElementRead(ReaderOf(type), v[i], EachSent(type, v)[i], Tagged(type, v))
<1>1. DOMAIN v = 1 .. Len(v) /\ Len(v) \in Nat
  BY ArraySent
<1>2. PICK x, bad : x = v[i] /\ bad = Tagged(type, v)
  OBVIOUS
<1>3. CASE type = "SlotArray"
  <2>1. IsSlot(x)
    BY <1>2, <1>3, ArraySent
  <2>2. bad \in BOOLEAN /\ (Len(x) > 2 => bad)
    BY <1>1, <1>2, <1>3, TagsAre
  <2>3. ElementRead(Slots, x, x, bad)
    BY <2>1, <2>2, SlotElement
  <2>4. EachSent(type, v) = v /\ ReaderOf(type) = Slots
    BY <1>3 DEF EachSent, ReaderOf
  <2>5. QED
    BY <1>1, <1>2, <2>3, <2>4, ElementsAre
<1>4. CASE type = "TripleByteArray"
  <2>1. x \in Seq(Octet) /\ Len(x) = 3
    BY <1>2, <1>4, ArraySent
  <2>3. ElementRead(Triples, x, x, bad)
    BY <2>1, TripleElement
  <2>4. EachSent(type, v) = v /\ ReaderOf(type) = Triples
    BY <1>4 DEF EachSent, ReaderOf
  <2>5. QED
    BY <1>1, <1>2, <2>3, <2>4, ElementsAre
<1>5. CASE type = "RecordArray"
  <2>1. IsRecord(x)
    BY <1>2, <1>5, ArraySent
  <2>3. ElementRead(Records, x, RecordSent(x), bad)
    BY <2>1, RecordElement
  <2>4. /\ EachSent(type, v) = [j \in DOMAIN v |-> RecordSent(v[j])]
        /\ ReaderOf(type) = Records
    BY <1>5 DEF EachSent, ReaderOf
  <2>5. EachSent(type, v)[i] = RecordSent(x) /\ DOMAIN EachSent(type, v) = DOMAIN v
    BY <1>1, <1>2, <2>4
  <2>6. QED
    BY <1>1, <1>2, <2>3, <2>4, <2>5, ElementsAre
<1>6. QED
  BY <1>3, <1>4, <1>5 DEF Arrays

LEMMA EachTyped ==
  ASSUME NEW type \in Arrays, NEW v, Fits(type, v), NEW f, f = EachSent(type, v)
  PROVE  /\ v \in Seq(Flat) /\ f \in Seq(Seq(Octet)) /\ Len(f) = Len(v)
         /\ Send(type, v) = CountSent(type, Len(v)) \o FlattenSeq(f)
<1> DEFINE R == Seq(Octet)
<1>1. PICK n : n = Len(v) /\ n \in Nat /\ DOMAIN v = 1 .. n /\ v \in Seq(Seq(Nat))
  BY ArraySent
<1>2. \A i \in 1 .. n : v[i] \in Flat /\ f[i] \in R
  BY <1>1, EachRead DEF ElementRead
<1>3. Listed(f, n)
  <2>1. v = [i \in 1 .. n |-> v[i]]
    BY <1>1
  <2>2. CASE type = "RecordArray"
    <3>1. f = [i \in 1 .. n |-> RecordSent(v[i])]
      BY <1>1, <2>2 DEF EachSent
    <3>2. QED
      BY <3>1 DEF Listed
  <2>3. CASE type # "RecordArray"
    BY <2>1, <2>3 DEF EachSent, Listed
  <2>4. QED
    BY <2>2, <2>3
<1> HIDE DEF R
<1>4. f \in Seq(R) /\ Len(f) = n
  BY <1>1, <1>2, <1>3, ListedSeq
<1>5. v \in Seq(Flat)
  <2> DEFINE S == Flat
  <2>1. \A i \in 1 .. n : v[i] \in S
    BY <1>2
  <2>2. v = [i \in 1 .. n |-> v[i]]
    BY <1>1
  <2>3. Listed(v, n)
    BY <2>2 DEF Listed
  <2> HIDE DEF S
  <2>4. v \in Seq(S)
    BY <1>1, <2>1, <2>3, ListedSeq
  <2>5. QED
    BY <2>4 DEF S
<1>6. Send(type, v) = CountSent(type, Len(v)) \o FlattenSeq(f)
  <2>1. CASE type = "SlotArray"
    <3>1. f = v /\ CountSent(type, Len(v)) = Packed(2, Len(v))
      BY <2>1 DEF EachSent, CountSent
    <3>2. QED
      BY <2>1, <3>1, SendIsAll, Zenon
  <2>2. CASE type = "TripleByteArray"
    <3>1. f = v /\ CountSent(type, Len(v)) = Packed(4, Len(v))
      BY <2>2 DEF EachSent, CountSent
    <3>2. QED
      BY <2>2, <3>1, SendIsAll, Zenon
  <2>3. CASE type = "RecordArray"
    <3>1. f = [i \in DOMAIN v |-> SubSeq(v[i], 1, 2) \o Sent(v[i][3])] /\ CountSent(type, Len(v)) = Sent(Len(v))
      BY <2>3 DEF EachSent, CountSent, RecordSent
    <3>2. QED
      BY <2>3, <3>1, SendIsAll, Zenon
  <2>4. QED
    BY <2>1, <2>2, <2>3 DEF Arrays
<1>7. QED
  BY <1>1, <1>4, <1>5, <1>6 DEF R

\* An array is read as it was written, or has a tag.
LEMMA ArrayFirst ==
  ASSUME NEW type \in Arrays, NEW v, Fits(type, v), NEW y \in Seq(Octet)
  PROVE  \/ Read(type, Send(type, v) \o y) = Got(v, y)
         \/ ~Read(type, Send(type, v) \o y).ok /\ Tagged(type, v) = TRUE
<1>1. PICK n, f, b, h, G :
        n = Len(v) /\ f = EachSent(type, v) /\ b = FlattenSeq(f) /\ h = CountSent(type, n)
        /\ G = ReaderOf(type)
  OBVIOUS
<1>2. n \in Nat /\ n < Group
  BY <1>1, ArraySent
<1>3. v \in Seq(Flat) /\ f \in Seq(Seq(Octet)) /\ Len(f) = n /\ Send(type, v) = h \o b
  BY <1>1, EachTyped
<1>4. b \in Seq(Octet) /\ h \in Seq(Octet)
  BY <1>1, <1>2, <1>3, FlattenType, CountCut
<1>5. PICK s : s = b \o y
  OBVIOUS
<1>6. s \in Seq(Octet)
  BY <1>4, <1>5, JoinType
<1>7. Send(type, v) \o y = h \o s
  <2>1. Reassociates(Octet)
    BY Reassociate
  <2>2. \A x, t, u \in Seq(Octet) : (x \o t) \o u = x \o (t \o u)
    BY <2>1, Zenon DEF Reassociates
  <2>3. (h \o b) \o y = h \o (b \o y)
    BY <1>4, <2>2, Zenon
  <2>4. QED
    BY <1>3, <1>5, <2>3, Zenon
<1>8. Read(type, h \o s) = Gathered(G, n, s)
  BY <1>1, <1>2, <1>6, CountRead
<1>9. CASE n = 0
  <2>1. Gathered(G, 0, s) = Got(<<>>, s)
    <3>1. G \in Elements
      BY <1>1, ElementsAre DEF ReaderOf
    <3>2. QED
      BY <1>6, <3>1, GatherNext
  <2>2. f = <<>> /\ v = <<>>
    <3>1. v = <<>>
      <4> DEFINE R == Flat
      <4>1. v \in Seq(R) /\ Len(v) = 0
        BY <1>1, <1>3, <1>9
      <4> HIDE DEF R
      <4>2. QED
        BY <4>1
    <3>2. f = <<>>
      <4> DEFINE R == Seq(Octet)
      <4>1. f \in Seq(R) /\ Len(f) = 0
        BY <1>3, <1>9
      <4> HIDE DEF R
      <4>2. QED
        BY <4>1
    <3>3. QED
      BY <3>1, <3>2
  <2>3. b = <<>>
    BY <1>1, <2>2, FlattenEmpty
  <2>4. s = y
    BY <1>5, <2>3, ConcatEmptySeq
  <2>5. Read(type, Send(type, v) \o y) = Got(v, y)
    BY <1>7, <1>8, <1>9, <2>1, <2>2, <2>4
  <2>6. QED
    BY <2>5
<1>10. CASE n # 0
  <2>1. PICK bad : bad = (Tagged(type, v) = TRUE)
    OBVIOUS
  <2>2. \A i \in 1 .. n : /\ G \in Elements /\ ElementRead(G, v[i], f[i], Tagged(type, v))
    BY <1>1, EachRead
  <2>3. Faithful(G, v, f, bad)
    <3>1. SUFFICES ASSUME NEW i \in 1 .. n, NEW z \in Seq(Octet)
                   PROVE  G[f[i] \o z] = Got(v[i], z) \/ (~G[f[i] \o z].ok /\ bad)
      BY <1>1 DEF Faithful
    <3>2. ElementRead(G, v[i], f[i], Tagged(type, v))
      BY <2>2
    <3>3. G[f[i] \o z] = Got(v[i], z) \/ (~G[f[i] \o z].ok /\ Tagged(type, v))
      BY <3>2 DEF ElementRead
    <3>4. Tagged(type, v) \in BOOLEAN
      BY Zenon DEF Tagged
    <3>5. QED
      BY <2>1, <3>3, <3>4
  <2>4. G \in Elements
    <3>1. 1 \in 1 .. n
      BY <1>2, <1>10
    <3>2. QED
      BY <2>2, <3>1
  <2>5. Array(G, v, f, bad, y, s)
    BY <1>1, <1>3, <1>5, <2>1, <2>3, <2>4 DEF Array
  <2>6. Gathered(G, Len(v), s) = Got(v, y) \/ (~Gathered(G, Len(v), s).ok /\ bad)
    BY <2>5, GathersAll
  <2>7. QED
    BY <1>1, <1>7, <1>8, <2>1, <2>6
<1>11. QED
  BY <1>9, <1>10

\* Without its last byte it is not read.
LEMMA ArrayCut ==
  ASSUME NEW type \in Arrays, NEW v, Fits(type, v)
  PROVE  /\ Send(type, v) # <<>> /\ Front(Send(type, v)) \in Seq(Octet)
         /\ ~Read(type, Front(Send(type, v))).ok
<1>1. PICK n, f, b, h, G :
        n = Len(v) /\ f = EachSent(type, v) /\ b = FlattenSeq(f) /\ h = CountSent(type, n)
        /\ G = ReaderOf(type)
  OBVIOUS
<1>2. n \in Nat /\ n < Group
  BY <1>1, ArraySent
<1>3. v \in Seq(Flat) /\ f \in Seq(Seq(Octet)) /\ Len(f) = n /\ Send(type, v) = h \o b
  BY <1>1, EachTyped
<1>4. b \in Seq(Octet)
  BY <1>1, <1>3, FlattenType
<1>5. /\ h \in Seq(Octet) /\ h # <<>> /\ Front(h) \in Seq(Octet) /\ ~Read(type, Front(h)).ok
  BY <1>1, <1>2, CountCut
<1>6. CASE n = 0
  <2>1. f = <<>>
    <3> DEFINE R == Seq(Octet)
    <3>1. f \in Seq(R) /\ Len(f) = 0
      BY <1>3, <1>6
    <3> HIDE DEF R
    <3>2. QED
      BY <3>1
  <2>2. b = <<>>
    BY <1>1, <2>1, FlattenEmpty
  <2>3. h \o b = h
    BY <1>5, <2>2, ConcatEmptySeq
  <2>4. QED
    BY <1>3, <1>5, <2>3
<1>7. CASE n # 0
  <2>1. PICK m \in Nat : n = m + 1
    <3>1. n - 1 \in Nat /\ n = (n - 1) + 1
      BY <1>2, <1>7
    <3>2. QED
      BY <3>1
  <2>2. n \in 1 .. n /\ m < n
    BY <1>2, <2>1
  <2>3. PICK w, g, e, x : w = SubSeq(v, 1, m) /\ g = SubSeq(f, 1, m) /\ e = f[n] /\ x = v[n]
    OBVIOUS
  <2>4. w \in Seq(Flat) /\ Len(w) = m /\ \A i \in 1 .. m : w[i] = v[i]
    <3> DEFINE R == Flat
    <3>1. v \in Seq(R) /\ Len(v) = n
      BY <1>1, <1>3
    <3> HIDE DEF R
    <3>2. w \in Seq(R) /\ Len(w) = m /\ \A i \in 1 .. m : w[i] = v[i]
      BY <2>1, <2>2, <2>3, <3>1, SubSeqProperties
    <3>3. QED
      BY <3>2 DEF R
  <2>5. g \in Seq(Seq(Octet)) /\ Len(g) = m /\ e \in Seq(Octet) /\ f = Append(g, e) /\ \A i \in 1 .. m : g[i] = f[i]
    <3> DEFINE R == Seq(Octet)
    <3>1. f \in Seq(R) /\ Len(f) = n
      BY <1>3
    <3> HIDE DEF R
    <3>2. e \in R
      BY <2>2, <2>3, <3>1, ElementOfSeq
    <3>3. g \in Seq(R) /\ Len(g) = m /\ \A i \in 1 .. m : g[i] = f[i]
      BY <2>1, <2>2, <2>3, <3>1, SubSeqProperties
    <3>4. PICK c : c = Append(g, e)
      OBVIOUS
    <3>5. /\ c \in Seq(R) /\ Len(c) = n /\ c[n] = e
          /\ \A i \in 1 .. m : c[i] = g[i]
      BY <2>1, <3>2, <3>3, <3>4, AppendProperties
    <3>6. \A i \in 1 .. n : c[i] = f[i]
      BY <2>1, <2>3, <3>3, <3>5
    <3>7. c = f
      BY <3>1, <3>5, <3>6, SeqEqual
    <3>8. QED
      BY <3>2, <3>3, <3>4, <3>7 DEF R
  <2>6. \A i \in 1 .. n : /\ G \in Elements /\ ElementRead(G, v[i], f[i], Tagged(type, v))
    BY <1>1, EachRead
  <2>7. G \in Elements /\ e # <<>> /\ Front(e) \in Seq(Octet) /\ ~G[Front(e)].ok
    BY <2>2, <2>3, <2>6 DEF ElementRead
  <2>8. PICK d, z, s : d = FlattenSeq(g) /\ z = Front(e) /\ s = d \o z
    OBVIOUS
  <2>9. d \in Seq(Octet) /\ b = d \o e
    <3>1. FlattenSeq(Append(g, e)) = FlattenSeq(g) \o e
      BY <2>5, FlattenAppend
    <3>2. QED
      BY <1>1, <2>5, <2>8, <3>1, FlattenType
  <2>10. z \in Seq(Octet) /\ s \in Seq(Octet)
    BY <2>7, <2>8, <2>9, JoinType
  <2>11. b # <<>> /\ Front(b) = s
    <3>1. Len(e) \in Nat /\ Len(e) # 0
      BY <2>5, <2>7
    <3>2. Len(b) = Len(d) + Len(e) /\ Len(d) \in Nat
      BY <2>5, <2>9, ConcatProperties
    <3>3. Front(b) = d \o Front(e)
      BY <2>5, <2>7, <2>9, FrontJoined
    <3>4. b # <<>>
      BY <1>4, <3>1, <3>2, Longish
    <3>5. QED
      BY <2>8, <3>3, <3>4
  <2>12. Front(h \o b) = h \o s
    BY <1>4, <1>5, <2>11, FrontJoined
  <2>13. h \o b # <<>> /\ h \o s \in Seq(Octet)
    <3>1. h \o b \in Seq(Octet) /\ Len(h \o b) = Len(h) + Len(b)
      BY <1>4, <1>5, ConcatProperties
    <3>2. Len(h) # 0 /\ Len(h) \in Nat /\ Len(b) \in Nat
      BY <1>4, <1>5
    <3>3. h \o b # <<>>
      BY <3>1, <3>2, Longish
    <3>4. QED
      BY <1>5, <2>10, <3>3, JoinType
  <2>14. Read(type, h \o s) = Gathered(G, n, s)
    BY <1>1, <1>2, <2>10, CountRead
  <2>15. ~Gathered(G, m + 1, s).ok
    <3>1. Faithful(G, w, g, TRUE)
      <4>1. SUFFICES ASSUME NEW i \in 1 .. m, NEW t \in Seq(Octet)
                     PROVE  G[g[i] \o t] = Got(w[i], t) \/ ~G[g[i] \o t].ok
        BY <2>4 DEF Faithful
      <4>2. i \in 1 .. n
        BY <2>1
      <4>3. ElementRead(G, v[i], f[i], Tagged(type, v))
        BY <2>6, <4>2
      <4>4. QED
        BY <2>4, <2>5, <4>3 DEF ElementRead
    <3>2. Array(G, w, g, TRUE, z, s)
      BY <2>4, <2>5, <2>7, <2>8, <2>10, <3>1 DEF Array
    <3>3. ~Gathered(G, Len(w) + 1, s).ok
      BY <2>7, <2>8, <3>2, GathersCut
    <3>4. QED
      BY <2>4, <3>3
  <2>16. QED
    BY <1>3, <2>1, <2>12, <2>13, <2>14, <2>15
<1>8. QED
  BY <1>6, <1>7

LEMMA PrefixSelf ==
  ASSUME NEW S, NEW s \in Seq(S)
  PROVE  IsPrefix(s, s)
BY DEF IsPrefix

LEMMA PrefixFront ==
  ASSUME NEW S, NEW s \in Seq(S), s # <<>>
  PROVE  IsPrefix(Front(s), s)
<1>1. PICK e \in S : Front(s) \in Seq(S) /\ s = Append(Front(s), e)
  BY FrontIs
<1>2. PICK a : a = Front(s)
  OBVIOUS
<1>3. e \in S /\ a \in Seq(S) /\ s = Append(a, e)
  BY <1>1, <1>2
<1>4. Len(s) = Len(a) + 1 /\ \A i \in 1 .. Len(a) : s[i] = a[i]
  BY <1>3, AppendProperties
<1>5. PICK n : n = Len(a) /\ n \in Nat /\ n <= Len(s)
  BY <1>3, <1>4
<1>6. PICK b, c : b = SubSeq(s, 1, n) /\ c = SubSeq(a, 1, n)
  OBVIOUS
<1>7. b \in Seq(S) /\ Len(b) = n /\ \A i \in 1 .. n : b[i] = s[i]
  BY <1>5, <1>6, SubSeqProperties
<1>8. c \in Seq(S) /\ Len(c) = n /\ \A i \in 1 .. n : c[i] = a[i]
  BY <1>3, <1>5, <1>6, SubSeqProperties
<1>9. b = c
  BY <1>4, <1>5, <1>7, <1>8, SeqEqual
<1>10. QED
  BY <1>2, <1>5, <1>6, <1>9 DEF IsPrefix

LEMMA TookAll ==
  ASSUME NEW S, NEW s \in Seq(S), NEW n \in Nat, Len(s) <= n
  PROVE  Took(n, s) = s
<1>1. Took(n, s) = SubSeq(s, 1, Len(s))
  <2>1. (IF n < Len(s) THEN n ELSE Len(s)) = Len(s)
    OBVIOUS
  <2>2. QED
    BY <2>1 DEF Took
<1>2. QED
  BY <1>1

\* A text, and bytes, after their length.
LEMMA CountedFirst ==
  ASSUME NEW v \in Seq(Octet), Len(v) \in VarInts, NEW y \in Seq(Octet),
         NEW s, s = (Sent(Len(v)) \o v) \o y
  PROVE  /\ Utf8(v) => ReadString(s) = Got(v, y)
         /\ ReadBytes(s) = Got(v, y)
<1>1. PICK m, h, r : m = Len(v) /\ h = Sent(m) /\ r = v \o y
  OBVIOUS
<1>2. m \in VarInts /\ h \in Seq(Octet) /\ r \in Seq(Octet)
  BY <1>1, SentIs, JoinType
<1>3. s = h \o r
  <2>1. Reassociates(Octet)
    BY Reassociate
  <2>2. \A x, t, u \in Seq(Octet) : (x \o t) \o u = x \o (t \o u)
    BY <2>1, Zenon DEF Reassociates
  <2>3. (h \o v) \o y = h \o (v \o y)
    BY <1>2, <2>2, Zenon
  <2>4. QED
    BY <1>1, <2>3, Zenon
<1>4. PICK n : n = ReadVarInt(s)
  OBVIOUS
<1>5. n = Got(<<m>>, r)
  BY <1>1, <1>2, <1>3, <1>4, NumberFirst
<1>6. n.ok /\ n.value[1] = m /\ n.rest = r
  BY <1>5 DEF Got
<1>7. Took(m, r) = v /\ Left(m, r) = y
  BY <1>1, JoinedApart
<1>8. Utf8(v) => ReadString(s) = Got(v, y)
  <2>1. PICK t : t = Took(n.value[1], n.rest)
    OBVIOUS
  <2>2. t = v
    BY <1>6, <1>7, <2>1
  <2>3. Left(n.value[1], n.rest) = y
    BY <1>6, <1>7
  <2>4. ReadString(s) = IF Utf8(t) THEN Got(t, Left(n.value[1], n.rest))
                        ELSE Raised(Left(n.value[1], n.rest))
    BY <1>4, <1>6, <2>1, Zenon DEF ReadString
  <2>5. QED
    BY <2>2, <2>3, <2>4
<1>9. ReadBytes(s) = Got(v, y)
  <2>1. ReadFixed(m, r) = Got(v, y)
    <3>1. ReadFixed(Len(v), v \o y) = Got(v, y)
      BY FixedFirst
    <3>2. QED
      BY <1>1, <3>1
  <2>2. ReadBytes(s) = ReadFixed(n.value[1], n.rest)
    BY <1>4, <1>6, Zenon DEF ReadBytes
  <2>3. QED
    BY <1>6, <2>1, <2>2
<1>10. QED
  BY <1>8, <1>9

\* Bytes after their length, but for the last: no bytes, or the beginning of a text.
LEMMA CountedCut ==
  ASSUME NEW v \in Seq(Octet), Len(v) \in VarInts,
         NEW s, s = Sent(Len(v)) \o v, NEW t, t = Front(s)
  PROVE  /\ s \in Seq(Octet) /\ s # <<>> /\ t \in Seq(Octet)
         /\ ReadString(t).ok => IsPrefix(ReadString(t).value, v)
         /\ ~ReadBytes(t).ok
<1>1. PICK m, h : m = Len(v) /\ h = Sent(m)
  OBVIOUS
<1>2. m \in VarInts /\ h \in Seq(Octet) /\ Len(h) = Size(m) /\ Size(m) \in 1 .. 5 /\ m \in Nat
  BY <1>1, SentIs, SizeIs, VarIntsNat
<1>3. h # <<>>
  BY <1>2, Longish
<1>4. s = h \o v
  BY <1>1
<1>5. s \in Seq(Octet) /\ Len(s) = Len(h) + Len(v)
  BY <1>2, <1>4, ConcatProperties
<1>6. s # <<>>
  <2>1. Len(s) \in Nat /\ Len(s) # 0
    BY <1>2, <1>5
  <2>2. QED
    BY <1>5, <2>1, Longish
<1>7. t \in Seq(Octet)
  BY <1>5, <1>6, FrontShorter
<1>8. PICK n : n = ReadVarInt(t)
  OBVIOUS
<1>9. CASE v = <<>>
  <2>1. s = h
    BY <1>2, <1>4, <1>9, ConcatEmptySeq
  <2>2. ~Whole(t)
    BY <1>1, <1>2, <2>1, SentFront
  <2>3. n = Raised(<<>>)
    BY <1>8, <2>2 DEF ReadVarInt
  <2>4. ~n.ok
    BY <2>3 DEF Raised
  <2>5. ReadString(t) = n /\ ReadBytes(t) = n
    BY <1>8, <2>4, Zenon DEF ReadString, ReadBytes
  <2>6. QED
    BY <1>5, <1>6, <1>7, <2>4, <2>5
<1>10. CASE v # <<>>
  <2>1. PICK w : w = Front(v)
    OBVIOUS
  <2>2. w \in Seq(Octet) /\ Len(w) < Len(v)
    BY <1>10, <2>1, FrontShorter
  <2>3. t = h \o w
    <3>1. Front(h \o v) = h \o Front(v)
      BY <1>2, <1>10, FrontJoined, Zenon
    <3>2. QED
      BY <1>4, <2>1, <3>1, Zenon
  <2>4. n = Got(<<m>>, w)
    BY <1>1, <1>2, <1>8, <2>2, <2>3, NumberFirst
  <2>5. n.ok /\ n.value[1] = m /\ n.rest = w
    BY <2>4 DEF Got
  <2>6. ~ReadBytes(t).ok
    <3>1. ~ReadFixed(m, w).ok
      BY <1>1, <1>2, <2>2, FixedShort
    <3>2. ReadBytes(t) = ReadFixed(n.value[1], n.rest)
      BY <1>8, <2>5, Zenon DEF ReadBytes
    <3>3. QED
      BY <2>5, <3>1, <3>2
  <2>7. ReadString(t).ok => ReadString(t).value = w
    <3>1. PICK x, r : x = Took(n.value[1], n.rest) /\ r = Left(n.value[1], n.rest)
      OBVIOUS
    <3>2. x = w
      BY <1>1, <1>2, <2>2, <2>5, <3>1, TookAll
    <3>3. ReadString(t) = IF Utf8(x) THEN Got(x, r) ELSE Raised(r)
      BY <1>8, <2>5, <3>1, Zenon DEF ReadString
    <3>4. QED
      BY <3>2, <3>3 DEF Got, Raised
  <2>8. IsPrefix(w, v)
    BY <1>10, <2>1, PrefixFront
  <2>9. QED
    BY <1>5, <1>6, <1>7, <2>6, <2>7, <2>8
<1>11. QED
  BY <1>9, <1>10

LEMMA NbtIs ==
  ASSUME NEW c \in Seq(Octet), Len(c) = 1
  PROVE  c # <<>> /\ Front(c) \in Seq(Octet) /\ ~ReadNbt(Front(c)).ok
<1>1. c # <<>>
  BY Longish
<1>2. Front(c) \in Seq(Octet) /\ Len(Front(c)) < 1
  BY <1>1, FrontShorter
<1>3. ~ReadFixed(1, Front(c)).ok
  BY <1>2, FixedShort
<1>4. QED
  BY <1>1, <1>2, <1>3 DEF ReadNbt, Raised

LEMMA TaggedIs ==
  /\ \A v : Tagged("NBT", v) = TRUE
  /\ \A v : Len(v) > 2 => Tagged("Slot", v) = TRUE
BY DEF Tagged

LEMMA ReadableIs ==
  ASSUME NEW type \in Readable
  PROVE  \/ type \in DOMAIN Width \/ type = "VarInt" \/ type \in Bytes
         \/ type = "NBT" \/ type = "Slot" \/ type \in Arrays
BY DEF Readable, Types, Bytes, Arrays

\* A field is read as it was written, or has a tag.
LEMMA ReadFirst ==
  ASSUME NEW type \in Readable, NEW v, Fits(type, v), NEW y \in Seq(Octet)
  PROVE  \/ Read(type, Send(type, v) \o y) = Got(v, y)
         \/ ~Read(type, Send(type, v) \o y).ok /\ Tagged(type, v) = TRUE
<1>1. CASE type \in DOMAIN Width
  <2>1. v \in Seq(Octet) /\ Len(v) = Width[type] /\ Send(type, v) = v
    BY <1>1, FitsIs, SendIsAll
  <2>2. ReadFixed(Len(v), v \o y) = Got(v, y)
    BY <2>1, FixedFirst
  <2>3. Read(type, v \o y) = ReadFixed(Width[type], v \o y)
    BY <1>1, ReadIs
  <2>4. QED
    BY <2>1, <2>2, <2>3
<1>2. CASE type = "VarInt"
  <2>1. v \in Seq(VarInts) /\ Len(v) = 1 /\ Send(type, v) = Sent(v[1])
    BY <1>2, FitsIs, SendIsAll
  <2>2. v[1] \in VarInts /\ v = <<v[1]>>
    BY <2>1
  <2>3. PICK n : n = v[1]
    OBVIOUS
  <2>4. ReadVarInt(Sent(n) \o y) = Got(<<n>>, y)
    BY <2>2, <2>3, NumberFirst
  <2>5. Read("VarInt", Sent(n) \o y) = ReadVarInt(Sent(n) \o y)
    BY ReadIs
  <2>6. QED
    BY <1>2, <2>1, <2>2, <2>3, <2>4, <2>5
<1>3. CASE type \in Bytes
  <2>1. /\ v \in Seq(Octet) /\ Len(v) \in VarInts /\ Send(type, v) = Sent(Len(v)) \o v
        /\ type = "String" => Utf8(v)
    BY <1>3, FitsIs, SendIsAll DEF Bytes
  <2>2. PICK s : s = (Sent(Len(v)) \o v) \o y
    OBVIOUS
  <2>3. (Utf8(v) => ReadString(s) = Got(v, y)) /\ ReadBytes(s) = Got(v, y)
    BY <2>1, <2>2, CountedFirst
  <2>4. Read("String", s) = ReadString(s) /\ Read("VarIntPrefixedByteArray", s) = ReadBytes(s)
    BY ReadIs
  <2>5. QED
    BY <1>3, <2>1, <2>2, <2>3, <2>4 DEF Bytes
<1>4. CASE type = "NBT"
  <2>1. v \in Seq(Octet) /\ Len(v) = 1 /\ Send(type, v) = v
    BY <1>4, FitsIs, SendIsAll
  <2>2. Read("NBT", v \o y) = ReadNbt(v \o y)
    BY ReadIs
  <2>3. ReadNbt(v \o y) = Got(v, y) \/ ~ReadNbt(v \o y).ok
    BY <2>1, NbtFirst
  <2>4. QED
    BY <1>4, <2>1, <2>2, <2>3, TaggedIs
<1>5. CASE type = "Slot"
  <2>1. IsSlot(v) /\ Send(type, v) = v
    BY <1>5, FitsIs, SendIsAll
  <2>2. Read("Slot", v \o y) = ReadSlot(v \o y)
    BY ReadIs
  <2>3. ReadSlot(v \o y) = Got(v, y) \/ (~ReadSlot(v \o y).ok /\ Len(v) > 2)
    BY <2>1, SlotFirst
  <2>4. QED
    BY <1>5, <2>1, <2>2, <2>3, TaggedIs
<1>6. CASE type \in Arrays
  BY <1>6, ArrayFirst
<1>7. QED
  BY <1>1, <1>2, <1>3, <1>4, <1>5, <1>6, ReadableIs

\* What is read of a field without its last byte is the beginning of a text.
LEMMA ReadCut ==
  ASSUME NEW type \in Readable, NEW v, Fits(type, v), NEW s, s = Send(type, v),
         NEW t, t = Front(s)
  PROVE  /\ s \in Seq(Octet) /\ s # <<>> /\ t \in Seq(Octet)
         /\ Read(type, t).ok => IsPrefix(Read(type, t).value, v)
<1>0. s \in Seq(Octet)
  BY SendType DEF Readable
<1>1. CASE type \in DOMAIN Width
  <2>1. v \in Seq(Octet) /\ Len(v) = Width[type] /\ s = v /\ Width[type] \in 1 .. 8
    BY <1>1, FitsIs, SendIsAll, WidthIs
  <2>2. PICK n \in Nat : n = Width[type] /\ n # 0
    BY <2>1
  <2>3. s # <<>>
    BY <2>1, <2>2, Longish
  <2>4. t \in Seq(Octet) /\ Len(t) < n
    BY <2>1, <2>2, <2>3, FrontShorter
  <2>5. ~ReadFixed(n, t).ok
    BY <2>2, <2>4, FixedShort
  <2>6. Read(type, t) = ReadFixed(Width[type], t)
    BY <1>1, ReadIs
  <2>7. QED
    BY <1>0, <2>2, <2>3, <2>4, <2>5, <2>6
<1>2. CASE type = "VarInt"
  <2>1. v \in Seq(VarInts) /\ Len(v) = 1 /\ s = Sent(v[1])
    BY <1>2, FitsIs, SendIsAll
  <2>2. PICK n : n = v[1] /\ n \in VarInts
    BY <2>1
  <2>3. Len(s) = Size(n) /\ Size(n) \in 1 .. 5
    BY <2>1, <2>2, SentIs, SizeIs
  <2>4. s # <<>>
    BY <1>0, <2>3, Longish
  <2>5. t \in Seq(Octet) /\ ~Whole(t)
    BY <2>1, <2>2, SentFront
  <2>6. ~ReadVarInt(t).ok
    BY <2>5 DEF ReadVarInt, Raised
  <2>7. Read("VarInt", t) = ReadVarInt(t)
    BY ReadIs
  <2>8. QED
    BY <1>0, <1>2, <2>4, <2>5, <2>6, <2>7
<1>3. CASE type \in Bytes
  <2>1. v \in Seq(Octet) /\ Len(v) \in VarInts /\ s = Sent(Len(v)) \o v
    BY <1>3, FitsIs, SendIsAll DEF Bytes
  <2>2. /\ s # <<>> /\ t \in Seq(Octet)
        /\ ReadString(t).ok => IsPrefix(ReadString(t).value, v)
        /\ ~ReadBytes(t).ok
    BY <2>1, CountedCut
  <2>3. Read("String", t) = ReadString(t) /\ Read("VarIntPrefixedByteArray", t) = ReadBytes(t)
    BY ReadIs
  <2>4. QED
    BY <1>0, <1>3, <2>2, <2>3 DEF Bytes
<1>4. CASE type = "NBT"
  <2>1. v \in Seq(Octet) /\ Len(v) = 1 /\ s = v
    BY <1>4, FitsIs, SendIsAll
  <2>2. s # <<>> /\ t \in Seq(Octet) /\ ~ReadNbt(t).ok
    BY <2>1, NbtIs
  <2>3. Read("NBT", t) = ReadNbt(t)
    BY ReadIs
  <2>4. QED
    BY <1>0, <1>4, <2>2, <2>3
<1>5. CASE type = "Slot"
  <2>1. IsSlot(v) /\ s = v
    BY <1>5, FitsIs, SendIsAll
  <2>2. s # <<>> /\ t \in Seq(Octet) /\ ~ReadSlot(t).ok
    BY <2>1, SlotIs, SlotCut
  <2>3. Read("Slot", t) = ReadSlot(t)
    BY ReadIs
  <2>4. QED
    BY <1>0, <1>5, <2>2, <2>3
<1>6. CASE type \in Arrays
  <2>1. s # <<>> /\ t \in Seq(Octet) /\ ~Read(type, t).ok
    BY <1>6, ArrayCut
  <2>2. QED
    BY <1>0, <2>1
<1>7. QED
  BY <1>1, <1>2, <1>3, <1>4, <1>5, <1>6, ReadableIs

-----------------------------------------------------------------------------
(* The fields of a packet, whatever their types *)

AnyAttributes == [ok : BOOLEAN, value : AnyValue]
AnyFields == [set : Seq(AnyAttributes), rest : Seq(Octet)]
AnyReading == [p \in AnyFields \X Readable |-> FieldRead(p[1], p[2])]

LEMMA AnyFieldRead ==
  ASSUME NEW got \in AnyFields, NEW type \in Readable, NEW one, one = Read(type, got.rest)
  PROVE  /\ FieldRead(got, type) \in AnyFields /\ one \in Outcome(AnyValue)
         /\ FieldRead(got, type).set = Append(got.set, [ok |-> one.ok, value |-> one.value])
         /\ FieldRead(got, type).rest = one.rest
<1> DEFINE a == [ok |-> one.ok, value |-> one.value]
<1>1. got.set \in Seq(AnyAttributes) /\ got.rest \in Seq(Octet)
  BY DEF AnyFields
<1>2. one \in Outcome(AnyValue)
  BY <1>1, ReadOutcome
<1>3. FieldRead(got, type) = [set |-> Append(got.set, a), rest |-> one.rest]
  BY DEF FieldRead
<1>4. one.ok \in BOOLEAN /\ one.rest \in Seq(Octet) /\ one.value \in AnyValue
  BY <1>2 DEF Outcome
<1>5. a \in AnyAttributes
  BY <1>4 DEF AnyAttributes
<1> HIDE DEF a
<1> DEFINE b == Append(got.set, a)
<1>6. b \in Seq(AnyAttributes)
  BY <1>1, <1>5, AppendProperties
<1>7. FieldRead(got, type) = [set |-> b, rest |-> one.rest]
  BY <1>3
<1>8. FieldRead(got, type).set = b /\ FieldRead(got, type).rest = one.rest
  BY <1>7
<1> HIDE DEF b
<1>9. FieldRead(got, type) \in AnyFields
  BY <1>4, <1>6, <1>7 DEF AnyFields
<1>10. QED
  BY <1>2, <1>8, <1>9 DEF a, b

LEMMA AnyReadingIs ==
  /\ Folding(AnyReading, AnyFields, Readable)
  /\ \A got \in AnyFields, type \in Readable : AnyReading[<<got, type>>] = FieldRead(got, type)
<1> DEFINE op(got, type) == FieldRead(got, type)
<1>1. \A got \in AnyFields, type \in Readable : op(got, type) \in AnyFields
  BY AnyFieldRead
<1>2. AnyReading = [p \in AnyFields \X Readable |-> op(p[1], p[2])]
  BY DEF AnyReading
<1> HIDE DEF op
<1>3. \A p \in AnyFields \X Readable : op(p[1], p[2]) \in AnyFields
  BY <1>1
<1>4. AnyReading \in [AnyFields \X Readable -> AnyFields]
  BY <1>2, <1>3
<1>5. \A got \in AnyFields, type \in Readable : AnyReading[<<got, type>>] = op(got, type)
  BY <1>2
<1>6. QED
  BY <1>4, <1>5 DEF op, Folding

LEMMA AnyFieldsFold ==
  ASSUME NEW f \in Seq(Readable), NEW s \in Seq(Octet)
  PROVE  ReadFields(f, s) = Fold(AnyReading, Unread(s), f) /\ Unread(s) \in AnyFields
<1> DEFINE A == AnyFields
           B == Readable
           F == AnyReading
           base == Unread(s)
           op(z, b) == FieldRead(z, b)
           P(g) == g = [t \in SUBSET DOMAIN f |->
                          IF t = {} THEN base ELSE op(g[t \ {Max(t)}], f[Max(t)])]
           c == CHOOSE g : P(g)
<1>1. ReadFields(f, s) = c[DOMAIN f]
  BY DEF ReadFields, FoldLeft, MapThenFoldSet, FieldRead, Unread
<1>2. F \in [A \X B -> A] /\ \A z \in A, b \in B : F[<<z, b>>] = op(z, b)
  BY AnyReadingIs DEF Folding
<1>3. f \in Seq(B) /\ base \in A
  <2>1. <<>> \in Seq(AnyAttributes)
    OBVIOUS
  <2>2. QED
    BY <2>1 DEF Unread, AnyFields
<1> HIDE DEF op, F, A, B, base
<1>4. PICK g \in [SUBSET DOMAIN f -> A] : Folds(g, F, base, f)
  BY <1>2, <1>3, FoldsExists
<1>5. P(g)
  <2>1. ASSUME NEW t \in SUBSET DOMAIN f, t # {}
        PROVE  F[<<g[t \ {Max(t)}], f[Max(t)]>>] = op(g[t \ {Max(t)}], f[Max(t)])
    <3>1. f[Max(t)] \in B /\ g[t \ {Max(t)}] \in A
      BY <1>3, <2>1, LastOf
    <3>2. QED
      BY <1>2, <3>1
  <2>2. QED
    BY <1>4, <2>1 DEF Folds
<1>6. P(c)
  BY <1>5
<1> HIDE DEF c
<1>7. c[{}] = base
  BY <1>6
<1>8. ASSUME NEW t \in SUBSET DOMAIN f, t # {}, c[t \ {Max(t)}] \in A
      PROVE  c[t] = F[<<c[t \ {Max(t)}], f[Max(t)]>>]
  <2>1. f[Max(t)] \in B
    BY <1>3, <1>8, LastOf
  <2>2. c[t] = op(c[t \ {Max(t)}], f[Max(t)])
    BY <1>6, <1>8
  <2>3. QED
    BY <1>2, <1>8, <2>1, <2>2
<1>9. GoesOn(c, A, F, f)
  BY <1>8, Zenon DEF GoesOn
<1> HIDE DEF P
<1>10. Folding(F, A, B)
  BY <1>2 DEF Folding
<1>11. c[DOMAIN f] = Fold(F, base, f)
  BY <1>3, <1>7, <1>9, <1>10, FoldChosen
<1>12. QED
  BY <1>1, <1>3, <1>11 DEF F, base, A

LEMMA AnyFieldsNext ==
  ASSUME NEW s \in Seq(Octet)
  PROVE  /\ \A q \in Seq(Readable) : ReadFields(q, s) \in AnyFields
         /\ ReadFields(<<>>, s) = Unread(s)
         /\ \A q \in Seq(Readable), type \in Readable :
              ReadFields(Append(q, type), s) = FieldRead(ReadFields(q, s), type)
<1> DEFINE A == AnyFields
           B == Readable
           base == Unread(s)
<1>1. Folding(AnyReading, A, B) /\ base \in A
  <2>1. <<>> \in Seq(Readable)
    OBVIOUS
  <2>2. QED
    BY <2>1, AnyReadingIs, AnyFieldsFold
<1> HIDE DEF A, B, base
<1>2. /\ \A q \in Seq(B) : Fold(AnyReading, base, q) \in A
      /\ Fold(AnyReading, base, <<>>) = base
      /\ \A q \in Seq(B), type \in B :
           Fold(AnyReading, base, Append(q, type))
             = AnyReading[<<Fold(AnyReading, base, q), type>>]
  BY <1>1, FoldIs
<1>3. \A q \in Seq(B) : ReadFields(q, s) = Fold(AnyReading, base, q)
  BY AnyFieldsFold DEF B, base
<1>4. <<>> \in Seq(B) /\ \A q \in Seq(B), type \in B : Append(q, type) \in Seq(B)
  OBVIOUS
<1>5. \A q \in A, type \in B : AnyReading[<<q, type>>] = FieldRead(q, type)
  BY AnyReadingIs, Zenon DEF A, B
<1>6. QED
  BY <1>2, <1>3, <1>4, <1>5, Zenon DEF A, B, base

-----------------------------------------------------------------------------
(* The fields of a packet, from their writing to their reading *)

\* The types whose values may have a tag, which the tables have in last fields only.
Taggable == {"NBT", "Slot", "SlotArray"}

\* Fields without tags, their values, the bytes of each, and s: those bytes and z.
Row(q, values, g, z, s) ==
  /\ q \in Seq(Readable) /\ g \in Seq(Seq(Octet)) /\ Len(g) = Len(q)
  /\ z \in Seq(Octet) /\ s = FlattenSeq(g) \o z
  /\ \A i \in 1 .. Len(q) :
       q[i] \notin Taggable /\ Fits(q[i], values[i]) /\ g[i] = Send(q[i], values[i])

\* The first n fields have been read as they were written, and r is left.
AllRead(got, values, n, r) ==
  /\ got \in AnyFields /\ Len(got.set) = n /\ got.rest = r
  /\ \A i \in 1 .. n : got.set[i] = [ok |-> TRUE, value |-> values[i]]

\* Types that are no tags.
LEMMA NotTagged ==
  ASSUME NEW type, type \notin Taggable, NEW v
  PROVE  Tagged(type, v) = FALSE
BY DEF Tagged, Taggable

LEMMA NextRead ==
  ASSUME NEW got, NEW values, NEW n \in Nat, NEW r, NEW type \in Readable, NEW y,
         AllRead(got, values, n, r), Read(type, r) = Got(values[n + 1], y)
  PROVE  AllRead(FieldRead(got, type), values, n + 1, y)
<1>1. got \in AnyFields /\ Len(got.set) = n /\ got.rest = r
  BY DEF AllRead
<1>2. PICK one, next : one = Read(type, got.rest) /\ next = FieldRead(got, type)
  OBVIOUS
<1>3. PICK a : a = [ok |-> one.ok, value |-> one.value]
  OBVIOUS
<1>4. next \in AnyFields /\ next.set = Append(got.set, a) /\ next.rest = one.rest
  BY <1>1, <1>2, <1>3, AnyFieldRead
<1>5. one = Got(values[n + 1], y)
  BY <1>1, <1>2
<1>6. one.ok = TRUE /\ one.value = values[n + 1] /\ one.rest = y
  BY <1>5 DEF Got
<1>7. a = [ok |-> TRUE, value |-> values[n + 1]]
  BY <1>3, <1>6
<1>8. PICK set : set = got.set
  OBVIOUS
<1>9. set \in Seq(AnyAttributes) /\ Len(set) = n
  BY <1>1, <1>8 DEF AnyFields
<1>10. PICK c : c = Append(set, a)
  OBVIOUS
<1>11. /\ Len(c) = n + 1 /\ c[n + 1] = a
       /\ \A i \in 1 .. n : c[i] = set[i]
  BY <1>9, <1>10
<1>12. \A i \in 1 .. n : set[i] = [ok |-> TRUE, value |-> values[i]]
  BY <1>8 DEF AllRead
<1>13. \A i \in 1 .. n + 1 : c[i] = [ok |-> TRUE, value |-> values[i]]
  <2>1. ASSUME NEW i \in 1 .. n + 1 PROVE c[i] = [ok |-> TRUE, value |-> values[i]]
    <3>1. CASE i \in 1 .. n
      BY <1>11, <1>12, <3>1
    <3>2. CASE i = n + 1
      BY <1>7, <1>11, <3>2
    <3>3. QED
      BY <2>1, <3>1, <3>2
  <2>2. QED
    BY <2>1
<1>14. next.set = c
  BY <1>4, <1>8, <1>10
<1>15. QED
  BY <1>2, <1>4, <1>6, <1>11, <1>13, <1>14 DEF AllRead

\* A row cut off: the fields before the last are read as they were sent.
LEMMA RowSome ==
  ASSUME NEW q, NEW values, NEW g, NEW z, NEW s, Row(q, values, g, z, s),
         NEW m \in Nat, m <= Len(q)
  PROVE  AllRead(ReadFields(SubSeq(q, 1, m), s), values, m, Rest(g, m) \o z)
<1>a. /\ q \in Seq(Readable) /\ g \in Seq(Seq(Octet)) /\ Len(g) = Len(q)
      /\ z \in Seq(Octet) /\ s = FlattenSeq(g) \o z
  BY DEF Row
<1> DEFINE P(k) == k <= Len(q)
                     => AllRead(ReadFields(SubSeq(q, 1, k), s), values, k, Rest(g, k) \o z)
           T == {k \in Nat : P(k)}
<1>0. Len(q) \in Nat /\ s \in Seq(Octet) /\ FlattenSeq(g) \in Seq(Octet)
  BY <1>a, FlattenType, JoinType
<1>1. 0 \in T
  <2>1. SubSeq(q, 1, 0) = <<>>
    BY SubSeqEmpty
  <2>2. Rest(g, 0) = FlattenSeq(g)
    <3>1. SubSeq(g, 1, Len(g)) = g
      <4> DEFINE R == Seq(Octet)
      <4>1. g \in Seq(R)
        BY <1>a
      <4> HIDE DEF R
      <4>2. QED
        BY <4>1
    <3>2. 0 + 1 = 1
      OBVIOUS
    <3>3. Rest(g, 0) = FlattenSeq(SubSeq(g, 0 + 1, Len(g)))
      BY Zenon DEF Rest
    <3>4. QED
      BY <3>1, <3>2, <3>3
  <2>3. Rest(g, 0) \o z = s
    BY <1>a, <2>2
  <2>4. PICK u, e : u = Unread(s) /\ e = <<>>
    OBVIOUS
  <2>5. u = ReadFields(<<>>, s) /\ u \in AnyFields
    <3>1. <<>> \in Seq(Readable)
      OBVIOUS
    <3>2. QED
      BY <1>0, <2>4, <3>1, AnyFieldsNext
  <2>6. u.set = e /\ u.rest = s /\ Len(e) = 0
    BY <2>4 DEF Unread
  <2>x. AllRead(u, values, 0, s)
    BY <2>5, <2>6 DEF AllRead
  <2>7. AllRead(ReadFields(SubSeq(q, 1, 0), s), values, 0, Rest(g, 0) \o z)
    BY <2>1, <2>3, <2>5, <2>x
  <2>8. QED
    BY <2>7
<1>2. ASSUME NEW k \in Nat, P(k) PROVE P(k + 1)
  <2>0. SUFFICES ASSUME k + 1 <= Len(q)
                 PROVE  AllRead(ReadFields(SubSeq(q, 1, k + 1), s), values, k + 1,
                                Rest(g, k + 1) \o z)
    OBVIOUS
  <2>1. k < Len(q) /\ k <= Len(q) /\ k + 1 \in 1 .. Len(q)
    BY <1>0, <2>0
  <2>2. PICK got, r, type, y, p :
          /\ p = SubSeq(q, 1, k) /\ got = ReadFields(p, s) /\ r = Rest(g, k) \o z
          /\ type = q[k + 1] /\ y = Rest(g, k + 1) \o z
    OBVIOUS
  <2>3. AllRead(got, values, k, r)
    BY <1>2, <2>1, <2>2
  <2>4. type \in Readable /\ p \in Seq(Readable) /\ SubSeq(q, 1, k + 1) = Append(p, type)
    <3>1. /\ p \in Seq(Readable) /\ type \in Readable
          /\ p \o <<type>> = SubSeq(q, 1, k + 1)
      BY <1>a, <2>1, <2>2, FirstElements
    <3>2. QED
      BY <3>1, AppendIsConcat
  <2>5. y \in Seq(Octet) /\ g[k + 1] \in Seq(Octet) /\ r = g[k + 1] \o y
    <3>1. (k + 1) - 1 = k /\ k + 1 \in 1 .. Len(g) /\ k + 1 \in 0 .. Len(g)
      BY <1>a, <2>1
    <3>2. Rest(g, k) = g[k + 1] \o Rest(g, k + 1)
      <4>1. Rest(g, (k + 1) - 1) = g[k + 1] \o Rest(g, k + 1)
        BY <1>a, <3>1, PartsNext
      <4>2. QED
        BY <3>1, <4>1
    <3>3. Rest(g, k + 1) \in Seq(Octet)
      BY <1>a, <3>1, PartsType
    <3>4. g[k + 1] \in Seq(Octet)
      <4> DEFINE R == Seq(Octet)
      <4>1. g \in Seq(R)
        BY <1>a
      <4> HIDE DEF R
      <4>2. g[k + 1] \in R
        BY <3>1, <4>1, ElementOfSeq
      <4>3. QED
        BY <4>2 DEF R
    <3>5. Reassociates(Octet)
      BY Reassociate
    <3>6. \A a, b, c \in Seq(Octet) : (a \o b) \o c = a \o (b \o c)
      BY <3>5, Zenon DEF Reassociates
    <3>7. (g[k + 1] \o Rest(g, k + 1)) \o z = g[k + 1] \o (Rest(g, k + 1) \o z)
      BY <1>a, <3>3, <3>4, <3>6, Zenon
    <3>8. y \in Seq(Octet)
      BY <1>a, <2>2, <3>3, JoinType
    <3>9. QED
      BY <2>2, <3>2, <3>4, <3>7, <3>8, Zenon
  <2>6. Fits(type, values[k + 1]) /\ g[k + 1] = Send(type, values[k + 1]) /\ type \notin Taggable
    BY <2>1, <2>2 DEF Row
  <2>7. Read(type, r) = Got(values[k + 1], y)
    <3>1. PICK v : v = values[k + 1]
      OBVIOUS
    <3>2. Fits(type, v) /\ r = Send(type, v) \o y
      BY <2>5, <2>6, <3>1
    <3>3. Tagged(type, v) = FALSE
      BY <2>6, NotTagged
    <3>4. QED
      BY <2>4, <2>5, <3>1, <3>2, <3>3, ReadFirst
  <2>8. AllRead(FieldRead(got, type), values, k + 1, y)
    BY <2>3, <2>4, <2>7, NextRead
  <2>9. ReadFields(Append(p, type), s) = FieldRead(got, type)
    BY <1>0, <2>2, <2>4, AnyFieldsNext
  <2>10. QED
    BY <2>2, <2>4, <2>8, <2>9
<1> HIDE DEF P
<1>3. T \in SUBSET Nat /\ \A k \in T : k + 1 \in T
  BY <1>2
<1>4. T = Nat
  BY <1>1, <1>3, Induct
<1>5. \A k \in Nat : P(k)
  BY <1>4
<1>6. P(m)
  BY <1>5
<1>7. QED
  BY <1>6 DEF P

\* A whole row: all fields are, whatever follows.
LEMMA RowAll ==
  ASSUME NEW q, NEW values, NEW g, NEW z, NEW s, Row(q, values, g, z, s)
  PROVE  AllRead(ReadFields(q, s), values, Len(q), z)
<1>a. /\ q \in Seq(Readable) /\ g \in Seq(Seq(Octet)) /\ Len(g) = Len(q)
      /\ z \in Seq(Octet) /\ s = FlattenSeq(g) \o z
  BY DEF Row
<1>0. Len(q) \in Nat
  BY <1>a
<1>1. PICK n : n = Len(q) /\ n \in Nat /\ n <= Len(q)
  BY <1>0
<1>2. SubSeq(q, 1, n) = q
  <2> DEFINE R == Readable
  <2>1. q \in Seq(R)
    BY <1>a
  <2> HIDE DEF R
  <2>2. QED
    BY <1>1, <2>1
<1>3. Rest(g, n) = <<>>
  BY <1>a, <1>1, PartsType
<1>4. <<>> \o z = z
  BY ConcatEmptySeq
<1>5. AllRead(ReadFields(SubSeq(q, 1, n), s), values, n, Rest(g, n) \o z)
  BY <1>1, RowSome
<1>6. QED
  BY <1>1, <1>2, <1>3, <1>4, <1>5

GoodRow(f) == f \in Seq(Readable) /\ \A i \in 1 .. Len(f) : i < Len(f) => f[i] \notin Taggable
Fitting(f, values) == DOMAIN values = DOMAIN f /\ \A i \in DOMAIN f : Fits(f[i], values[i])
Sends(f, values) == [i \in DOMAIN f |-> Send(f[i], values[i])]

\* The attributes of a packet, as AsSent has them.
Kept(set, f, values, whole) ==
  /\ Len(set) = Len(f) /\ DOMAIN set = 1 .. Len(f)
  /\ \A i \in 1 .. Len(f) :
       /\ set[i].ok => IsPrefix(set[i].value, values[i])
       /\ set[i].ok /\ whole => set[i].value = values[i]
       /\ ~set[i].ok => i = Len(set) /\ (~whole \/ Tagged(f[i], values[i]) = TRUE)

\* A row, and one field more.
OneMore(f, values, q, type, n, v, g, e) ==
  /\ f = Append(q, type) /\ n = Len(q) /\ n \in Nat /\ Len(f) = n + 1 /\ type \in Readable
  /\ \A i \in 1 .. n : f[i] = q[i]
  /\ f[n + 1] = type /\ v = values[n + 1] /\ Fits(type, v) /\ e = Send(type, v)
  /\ g \in Seq(Seq(Octet)) /\ e \in Seq(Octet) /\ FlattenSeq(Sends(f, values)) = FlattenSeq(g) \o e
  /\ \A z \in Seq(Octet) : Row(q, values, g, z, FlattenSeq(g) \o z)

LEMMA RowParts ==
  ASSUME NEW f, GoodRow(f), f # <<>>, NEW values, Fitting(f, values)
  PROVE  \E q, type, n, v, g, e : OneMore(f, values, q, type, n, v, g, e)
<1>1. f \in Seq(Readable) /\ Len(f) \in Nat /\ Len(f) # 0 /\ DOMAIN f = 1 .. Len(f)
  <2> DEFINE R == Readable
  <2>1. f \in Seq(R) /\ f # <<>>
    BY DEF GoodRow
  <2> HIDE DEF R
  <2>2. Len(f) \in Nat /\ Len(f) # 0 /\ DOMAIN f = 1 .. Len(f)
    BY <2>1
  <2>3. QED
    BY <2>1, <2>2 DEF R
<1>2. PICK n \in Nat : Len(f) = n + 1
  <2>1. Len(f) - 1 \in Nat /\ Len(f) = (Len(f) - 1) + 1
    BY <1>1
  <2>2. QED
    BY <2>1, Zenon
<1>3. PICK q, type, v, h, e, g :
        /\ q = SubSeq(f, 1, n) /\ type = f[n + 1] /\ v = values[n + 1]
        /\ h = Sends(f, values) /\ e = h[n + 1] /\ g = SubSeq(h, 1, n)
  OBVIOUS
<1>4. n < Len(f) /\ n + 1 \in 1 .. Len(f)
  BY <1>2
<1>5. q \in Seq(Readable) /\ type \in Readable /\ f = Append(q, type) /\ Len(q) = n
      /\ \A i \in 1 .. n : f[i] = q[i]
  <2> DEFINE R == Readable
  <2>1. f \in Seq(R)
    BY <1>1
  <2> HIDE DEF R
  <2>2. q \in Seq(R) /\ type \in R /\ q \o <<type>> = SubSeq(f, 1, n + 1)
    BY <1>3, <1>4, <2>1, FirstElements
  <2>3. SubSeq(f, 1, n + 1) = f
    BY <1>2, <2>1
  <2>4. Len(q) = n /\ \A i \in 1 .. n : q[i] = f[i]
    BY <1>3, <1>4, <2>1, SubSeqProperties
  <2>5. QED
    BY <2>2, <2>3, <2>4, AppendIsConcat DEF R
<1>6. \A i \in 1 .. n + 1 : Fits(f[i], values[i]) /\ h[i] = Send(f[i], values[i])
                            /\ f[i] \in Readable /\ h[i] \in Seq(Octet)
  <2>1. ASSUME NEW i \in 1 .. n + 1
        PROVE  Fits(f[i], values[i]) /\ h[i] = Send(f[i], values[i])
               /\ f[i] \in Readable /\ h[i] \in Seq(Octet)
    <3>1. i \in DOMAIN f
      BY <1>1, <1>2
    <3>2. Fits(f[i], values[i])
      BY <3>1 DEF Fitting
    <3>3. h[i] = Send(f[i], values[i])
      BY <1>3, <3>1 DEF Sends
    <3>4. f[i] \in Readable
      BY <1>1, <1>2, ElementOfSeq
    <3>5. PICK t, w : t = f[i] /\ w = values[i]
      OBVIOUS
    <3>6. Send(t, w) \in Seq(Octet)
      BY <3>2, <3>4, <3>5, SendType DEF Readable
    <3>7. QED
      BY <3>2, <3>3, <3>4, <3>5, <3>6
  <2>2. QED
    BY <2>1
<1> DEFINE R == Seq(Octet)
<1>7. \A i \in 1 .. n + 1 : h[i] \in R
  BY <1>6
<1> HIDE DEF R
<1>8. h \in Seq(R) /\ Len(h) = n + 1
  <2>1. h = [i \in 1 .. n + 1 |-> h[i]]
    <3>1. h = [i \in 1 .. n + 1 |-> Send(f[i], values[i])]
      BY <1>1, <1>2, <1>3 DEF Sends
    <3>2. QED
      BY <3>1
  <2>2. Listed(h, n + 1)
    BY <2>1 DEF Listed
  <2>3. QED
    BY <1>2, <1>7, <2>2, ListedSeq
<1>9. g \in Seq(R) /\ Len(g) = n /\ e \in R /\ \A i \in 1 .. n : g[i] = h[i]
  <2>1. e \in R
    BY <1>3, <1>4, <1>7
  <2>2. n < Len(h)
    BY <1>8
  <2>3. QED
    BY <1>3, <1>8, <2>1, <2>2, SubSeqProperties
<1>10. h = Append(g, e)
  <2>1. n < Len(h)
    BY <1>8
  <2>2. g \o <<e>> = SubSeq(h, 1, n + 1)
    BY <1>3, <1>8, <2>1, FirstElements
  <2>3. SubSeq(h, 1, n + 1) = h
    BY <1>8
  <2>4. QED
    BY <1>9, <2>2, <2>3, AppendIsConcat
<1>11. FlattenSeq(h) = FlattenSeq(g) \o e
  <2>1. g \in Seq(Seq(Octet)) /\ e \in Seq(Octet)
    BY <1>9 DEF R
  <2>2. QED
    BY <1>10, <2>1, FlattenAppend
<1>12. ASSUME NEW z \in Seq(Octet)
       PROVE  Row(q, values, g, z, FlattenSeq(g) \o z)
  <2>1. ASSUME NEW i \in 1 .. n
        PROVE  q[i] \notin Taggable /\ Fits(q[i], values[i]) /\ g[i] = Send(q[i], values[i])
    <3>1. i \in 1 .. n + 1 /\ i < Len(f) /\ i \in 1 .. Len(f)
      BY <1>2
    <3>2. q[i] = f[i] /\ g[i] = h[i]
      BY <1>5, <1>9
    <3>3. f[i] \notin Taggable
      BY <3>1 DEF GoodRow
    <3>4. QED
      BY <1>6, <3>1, <3>2, <3>3
  <2>2. g \in Seq(Seq(Octet)) /\ Len(g) = Len(q)
    BY <1>5, <1>9 DEF R
  <2>3. \A i \in 1 .. Len(q) :
           q[i] \notin Taggable /\ Fits(q[i], values[i]) /\ g[i] = Send(q[i], values[i])
    BY <1>5, <2>1
  <2>4. QED
    BY <1>5, <1>12, <2>2, <2>3, Zenon DEF Row
<1>13. /\ f[n + 1] = type /\ v = values[n + 1] /\ Fits(type, v) /\ e = Send(type, v)
  BY <1>3, <1>4, <1>6
<1>14. g \in Seq(Seq(Octet)) /\ e \in Seq(Octet)
  BY <1>9 DEF R
<1>15. OneMore(f, values, q, type, n, v, g, e)
  BY <1>2, <1>3, <1>5, <1>11, <1>12, <1>13, <1>14 DEF OneMore
<1>16. QED
  BY <1>15

\* What is set once the last field has been read, too.
LastSet(set, values, n, one) ==
  /\ n \in Nat /\ set \in Seq(AnyAttributes) /\ Len(set) = n + 1
  /\ \A i \in 1 .. n : set[i] = [ok |-> TRUE, value |-> values[i]]
  /\ set[n + 1] = [ok |-> one.ok, value |-> one.value]

LEMMA LastRead ==
  ASSUME NEW q, NEW values, NEW g, NEW z, NEW s, Row(q, values, g, z, s), NEW type \in Readable
  PROVE  LastSet(ReadFields(Append(q, type), s).set, values, Len(q), Read(type, z))
<1>0. PICK one, got, n : one = Read(type, z) /\ got = ReadFields(Append(q, type), s) /\ n = Len(q)
  OBVIOUS
<1>1. q \in Seq(Readable) /\ s \in Seq(Octet) /\ n \in Nat
  <2>1. q \in Seq(Readable) /\ g \in Seq(Seq(Octet)) /\ z \in Seq(Octet) /\ s = FlattenSeq(g) \o z
    BY DEF Row
  <2>2. Len(q) \in Nat
    BY <2>1
  <2>3. QED
    BY <1>0, <2>1, <2>2, FlattenType, JoinType
<1>2. PICK begun : begun = ReadFields(q, s)
  OBVIOUS
<1>3. AllRead(begun, values, n, z)
  BY <1>0, <1>2, RowAll
<1>4. begun \in AnyFields /\ Len(begun.set) = n /\ begun.rest = z
      /\ \A i \in 1 .. n : begun.set[i] = [ok |-> TRUE, value |-> values[i]]
  BY <1>3 DEF AllRead
<1>5. got = FieldRead(begun, type)
  BY <1>0, <1>1, <1>2, AnyFieldsNext
<1>6. PICK a, set : a = [ok |-> one.ok, value |-> one.value] /\ set = begun.set
  OBVIOUS
<1>7. got \in AnyFields /\ got.set = Append(set, a) /\ set \in Seq(AnyAttributes)
  <2>1. one = Read(type, begun.rest)
    BY <1>0, <1>4
  <2>2. got \in AnyFields /\ got.set = Append(set, a)
    BY <1>4, <1>5, <1>6, <2>1, AnyFieldRead
  <2>3. QED
    BY <1>4, <1>6, <2>2 DEF AnyFields
<1>8. PICK c : c = Append(set, a)
  OBVIOUS
<1>9. Len(set) = n
  BY <1>4, <1>6
<1>10. /\ Len(c) = n + 1 /\ c[n + 1] = a
       /\ \A i \in 1 .. n : c[i] = set[i]
  BY <1>7, <1>8, <1>9
<1>11. c \in Seq(AnyAttributes)
  BY <1>7, <1>8 DEF AnyFields
<1>12. PICK w : w = got.set
  OBVIOUS
<1>13. w = c
  BY <1>7, <1>8, <1>12
<1>14. LastSet(w, values, n, one)
  BY <1>1, <1>4, <1>6, <1>10, <1>11, <1>13 DEF LastSet
<1>15. QED
  BY <1>0, <1>12, <1>14

LEMMA PrefixAny ==
  ASSUME NEW v \in AnyValue
  PROVE  IsPrefix(v, v)
<1>1. CASE v \in Flat
  BY <1>1, PrefixSelf DEF Flat
<1>2. CASE v \in Nested
  BY <1>2, PrefixSelf, NestedIs
<1>3. QED
  BY <1>1, <1>2 DEF AnyValue

\* What makes attributes kept: all but the last are, and so is the last.
LEMMA KeptIs ==
  ASSUME NEW set \in Seq(AnyAttributes), NEW n \in Nat, Len(set) = n + 1, NEW f, Len(f) = n + 1,
         NEW values, \A i \in 1 .. n : set[i] = [ok |-> TRUE, value |-> values[i]],
         NEW a, set[n + 1] = a, NEW whole,
         a.ok => IsPrefix(a.value, values[n + 1]) /\ (whole => a.value = values[n + 1]),
         ~a.ok => ~whole \/ Tagged(f[n + 1], values[n + 1]) = TRUE
  PROVE  Kept(set, f, values, whole)
<1>1. ASSUME NEW i \in 1 .. n + 1
      PROVE  /\ set[i].ok => IsPrefix(set[i].value, values[i])
             /\ set[i].ok /\ whole => set[i].value = values[i]
             /\ ~set[i].ok => i = Len(set) /\ (~whole \/ Tagged(f[i], values[i]) = TRUE)
  <2>1. CASE i = n + 1
    BY <2>1
  <2>2. CASE i \in 1 .. n
    <3>1. PICK b : b = set[i]
      OBVIOUS
    <3>2. b = [ok |-> TRUE, value |-> values[i]]
      BY <2>2, <3>1
    <3>3. b.ok = TRUE /\ b.value = values[i]
      BY <3>2
    <3>4. b \in AnyAttributes
      BY <3>1, ElementOfSeq
    <3>5. values[i] \in AnyValue
      BY <3>3, <3>4 DEF AnyAttributes
    <3>6. IsPrefix(values[i], values[i])
      BY <3>5, PrefixAny
    <3>7. QED
      BY <3>1, <3>3, <3>6
  <2>3. i = n + 1 \/ i \in 1 .. n
    BY <1>1
  <2>4. QED
    BY <2>1, <2>2, <2>3, Zenon
<1>2. DOMAIN set = 1 .. n + 1
  BY DEF AnyAttributes
<1>3. QED
  BY <1>1, <1>2 DEF Kept

\* A row that has been sent to its last byte.
LEMMA RowWhole ==
  ASSUME NEW f, GoodRow(f), NEW values, Fitting(f, values), NEW y \in Seq(Octet),
         NEW d, d = FlattenSeq(Sends(f, values)), NEW s, s = d \o y
  PROVE  d \in Seq(Octet) /\ Kept(ReadFields(f, s).set, f, values, TRUE)
<1>1. CASE f = <<>>
  <2>1. Sends(f, values) = <<>> /\ Len(f) = 0
    BY <1>1 DEF Sends
  <2>2. d = <<>>
    BY <2>1, FlattenEmpty
  <2>3. d \in Seq(Octet)
    BY <2>2
  <2>4. s \in Seq(Octet)
    BY <2>3, JoinType
  <2>5. PICK e, u : e = <<>> /\ u = ReadFields(f, s).set
    OBVIOUS
  <2>6. u = e
    <3>1. ReadFields(<<>>, s) = Unread(s)
      BY <2>4, AnyFieldsNext
    <3>2. Unread(s).set = <<>>
      BY DEF Unread
    <3>3. QED
      BY <1>1, <2>5, <3>1, <3>2
  <2>7. Len(u) = 0 /\ DOMAIN u = 1 .. 0
    BY <2>5, <2>6
  <2>8. Kept(u, f, values, TRUE)
    BY <2>1, <2>7 DEF Kept
  <2>9. QED
    BY <2>3, <2>5, <2>8
<1>2. CASE f # <<>>
  <2>1. PICK q, type, n, v, g, e : OneMore(f, values, q, type, n, v, g, e)
    BY <1>2, RowParts
  <2>2. PICK b, z : b = FlattenSeq(g) /\ z = e \o y
    OBVIOUS
  <2>3. /\ f = Append(q, type) /\ n = Len(q) /\ n \in Nat /\ Len(f) = n + 1 /\ type \in Readable
        /\ f[n + 1] = type /\ v = values[n + 1] /\ Fits(type, v) /\ e = Send(type, v)
        /\ g \in Seq(Seq(Octet)) /\ e \in Seq(Octet) /\ d = b \o e
    BY <2>1, <2>2 DEF OneMore
  <2>4. b \in Seq(Octet)
    BY <2>2, <2>3, FlattenType
  <2>5. z \in Seq(Octet) /\ d \in Seq(Octet)
    BY <2>2, <2>3, <2>4, JoinType
  <2>6. s = b \o z
    <3>1. Reassociates(Octet)
      BY Reassociate
    <3>2. \A x, t, u \in Seq(Octet) : (x \o t) \o u = x \o (t \o u)
      BY <3>1, Zenon DEF Reassociates
    <3>3. (b \o e) \o y = b \o (e \o y)
      BY <2>3, <2>4, <3>2, Zenon
    <3>4. QED
      BY <2>2, <2>3, <3>3, Zenon
  <2>7. Row(q, values, g, z, s)
    <3>1. Row(q, values, g, z, FlattenSeq(g) \o z)
      BY <2>1, <2>5 DEF OneMore
    <3>2. QED
      BY <2>2, <2>6, <3>1
  <2>8. PICK one, got, set, a :
          /\ one = Read(type, z) /\ got = ReadFields(f, s) /\ set = got.set
          /\ a = [ok |-> one.ok, value |-> one.value]
    OBVIOUS
  <2>a. type \in Readable /\ n = Len(q) /\ got = ReadFields(Append(q, type), s)
    BY <2>3, <2>8
  <2>9. /\ set \in Seq(AnyAttributes) /\ Len(set) = n + 1
        /\ \A i \in 1 .. n : set[i] = [ok |-> TRUE, value |-> values[i]]
        /\ set[n + 1] = a
    <3>1. LastSet(ReadFields(Append(q, type), s).set, values, Len(q), Read(type, z))
      BY <2>a, <2>7, LastRead
    <3>2. LastSet(set, values, n, one)
      BY <2>a, <2>8, <3>1
    <3>3. QED
      BY <2>8, <3>2 DEF LastSet
  <2>10. \/ one = Got(v, y)
         \/ ~one.ok /\ Tagged(type, v) = TRUE
    BY <2>2, <2>3, <2>8, ReadFirst
  <2>11. a.ok => a.value = v
    BY <2>8, <2>10 DEF Got
  <2>12. ~a.ok => Tagged(type, v) = TRUE
    BY <2>8, <2>10 DEF Got
  <2>13. a.ok => IsPrefix(a.value, values[n + 1])
    <3>1. a \in AnyAttributes
      <4>1. n + 1 \in 1 .. Len(set)
        BY <2>3, <2>9
      <4>2. QED
        BY <2>9, <4>1, ElementOfSeq
    <3>2. a.value \in AnyValue
      BY <3>1 DEF AnyAttributes
    <3>3. QED
      BY <2>3, <2>11, <3>2, PrefixAny
  <2>14. a.ok => IsPrefix(a.value, values[n + 1]) /\ (TRUE => a.value = values[n + 1])
    BY <2>3, <2>11, <2>13
  <2>15. ~a.ok => ~TRUE \/ Tagged(f[n + 1], values[n + 1]) = TRUE
    BY <2>3, <2>12
  <2>16. Kept(set, f, values, TRUE)
    BY <2>3, <2>9, <2>14, <2>15, KeptIs
  <2>17. QED
    BY <2>5, <2>8, <2>16
<1>3. QED
  BY <1>1, <1>2

\* ... and without it.
LEMMA RowCut ==
  ASSUME NEW f, GoodRow(f), f # <<>>, NEW values, Fitting(f, values),
         NEW d, d = FlattenSeq(Sends(f, values)), NEW s, s = Front(d)
  PROVE  d \in Seq(Octet) /\ d # <<>> /\ s \in Seq(Octet)
         /\ Kept(ReadFields(f, s).set, f, values, FALSE)
<1>1. PICK q, type, n, v, g, e : OneMore(f, values, q, type, n, v, g, e)
  BY RowParts
<1>2. PICK b, z : b = FlattenSeq(g) /\ z = Front(e)
  OBVIOUS
<1>3. /\ f = Append(q, type) /\ n = Len(q) /\ n \in Nat /\ Len(f) = n + 1 /\ type \in Readable
      /\ f[n + 1] = type /\ v = values[n + 1] /\ Fits(type, v) /\ e = Send(type, v)
      /\ g \in Seq(Seq(Octet)) /\ e \in Seq(Octet) /\ d = b \o e
  BY <1>1, <1>2 DEF OneMore
<1>4. b \in Seq(Octet)
  BY <1>2, <1>3, FlattenType
<1>5. /\ e # <<>> /\ z \in Seq(Octet)
      /\ Read(type, z).ok => IsPrefix(Read(type, z).value, v)
  BY <1>2, <1>3, ReadCut
<1>b. e \in Seq(Octet) /\ d = b \o e
  BY <1>3
<1>6. d \in Seq(Octet) /\ d # <<>>
  <2>1. d \in Seq(Octet) /\ Len(d) = Len(b) + Len(e)
    BY <1>b, <1>4, ConcatProperties
  <2>2. Len(e) \in Nat /\ Len(e) # 0 /\ Len(b) \in Nat
    BY <1>3, <1>4, <1>5
  <2>3. Len(d) \in Nat /\ Len(d) # 0
    BY <2>1, <2>2
  <2>4. QED
    BY <2>1, <2>3, Longish
<1>7. s = b \o z
  <2>1. e # <<>>
    BY <1>5
  <2>2. Front(b \o e) = b \o Front(e)
    BY <1>b, <1>4, <2>1, FrontJoined
  <2>3. QED
    BY <1>2, <1>b, <2>2
<1>8. s \in Seq(Octet)
  BY <1>4, <1>5, <1>7, JoinType
<1>9. Row(q, values, g, z, s)
  <2>1. Row(q, values, g, z, FlattenSeq(g) \o z)
    BY <1>1, <1>5 DEF OneMore
  <2>2. QED
    BY <1>2, <1>7, <2>1
<1>10. PICK one, got, set, a :
         /\ one = Read(type, z) /\ got = ReadFields(f, s) /\ set = got.set
         /\ a = [ok |-> one.ok, value |-> one.value]
  OBVIOUS
<1>a. type \in Readable /\ n = Len(q) /\ got = ReadFields(Append(q, type), s)
  BY <1>3, <1>10
<1>11. /\ set \in Seq(AnyAttributes) /\ Len(set) = n + 1
       /\ \A i \in 1 .. n : set[i] = [ok |-> TRUE, value |-> values[i]]
       /\ set[n + 1] = a
  <2>1. LastSet(ReadFields(Append(q, type), s).set, values, Len(q), Read(type, z))
    BY <1>a, <1>9, LastRead
  <2>2. LastSet(set, values, n, one)
    BY <1>a, <1>10, <2>1
  <2>3. QED
    BY <1>10, <2>2 DEF LastSet
<1>12. a.ok => IsPrefix(a.value, values[n + 1]) /\ (FALSE => a.value = values[n + 1])
  BY <1>3, <1>5, <1>10
<1>13. ~a.ok => ~FALSE \/ Tagged(f[n + 1], values[n + 1]) = TRUE
  OBVIOUS
<1>14. Kept(set, f, values, FALSE)
  BY <1>3, <1>11, <1>12, <1>13, KeptIs
<1>15. QED
  BY <1>6, <1>8, <1>10, <1>14

-----------------------------------------------------------------------------
(* The rows of the tables *)

Untagged == Readable \ Taggable

\* The rows whose last field may have a tag.
TaggedLast == {<<"Long", "UnsignedByte", "NBT">>, <<"UnsignedByte", "SlotArray">>,
               <<"Byte", "Short", "Slot">>, <<"Slot">>, <<"VarInt", "VarInt", "Slot">>}
GoodRows == Seq(Untagged) \cup TaggedLast

LEMMA UntaggedIs ==
  /\ Untagged = DOMAIN Width \cup {"VarInt", "String", "VarIntPrefixedByteArray",
                                    "TripleByteArray", "RecordArray"}
  /\ Taggable \subseteq Readable /\ Untagged \subseteq Readable
BY DEF Untagged, Readable, Taggable, Types, NoDict, Width

LEMMA GoodRowsAre == \A f \in GoodRows : GoodRow(f)
<1>1. ASSUME NEW f \in Seq(Untagged) PROVE GoodRow(f)
  BY UntaggedIs DEF GoodRow, Untagged
<1>2. "Slot" \in Readable /\ "SlotArray" \in Readable /\ "NBT" \in Readable
  BY UntaggedIs DEF Taggable
<1>3. /\ {"Long", "UnsignedByte", "Byte", "Short", "VarInt"} \subseteq Readable
      /\ \A t \in {"Long", "UnsignedByte", "Byte", "Short", "VarInt"} : t \notin Taggable
  BY UntaggedIs DEF Width, Taggable
<1>4. GoodRow(<<"Long", "UnsignedByte", "NBT">>)
  BY <1>2, <1>3 DEF GoodRow
<1>5. GoodRow(<<"UnsignedByte", "SlotArray">>)
  BY <1>2, <1>3 DEF GoodRow
<1>6. GoodRow(<<"Byte", "Short", "Slot">>)
  BY <1>2, <1>3 DEF GoodRow
<1>7. GoodRow(<<"Slot">>)
  BY <1>2, <1>3 DEF GoodRow
<1>8. GoodRow(<<"VarInt", "VarInt", "Slot">>)
  BY <1>2, <1>3 DEF GoodRow
<1>9. QED
  BY <1>1, <1>4, <1>5, <1>6, <1>7, <1>8, Zenon DEF GoodRows, TaggedLast

LEMMA RowsAt ==
  ASSUME NEW R, NEW n \in Nat, NEW s, Rows(R, s, n)
  PROVE  \A i \in 1 .. n : s[i] \in R
BY ElementOfSeq DEF Rows

\* The rows of the tables are good ones, but for the one that raises.
LEMMA PlayRows ==
  /\ \A i \in 1 .. 76 : PlayingClientbound[i] \in GoodRows
  /\ PlayingClientbound[77][5] = NoDict /\ Len(PlayingClientbound[77]) = 5
  /\ \A i \in 1 .. 4 : LoginClientbound[i] \in GoodRows
<1> DEFINE R == GoodRows
           S == Seq(Untagged)
<1>1. Rows(R, Spawning, 6)
  BY UntaggedIs DEF Spawning, Width, Rows, GoodRows, TaggedLast
<1>2. Rows(R, Blocks, 7)
  BY UntaggedIs DEF Blocks, Width, Rows, GoodRows, TaggedLast
<1>3. Rows(R, Windows, 12)
  BY UntaggedIs DEF Windows, Width, Rows, GoodRows, TaggedLast
<1>4. Rows(R, Effects, 10)
  BY UntaggedIs DEF Effects, Width, Rows, GoodRows, TaggedLast
<1>5. Rows(R, Moves, 12)
  BY UntaggedIs DEF Moves, Width, Rows, GoodRows, TaggedLast
<1>6. Rows(R, Entities, 13)
  BY UntaggedIs DEF Entities, Width, Rows, GoodRows, TaggedLast
<1>7. Rows(R, Scores, 11)
  BY UntaggedIs DEF Scores, Width, Rows, GoodRows, TaggedLast
<1>8. Rows(R, LoginClientbound, 4)
  BY UntaggedIs DEF LoginClientbound, Width, Rows, GoodRows, TaggedLast
<1>9. /\ \A i \in 1 .. 5 : Others[i] \in R
      /\ Others[6][5] = NoDict /\ Len(Others[6]) = 5
  BY UntaggedIs DEF Others, Width, GoodRows, TaggedLast
<1>o. Listed(Others, 6)
  BY DEF Listed, Others
<1> HIDE DEF R
<1> DEFINE p1 == Spawning \o Blocks
           p2 == p1 \o Windows
           p3 == p2 \o Effects
           p4 == p3 \o Moves
           p5 == p4 \o Entities
           p6 == p5 \o Scores
           p7 == p6 \o Others
<1>10. PlayingClientbound = p7
  BY DEF PlayingClientbound
<1>11. Rows(R, p1, 13)
  <2>1. PICK n, m \in Nat : n = 6 /\ m = 7 /\ n + m = 13
    OBVIOUS
  <2>2. Rows(R, p1, n + m)
    BY <1>1, <1>2, <2>1, RowsJoined, Zenon
  <2>3. QED
    BY <2>1, <2>2, Zenon
<1> HIDE DEF p1
<1>12. Rows(R, p2, 25)
  <2>1. PICK n, m \in Nat : n = 13 /\ m = 12 /\ n + m = 25
    OBVIOUS
  <2>2. Rows(R, p2, n + m)
    BY <1>11, <1>3, <2>1, RowsJoined, Zenon
  <2>3. QED
    BY <2>1, <2>2, Zenon
<1> HIDE DEF p2
<1>13. Rows(R, p3, 35)
  <2>1. PICK n, m \in Nat : n = 25 /\ m = 10 /\ n + m = 35
    OBVIOUS
  <2>2. Rows(R, p3, n + m)
    BY <1>12, <1>4, <2>1, RowsJoined, Zenon
  <2>3. QED
    BY <2>1, <2>2, Zenon
<1> HIDE DEF p3
<1>14. Rows(R, p4, 47)
  <2>1. PICK n, m \in Nat : n = 35 /\ m = 12 /\ n + m = 47
    OBVIOUS
  <2>2. Rows(R, p4, n + m)
    BY <1>13, <1>5, <2>1, RowsJoined, Zenon
  <2>3. QED
    BY <2>1, <2>2, Zenon
<1> HIDE DEF p4
<1>15. Rows(R, p5, 60)
  <2>1. PICK n, m \in Nat : n = 47 /\ m = 13 /\ n + m = 60
    OBVIOUS
  <2>2. Rows(R, p5, n + m)
    BY <1>14, <1>6, <2>1, RowsJoined, Zenon
  <2>3. QED
    BY <2>1, <2>2, Zenon
<1> HIDE DEF p5
<1>16. Rows(R, p6, 71)
  <2>1. PICK n, m \in Nat : n = 60 /\ m = 11 /\ n + m = 71
    OBVIOUS
  <2>2. Rows(R, p6, n + m)
    BY <1>15, <1>7, <2>1, RowsJoined, Zenon
  <2>3. QED
    BY <2>1, <2>2, Zenon
<1> HIDE DEF p6
<1>17. Listed(p6, 71) /\ \A i \in 1 .. 71 : p6[i] \in R
  <2>1. p6 \in Seq(R) /\ Len(p6) = 71
    BY <1>16, Zenon DEF Rows
  <2>2. p6 = [i \in 1 .. 71 |-> p6[i]]
    BY <2>1
  <2>3. \A i \in 1 .. 71 : p6[i] \in R
    <3>1. 71 \in Nat
      OBVIOUS
    <3>2. QED
      BY <1>16, <3>1, RowsAt, Zenon
  <2>4. QED
    BY <2>2, <2>3, Zenon DEF Listed
<1>18. Continues(p7, p6, Others, 71, 6)
  <2>1. 71 \in Nat /\ 6 \in Nat
    OBVIOUS
  <2>2. QED
    BY <1>17, <1>o, <2>1, ListedJoined, Zenon
<1> HIDE DEF p7
<1>19. /\ \A i \in 1 .. 71 : p7[i] = p6[i]
       /\ \A i \in 1 .. 6 : p7[71 + i] = Others[i]
  BY <1>18 DEF Continues
<1>20. ASSUME NEW i \in 1 .. 76 PROVE p7[i] \in R
  <2>1. CASE i \in 1 .. 71
    BY <1>17, <1>19, <2>1
  <2>2. CASE i \notin 1 .. 71
    <3>1. i - 71 \in 1 .. 5 /\ i - 71 \in 1 .. 6 /\ 71 + (i - 71) = i
      BY <2>2
    <3>2. PICK j : j = i - 71
      OBVIOUS
    <3>3. j \in 1 .. 5 /\ j \in 1 .. 6 /\ 71 + j = i
      BY <3>1, <3>2
    <3>4. p7[71 + j] = Others[j] /\ Others[j] \in R
      BY <1>9, <1>19, <3>3
    <3>5. QED
      BY <3>3, <3>4
  <2>3. QED
    BY <2>1, <2>2
<1>21. p7[77] = Others[6]
  <2>1. 6 \in 1 .. 6 /\ 71 + 6 = 77
    OBVIOUS
  <2>2. p7[71 + 6] = Others[6]
    BY <1>19, <2>1
  <2>3. QED
    BY <2>1, <2>2
<1>22. \A i \in 1 .. 4 : LoginClientbound[i] \in R
  <2>1. 4 \in Nat
    OBVIOUS
  <2>2. QED
    BY <1>8, <2>1, RowsAt, Zenon
<1>23. QED
  BY <1>9, <1>10, <1>20, <1>21, <1>22, Zenon DEF R

-----------------------------------------------------------------------------
(* The packets of the server, field by field *)

TableFields(state, id) ==
  IF id < Len(ClientboundPackets[state]) THEN FieldsOf(state, id) ELSE <<>>

\* The one definition that cannot be read.
Unreadable(p) == p.table = "play" /\ p.id = EntityEffect

\* A packet that carries its values: whole, with whatever follows, or without its last byte.
CarriedAs(p) ==
  LET f == TableFields(p.table, p.id)
      d == FlattenSeq(Sends(f, p.values))
  IN  /\ p.table \in {"login", "play"} /\ p.id \in VarInts /\ p.payload \in Seq(Octet)
      /\ p.whole \in BOOLEAN /\ Fitting(f, p.values) /\ d \in Seq(Octet)
      /\ IF p.whole THEN \E y \in Seq(Octet) : p.payload = Sent(p.id) \o (d \o y)
         ELSE f # <<>> /\ p.payload = Front(Sent(p.id) \o d)
      /\ p.table = "login" => p.whole

\* The fields of a packet are those of a row that is read as it was written, but for one.
LEMMA TableFieldsIs ==
  ASSUME NEW state \in {"login", "play"}, NEW id \in VarInts, NEW f, f = TableFields(state, id)
  PROVE  /\ f \in Seq(Types)
         /\ ~(state = "play" /\ id = EntityEffect) => GoodRow(f)
<1>1. id \in Nat
  BY DEF VarInts
<1>2. GoodRow(<<>>) /\ <<>> \in Seq(Types)
  <2>1. <<>> \in Seq(Readable) /\ Len(<<>>) = 0
    OBVIOUS
  <2>2. QED
    BY <2>1 DEF GoodRow
<1>3. PICK P : P = ClientboundPackets[state]
  OBVIOUS
<1>4. P \in Seq(Seq(Types)) /\ \/ state = "play" /\ Len(P) = 77
                               \/ state = "login" /\ Len(P) = 4
  <2>1. CASE state = "play"
    <3>1. P = PlayingClientbound
      BY <1>3, <2>1 DEF ClientboundPackets
    <3>2. QED
      BY <2>1, <3>1, TablesTyped, Zenon
  <2>2. CASE state = "login"
    <3>1. P = LoginClientbound
      BY <1>3, <2>2 DEF ClientboundPackets
    <3>2. QED
      BY <2>2, <3>1, TablesTyped, Zenon
  <2>3. QED
    BY <2>1, <2>2
<1>5. CASE id < Len(P)
  <2>1. f = P[id + 1]
    BY <1>3, <1>5 DEF TableFields, FieldsOf
  <2>2. f \in Seq(Types)
    <3> DEFINE R == Seq(Types)
    <3>1. P \in Seq(R) /\ Len(P) \in Nat
      BY <1>4
    <3> HIDE DEF R
    <3>2. id + 1 \in 1 .. Len(P)
      BY <1>1, <1>5, <3>1
    <3>3. P[id + 1] \in R
      BY <3>1, <3>2
    <3>4. QED
      BY <2>1, <3>3 DEF R
  <2>3. ASSUME ~(state = "play" /\ id = EntityEffect)
        PROVE  GoodRow(f)
    <3>1. CASE state = "play"
      <4>1. id + 1 \in 1 .. 76
        <5>1. PICK n : n = Len(P) /\ n = 77
          BY <1>4, <3>1
        <5>2. id < n /\ id # 76
          BY <1>5, <2>3, <3>1, <5>1, Zenon DEF EntityEffect
        <5>3. QED
          BY <1>1, <5>1, <5>2
      <4>2. P = PlayingClientbound
        BY <1>3, <3>1 DEF ClientboundPackets
      <4>3. PlayingClientbound[id + 1] \in GoodRows
        BY <4>1, PlayRows, Zenon
      <4>4. QED
        BY <2>1, <4>2, <4>3, GoodRowsAre, Zenon
    <3>2. CASE state = "login"
      <4>1. id + 1 \in 1 .. 4
        <5>1. PICK n : n = Len(P) /\ n = 4
          BY <1>4, <3>2
        <5>2. id < n
          BY <1>5, <5>1, Zenon
        <5>3. QED
          BY <1>1, <5>1, <5>2
      <4>2. P = LoginClientbound
        BY <1>3, <3>2 DEF ClientboundPackets
      <4>3. LoginClientbound[id + 1] \in GoodRows
        BY <4>1, PlayRows, Zenon
      <4>4. QED
        BY <2>1, <4>2, <4>3, GoodRowsAre, Zenon
    <3>3. QED
      BY <3>1, <3>2
  <2>4. QED
    BY <2>2, <2>3
<1>6. CASE ~(id < Len(P))
  <2>1. f = <<>>
    BY <1>3, <1>6 DEF TableFields
  <2>2. QED
    BY <1>2, <2>1
<1>7. QED
  BY <1>5, <1>6

\* A packet of the play state carries its values.
LEMMA DescribedCarried ==
  ASSUME NEW p, p.table = "play", p.id \in VarInts, p.payload \in Seq(Octet), p.whole \in BOOLEAN,
         Described(p.id, p)
  PROVE  CarriedAs(p)
<1>1. PICK id, w, v : id \in VarInts /\ id = p.id /\ w = p.payload /\ v = p.values
  OBVIOUS
<1>2. PICK f : f = PlayFields(id)
  OBVIOUS
<1>3. f = TableFields(p.table, id)
  <2>1. ClientboundPackets["play"] = PlayingClientbound
    BY DEF ClientboundPackets
  <2>2. QED
    BY <1>2, <2>1 DEF TableFields, FieldsOf, PlayFields
<1>4. f \in Seq(Types)
  BY <1>1, <1>3, TableFieldsIs
<1>5. DOMAIN v = DOMAIN f /\ \A i \in DOMAIN f : Fits(f[i], v[i])
  BY <1>1, <1>2 DEF Described
<1>6. PICK d \in Seq(Octet) :
        /\ d = FlattenSeq([i \in DOMAIN f |-> Send(f[i], v[i])])
        /\ Payload(id, f, v) = Sent(id) \o d
  BY <1>4, <1>5, PayloadIs
<1>7. d = FlattenSeq(Sends(f, v))
  BY <1>6 DEF Sends
<1>8. Sent(id) \in Seq(Octet)
  BY <1>1, SentSizes
<1>9. ASSUME p.whole
      PROVE  \E y \in Seq(Octet) : w = Sent(id) \o (d \o y)
  <2>1. IsPrefix(Sent(id) \o d, w)
    BY <1>1, <1>2, <1>6, <1>9, Zenon DEF Described
  <2>2. Sent(id) \o d \in Seq(Octet) /\ w \in Seq(Octet)
    BY <1>1, <1>8, JoinType
  <2>3. PICK y \in Seq(Octet) : w = (Sent(id) \o d) \o y
    BY <2>1, <2>2, PrefixSplits
  <2>4. w = Sent(id) \o (d \o y)
    <3>1. Reassociates(Octet)
      BY Reassociate
    <3>2. QED
      BY <1>8, <2>3, <3>1, Zenon DEF Reassociates
  <2>5. QED
    BY <2>4, Zenon
<1>10. ASSUME ~p.whole
       PROVE  f # <<>> /\ w = Front(Sent(id) \o d)
  <2>1. f # <<>> /\ w = Front(Payload(id, f, v))
    BY <1>1, <1>2, <1>10 DEF Described
  <2>2. QED
    BY <1>6, <2>1, Zenon
<1>11. Fitting(f, v)
  BY <1>5 DEF Fitting
<1>12. PICK g, e : g = TableFields(p.table, p.id) /\ e = FlattenSeq(Sends(g, p.values))
  OBVIOUS
<1>13. g = f /\ e = d
  BY <1>1, <1>3, <1>7, <1>12, Zenon
<1>14. /\ p.table \in {"login", "play"} /\ p.id \in VarInts /\ p.payload \in Seq(Octet)
       /\ p.whole \in BOOLEAN /\ Fitting(g, p.values) /\ e \in Seq(Octet)
  BY <1>1, <1>11, <1>13
<1>15. IF p.whole THEN \E y \in Seq(Octet) : p.payload = Sent(p.id) \o (e \o y)
       ELSE g # <<>> /\ p.payload = Front(Sent(p.id) \o e)
  BY <1>1, <1>9, <1>10, <1>13, Zenon
<1>16. p.table # "login"
  OBVIOUS
<1>17. QED
  BY <1>12, <1>14, <1>15, <1>16, Zenon DEF CarriedAs

\* What the fields of the packets of the login state can have.
LEMMA LoginFits ==
  /\ \A t \in VarInts : Fits("VarInt", <<t>>)
  /\ \A o \in {1, 2} : Fits("String", <<o>>)
<1>1. "VarInt" \notin DOMAIN Width /\ "String" \notin DOMAIN Width
  BY DEF Width
<1>2. ASSUME NEW t \in VarInts PROVE Fits("VarInt", <<t>>)
  <2>1. PICK s : s = << t >>
    OBVIOUS
  <2>2. s \in Seq(VarInts) /\ Len(s) = 1
    BY <2>1
  <2>3. Fits("VarInt", s)
    <3> DEFINE w == "VarInt"
               W == DOMAIN Width
    <3>1. /\ w \notin W /\ w # "VarIntPrefixedByteArray" /\ w # "String" /\ w # NoDict
          /\ w # "NBT" /\ w # "Slot" /\ w # "SlotArray" /\ w # "TripleByteArray"
          /\ w # "RecordArray" /\ w = "VarInt"
      BY <1>1 DEF NoDict
    <3> HIDE DEF w, W
    <3>2. Fits(w, s)
      BY <2>2, <3>1, Zenon DEF Fits, W
    <3>3. QED
      BY <3>1, <3>2, Zenon
  <2>4. QED
    BY <2>1, <2>3, Zenon
<1>3. ASSUME NEW o \in {1, 2} PROVE Fits("String", <<o>>)
  <2>1. Group \in Nat /\ Group > 2
    BY PacketAssumption, VarIntAssumption DEF PacketAssumption, VarIntAssumption
  <2>2. o \in Octet /\ o < Group /\ o \in Nat
    BY <2>1 DEF Octet
  <2>3. PICK s : s = <<o>>
    OBVIOUS
  <2>4. s \in Seq(Octet) /\ Len(s) = 1 /\ DOMAIN s = {1} /\ s[1] = o
    BY <2>2, <2>3
  <2>5. Len(s) \in VarInts
    <3>1. 1 \in 0 .. 31
      OBVIOUS
    <3>2. QED
      BY <2>4, <3>1, SmallNumbers, Zenon
  <2>6. Utf8(s)
    <3>1. ASSUME NEW i, i \in DOMAIN s
          PROVE  ~(s[i] >= Group) /\ ~(s[i] >= Group + Group \div 2)
      <4>1. s[i] = o
        BY <2>4, <3>1
      <4>2. PICK h : h = Group \div 2
        OBVIOUS
      <4>3. h \in Nat
        BY <2>1, <4>2
      <4>4. ~(o >= Group) /\ ~(o >= Group + h)
        BY <2>1, <2>2, <4>3
      <4>5. QED
        BY <4>1, <4>2, <4>4, Zenon
    <3>2. QED
      BY <3>1, Zenon DEF Utf8
  <2>7. Fits("String", s)
    BY <1>1, <2>4, <2>5, <2>6, Zenon DEF Fits
  <2>8. QED
    BY <2>3, <2>7, Zenon
<1>4. QED
  BY <1>2, <1>3

\* The packets a server sends in the login state.
LoginRow(id, v) ==
  \/ id = SetCompression /\ \E t \in VarInts : v = <<<<t>>>>
  \/ id = LoginSuccess /\ v = <<<<1>>, <<2>>>>
  \/ id = Disconnect /\ v = <<<<1>>>>

\* The values of the packets of the login fit its rows.
LEMMA LoginFitting ==
  ASSUME NEW id, NEW v, LoginRow(id, v)
  PROVE  /\ id \in 0 .. 3 /\ id \in VarInts
         /\ TableFields("login", id) = LoginClientbound[id + 1]
         /\ Fitting(LoginClientbound[id + 1], v)
<1>1. id \in 0 .. 3
  BY DEF LoginRow, SetCompression, LoginSuccess, Disconnect
<1>2. id \in VarInts
  <2>1. id \in 0 .. 31
    BY <1>1
  <2>2. QED
    BY <2>1, SmallNumbers
<1>3. TableFields("login", id) = LoginClientbound[id + 1]
  <2>1. ClientboundPackets["login"] = LoginClientbound
    BY DEF ClientboundPackets
  <2>2. id < Len(LoginClientbound)
    BY <1>1, TablesTyped
  <2>3. QED
    BY <2>1, <2>2 DEF TableFields, FieldsOf
<1>4. /\ LoginClientbound[SetCompression + 1] = <<"VarInt">>
      /\ LoginClientbound[LoginSuccess + 1] = <<"String", "String">>
      /\ LoginClientbound[Disconnect + 1] = <<"String">>
  BY DEF LoginClientbound, SetCompression, LoginSuccess, Disconnect
<1>5. ASSUME NEW type, NEW a, Fits(type, a)
      PROVE  Fitting(<<type>>, <<a>>)
  <2>1. DOMAIN <<type>> = DOMAIN <<a>> /\ \A i \in DOMAIN <<type>> : <<type>>[i] = type /\ <<a>>[i] = a
    OBVIOUS
  <2>2. QED
    BY <1>5, <2>1, Zenon DEF Fitting
<1>6. ASSUME NEW type, NEW a, NEW b, Fits(type, a), Fits(type, b)
      PROVE  Fitting(<<type, type>>, <<a, b>>)
  <2>1. /\ DOMAIN <<type, type>> = DOMAIN <<a, b>>
        /\ \A i \in DOMAIN <<type, type>> :
             <<type, type>>[i] = type /\ <<a, b>>[i] \in {a, b}
    OBVIOUS
  <2>2. \A x \in {a, b} : Fits(type, x)
    BY <1>6
  <2>3. QED
    BY <2>1, <2>2, Zenon DEF Fitting
<1>7. CASE id = SetCompression /\ \E t \in VarInts : v = << << t >> >>
  <2>1. PICK t \in VarInts : v = << << t >> >>
    BY <1>7
  <2>2. Fits("VarInt", << t >>)
    BY LoginFits
  <2>3. Fitting(<<"VarInt">>, << << t >> >>)
    BY <1>5, <2>2
  <2>4. QED
    BY <1>1, <1>2, <1>3, <1>4, <1>7, <2>1, <2>3, Zenon
<1>8. CASE id = LoginSuccess /\ v = << << 1 >>, << 2 >> >>
  <2>1. Fits("String", << 1 >>) /\ Fits("String", << 2 >>)
    BY LoginFits
  <2>2. Fitting(<<"String", "String">>, << << 1 >>, << 2 >> >>)
    BY <1>6, <2>1
  <2>3. QED
    BY <1>1, <1>2, <1>3, <1>4, <1>8, <2>2, Zenon
<1>9. CASE id = Disconnect /\ v = << << 1 >> >>
  <2>1. Fits("String", << 1 >>)
    BY LoginFits
  <2>2. Fitting(<<"String">>, << << 1 >> >>)
    BY <1>5, <2>1
  <2>3. QED
    BY <1>1, <1>2, <1>3, <1>4, <1>9, <2>2, Zenon
<1>10. QED
  BY <1>7, <1>8, <1>9 DEF LoginRow

\* A packet of the login state carries its values.
LEMMA LoginCarried ==
  ASSUME NEW p, p.table = "login", p.whole = TRUE, LoginRow(p.id, p.values),
         p.payload = Payload(p.id, LoginClientbound[p.id + 1], p.values)
  PROVE  CarriedAs(p)
<1>1. PICK id, w, v : id = p.id /\ w = p.payload /\ v = p.values
  OBVIOUS
<1>2. PICK f : f = LoginClientbound[id + 1]
  OBVIOUS
<1>3. id \in VarInts /\ f = TableFields(p.table, id) /\ Fitting(f, v)
  <2>1. LoginRow(id, v)
    BY <1>1
  <2>2. QED
    BY <1>2, <2>1, LoginFitting
<1>4. f \in Seq(Types)
  BY <1>3, TableFieldsIs
<1>5. DOMAIN v = DOMAIN f /\ \A i \in DOMAIN f : Fits(f[i], v[i])
  BY <1>3 DEF Fitting
<1>6. PICK d \in Seq(Octet) :
        /\ d = FlattenSeq([i \in DOMAIN f |-> Send(f[i], v[i])])
        /\ Payload(id, f, v) = Sent(id) \o d
  BY <1>4, <1>5, PayloadIs
<1>7. d = FlattenSeq(Sends(f, v))
  BY <1>6 DEF Sends
<1>8. Sent(id) \in Seq(Octet)
  BY <1>3, SentSizes
<1>9. w = Sent(id) \o (d \o <<>>) /\ <<>> \in Seq(Octet) /\ w \in Seq(Octet)
  <2>1. w = Sent(id) \o d
    BY <1>1, <1>2, <1>6
  <2>2. d \o <<>> = d
    OBVIOUS
  <2>3. Sent(id) \o d \in Seq(Octet)
    BY <1>8, JoinType
  <2>4. <<>> \in Seq(Octet)
    OBVIOUS
  <2>5. QED
    BY <2>1, <2>2, <2>3, <2>4, Zenon
<1>12. PICK g, e : g = TableFields(p.table, p.id) /\ e = FlattenSeq(Sends(g, p.values))
  OBVIOUS
<1>13. g = f /\ e = d
  BY <1>1, <1>3, <1>7, <1>12, Zenon
<1>14. /\ p.table \in {"login", "play"} /\ p.id \in VarInts /\ p.payload \in Seq(Octet)
       /\ p.whole \in BOOLEAN /\ Fitting(g, p.values) /\ e \in Seq(Octet)
  BY <1>1, <1>3, <1>9, <1>13
<1>15. IF p.whole THEN \E y \in Seq(Octet) : p.payload = Sent(p.id) \o (e \o y)
       ELSE g # <<>> /\ p.payload = Front(Sent(p.id) \o e)
  BY <1>1, <1>9, <1>13, Zenon
<1>16. QED
  BY <1>12, <1>14, <1>15, Zenon DEF CarriedAs

\* What read_packet makes of a payload that begins with its id: nothing of the one definition
\* that cannot be read, and a packet of every other.
LEMMA ReadableParsed ==
  ASSUME NEW state \in {"login", "play"}, NEW id \in VarInts, NEW z, NEW payload,
         ReadVarInt(payload) = Got(<<id>>, z), NEW got, got = Parsed(payload, state),
         NEW f, f = TableFields(state, id)
  PROVE  /\ state = "play" /\ id = EntityEffect => ~got.ok
         /\ GoodRow(f) => got.ok
         /\ got.ok => got.packet.id = IdOf(state, id) /\ got.packet.table = state
         /\ got.ok /\ f = <<>> => got.packet.set = <<>> \/ got.packet.set = ReadFields(f, z).set
         /\ got.ok /\ f # <<>> => got.packet.set = ReadFields(f, z).set
<1>1. PICK m, P : m = ReadVarInt(payload) /\ P = ClientboundPackets[state]
  OBVIOUS
<1>2. m.ok /\ m.value[1] = id /\ m.rest = z
  BY <1>1 DEF Got
<1>3. ASSUME state = "play", id = EntityEffect
      PROVE  ~got.ok
  <2>1. P = PlayingClientbound
    BY <1>1, <1>3 DEF ClientboundPackets
  <2>2. P[id + 1][5] = NoDict /\ 5 \in DOMAIN P[id + 1]
    <3>1. EntityEffect + 1 = 77
      BY DEF EntityEffect
    <3>2. PICK r : r = PlayingClientbound[77]
      OBVIOUS
    <3>3. r \in Seq(Types) /\ r[5] = NoDict /\ Len(r) = 5
      <4>1. r[5] = NoDict /\ Len(r) = 5
        BY <3>2, PlayRows
      <4> DEFINE R == Seq(Types)
                 Q == PlayingClientbound
      <4>2. Q \in Seq(R) /\ Len(Q) = 77
        BY TablesTyped
      <4> HIDE DEF R, Q
      <4>3. Q[77] \in R
        <5>1. Rows(R, Q, 77)
          BY <4>2 DEF Rows
        <5>2. \A i \in 1 .. 77 : Q[i] \in R
          BY <5>1, RowsAt
        <5>3. QED
          BY <5>2
      <4>4. r \in R
        BY <3>2, <4>3 DEF Q
      <4>5. QED
        BY <4>1, <4>4 DEF R
    <3>4. 5 \in DOMAIN r
      BY <3>3
    <3>5. QED
      BY <1>3, <2>1, <3>1, <3>2, <3>3, <3>4, Zenon
  <2>3. id < Len(P)
    BY <1>3, <2>1, TablesTyped DEF EntityEffect
  <2>4. \E i \in DOMAIN P[id + 1] : P[id + 1][i] = NoDict
    BY <2>2
  <2>5. QED
    BY <1>1, <1>2, <2>3, <2>4, Zenon DEF Parsed
<1>4. ASSUME GoodRow(f)
      PROVE  got.ok
  <2>1. \A i \in DOMAIN f : f[i] # NoDict
    <3> DEFINE R == Readable
    <3>1. f \in Seq(R)
      BY <1>4 DEF GoodRow
    <3>2. NoDict \notin R
      BY DEF Readable
    <3> HIDE DEF R
    <3>3. QED
      BY <3>1, <3>2
  <2>2. CASE id < Len(P)
    <3>1. f = P[id + 1]
      BY <1>1, <2>2 DEF TableFields, FieldsOf
    <3>2. ~\E i \in DOMAIN P[id + 1] : P[id + 1][i] = NoDict
      BY <2>1, <3>1
    <3>3. QED
      BY <1>1, <1>2, <2>2, <3>2, Zenon DEF Parsed
  <2>3. CASE ~(id < Len(P))
    BY <1>1, <1>2, <2>3, Zenon DEF Parsed
  <2>4. QED
    BY <2>2, <2>3
<1>5. ASSUME got.ok
      PROVE  /\ got.packet.id = IdOf(state, id) /\ got.packet.table = state
             /\ IF id < Len(P) THEN got.packet.set = ReadFields(f, z).set
                ELSE f = <<>> /\ got.packet.set = <<>>
  <2>1. /\ m.ok /\ got.packet.table = state
        /\ IF m.value[1] < Len(ClientboundPackets[state])
             THEN /\ got.packet.id = m.value[1]
                  /\ got.packet.set = ReadFields(FieldsOf(state, m.value[1]), m.rest).set
             ELSE got.packet.id = Base /\ got.packet.set = <<>>
    BY <1>1, <1>5, ParsedIs
  <2>2. QED
    BY <1>1, <1>2, <2>1, Zenon DEF IdOf, TableFields
<1>6. QED
  BY <1>3, <1>4, <1>5

\* The fields of a packet that is there to its last byte, and of one that is not.
LEMMA CarriedRead ==
  ASSUME NEW p, CarriedAs(p), NEW got, got = Parsed(p.payload, p.table),
         NEW f, f = TableFields(p.table, p.id)
  PROVE  /\ got.ok => /\ got.packet.table = p.table /\ got.packet.id = IdOf(p.table, p.id)
                      /\ Kept(got.packet.set, f, p.values, p.whole)
         /\ ~Unreadable(p) => got.ok
<1>a. PICK v, d : v = p.values /\ d = FlattenSeq(Sends(f, v))
  OBVIOUS
<1>b. /\ p.table \in {"login", "play"} /\ p.id \in VarInts /\ p.payload \in Seq(Octet)
      /\ p.whole \in BOOLEAN /\ Fitting(f, v) /\ d \in Seq(Octet)
      /\ IF p.whole THEN \E y \in Seq(Octet) : p.payload = Sent(p.id) \o (d \o y)
         ELSE f # <<>> /\ p.payload = Front(Sent(p.id) \o d)
  BY <1>a, Zenon DEF CarriedAs
<1>c. PICK id, state, w : id = p.id /\ state = p.table /\ w = p.payload
  OBVIOUS
<1>1. /\ id = p.id /\ state = p.table /\ w = p.payload /\ v = p.values
      /\ id \in VarInts /\ state \in {"login", "play"} /\ w \in Seq(Octet) /\ d \in Seq(Octet)
      /\ d = FlattenSeq(Sends(f, v)) /\ Fitting(f, v)
      /\ p.whole \in BOOLEAN
      /\ IF p.whole THEN \E y \in Seq(Octet) : w = Sent(id) \o (d \o y)
         ELSE f # <<>> /\ w = Front(Sent(id) \o d)
  BY <1>a, <1>b, <1>c, Zenon
<1>2. id \in VarInts /\ state \in {"login", "play"} /\ w \in Seq(Octet) /\ d \in Seq(Octet)
      /\ Sent(id) \in Seq(Octet) /\ got = Parsed(w, state) /\ f = TableFields(state, id)
  BY <1>1, SentSizes
<1>3. Unreadable(p) <=> state = "play" /\ id = EntityEffect
  BY <1>1 DEF Unreadable
<1>4. ~Unreadable(p) => GoodRow(f)
  BY <1>2, <1>3, TableFieldsIs
<1>5. ASSUME NEW z \in Seq(Octet), w = Sent(id) \o z
      PROVE  /\ Unreadable(p) => ~got.ok
             /\ ~Unreadable(p) => got.ok
             /\ got.ok => got.packet.id = IdOf(state, id) /\ got.packet.table = state
             /\ got.ok /\ f = <<>> => got.packet.set = <<>> \/ got.packet.set = ReadFields(f, z).set
             /\ got.ok /\ f # <<>> => got.packet.set = ReadFields(f, z).set
  <2>1. ReadVarInt(w) = Got(<<id>>, z)
    BY <1>2, <1>5, NumberFirst, Zenon
  <2>2. /\ state = "play" /\ id = EntityEffect => ~got.ok
        /\ GoodRow(f) => got.ok
        /\ got.ok => got.packet.id = IdOf(state, id) /\ got.packet.table = state
        /\ got.ok /\ f = <<>> => got.packet.set = <<>> \/ got.packet.set = ReadFields(f, z).set
        /\ got.ok /\ f # <<>> => got.packet.set = ReadFields(f, z).set
    BY <1>2, <2>1, ReadableParsed
  <2>3. QED
    BY <1>3, <1>4, <2>2, Zenon
<1>6. ASSUME NEW set, set = <<>>, f = <<>>
      PROVE  Kept(set, f, v, p.whole)
  <2>1. Len(set) = Len(f) /\ DOMAIN set = 1 .. Len(f) /\ 1 .. Len(f) = {}
    BY <1>6
  <2>2. QED
    BY <2>1, Zenon DEF Kept
<1>7. CASE p.whole
  <2>1. PICK y \in Seq(Octet) : w = Sent(id) \o (d \o y)
    BY <1>1, <1>7
  <2>2. PICK z \in Seq(Octet) : z = d \o y
    BY <1>2, JoinType
  <2>3. w = Sent(id) \o z
    BY <2>1, <2>2
  <2>4. ~Unreadable(p) => Kept(ReadFields(f, z).set, f, v, TRUE)
    BY <1>1, <1>4, <2>2, RowWhole
  <2>5. p.whole = TRUE
    BY <1>1, <1>7
  <2>6. QED
    BY <1>1, <1>5, <1>6, <1>7, <2>3, <2>4, <2>5, Zenon
<1>8. CASE ~p.whole
  <2>1. f # <<>> /\ w = Front(Sent(id) \o d) /\ p.whole = FALSE
    BY <1>1, <1>8
  <2>2. CASE d = <<>>
    <3>5. Unreadable(p)
      <4>1. SUFFICES ASSUME ~Unreadable(p) PROVE FALSE
        OBVIOUS
      <4>2. d # <<>>
        <5>1. PICK z : z = Front(d)
          OBVIOUS
        <5>2. QED
          BY <1>1, <1>4, <2>1, <4>1, <5>1, RowCut
      <4>3. QED
        BY <2>2, <4>2
    <3>1. w = Front(Sent(id))
      BY <1>2, <2>1, <2>2
    <3>2. ~Whole(w)
      BY <1>2, <3>1, SentFront, Zenon
    <3>3. ~got.ok
      BY <1>2, <3>2, CutParsed, Zenon
    <3>4. QED
      BY <1>8, <3>3, <3>5, Zenon
  <2>3. CASE d # <<>>
    <3>1. PICK z \in Seq(Octet) : z = Front(d) /\ w = Sent(id) \o z
      BY <1>2, <2>1, <2>3, FrontJoined
    <3>2. ~Unreadable(p) => Kept(ReadFields(f, z).set, f, v, FALSE)
      BY <1>1, <1>4, <2>1, <3>1, RowCut
    <3>3. QED
      BY <1>1, <1>5, <1>8, <2>1, <3>1, <3>2, Zenon
  <2>4. QED
    BY <2>2, <2>3
<1>9. QED
  BY <1>7, <1>8

\* Every packet of the server carries its values.
CarriedInv == \A k \in 1 .. Len(pushed) : CarriedAs(pushed[k])

\* One packet more carries them, too.
LEMMA AddsCarried ==
  ASSUME CarriedInv, NEW p, Adds(p), CarriedAs(p)
  PROVE  CarriedInv'
<1>1. PICK n \in Nat : n = Len(pushed) /\ Len(pushed') = n + 1
  BY DEF Adds
<1>2. ASSUME NEW k \in 1 .. n + 1 PROVE CarriedAs(pushed'[k])
  <2>1. CASE k \in 1 .. n
    BY <1>1, <2>1 DEF Adds, CarriedInv
  <2>2. CASE k = n + 1
    <3>1. pushed'[k] = p
      BY <1>1, <2>2 DEF Adds
    <3>2. QED
      BY <3>1
  <2>3. k = n + 1 \/ k \in 1 .. n
    BY <1>1, <1>2
  <2>4. QED
    BY <2>1, <2>2, <2>3
<1>3. \A k \in 1 .. Len(pushed') : CarriedAs(pushed'[k])
  BY <1>1, <1>2
<1>4. QED
  BY <1>3, Zenon DEF CarriedInv, CarriedAs

\* A packet of the login state carries its values once it is sent.
LEMMA LoginCarries ==
  ASSUME ReadInv, CarriedInv, ServerLogin
  PROVE  CarriedInv'
<1>1. stage = "login" /\ IsSeq(pushed)
  BY DEF ServerLogin, ReadInv, SentSoFar
<1>2. ASSUME NEW id, NEW values, PushLogin(id, values), LoginRow(id, values)
      PROVE  CarriedInv'
  <2>1. PICK payload : payload = Payload(id, LoginClientbound[id + 1], values)
    OBVIOUS
  <2>2. PICK whole : whole = TRUE /\ Push(id, payload, values, whole)
    BY <1>2, <2>1, Zenon DEF PushLogin
  <2>3. PICK p : /\ Adds(p) /\ p.table = stage /\ p.id = id /\ p.payload = payload
                 /\ p.values = values /\ p.whole = whole
    <3>1. Push(id, payload, values, whole)
      BY <2>2
    <3>2. QED
      BY <1>1, <3>1, PushAdds
  <2>4. p.table = "login" /\ LoginRow(p.id, p.values)
        /\ p.payload = Payload(p.id, LoginClientbound[p.id + 1], p.values)
    BY <1>1, <1>2, <2>1, <2>3, Zenon
  <2>5. CarriedAs(p)
    BY <2>2, <2>3, <2>4, LoginCarried
  <2>6. QED
    BY <2>3, <2>5, AddsCarried
<1>3. ASSUME NEW t \in Thresholds, PushLogin(SetCompression, << << t >> >>)
      PROVE  CarriedInv'
  <2>1. t \in VarInts
    BY PacketAssumption DEF PacketAssumption
  <2>2. PICK v : v = << << t >> >>
    OBVIOUS
  <2>3. LoginRow(SetCompression, v)
    BY <2>1, <2>2 DEF LoginRow
  <2>4. PushLogin(SetCompression, v)
    BY <1>3, <2>2, Zenon
  <2>5. QED
    BY <1>2, <2>3, <2>4, Zenon
<1>4. ASSUME PushLogin(LoginSuccess, << << 1 >>, << 2 >> >>)
      PROVE  CarriedInv'
  <2>1. LoginRow(LoginSuccess, << << 1 >>, << 2 >> >>)
    BY DEF LoginRow
  <2>2. QED
    BY <1>2, <1>4, <2>1, Zenon
<1>5. ASSUME PushLogin(Disconnect, << << 1 >> >>)
      PROVE  CarriedInv'
  <2>1. LoginRow(Disconnect, << << 1 >> >>)
    BY DEF LoginRow
  <2>2. QED
    BY <1>2, <1>5, <2>1, Zenon
<1>6. QED
  BY <1>3, <1>4, <1>5 DEF ServerLogin

\* So does a packet of the play state.
LEMMA PlayCarries ==
  ASSUME ReadInv, CarriedInv, ServerPlay
  PROVE  CarriedInv'
<1>1. stage = "play" /\ IsSeq(pushed)
  BY DEF ServerPlay, ReadInv, SentSoFar
<1>2. PICK samples \in {Core, Samples} : PushOneOf(samples)
  BY DEF ServerPlay
<1>3. PICK id \in DOMAIN samples : \E s \in samples[id] : Push(id, s.payload, s.values, s.whole)
  BY <1>2 DEF PushOneOf
<1>4. PICK s \in samples[id] : Push(id, s.payload, s.values, s.whole)
  BY <1>3
<1>5. id \in VarInts /\ s.whole \in BOOLEAN /\ Sendable(s.payload) /\ Described(id, s)
  BY PacketAssumption DEF PacketAssumption
<1>6. PICK p : /\ Adds(p) /\ p.table = stage /\ p.id = id /\ p.payload = s.payload
               /\ p.values = s.values /\ p.whole = s.whole
  BY <1>1, <1>4, PushAdds
<1>7. Described(p.id, p)
  BY <1>5, <1>6 DEF Described
<1>8. p.table = "play" /\ p.id \in VarInts /\ p.payload \in Seq(Octet) /\ p.whole \in BOOLEAN
  BY <1>1, <1>5, <1>6 DEF Sendable
<1>9. CarriedAs(p)
  BY <1>7, <1>8, DescribedCarried
<1>10. QED
  BY <1>6, <1>9, AddsCarried

\* CarriedInv holds at first.
LEMMA InitCarried == Init => CarriedInv
<1> SUFFICES ASSUME Init PROVE CarriedInv
  OBVIOUS
<1>1. 1 .. Len(pushed) = {}
  BY DEF Init
<1>2. QED
  BY <1>1, Zenon DEF CarriedInv

\* CarriedInv holds after every step.
LEMMA StepCarried == ReadInv /\ CarriedInv /\ [Next]_vars => CarriedInv'
<1> SUFFICES ASSUME ReadInv, CarriedInv, [Next]_vars PROVE CarriedInv'
  OBVIOUS
<1>1. ASSUME pushed' = pushed PROVE CarriedInv'
  <2>1. \A k \in 1 .. Len(pushed') : CarriedAs(pushed'[k])
    BY <1>1 DEF CarriedInv
  <2>2. QED
    BY <2>1, Zenon DEF CarriedInv, CarriedAs
<1>2. CASE ServerLogin
  BY <1>2, LoginCarries
<1>3. CASE ServerPlay
  BY <1>3, PlayCarries
<1>4. ASSUME ServerClose \/ UNCHANGED server PROVE pushed' = pushed
  BY <1>4 DEF ServerClose, server
<1>5. CASE Thread
  BY <1>1, <1>4, <1>5 DEF Thread, ReadLength, ReadBody, Parse, React, Listen, Write,
                                WriteRaises
<1>6. CASE Chat \/ Registering
  BY <1>1, <1>4, <1>6 DEF Chat, Registering
<1>7. CASE UNCHANGED vars
  BY <1>1, <1>4, <1>7 DEF vars
<1>8. QED
  BY <1>1, <1>2, <1>3, <1>4, <1>5, <1>6, <1>7, Zenon DEF Next, Server

\* From packets that are taken as the client makes them, and sent with their values, to AsSent.
LEMMA InvAsSent ==
  ASSUME ListenInv, ReadInv, ReaderInv, CarriedInv
  PROVE  AsSent
<1>1. PICK n \in Nat, m \in Nat : /\ n = Len(taken) /\ DOMAIN taken = 1 .. n
                                  /\ m = Len(pushed) /\ n <= m
  <2>1. IsSeq(taken) /\ IsSeq(pushed) /\ Len(taken) <= Len(pushed)
    BY DEF ReadInv, SentSoFar, ReaderInv
  <2>2. Len(taken) \in Nat /\ DOMAIN taken = 1 .. Len(taken) /\ Len(pushed) \in Nat
    BY <2>1 DEF IsSeq
  <2>3. QED
    BY <2>1, <2>2, Zenon
<1>2. ASSUME NEW k \in 1 .. n
      PROVE  LET got == taken[k]
                 was == pushed[k]
                 fields == ClientboundPackets[was.table][got.id + 1]
             IN  /\ got.id = IF was.id < Len(ClientboundPackets[was.table]) THEN was.id ELSE Base
                 /\ \A i \in DOMAIN got.set :
                      /\ got.set[i].ok => IsPrefix(got.set[i].value, was.values[i])
                      /\ got.set[i].ok /\ was.whole => got.set[i].value = was.values[i]
                      /\ ~got.set[i].ok =>
                           i = Len(got.set) /\ (~was.whole \/ Tagged(fields[i], was.values[i]))
  <2>1. PICK was, got : was = pushed[k] /\ got = taken[k]
    OBVIOUS
  <2>2. k \in 1 .. Len(pushed) /\ k \in 1 .. Len(taken)
    BY <1>1, <1>2
  <2>3. CarriedAs(was)
    BY <2>1, <2>2, Zenon DEF CarriedInv
  <2>4. PICK parsed : parsed = Parsed(was.payload, was.table)
    OBVIOUS
  <2>5. parsed.ok /\ got = parsed.packet
    BY <2>1, <2>2, <2>4, Zenon DEF ReaderInv, TakenAs
  <2>6. PICK f : f = TableFields(was.table, was.id)
    OBVIOUS
  <2>7. got.id = IdOf(was.table, was.id) /\ Kept(got.set, f, was.values, was.whole)
    BY <2>3, <2>4, <2>5, <2>6, CarriedRead
  <2>8. PICK P : P = ClientboundPackets[was.table]
    OBVIOUS
  <2>9. CASE was.id < Len(P)
    <3>1. got.id = was.id /\ f = P[got.id + 1]
      BY <2>6, <2>7, <2>8, <2>9, Zenon DEF IdOf, TableFields, FieldsOf
    <3>2. QED
      BY <2>1, <2>7, <2>8, <2>9, <3>1, Zenon DEF Kept
  <2>10. CASE ~(was.id < Len(P))
    <3>1. got.id = Base /\ f = <<>>
      BY <2>6, <2>7, <2>8, <2>10, Zenon DEF IdOf, TableFields
    <3>2. DOMAIN got.set = {}
      <4>1. DOMAIN got.set = 1 .. Len(f)
        BY <2>7, Zenon DEF Kept
      <4>2. 1 .. Len(f) = {}
        BY <3>1
      <4>3. QED
        BY <4>1, <4>2, Zenon
    <3>3. QED
      BY <2>1, <2>8, <2>10, <3>1, <3>2, Zenon
  <2>11. QED
    BY <2>9, <2>10
<1>3. QED
  BY <1>1, <1>2, Zenon DEF AsSent

\* [](AsSent): whatever the server sends and however it is framed, every packet the thread takes is
\* the one sent, with the values it was sent with; only its last attribute can be missing, or hold the
\* beginning of a text. What Packet.read swallows never gives an attribute a value nobody sent.
THEOREM PacketsAreAsSent == Spec => []AsSent
<1> DEFINE Inv == ListenInv /\ ReadInv /\ WriteInv /\ ServerInv /\ ReaderInv /\ CarriedInv
<1>1. Init => Inv
  BY InitListen, InitRead, InitWrite, InitServed, InitReader, InitCarried
<1>2. Inv /\ [Next]_vars => Inv'
  BY StepListen, StepRead, StepWrite, StepServed, StepReader, StepCarried
<1>3. Inv => AsSent
  BY InvAsSent
<1>4. QED
  BY <1>1, <1>2, <1>3, PTL DEF Spec

\* The rows of the packets the reactor reads, and of those print_chat is for.
LEMMA KnownFields ==
  ASSUME NEW table_, table_ \in {"login", "play"}, NEW id, NEW x \in 0 .. 76,
         table_ = "login" => x \in 0 .. 3, IdOf(table_, id) = x
  PROVE  id = x /\ TableFields(table_, id) = ClientboundPackets[table_][x + 1]
<1>1. PICK P : P = ClientboundPackets[table_]
  OBVIOUS
<1>2. CASE id < Len(P)
  BY <1>1, <1>2, Zenon DEF IdOf, TableFields, FieldsOf
<1>3. CASE ~(id < Len(P))
  <2>1. x = Base
    BY <1>1, <1>3, Zenon DEF IdOf
  <2>2. QED
    BY <2>1 DEF Base
<1>4. QED
  BY <1>2, <1>3

\* What the reactor and print_chat need is in the row of their packet, and no tag.
LEMMA ReadsAre ==
  ASSUME NEW p, p.table \in {"login", "play"}, packet.table = p.table,
         packet.id = IdOf(p.table, p.id), NEW f, f = TableFields(p.table, p.id), NEW i \in Reads
  PROVE  i \in 1 .. Len(f) /\ f[i] \notin Taggable
<1>1. ASSUME NEW x \in 0 .. 76, Is("play", x)
      PROVE  f = PlayingClientbound[x + 1]
  <2>1. p.table = "play" /\ IdOf(p.table, p.id) = x
    BY <1>1, Zenon DEF Is
  <2>2. "play" # "login"
    OBVIOUS
  <2>3. TableFields(p.table, p.id) = ClientboundPackets[p.table][x + 1]
    BY <2>1, <2>2, KnownFields
  <2>4. ClientboundPackets["play"] = PlayingClientbound
    BY DEF ClientboundPackets
  <2>5. QED
    BY <2>1, <2>3, <2>4, Zenon
<1>2. ASSUME NEW x \in 0 .. 3, Is("login", x)
      PROVE  f = LoginClientbound[x + 1]
  <2>1. p.table = "login" /\ IdOf(p.table, p.id) = x
    BY <1>2, Zenon DEF Is
  <2>2. x \in 0 .. 76
    OBVIOUS
  <2>3. TableFields(p.table, p.id) = ClientboundPackets[p.table][x + 1]
    BY <2>1, <2>2, KnownFields
  <2>4. ClientboundPackets["login"] = LoginClientbound
    BY DEF ClientboundPackets
  <2>5. QED
    BY <2>1, <2>3, <2>4, Zenon
<1>3. /\ KeepAlive \in 0 .. 76 /\ DisconnectPlay \in 0 .. 76 /\ PositionAndLook \in 0 .. 76
      /\ SetCompression \in 0 .. 3 /\ Disconnect \in 0 .. 3
  BY DEF KeepAlive, DisconnectPlay, PositionAndLook, SetCompression, Disconnect
<1>4. ASSUME NEW type, type \in {"VarInt", "String"}, f = <<type>>, i = 1
      PROVE  i \in 1 .. Len(f) /\ f[i] \notin Taggable
  BY <1>4 DEF Taggable
<1>5. CASE Is("login", SetCompression) \/ Is("play", KeepAlive)
  <2>1. i = 1
    <3>1. i \in Reads
      OBVIOUS
    <3>2. /\ ~(Is("login", Disconnect) \/ Is("play", DisconnectPlay))
          /\ ~Is("play", PositionAndLook)
      BY <1>5 DEF Is, SetCompression, KeepAlive, Disconnect, DisconnectPlay, PositionAndLook
    <3>4. Reads = {1}
      BY <1>5, <3>2, Zenon DEF Reads
    <3>5. QED
      BY <3>1, <3>4
  <2>2. f = <<"VarInt">>
    BY <1>1, <1>2, <1>3, <1>5, EntriesAre, Zenon
  <2>3. QED
    BY <1>4, <2>1, <2>2
<1>6. CASE ~(Is("login", SetCompression) \/ Is("play", KeepAlive))
           /\ (Is("login", Disconnect) \/ Is("play", DisconnectPlay))
  <2>1. i = 1
    <3>1. ~(Is("play", PositionAndLook))
      BY <1>6 DEF Is, DisconnectPlay, PositionAndLook
    <3>2. QED
      BY <1>6, <3>1, Zenon DEF Reads
  <2>2. f = <<"String">>
    BY <1>1, <1>2, <1>3, <1>6, EntriesAre, Zenon
  <2>3. QED
    BY <1>4, <2>1, <2>2
<1>7. CASE /\ ~(Is("login", SetCompression) \/ Is("play", KeepAlive))
           /\ ~(Is("login", Disconnect) \/ Is("play", DisconnectPlay))
           /\ Is("play", PositionAndLook)
  <2>1. i \in 1 .. 5 \cup {7}
    BY <1>7, Zenon DEF Reads
  <2>2. f = <<"Double", "Double", "Double", "Float", "Float", "Byte", "VarInt">>
    BY <1>1, <1>3, <1>7, EntriesAre, Zenon
  <2>3. Len(f) = 7 /\ \A j \in 1 .. 7 : f[j] \in {"Double", "Float", "Byte", "VarInt"}
    BY <2>2
  <2>4. i \in 1 .. 7
    BY <2>1
  <2>5. f[i] \in {"Double", "Float", "Byte", "VarInt"}
    BY <2>3, <2>4
  <2>6. QED
    BY <2>3, <2>4, <2>5 DEF Taggable
<1>8. CASE /\ ~(Is("login", SetCompression) \/ Is("play", KeepAlive))
           /\ ~(Is("login", Disconnect) \/ Is("play", DisconnectPlay))
           /\ ~Is("play", PositionAndLook)
  <2>1. Reads = {}
    BY <1>8, Zenon DEF Reads
  <2>2. QED
    BY <2>1
<1>9. QED
  BY <1>5, <1>6, <1>7, <1>8

\* The packet in hand is what was made of one that was sent.
Held(p, f) ==
  /\ p.table \in {"login", "play"} /\ f = TableFields(p.table, p.id)
  /\ packet.table = p.table /\ packet.id = IdOf(p.table, p.id)
  /\ Kept(packet.set, f, p.values, p.whole)
  /\ p.table = "login" => p.whole

\* What the reactor needs is there, in a packet that is there to its last byte.
LEMMA WholeHas ==
  ASSUME NEW p, NEW f, Held(p, f), p.whole, NEW i \in Reads
  PROVE  Has(i)
<1>0. /\ p.table \in {"login", "play"} /\ f = TableFields(p.table, p.id)
      /\ packet.table = p.table /\ packet.id = IdOf(p.table, p.id)
      /\ Kept(packet.set, f, p.values, p.whole)
  BY DEF Held
<1>1. i \in 1 .. Len(f) /\ f[i] \notin Taggable
  BY <1>0, ReadsAre
<1>2. Tagged(f[i], p.values[i]) = FALSE
  BY <1>1, NotTagged
<1>3. DOMAIN packet.set = 1 .. Len(f)
      /\ (~packet.set[i].ok => ~p.whole \/ Tagged(f[i], p.values[i]) = TRUE)
  BY <1>0, <1>1, Zenon DEF Kept
<1>4. i \in DOMAIN packet.set /\ packet.set[i].ok
  BY <1>1, <1>2, <1>3
<1>5. QED
  BY <1>4, Zenon DEF Has

\* What is cut off is a packet of the play state; the reactor reads something of three.
LEMMA CutNeeded ==
  ASSUME NEW p, NEW f, Held(p, f), ~p.whole, NEW i \in Reads
  PROVE  p.table = "play" /\ p.id \in EndsNeeded
<1>1. p.table = "play" /\ packet.table = "play" /\ packet.id = IdOf(p.table, p.id)
  BY Zenon DEF Held
<1>2. ~Is("login", SetCompression) /\ ~Is("login", Disconnect)
  BY <1>1 DEF Is
<1>3. Is("play", KeepAlive) \/ Is("play", DisconnectPlay) \/ Is("play", PositionAndLook)
  <2>1. SUFFICES ASSUME ~Is("play", KeepAlive), ~Is("play", DisconnectPlay),
                        ~Is("play", PositionAndLook)
                 PROVE  FALSE
    OBVIOUS
  <2>2. Reads = {}
    BY <1>2, <2>1, Zenon DEF Reads
  <2>3. QED
    BY <2>2
<1>4. ASSUME NEW x \in 0 .. 76, Is("play", x) PROVE p.id = x
  <2>1. IdOf(p.table, p.id) = x
    BY <1>1, <1>4, Zenon DEF Is
  <2>2. p.table \in {"login", "play"} /\ p.table # "login"
    BY <1>1
  <2>3. QED
    BY <2>1, <2>2, KnownFields
<1>5. KeepAlive \in 0 .. 76 /\ DisconnectPlay \in 0 .. 76 /\ PositionAndLook \in 0 .. 76
  BY DEF KeepAlive, DisconnectPlay, PositionAndLook
<1>6. p.id \in EndsNeeded
  BY <1>3, <1>4, <1>5 DEF EndsNeeded
<1>7. QED
  BY <1>1, <1>6

\* print_chat, called with a chat message, has what it prints.
LEMMA ChatHas ==
  ASSUME NEW p, NEW f, Held(p, f), Is("play", ChatMessage)
  PROVE  HasJson(packet)
<1>0. /\ p.table \in {"login", "play"} /\ f = TableFields(p.table, p.id)
      /\ packet.table = p.table /\ packet.id = IdOf(p.table, p.id)
      /\ Kept(packet.set, f, p.values, p.whole)
  BY DEF Held
<1>1. p.table = "play" /\ IdOf(p.table, p.id) = ChatMessage /\ packet.table = "play"
      /\ packet.id = ChatMessage
  BY <1>0 DEF Is
<1>2. f = <<"String", "Byte">>
  <2>1. ChatMessage \in 0 .. 76 /\ "play" # "login"
    BY DEF ChatMessage
  <2>2. TableFields(p.table, p.id) = ClientboundPackets[p.table][ChatMessage + 1]
    BY <1>1, <2>1, KnownFields
  <2>3. ClientboundPackets["play"] = PlayingClientbound
    BY DEF ClientboundPackets
  <2>4. QED
    BY <1>0, <1>1, <2>2, <2>3, EntriesAre, Zenon
<1>3. Len(f) = 2 /\ 1 \in 1 .. Len(f)
  BY <1>2
<1>4. Len(packet.set) = 2 /\ (~packet.set[1].ok => 1 = Len(packet.set))
  BY <1>0, <1>3, Zenon DEF Kept
<1>5. packet.set[1].ok
  BY <1>4
<1>6. QED
  BY <1>1, <1>5 DEF HasJson

-----------------------------------------------------------------------------
(* What ends the thread *)

\* Where the thread is among the listeners; the body that does not come is that of the last
\* packet; and the packet that has ended the thread.
Reached == at[1] \in Nat \ {0} /\ at[2] \in Nat \ {0}
LastCut == pc = "body" /\ Len(stream) < length => Len(pushed) = Len(taken) + 1
EndedBy(k) == k \in 1 .. Len(pushed) /\ Fatal(pushed[k])

ChatRaised == \E w \in Range(unsent) : w.kind = "chat" /\ ~Ascii(w.values[1])

EndInv ==
  /\ Reached /\ LastCut
  /\ pc = "broken" => EndedBy(Len(taken)) \/ EndedBy(Len(taken) + 1)
  /\ pc = "lost" => closed
  /\ pc = "spinning" => closed /\ Len(pushed) = Len(taken) + 1
  /\ pc = "failed" => closed \/ ChatRaised

\* What there is stays when listeners are registered and packets sent.
ListenersOn ==
  /\ \A l \in DOMAIN packet_listeners :
       l \in DOMAIN packet_listeners' /\ packet_listeners'[l] = packet_listeners[l]
  /\ Range(packets_to_listen) \subseteq Range(packets_to_listen')
PushedOn == \A k \in 1 .. Len(pushed) : k \in 1 .. Len(pushed') /\ pushed'[k] = pushed[k]

\* EndInv is enough for EndsOnlyBy.
LEMMA InvEnds ==
  ASSUME EndInv, IsSeq(pushed)
  PROVE  EndsOnlyBy
<1>1. DOMAIN pushed = 1 .. Len(pushed)
  BY DEF IsSeq
<1>2. ASSUME NEW k \in {Len(taken), Len(taken) + 1}, EndedBy(k)
      PROVE  \E j \in {Len(taken), Len(taken) + 1} \cap DOMAIN pushed : Fatal(pushed[j])
  BY <1>1, <1>2 DEF EndedBy
<1>3. QED
  BY <1>2, Zenon DEF EndInv, EndsOnlyBy, ChatRaised

\* What is fatal stays fatal.
LEMMA EndedOn ==
  ASSUME NEW k, EndedBy(k), ListenersOn, PushedOn
  PROVE  EndedBy(k)'
<1>1. PICK p : p = pushed[k]
  OBVIOUS
<1>2. k \in 1 .. Len(pushed') /\ pushed'[k] = p /\ Fatal(p)
  BY <1>1 DEF EndedBy, PushedOn
<1>3. CASE \E l \in DOMAIN packet_listeners : packet_listeners[l] = <<ChatMessage>>
             /\ \E class \in Range(packets_to_listen) : class # ChatMessage /\ IsInstance(p, class)
  <2>1. PICK l \in DOMAIN packet_listeners : packet_listeners[l] = <<ChatMessage>>
             /\ \E class \in Range(packets_to_listen) : class # ChatMessage /\ IsInstance(p, class)
    BY <1>3
  <2>2. PICK class \in Range(packets_to_listen) : class # ChatMessage /\ IsInstance(p, class)
    BY <2>1
  <2>3. /\ l \in DOMAIN packet_listeners' /\ packet_listeners'[l] = <<ChatMessage>>
        /\ class \in Range(packets_to_listen')
    BY <2>1, <2>2 DEF ListenersOn
  <2>4. \E j \in DOMAIN packet_listeners' : packet_listeners'[j] = <<ChatMessage>>
          /\ \E c \in Range(packets_to_listen') : c # ChatMessage /\ IsInstance(p, c)
    BY <2>2, <2>3
  <2>5. QED
    BY <1>2, <2>4, Zenon DEF EndedBy, Fatal, IsInstance
<1>4. CASE \/ p.table = "play" /\ p.id = EntityEffect
           \/ p.zipped /\ Len(Compressed(p.payload)) > Len(p.payload)
           \/ ~p.whole /\ p.table = "play" /\ p.id \in EndsNeeded
  BY <1>2, <1>4, Zenon DEF EndedBy, Fatal
<1>5. QED
  BY <1>2, <1>3, <1>4, Zenon DEF Fatal

\* A step of another than the thread.
LEMMA EndOthers ==
  ASSUME EndInv, ListenersOn, PushedOn, taken' = taken, pc' = pc, Reached', LastCut',
         closed => closed' /\ pushed' = pushed, unsent' = unsent
  PROVE  EndInv'
<1>1. ASSUME NEW k, EndedBy(k) PROVE EndedBy(k)'
  BY <1>1, EndedOn
<1>2. PICK n : n = Len(taken) /\ n = Len(taken')
  OBVIOUS
<1>3. ASSUME pc = "broken" PROVE EndedBy(Len(taken))' \/ EndedBy(Len(taken) + 1)'
  <2>1. EndedBy(n) \/ EndedBy(n + 1)
    BY <1>2, <1>3, Zenon DEF EndInv
  <2>2. EndedBy(n)' \/ EndedBy(n + 1)'
    BY <1>1, <2>1, Zenon
  <2>3. QED
    BY <1>2, <2>2, Zenon DEF EndedBy
<1>4. ASSUME pc = "failed" PROVE (closed \/ ChatRaised)'
  BY <1>4 DEF EndInv, ChatRaised
<1>5. QED
  BY <1>3, <1>4 DEF EndInv

\* What a step leaves alone stays.
LEMMA OnSame ==
  /\ UNCHANGED listening => ListenersOn
  /\ pushed' = pushed => PushedOn
<1>1. ASSUME UNCHANGED listening PROVE ListenersOn
  BY <1>1 DEF listening, ListenersOn
<1>2. ASSUME pushed' = pushed PROVE PushedOn
  BY <1>2 DEF PushedOn
<1>3. QED
  BY <1>1, <1>2

\* A thread that goes on, or ends as it may.
LEMMA EndMoves ==
  ASSUME EndInv, Reached', LastCut', UNCHANGED server,
         \/ pc' \notin Ended
         \/ pc' = "broken" /\ taken' = taken /\ ListenersOn
            /\ (EndedBy(Len(taken)) \/ EndedBy(Len(taken) + 1))
         \/ pc' = "lost" /\ closed
         \/ pc' = "spinning" /\ closed /\ taken' = taken /\ Len(pushed) = Len(taken) + 1
         \/ pc' = "failed" /\ (closed \/ ChatRaised')
  PROVE  EndInv'
<1>1. pushed' = pushed /\ closed' = closed /\ PushedOn
  BY OnSame DEF server
<1>2. CASE pc' \notin Ended
  BY <1>2 DEF EndInv, Ended
<1>3. CASE pc' = "broken" /\ taken' = taken /\ ListenersOn
            /\ (EndedBy(Len(taken)) \/ EndedBy(Len(taken) + 1))
  <2>1. ListenersOn
    BY <1>3
  <2>2. PICK n : n = Len(taken) /\ n = Len(taken')
    BY <1>3
  <2>3. EndedBy(n) \/ EndedBy(n + 1)
    BY <1>3, <2>2, Zenon
  <2>4. ASSUME NEW k, EndedBy(k) PROVE EndedBy(k)'
    BY <1>1, <2>1, <2>4, EndedOn
  <2>5. EndedBy(n)' \/ EndedBy(n + 1)'
    BY <2>3, <2>4, Zenon
  <2>6. EndedBy(Len(taken))' \/ EndedBy(Len(taken) + 1)'
    BY <2>2, <2>5, Zenon DEF EndedBy
  <2>7. QED
    BY <1>3, <2>6 DEF EndInv
<1>4. CASE pc' = "lost" /\ closed
  BY <1>1, <1>4 DEF EndInv
<1>5. CASE pc' = "spinning" /\ closed /\ taken' = taken /\ Len(pushed) = Len(taken) + 1
  BY <1>1, <1>5 DEF EndInv
<1>6. CASE pc' = "failed" /\ (closed \/ ChatRaised')
  BY <1>1, <1>6 DEF EndInv
<1>7. QED
  BY <1>2, <1>3, <1>4, <1>5, <1>6

\* Inside a packet that was sent whole its length is there.
LEMMA InsideLong ==
  ASSUME NEW f \in Seq(Seq(Octet)), NEW d, NEW n \in 1 .. Len(f), NEW s, NEW c, NEW l \in Nat,
         Inside(f, d, n, s, c, l)
  PROVE  s \in Seq(Octet) /\ Len(s) >= l
<1>1. PICK z : z = f[n]
  OBVIOUS
<1>2. z \in Seq(Octet) /\ n \in 0 .. Len(f)
  <2> DEFINE R == Seq(Octet)
  <2>1. f \in Seq(R)
    OBVIOUS
  <2> HIDE DEF R
  <2>2. f[n] \in R /\ n \in 0 .. Len(f)
    BY <2>1
  <2>3. QED
    BY <1>1, <2>2 DEF R
<1>3. PICK u : u \in 0 .. Len(z) /\ u + l = Len(z) /\ s = Left(u, z) \o Rest(f, n)
  BY <1>1 DEF Inside
<1>4. Left(u, z) \in Seq(Octet) /\ Len(Left(u, z)) = Len(z) - u
  BY <1>2, <1>3, Splits
<1>5. Rest(f, n) \in Seq(Octet)
  BY <1>2, PartsType
<1>6. PICK x, y : x = Left(u, z) /\ y = Rest(f, n)
  OBVIOUS
<1>7. x \in Seq(Octet) /\ y \in Seq(Octet) /\ s = x \o y
  BY <1>3, <1>4, <1>5, <1>6
<1>8. x \o y \in Seq(Octet) /\ Len(x) <= Len(x \o y) /\ Len(x \o y) \in Nat
  BY <1>7, JoinBegins
<1>9. Len(x) = l
  <2>1. Len(z) \in Nat
    BY <1>2
  <2>2. QED
    BY <1>3, <1>4, <1>6, <2>1
<1>10. QED
  BY <1>7, <1>8, <1>9

\* As long as the server is there, the rest of a packet is.
LEMMA BodyLong ==
  ASSUME ReadInv, pc = "body", ~closed
  PROVE  Len(stream) >= length
<1>1. /\ Frames \in Seq(Seq(Octet)) /\ Len(Frames) = Len(pushed) /\ Len(pushed) \in Nat
  BY FramesAre DEF ReadInv
<1>2. Len(taken) \in Nat /\ length \in Nat
  BY DEF ReadInv, IsSeq
<1>3. Len(taken) < Len(pushed) /\ Inside(Frames, Start, Len(taken) + 1, stream, decryptor, length)
  BY DEF ReadInv, Within
<1>4. Len(taken) + 1 \in 1 .. Len(Frames)
  BY <1>1, <1>2, <1>3
<1>5. QED
  BY <1>1, <1>2, <1>3, <1>4, InsideLong

\* A step of the server.
LEMMA ServerEnds ==
  ASSUME ReadInv, WriteInv, EndInv, Server
  PROVE  EndInv'
<1>1. UNCHANGED <<client, writing, listening>>
  BY DEF Server, ServerLogin, ServerPlay, ServerClose
<1>2. UNCHANGED <<pc, taken, at, length, unsent>> /\ ListenersOn
  BY <1>1, OnSame DEF client, writing
<1>3. Reached'
  BY <1>2 DEF EndInv, Reached
<1>4. CASE closed \/ ServerClose
  <2>1. ServerClose \/ (pushed' = pushed /\ closed' = closed /\ stream' = stream)
    BY <1>4 DEF Server, ServerLogin, ServerPlay, ServerClose, PushLogin, PushOneOf, Push
  <2>2. pushed' = pushed /\ stream' = stream /\ (closed => closed')
    BY <2>1 DEF ServerClose
  <2>3. LastCut'
    BY <1>2, <2>2 DEF EndInv, LastCut
  <2>4. PushedOn
    BY <2>2, OnSame
  <2>5. QED
    BY <1>2, <1>3, <2>2, <2>3, <2>4, EndOthers
<1>5. CASE ~closed /\ (ServerLogin \/ ServerPlay)
  <2>1. PICK p : Adds(p)
    BY <1>5, ServerAdds
  <2>2. PushedOn
    <3>1. PICK n \in Nat : n = Len(pushed) /\ Len(pushed') = n + 1
      BY <2>1 DEF Adds
    <3>2. \A k \in 1 .. n : k \in 1 .. n + 1
      BY <3>1
    <3>3. QED
      BY <2>1, <3>1, <3>2 DEF PushedOn, Adds
  <2>3. LastCut'
    <3>1. SUFFICES ASSUME pc = "body" PROVE ~(Len(stream') < length)
      BY <1>2 DEF LastCut
    <3>2. stream \in Seq(Octet) /\ length \in Nat
      BY DEF WriteInv, Typed
    <3>3. Len(stream) >= length
      BY <1>5, <3>1, BodyLong
    <3>4. PICK bytes \in Seq(Octet) : stream' = stream \o bytes
      BY <3>2, ServerBytes
    <3>5. Len(stream) <= Len(stream \o bytes) /\ Len(stream \o bytes) \in Nat /\ Len(stream) \in Nat
      BY <3>2, JoinBegins
    <3>6. Len(stream') \in Nat /\ Len(stream) <= Len(stream')
      BY <3>4, <3>5
    <3>7. QED
      BY <3>2, <3>3, <3>5, <3>6
  <2>4. QED
    BY <1>2, <1>3, <1>5, <2>2, <2>3, EndOthers
<1>6. QED
  BY <1>4, <1>5 DEF Server

\* A step of the application.
LEMMA AppEnds ==
  ASSUME ListenInv, EndInv, Chat \/ Registering
  PROVE  EndInv'
<1>1. UNCHANGED <<server, stream, client, unsent>>
  BY DEF Chat, Registering, writing
<1>2. UNCHANGED <<pushed, closed, stream, pc, taken, at, length, unsent>>
  BY <1>1 DEF server, client
<1>3. Reached' /\ LastCut' /\ PushedOn
  BY <1>2, OnSame DEF EndInv, Reached, LastCut
<1>4. ListenersOn
  <2> DEFINE R == Seq(Int)
  <2>1. packet_listeners \in Seq(R) /\ packets_to_listen \in Seq(Int)
        /\ registering.args \in R
    BY DEF ListenInv, ListenersOK
  <2> HIDE DEF R
  <2>2. CASE Chat
    BY <2>2, OnSame DEF Chat
  <2>3. CASE Register
    BY <2>3 DEF Register, ListenersOn
  <2>4. CASE AddClass
    <3>1. PICK a : packets_to_listen' = Append(packets_to_listen, a)
      BY <2>4 DEF AddClass
    <3>2. Range(packets_to_listen) \subseteq Range(packets_to_listen')
      <4>1. ASSUME NEW i \in DOMAIN packets_to_listen
            PROVE  i \in DOMAIN packets_to_listen' /\ packets_to_listen'[i] = packets_to_listen[i]
        BY <2>1, <3>1, <4>1
      <4>2. QED
        BY <4>1 DEF Range
    <3>3. packet_listeners' = packet_listeners
      BY <2>4 DEF AddClass
    <3>4. QED
      BY <3>2, <3>3 DEF ListenersOn
  <2>5. CASE AddListener
    <3>1. PICK a : packet_listeners' = Append(packet_listeners, a)
      BY <2>5 DEF AddListener
    <3>2. \A l \in DOMAIN packet_listeners :
            l \in DOMAIN packet_listeners' /\ packet_listeners'[l] = packet_listeners[l]
      BY <2>1, <3>1
    <3>3. packets_to_listen' = packets_to_listen
      BY <2>5 DEF AddListener
    <3>4. QED
      BY <3>2, <3>3 DEF ListenersOn
  <2>6. QED
    BY <2>2, <2>3, <2>4, <2>5 DEF Registering
<1>5. QED
  BY <1>2, <1>3, <1>4, EndOthers

\* The length of a packet, and its body.
LEMMA LengthEnds ==
  ASSUME ReadInv, EndInv, ReadLength
  PROVE  EndInv'
<1>1. pc = "waiting" /\ UNCHANGED <<server, taken, at>>
  BY DEF ReadLength
<1>2. Reached' /\ pushed' = pushed
  BY <1>1 DEF EndInv, Reached, server
<1>3. CASE ~Whole(Plaintext)
  <2>1. pc' = "lost" /\ closed
    BY <1>3 DEF ReadLength
  <2>2. LastCut'
    BY <2>1 DEF LastCut
  <2>3. QED
    BY <1>1, <1>2, <2>1, <2>2, EndMoves
<1>4. CASE Whole(Plaintext)
  <2>1. /\ pc' = "body" /\ length' = Received(Plaintext)
        /\ stream' = Left(Used(Plaintext), stream)
    BY <1>4 DEF ReadLength, Consume
  <2>2. PICK n \in Nat : n = Len(taken) /\ n < Len(pushed)
    <3>1. ReadInv'
      BY LengthReads
    <3>2. Len(taken) \in Nat
      BY DEF ReadInv, IsSeq
    <3>3. QED
      BY <1>1, <1>2, <2>1, <3>1, <3>2 DEF ReadInv, Within
  <2>3. PICK z, c : z = pushed[n + 1].bytes /\ c = SealAt(n + 1)
    OBVIOUS
  <2>4. /\ n + 1 \in 1 .. Len(pushed) /\ c \in States /\ decryptor = c /\ z \in Seq(Octet)
        /\ \E r \in Seq(Octet) : stream = z \o r
    BY <1>1, <2>2, <2>3, StreamAt
  <2>5. PICK r \in Seq(Octet) : stream = z \o r
    BY <2>4
  <2>6. Plaintext = Decrypted(z \o r, c)
    BY <2>4, <2>5, Zenon DEF Plaintext
  <2>7. Frame(z, c) \/ n + 1 = Len(pushed)
    <3>1. /\ Len(Frames) = Len(pushed)
          /\ \A k \in 1 .. Len(Frames) : Good(Frames, Start, k, closed)
      BY FramesAre DEF ReadInv, SentSoFar, WellSent
    <3>2. Good(Frames, Start, n + 1, closed)
      BY <2>4, <3>1
    <3>3. Frames[n + 1] = z /\ Seal(Frames, (n + 1) - 1, Start) = c
      BY <2>3, <2>4 DEF Frames, SealAt
    <3>4. QED
      BY <3>1, <3>2, <3>3 DEF Good
  <2>8. LastCut'
    <3>1. CASE n + 1 = Len(pushed)
      BY <1>1, <1>2, <2>2, <3>1 DEF LastCut
    <3>2. CASE Frame(z, c)
      <4>1. PICK p : p = Decrypted(z, c)
        OBVIOUS
      <4>2. Whole(p) /\ Len(z) = Used(p) + Received(p)
        BY <3>2, <4>1 DEF Frame
      <4>3. Received(Plaintext) = Received(p) /\ Used(Plaintext) = Used(p)
        <5>1. Whole(Decrypted(z, c))
          BY <4>1, <4>2
        <5>2. /\ Received(Decrypted(z \o r, c)) = Received(Decrypted(z, c))
              /\ Used(Decrypted(z \o r, c)) = Used(Decrypted(z, c))
          BY <2>4, <5>1, LengthOf
        <5>3. QED
          BY <2>6, <4>1, <5>2, Zenon
      <4>4. Received(p) \in Nat /\ Used(p) \in 1 .. 5
        <5>1. p \in Seq(Octet)
          BY <2>4, <4>1, DecryptedIs
        <5>2. QED
          BY <4>2, <5>1, ReceivedIs DEF VarInts
      <4>5. Len(z) \in Nat /\ Len(r) \in Nat /\ Len(stream) = Len(z) + Len(r) /\ stream \in Seq(Octet)
        <5>1. z \o r \in Seq(Octet) /\ Len(z \o r) = Len(z) + Len(r)
          BY <2>4, ConcatProperties
        <5>2. Len(z) \in Nat /\ Len(r) \in Nat
          BY <2>4
        <5>3. QED
          BY <2>5, <5>1, <5>2
      <4>6. Used(p) \in 0 .. Len(stream)
        BY <4>2, <4>4, <4>5
      <4>7. Len(Left(Used(p), stream)) = Len(stream) - Used(p)
        BY <4>5, <4>6, Splits
      <4>8. Len(stream') >= length'
        BY <2>1, <4>2, <4>3, <4>4, <4>5, <4>7
      <4>9. Len(stream') = Len(stream) - Used(p) /\ length' = Received(p)
        BY <2>1, <4>3, <4>7
      <4>10. ~(Len(stream') < length')
        BY <4>2, <4>4, <4>5, <4>9
      <4>11. QED
        BY <4>10 DEF LastCut
    <3>3. QED
      BY <2>7, <3>1, <3>2
  <2>9. QED
    BY <1>1, <1>2, <2>1, <2>8, EndMoves DEF Ended
<1>5. QED
  BY <1>3, <1>4

\* The loop that completes a packet.
LEMMA BodyEnds ==
  ASSUME EndInv, ReadBody
  PROVE  EndInv'
<1>1. pc = "body" /\ UNCHANGED <<server, taken, at>>
  BY DEF ReadBody
<1>2. Reached'
  BY <1>1 DEF EndInv, Reached
<1>3. CASE Len(stream) < length /\ closed /\ pc' = "spinning"
  <2>1. Len(pushed) = Len(taken) + 1
    BY <1>1, <1>3 DEF EndInv, LastCut
  <2>2. LastCut'
    BY <1>3 DEF LastCut
  <2>3. QED
    BY <1>1, <1>2, <1>3, <2>1, <2>2, EndMoves
<1>4. CASE pc' = "parsing"
  BY <1>1, <1>2, <1>4, EndMoves DEF LastCut, Ended
<1>5. QED
  BY <1>3, <1>4 DEF ReadBody

\* What cannot be read.
LEMMA ParseEnds ==
  ASSUME ReadInv, ServerInv, ReaderInv, CarriedInv, EndInv, Parse
  PROVE  EndInv'
<1>1. pc = "parsing" /\ UNCHANGED <<server, at, listening>> /\ IsSeq(taken)
  BY DEF Parse, ReadInv
<1>2. Reached'
  BY <1>1 DEF EndInv, Reached
<1>3. PICK n : n = Len(taken) /\ n < Len(pushed) /\ n \in Nat /\ Len(pushed) \in Nat
  <2>1. Len(pushed) \in Nat /\ Len(taken) \in Nat
    BY FramesAre DEF ReadInv, IsSeq
  <2>2. QED
    BY <1>1, <2>1 DEF ReadInv, Behind
<1>4. n + 1 \in 1 .. Len(pushed)
  BY <1>3
<1>5. PICK p, t : p = pushed[n + 1] /\ t = LimitAt(n + 1)
  OBVIOUS
<1>6. /\ Sendable(p.payload) /\ p.payload # <<>> /\ p.table = TableAt(n + 1)
      /\ t \in VarInts \cup {Off} /\ (p.zipped <=> t # Off /\ Len(p.payload) >= t)
  BY <1>4, <1>5 DEF ServerInv, SentAs, LimitAt
<1>7. data = Inner(p.payload, t) /\ threshold = t /\ table = p.table
  BY <1>1, <1>3, <1>5, <1>6 DEF ReaderInv, SetFor, InnerAt
<1>8. PICK body : body = Unwrapped(data, threshold # Off)
  OBVIOUS
<1>9. PICK got : got = Parsed(body.value, table)
  OBVIOUS
<1>10. CASE body.ok /\ got.ok
  <2>1. pc' = "reacting"
    BY <1>8, <1>9, <1>10 DEF Parse
  <2>2. LastCut'
    BY <2>1 DEF LastCut
  <2>3. QED
    BY <1>1, <1>2, <2>1, <2>2, EndMoves DEF Ended
<1>11. CASE ~(body.ok /\ got.ok)
  <2>1. pc' = "broken" /\ taken' = taken
    BY <1>8, <1>9, <1>11 DEF Parse
  <2>2. body = Unwrapped(Inner(p.payload, t), t # Off)
    BY <1>7, <1>8
  <2>3. /\ body.ok => body.value = p.payload
        /\ ~body.ok => t # Off /\ Len(p.payload) >= t /\ Len(Compressed(p.payload)) > Len(p.payload)
    BY <1>6, <2>2, UnwrapSent
  <2>4. Fatal(p)
    <3>1. CASE ~body.ok
      BY <1>6, <2>3, <3>1, Zenon DEF Fatal
    <3>2. CASE body.ok
      <4>1. got = Parsed(p.payload, p.table) /\ ~got.ok
        BY <1>7, <1>9, <1>11, <2>3, <3>2
      <4>2. CarriedAs(p)
        BY <1>4, <1>5, Zenon DEF CarriedInv
      <4>3. PICK f : f = TableFields(p.table, p.id)
        OBVIOUS
      <4>4. ~Unreadable(p) => got.ok
        BY <4>1, <4>2, <4>3, CarriedRead
      <4>5. QED
        BY <4>1, <4>4, Zenon DEF Fatal, Unreadable
    <3>3. QED
      BY <3>1, <3>2
  <2>5. EndedBy(Len(taken) + 1)
    BY <1>3, <1>4, <1>5, <2>4, Zenon DEF EndedBy
  <2>6. LastCut'
    BY <2>1 DEF LastCut
  <2>7. ListenersOn
    BY <1>1, OnSame
  <2>8. QED
    BY <1>1, <1>2, <2>1, <2>5, <2>6, <2>7, EndMoves
<1>12. QED
  BY <1>10, <1>11

\* The packet in hand, as it was sent.
LEMMA HandKept ==
  ASSUME ListenInv, ReadInv, ReaderInv, CarriedInv, pc \in {"reacting", "listening"}
  PROVE  \E n, p, f :
           n = Len(taken) /\ n \in 1 .. Len(pushed) /\ p = pushed[n] /\ Held(p, f)
<1>1. PICK n : n = Len(taken)
  OBVIOUS
<1>2. n \in 1 .. Len(taken) /\ n \in 1 .. Len(pushed) /\ packet = taken[n]
  <2>1. IsSeq(taken) /\ IsSeq(pushed) /\ Len(taken) <= Len(pushed) /\ taken # <<>>
        /\ packet = taken[n]
    BY <1>1 DEF ReadInv, SentSoFar, ReaderInv, ListenInv, InHand
  <2>2. Len(taken) \in Nat /\ Len(taken) # 0 /\ Len(pushed) \in Nat
    BY <2>1 DEF IsSeq
  <2>3. QED
    BY <1>1, <2>1, <2>2
<1>3. PICK p : p = pushed[n]
  OBVIOUS
<1>4. PICK got : got = Parsed(p.payload, p.table)
  OBVIOUS
<1>5. got.ok /\ packet = got.packet
  BY <1>2, <1>3, <1>4, Zenon DEF ReaderInv, TakenAs
<1>6. CarriedAs(p)
  BY <1>2, <1>3, Zenon DEF CarriedInv
<1>7. PICK f : f = TableFields(p.table, p.id)
  OBVIOUS
<1>8. /\ got.packet.table = p.table /\ got.packet.id = IdOf(p.table, p.id)
      /\ Kept(got.packet.set, f, p.values, p.whole)
  BY <1>4, <1>5, <1>6, <1>7, CarriedRead
<1>9. p.table \in {"login", "play"} /\ (p.table = "login" => p.whole)
  BY <1>6, Zenon DEF CarriedAs
<1>10. QED
  BY <1>1, <1>2, <1>3, <1>5, <1>7, <1>8, <1>9, Zenon DEF Held

\* What the reactor lacks.
LEMMA ReactEnds ==
  ASSUME ListenInv, ReadInv, ReaderInv, CarriedInv, EndInv, React
  PROVE  EndInv'
<1>1. pc = "reacting" /\ UNCHANGED <<server, taken, listening>> /\ ListenersOn
  BY OnSame DEF React
<1>2. CASE \A i \in Reads : Has(i)
  <2>1. pc' = "listening" /\ at' = <<1, 1>>
    BY <1>2 DEF React
  <2>2. Reached' /\ LastCut'
    BY <2>1 DEF Reached, LastCut
  <2>3. QED
    BY <1>1, <2>1, <2>2, EndMoves DEF Ended
<1>3. CASE ~\A i \in Reads : Has(i)
  <2>1. pc' = "broken" /\ at' = at
    BY <1>3 DEF React
  <2>2. Reached' /\ LastCut'
    BY <2>1 DEF EndInv, Reached, LastCut
  <2>3. PICK n, p, f :
          n = Len(taken) /\ n \in 1 .. Len(pushed) /\ p = pushed[n] /\ Held(p, f)
    BY <1>1, HandKept
  <2>4. PICK i \in Reads : ~Has(i)
    BY <1>3
  <2>5. ~p.whole
    <3>1. i \in Reads
      OBVIOUS
    <3>2. p.whole => Has(i)
      BY <2>3, <3>1, WholeHas
    <3>3. QED
      BY <2>4, <3>2
  <2>8. p.table = "play" /\ p.id \in EndsNeeded
    BY <2>3, <2>5, CutNeeded
  <2>6. EndedBy(Len(taken))
    BY <2>3, <2>5, <2>8, Zenon DEF EndedBy, Fatal
  <2>7. QED
    BY <1>1, <2>1, <2>2, <2>6, EndMoves
<1>4. QED
  BY <1>2, <1>3

\* What print_chat cannot print.
LEMMA BreaksEnds ==
  ASSUME ListenInv, ReadInv, ReaderInv, CarriedInv, EndInv, pc = "listening",
         ~AllCalled(at), Breaks(at, packet)
  PROVE  EndedBy(Len(taken))
<1>1. PICK n, p, f :
        n = Len(taken) /\ n \in 1 .. Len(pushed) /\ p = pushed[n] /\ Held(p, f)
  BY HandKept
<1>2. PICK l, class : l = at[1] /\ class = packets_to_listen[at[2]]
  OBVIOUS
<1>3. l \in DOMAIN packet_listeners /\ class \in Range(packets_to_listen)
  <2> DEFINE R == Seq(Int)
  <2>1. packet_listeners \in Seq(R) /\ packets_to_listen \in Seq(Int)
        /\ at[1] \in Nat \ {0} /\ at[2] \in Nat \ {0}
    BY DEF ListenInv, ListenersOK, EndInv, Reached
  <2> HIDE DEF R
  <2>2. ~(at[1] > Len(packet_listeners)) /\ at[2] <= Len(packets_to_listen)
    BY DEF AllCalled, Breaks, Calls
  <2>3. at[1] \in DOMAIN packet_listeners /\ at[2] \in DOMAIN packets_to_listen
    BY <2>1, <2>2
  <2>4. QED
    BY <1>2, <2>3 DEF Range
<1>4. IsInstance(packet, class) /\ packet_listeners[l] = <<ChatMessage>> /\ ~HasJson(packet)
  BY <1>2, Zenon DEF Breaks, Calls, CallbackRaises
<1>5. class # ChatMessage
  <2>1. SUFFICES ASSUME class = ChatMessage PROVE FALSE
    OBVIOUS
  <2>2. ChatMessage # Base
    BY DEF ChatMessage, Base
  <2>3. Is("play", ChatMessage)
    BY <1>4, <2>1, <2>2, Zenon DEF Is, IsInstance
  <2>4. HasJson(packet)
    BY <1>1, <2>3, ChatHas
  <2>5. QED
    BY <1>4, <2>4
<1>6. IsInstance(p, class)
  <2>1. class = Base \/ (p.table = "play" /\ IdOf(p.table, p.id) = class)
    BY <1>1, <1>4, Zenon DEF IsInstance, Held
  <2>2. IdOf(p.table, p.id) = p.id \/ IdOf(p.table, p.id) = Base
    BY DEF IdOf
  <2>3. QED
    BY <2>1, <2>2, Zenon DEF IsInstance
<1>7. Fatal(p)
  BY <1>3, <1>4, <1>5, <1>6, Zenon DEF Fatal
<1>8. QED
  BY <1>1, <1>7, Zenon DEF EndedBy

\* A step through the listeners.
LEMMA ListenEnds ==
  ASSUME ListenInv, ReadInv, ReaderInv, CarriedInv, EndInv, Listen
  PROVE  EndInv'
<1>1. pc = "listening" /\ UNCHANGED <<server, taken>>
      /\ UNCHANGED <<packets_to_listen, packet_listeners>>
  BY DEF Listen, listening, CallNext
<1>2. ListenersOn
  BY <1>1 DEF ListenersOn
<1>3. pc' \in {"waiting", "listening", "broken"}
  BY <1>1 DEF Listen
<1>4. LastCut'
  BY <1>3 DEF LastCut
<1>5. Reached'
  <2>1. at[1] \in Nat \ {0} /\ at[2] \in Nat \ {0}
    BY DEF EndInv, Reached
  <2>2. at' = at \/ at' = <<at[1] + 1, 1>> \/ at' = <<at[1], at[2] + 1>>
    BY DEF Listen, NextAt
  <2>3. QED
    BY <2>1, <2>2 DEF Reached
<1>6. CASE pc' = "broken"
  <2>1. ~AllCalled(at) /\ Breaks(at, packet)
    BY <1>1, <1>6 DEF Listen
  <2>2. EndedBy(Len(taken))
    BY <1>1, <2>1, BreaksEnds
  <2>3. QED
    BY <1>1, <1>2, <1>4, <1>5, <1>6, <2>2, EndMoves
<1>7. CASE pc' # "broken"
  BY <1>1, <1>3, <1>4, <1>5, <1>7, EndMoves DEF Ended
<1>8. QED
  BY <1>6, <1>7

\* A step that leaves the thread where it is.
LEMMA QuietEnds ==
  ASSUME EndInv, Write \/ UNCHANGED vars
  PROVE  EndInv'
<1>1. UNCHANGED <<server, stream, client, unsent, listening>>
  BY DEF Write, vars, writing
<1>2. UNCHANGED <<pushed, closed, stream, pc, taken, at, length, unsent>>
  BY <1>1 DEF server, client
<1>3. Reached' /\ LastCut' /\ PushedOn /\ ListenersOn
  BY <1>1, <1>2, OnSame DEF EndInv, Reached, LastCut
<1>4. QED
  BY <1>2, <1>3, EndOthers

\* Of the packets the client writes, only a chat has a text.
LEMMA ChatAlone ==
  ASSUME NEW w, w.kind \in DOMAIN ServerboundPackets, ~Encodes(w)
  PROVE  w.kind = "chat" /\ ~Ascii(w.values[1])
<1>1. PICK f : f = ServerboundPackets[w.kind].fields
  OBVIOUS
<1>2. PICK i \in DOMAIN f : f[i] = "String" /\ ~Ascii(w.values[i])
  BY <1>1 DEF Encodes
<1>3. CASE w.kind \in {"teleport_confirm", "keep_alive"}
  BY <1>1, <1>2, <1>3 DEF ServerboundPackets
<1>4. CASE w.kind = "position_and_look"
  BY <1>1, <1>2, <1>4 DEF ServerboundPackets
<1>5. CASE w.kind = "chat"
  <2>1. f = <<"String">>
    BY <1>1, <1>5 DEF ServerboundPackets
  <2>2. i = 1
    BY <2>1
  <2>3. QED
    BY <1>2, <1>5, <2>2
<1>6. QED
  BY <1>3, <1>4, <1>5 DEF ServerboundPackets

\* A packet that cannot be written.
LEMMA RaisesEnds ==
  ASSUME WriteInv, EndInv, WriteRaises
  PROVE  EndInv'
<1>1. /\ queue # <<>> /\ (closed \/ ~Encodes(Head(queue))) /\ unsent' = <<Head(queue)>>
      /\ pc' = "failed" /\ UNCHANGED <<server, at>>
  BY DEF WriteRaises
<1>2. Reached' /\ LastCut'
  BY <1>1 DEF EndInv, Reached, LastCut
<1>3. ASSUME ~closed PROVE ChatRaised'
  <2>1. PICK w : w = Head(queue) /\ w \in Queuable
    <3>1. queue \in Seq(Queuable)
      BY DEF WriteInv, Typed
    <3>2. QED
      BY <1>1, <3>1, HeadTailProperties
  <2>2. w.kind \in DOMAIN ServerboundPackets /\ ~Encodes(w)
    BY <1>1, <1>3, <2>1 DEF Queuable
  <2>3. w.kind = "chat" /\ ~Ascii(w.values[1])
    BY <2>2, ChatAlone
  <2>4. w \in Range(unsent')
    <3>1. unsent' = <<w>>
      BY <1>1, <2>1
    <3>2. 1 \in DOMAIN unsent' /\ unsent'[1] = w
      BY <3>1
    <3>3. QED
      BY <3>2 DEF Range
  <2>5. QED
    BY <2>3, <2>4 DEF ChatRaised
<1>4. QED
  BY <1>1, <1>2, <1>3, EndMoves

\* EndInv holds at first.
LEMMA InitEnds == Init => EndInv
BY DEF Init, EndInv, Reached, LastCut

\* EndInv holds after every step.
LEMMA StepEnds ==
  /\ ListenInv /\ ReadInv /\ WriteInv /\ ServerInv /\ ReaderInv /\ CarriedInv /\ EndInv
  /\ [Next]_vars
  => EndInv'
<1> SUFFICES ASSUME ListenInv, ReadInv, WriteInv, ServerInv, ReaderInv, CarriedInv, EndInv,
                    [Next]_vars
             PROVE  EndInv'
  OBVIOUS
<1>1. CASE Server
  BY <1>1, ServerEnds
<1>2. CASE Thread
  BY <1>2, LengthEnds, BodyEnds, ParseEnds, ReactEnds, ListenEnds, QuietEnds,
     RaisesEnds, Zenon DEF Thread
<1>3. CASE Chat \/ Registering
  BY <1>3, AppEnds
<1>4. CASE UNCHANGED vars
  BY <1>4, QuietEnds
<1>5. QED
  BY <1>1, <1>2, <1>3, <1>4, Zenon DEF Next

\* connection.py:96-108, 130-171, 285-347, types.py:303-307: the thread ends for no other
\* reason than the end of the stream, a packet that is fatal, a server that has closed, or a
\* chat that is not ASCII; in particular a packet cut off in an attribute nobody reads, one
\* the table lacks, or one with more behind its fields does not end it.
THEOREM ThreadEndsOnlyBy == Spec => []EndsOnlyBy
<1> DEFINE Inv == /\ ListenInv /\ ReadInv /\ WriteInv /\ ServerInv /\ ReaderInv
                  /\ CarriedInv /\ EndInv
<1>1. Init => Inv
  BY InitListen, InitRead, InitWrite, InitServed, InitReader, InitCarried, InitEnds
<1>2. Inv /\ [Next]_vars => Inv'
  BY StepListen, StepRead, StepWrite, StepServed, StepReader, StepCarried, StepEnds
<1>3. Inv => EndsOnlyBy
  <2>1. ReadInv => IsSeq(pushed)
    BY DEF ReadInv, SentSoFar
  <2>2. QED
    BY <2>1, InvEnds
<1>4. QED
  BY <1>1, <1>2, <1>3, PTL DEF Spec

=============================================================================
