----------------------------- MODULE ChatProofs -----------------------------
(***************************************************************************)
(* Theorems about ChatCodec, for texts of any length and pieces of any     *)
(* size: what is typed, and which texts arrive as they were sent.  First   *)
(* what each of the replacements, the escapes, the words and the cuts does *)
(* to every text, by induction over it; then the commands on their way.    *)
(***************************************************************************)
EXTENDS ChatCodec, SequenceLemmas

(* The patterns of the escapes *)

Patterns == {<<Slash, Blank>>, <<Slash, Blank, "n">>, <<Slash, Blank, "r">>}

\* A pattern has its backslash at its beginning and its blank behind it.
LEMMA PatternIs ==
  ASSUME NEW p \in Patterns
  PROVE  /\ p \in Seq(Chars) /\ Len(p) \in {2, 3} /\ p[1] = Slash /\ p[2] = Blank
         /\ \A k \in 2 .. Len(p) : p[k] # Slash
<1>0. /\ {Slash, Blank, "n", "r"} \subseteq Chars
      /\ Slash # Blank /\ Slash # "n" /\ Slash # "r"
  BY DEF Slash, Blank, Chars
<1>1. CASE p = <<Slash, Blank>>
  BY <1>0, <1>1
<1>2. CASE p = <<Slash, Blank, "n">>
  BY <1>0, <1>2
<1>3. CASE p = <<Slash, Blank, "r">>
  BY <1>0, <1>3
<1>4. QED
  BY <1>1, <1>2, <1>3 DEF Patterns

\* The places at which the pattern p begins in v.
Places(v, p) ==
  {i \in 1 .. Len(v) - Len(p) + 1 : \A k \in 1 .. Len(p) : v[i + k - 1] = p[k]}

Ends(v, p) == Len(v) - Len(p) + 1 \in Places(v, p)

\* What Substituted makes of each character.
Cells(v, p, c) ==
  [i \in 1 .. Len(v) |->
     IF i \in Places(v, p) THEN <<c>>
     ELSE IF \E k \in 1 .. Len(p) - 1 : i - k \in Places(v, p) THEN <<>> ELSE <<v[i]>>]

LEMMA PlacesIs ==
  ASSUME NEW v \in Seq(Chars), NEW p \in Patterns, NEW i \in Int
  PROVE  (/\ i \in 1 .. Len(v) - Len(p) + 1
          /\ SubSeq(v, i, i + Len(p) - 1) = p) <=> i \in Places(v, p)
<1>1. /\ p \in Seq(Chars) /\ Len(p) \in {2, 3} /\ Len(v) \in Nat
  BY PatternIs
<1>2. ASSUME i \in 1 .. Len(v) - Len(p) + 1
      PROVE  (SubSeq(v, i, i + Len(p) - 1) = p) = \A k \in 1 .. Len(p) : v[i + k - 1] = p[k]
  <2> DEFINE s == SubSeq(v, i, i + Len(p) - 1)
  <2>1. i \in 1 .. Len(v) + 1 /\ i + Len(p) - 1 \in i - 1 .. Len(v)
        /\ i + Len(p) - 1 - i + 1 = Len(p)
    BY <1>1, <1>2
  <2>2. s \in Seq(Chars) /\ Len(s) = i + Len(p) - 1 - i + 1
        /\ \A k \in 1 .. i + Len(p) - 1 - i + 1 : s[k] = v[i + k - 1]
    BY <2>1, SubSeqProperties
  <2> HIDE DEF s
  <2>3. Len(s) = Len(p) /\ \A k \in 1 .. Len(p) : s[k] = v[i + k - 1]
    BY <2>1, <2>2
  <2>4. s = p => \A k \in 1 .. Len(p) : v[i + k - 1] = p[k]
    BY <2>3
  <2>5. (\A k \in 1 .. Len(p) : v[i + k - 1] = p[k]) => s = p
    BY <1>1, <2>2, <2>3, SeqEqual
  <2>6. QED
    BY <2>4, <2>5 DEF s
<1>3. QED
  BY <1>2 DEF Places

LEMMA SubstitutedCells ==
  ASSUME NEW v \in Seq(Chars), NEW p \in Patterns, NEW c \in Chars
  PROVE  /\ Substituted(v, p, c) = FlattenSeq(Cells(v, p, c))
         /\ Cells(v, p, c) \in Seq(Seq(Chars)) /\ Len(Cells(v, p, c)) = Len(v)
<1>1. Len(p) \in Nat /\ Len(v) \in Nat
  BY PatternIs
<1> DEFINE starts(i) == /\ i \in 1 .. Len(v) - Len(p) + 1
                        /\ SubSeq(v, i, i + Len(p) - 1) = p
           cells == [i \in 1 .. Len(v) |->
                       IF starts(i) THEN <<c>>
                       ELSE IF \E k \in 1 .. Len(p) - 1 : starts(i - k) THEN <<>> ELSE <<v[i]>>]
<1>2. Substituted(v, p, c) = FlattenSeq(cells)
  BY DEF Substituted
<1>3. \A i \in Int : starts(i) <=> i \in Places(v, p)
  BY PlacesIs
<1> HIDE DEF starts
<1>4. ASSUME NEW i \in 1 .. Len(v)
      PROVE  cells[i] = Cells(v, p, c)[i]
  <2>1. starts(i) <=> i \in Places(v, p)
    BY <1>3
  <2>2. \A k \in 1 .. Len(p) - 1 : (starts(i - k) <=> i - k \in Places(v, p))
    BY <1>1, <1>3
  <2>3. QED
    BY <2>1, <2>2, Zenon DEF Cells
<1>5. cells = Cells(v, p, c)
  BY <1>4 DEF Cells
<1>6. Cells(v, p, c) \in [1 .. Len(v) -> Seq(Chars)]
  <2>1. <<c>> \in Seq(Chars) /\ <<>> \in Seq(Chars) /\ \A i \in 1 .. Len(v) : <<v[i]>> \in Seq(Chars)
    OBVIOUS
  <2>2. QED
    BY <2>1, Zenon DEF Cells
<1>7. Cells(v, p, c) \in Seq(Seq(Chars)) /\ Len(Cells(v, p, c)) = Len(v)
  <2> HIDE DEF cells
  <2>1. QED
    BY <1>1, <1>6
<1>8. QED
  BY <1>2, <1>5, <1>7, Zenon

LEMMA CellKept ==
  ASSUME NEW v, NEW p, NEW c, NEW i \in 1 .. Len(v), i \notin Places(v, p),
         \A k \in 1 .. Len(p) - 1 : i - k \notin Places(v, p)
  PROVE  Cells(v, p, c)[i] = <<v[i]>>
<1>1. ~\E k \in 1 .. Len(p) - 1 : i - k \in Places(v, p)
  OBVIOUS
<1>2. QED
  BY <1>1, Zenon DEF Cells

LEMMA CellDropped ==
  ASSUME NEW v, NEW p, NEW c, NEW i \in 1 .. Len(v), i \notin Places(v, p),
         NEW k \in 1 .. Len(p) - 1, i - k \in Places(v, p)
  PROVE  Cells(v, p, c)[i] = <<>>
<1>1. \E e \in 1 .. Len(p) - 1 : i - e \in Places(v, p)
  OBVIOUS
<1>2. QED
  BY <1>1, Zenon DEF Cells

\* What Substituted makes of one character more ...
LEMMA SubAppend ==
  ASSUME NEW v \in Seq(Chars), NEW a \in Chars, NEW p \in Patterns, NEW c \in Chars,
         ~Ends(Append(v, a), p)
  PROVE  Substituted(Append(v, a), p, c) = Append(Substituted(v, p, c), a)
<1> DEFINE w == Append(v, a)
           l == Len(v)
           m == Len(p)
<1>1. /\ w \in Seq(Chars) /\ Len(w) = l + 1 /\ l \in Nat /\ w[l + 1] = a
      /\ \A i \in 1 .. l : w[i] = v[i]
  BY AppendProperties
<1>2. m \in Int /\ 2 <= m /\ m <= 3
  BY PatternIs
<1>3. l + 1 - m + 1 \notin Places(w, p)
  BY <1>1 DEF Ends, m
<1> HIDE DEF w, l, m
<1>4. ASSUME NEW i \in Int PROVE (i \in Places(w, p) <=> i \in Places(v, p))
  <2>1. i \in 1 .. Len(w) - m + 1 /\ i # l + 1 - m + 1 <=> i \in 1 .. l - m + 1
    BY <1>1, <1>2
  <2>2. ASSUME i \in 1 .. l - m + 1, NEW k \in 1 .. m PROVE w[i + k - 1] = v[i + k - 1]
    <3>1. i + k - 1 \in 1 .. l
      BY <1>1, <1>2, <2>2
    <3>2. QED
      BY <1>1, <3>1
  <2>3. CASE i = l + 1 - m + 1
    <3>1. i \notin 1 .. l - m + 1
      BY <1>1, <1>2, <2>3
    <3>2. QED
      BY <1>3, <2>3, <3>1 DEF Places, l, m
  <2>4. CASE i # l + 1 - m + 1
    BY <2>1, <2>2, <2>4 DEF Places, l, m
  <2>5. QED
    BY <2>3, <2>4
<1> DEFINE x == Cells(w, p, c)
           y == Cells(v, p, c)
<1>5. /\ x \in Seq(Seq(Chars)) /\ Len(x) = l + 1 /\ y \in Seq(Seq(Chars)) /\ Len(y) = l
  BY <1>1, SubstitutedCells DEF l
<1>6. ASSUME NEW i \in 1 .. l PROVE x[i] = y[i]
  <2>1. i \in 1 .. Len(w) /\ i \in 1 .. Len(v) /\ w[i] = v[i]
    BY <1>1 DEF l
  <2>2. /\ (i \in Places(w, p) <=> i \in Places(v, p))
        /\ \A k \in 1 .. m - 1 : (i - k \in Places(w, p) <=> i - k \in Places(v, p))
    BY <1>2, <1>4
  <2>3. QED
    BY <2>1, <2>2, Zenon DEF Cells, m
<1>7. x[l + 1] = <<a>>
  <2>1. l + 1 \notin Places(v, p)
    <3>1. l + 1 \notin 1 .. l - m + 1
      BY <1>1, <1>2
    <3>2. QED
      BY <3>1 DEF Places, l, m
  <2>2. ASSUME NEW k \in 1 .. m - 1 PROVE l + 1 - k \notin Places(v, p)
    <3>1. l + 1 - k \notin 1 .. l - m + 1
      BY <1>1, <1>2
    <3>2. QED
      BY <3>1 DEF Places, l, m
  <2>3. l + 1 \notin Places(w, p) /\ \A k \in 1 .. m - 1 : l + 1 - k \notin Places(w, p)
    <3>1. l + 1 \in Int /\ \A k \in 1 .. m - 1 : l + 1 - k \in Int
      BY <1>1, <1>2
    <3>2. QED
      BY <1>4, <2>1, <2>2, <3>1
  <2>4. l + 1 \in 1 .. Len(w)
    BY <1>1
  <2>5. x[l + 1] = <<w[l + 1]>>
    <3>1. \A k \in 1 .. Len(p) - 1 : l + 1 - k \notin Places(w, p)
      BY <2>3 DEF m
    <3>2. Cells(w, p, c)[l + 1] = <<w[l + 1]>>
      BY <1>1, <1>2, <2>3, <2>4, <3>1, CellKept
    <3>3. QED
      BY <3>2
  <2>6. QED
    BY <1>1, <2>5
<1> HIDE DEF x, y
<1>8. x = Append(y, <<a>>)
  <2> DEFINE z == Append(y, <<a>>)
  <2>1. /\ z \in Seq(Seq(Chars)) /\ Len(z) = l + 1 /\ z[l + 1] = <<a>>
        /\ \A i \in 1 .. l : z[i] = y[i]
    <3>1. <<a>> \in Seq(Chars)
      OBVIOUS
    <3>2. QED
      BY <1>5, <3>1, AppendProperties
  <2> HIDE DEF z
  <2>2. \A i \in 1 .. l + 1 : i \in 1 .. l \/ i = l + 1
    BY <1>1
  <2>3. \A i \in 1 .. l + 1 : x[i] = z[i]
    BY <1>6, <1>7, <2>1, <2>2
  <2>4. x = z
    BY <1>1, <1>5, <2>1, <2>3, SeqEqual
  <2>5. QED
    BY <2>4 DEF z
<1>9. FlattenSeq(x) = FlattenSeq(y) \o <<a>>
  <2>1. <<a>> \in Seq(Chars)
    OBVIOUS
  <2>2. QED
    BY <1>5, <1>8, <2>1, FlattenAppend
<1>10. FlattenSeq(y) \in Seq(Chars)
  BY <1>5, FlattenType
<1>11. FlattenSeq(y) \o <<a>> = Append(FlattenSeq(y), a)
  BY <1>10, AppendIsConcat
<1>12. Substituted(w, p, c) = FlattenSeq(x) /\ Substituted(v, p, c) = FlattenSeq(y)
  BY <1>1, SubstitutedCells DEF x, y
<1>13. QED
  BY <1>9, <1>11, <1>12 DEF w

\* ... and of a pattern more, whatever is before it.
LEMMA SubPattern ==
  ASSUME NEW u \in Seq(Chars), NEW p \in Patterns, NEW c \in Chars
  PROVE  Substituted(u \o p, p, c) = Append(Substituted(u, p, c), c)
<1> DEFINE w == u \o p
           l == Len(u)
           m == Len(p)
<1>1. m \in Int /\ 2 <= m /\ m <= 3 /\ p \in Seq(Chars) /\ p[1] = Slash /\ \A k \in 2 .. m : p[k] # Slash
  BY PatternIs
<1>2. /\ w \in Seq(Chars) /\ Len(w) = l + m /\ l \in Nat
      /\ \A i \in 1 .. l + m : w[i] = IF i <= l THEN u[i] ELSE p[i - l]
  BY <1>1, ConcatProperties
<1> HIDE DEF w, l, m
<1>3. \A i \in 1 .. l : i \in 1 .. l + m /\ i <= l
  BY <1>1, <1>2
<1>4. \A i \in 1 .. l : w[i] = u[i]
  BY <1>2, <1>3
<1>5. ASSUME NEW k \in 1 .. m PROVE w[l + k] = p[k]
  <2>1. l + k \in 1 .. l + m /\ ~(l + k <= l) /\ l + k - l = k
    BY <1>1, <1>2
  <2>2. QED
    BY <1>2, <2>1
<1>6. ASSUME NEW i \in Int PROVE i \in Places(w, p) <=> i \in Places(u, p) \/ i = l + 1
  <2>1. CASE i = l + 1
    <3>1. i \in 1 .. Len(w) - m + 1 /\ \A k \in 1 .. m : i + k - 1 = l + k
      BY <1>1, <1>2, <2>1
    <3>2. QED
      BY <1>5, <2>1, <3>1 DEF Places, m
  <2>2. CASE i \in 1 .. l - m + 1
    <3>1. i \in 1 .. Len(w) - m + 1 /\ i # l + 1 /\ \A k \in 1 .. m : i + k - 1 \in 1 .. l
      BY <1>1, <1>2, <2>2
    <3>2. \A k \in 1 .. m : w[i + k - 1] = u[i + k - 1]
      BY <1>4, <3>1
    <3>3. QED
      BY <2>2, <3>1, <3>2 DEF Places, l, m
  <2>3. CASE i \in l - m + 2 .. l
    <3>1. i \notin 1 .. l - m + 1 /\ i # l + 1
      BY <1>1, <1>2, <2>3
    <3> DEFINE k == l + 2 - i
    <3>2. k \in 2 .. m /\ k \in 1 .. m /\ i + k - 1 = l + 1 /\ 1 \in 1 .. m
      BY <1>1, <1>2, <2>3
    <3> HIDE DEF k
    <3>3. w[i + k - 1] = Slash /\ p[k] # Slash
      BY <1>1, <1>5, <3>2
    <3>4. QED
      BY <3>1, <3>2, <3>3 DEF Places, l, m
  <2>4. CASE i < 1 \/ i > l + 1
    <3>1. i \notin 1 .. Len(w) - m + 1 /\ i \notin 1 .. l - m + 1 /\ i # l + 1
      BY <1>1, <1>2, <2>4
    <3>2. QED
      BY <3>1 DEF Places, l, m
  <2>5. i = l + 1 \/ i \in 1 .. l - m + 1 \/ i \in l - m + 2 .. l \/ i < 1 \/ i > l + 1
    BY <1>1, <1>2
  <2>6. QED
    BY <2>1, <2>2, <2>3, <2>4, <2>5
<1> DEFINE x == Cells(w, p, c)
           y == Cells(u, p, c)
<1>7. /\ x \in Seq(Seq(Chars)) /\ Len(x) = l + m /\ y \in Seq(Seq(Chars)) /\ Len(y) = l
  BY <1>2, SubstitutedCells DEF l
<1>8. ASSUME NEW i \in 1 .. l PROVE x[i] = y[i]
  <2>1. i \in 1 .. Len(w) /\ i \in 1 .. Len(u) /\ w[i] = u[i]
    BY <1>1, <1>2, <1>4 DEF l
  <2>2. \A k \in 0 .. m - 1 : i - k \in Int /\ i - k # l + 1
    BY <1>1, <1>2
  <2>3. /\ (i \in Places(w, p) <=> i \in Places(u, p))
        /\ \A k \in 1 .. m - 1 : (i - k \in Places(w, p) <=> i - k \in Places(u, p))
    <3>1. i \in Int /\ i # l + 1
      BY <1>2
    <3>2. \A k \in 1 .. m - 1 : i - k \in Int /\ i - k # l + 1
      BY <1>1, <2>2
    <3>3. \A k \in 1 .. m - 1 : (i - k \in Places(w, p) <=> i - k \in Places(u, p))
      <4> TAKE k \in 1 .. m - 1
      <4> DEFINE n == i - k
      <4>1. n \in Int /\ n # l + 1
        BY <3>2
      <4> HIDE DEF n
      <4>2. n \in Places(w, p) <=> n \in Places(u, p)
        BY <1>6, <4>1
      <4>3. QED
        BY <4>2 DEF n
    <3>4. QED
      BY <1>6, <3>1, <3>3
  <2>4. QED
    BY <2>1, <2>3, Zenon DEF Cells, m
<1>9. x[l + 1] = <<c>>
  <2>1. l + 1 \in 1 .. Len(w) /\ l + 1 \in Int
    BY <1>1, <1>2
  <2>2. l + 1 \in Places(w, p)
    BY <1>6, <2>1
  <2>3. QED
    BY <2>1, <2>2, Zenon DEF Cells, m
<1>10. ASSUME NEW j \in 2 .. m PROVE x[l + j] = <<>>
  <2>1. /\ l + j \in 1 .. Len(w) /\ l + j \in Int /\ l + j # l + 1 /\ l + j \notin 1 .. l - m + 1
        /\ j - 1 \in 1 .. m - 1 /\ l + j - (j - 1) = l + 1 /\ l + 1 \in Int
    BY <1>1, <1>2
  <2>2. l + j \notin Places(w, p) /\ l + 1 \in Places(w, p)
    <3>1. l + j \notin Places(u, p)
      BY <2>1 DEF Places, l, m
    <3>2. QED
      BY <1>6, <2>1, <3>1
  <2>3. j - 1 \in 1 .. m - 1 /\ l + j - (j - 1) \in Places(w, p)
    BY <2>1, <2>2
  <2>4. j - 1 \in 1 .. Len(p) - 1
    BY <2>3 DEF m
  <2> DEFINE n == l + j
             k == j - 1
  <2>a. n \in 1 .. Len(w) /\ n \notin Places(w, p) /\ k \in 1 .. Len(p) - 1
        /\ n - k \in Places(w, p)
    <3>1. n \in 1 .. Len(w)
      BY <2>1
    <3>2. n \notin Places(w, p)
      BY <2>2
    <3>3. k \in 1 .. Len(p) - 1
      BY <2>4
    <3> HIDE DEF n, k
    <3>4. n - k = l + 1
      BY <1>1, <1>2 DEF n, k
    <3>5. QED
      BY <2>2, <3>1, <3>2, <3>3, <3>4
  <2> HIDE DEF n, k
  <2>b. Cells(w, p, c)[n] = <<>>
    BY <2>a, CellDropped
  <2>5. Cells(w, p, c)[l + j] = <<>>
    BY <2>b DEF n
  <2>6. QED
    BY <2>5
<1> HIDE DEF x, y
<1>11. <<c>> \in Seq(Chars) /\ <<>> \in Seq(Chars)
  OBVIOUS
<1>12. FlattenSeq(x) = FlattenSeq(y) \o <<c>>
  <2> DEFINE y1 == Append(y, <<c>>)
             y2 == Append(y1, <<>>)
             y3 == Append(y2, <<>>)
  <2>1. /\ y1 \in Seq(Seq(Chars)) /\ Len(y1) = l + 1 /\ y1[l + 1] = <<c>>
        /\ \A i \in 1 .. l : y1[i] = y[i]
    BY <1>7, <1>11, AppendProperties
  <2>2. FlattenSeq(y1) = FlattenSeq(y) \o <<c>>
    BY <1>7, <1>11, FlattenAppend
  <2> HIDE DEF y1
  <2>3. /\ y2 \in Seq(Seq(Chars)) /\ Len(y2) = l + 1 + 1 /\ y2[l + 1 + 1] = <<>>
        /\ \A i \in 1 .. l + 1 : y2[i] = y1[i]
    BY <1>11, <2>1, AppendProperties
  <2>4. FlattenSeq(y2) = FlattenSeq(y1)
    <3>1. FlattenSeq(y2) = FlattenSeq(y1) \o <<>>
      BY <1>11, <2>1, FlattenAppend
    <3>2. FlattenSeq(y1) \in Seq(Chars)
      BY <2>1, FlattenType
    <3>3. FlattenSeq(y1) \o <<>> = FlattenSeq(y1)
      BY <3>2
    <3>4. QED
      BY <3>1, <3>3, Zenon
  <2> HIDE DEF y2
  <2>5. /\ y3 \in Seq(Seq(Chars)) /\ Len(y3) = l + 1 + 1 + 1 /\ y3[l + 1 + 1 + 1] = <<>>
        /\ \A i \in 1 .. l + 1 + 1 : y3[i] = y2[i]
    BY <1>11, <2>3, AppendProperties
  <2>6. FlattenSeq(y3) = FlattenSeq(y2)
    <3>1. FlattenSeq(y3) = FlattenSeq(y2) \o <<>>
      BY <1>11, <2>3, FlattenAppend
    <3>2. FlattenSeq(y2) \in Seq(Chars)
      BY <2>3, FlattenType
    <3>3. FlattenSeq(y2) \o <<>> = FlattenSeq(y2)
      BY <3>2
    <3>4. QED
      BY <3>1, <3>3, Zenon
  <2> HIDE DEF y3
  <2>7. ASSUME NEW i \in 1 .. l + 2 PROVE i \in 1 .. l + m /\ x[i] = y2[i]
    <3>1. i \in 1 .. l + m
      BY <1>1, <1>2
    <3>2. CASE i \in 1 .. l
      <4>1. i \in 1 .. l + 1
        BY <1>2, <3>2
      <4>2. QED
        BY <1>8, <2>1, <2>3, <3>1, <3>2, <4>1
    <3>3. CASE i = l + 1
      <4>1. i \in 1 .. l + 1
        BY <1>2, <3>3
      <4>2. QED
        BY <1>9, <2>1, <2>3, <3>1, <3>3, <4>1
    <3>4. CASE i = l + 2
      <4>1. 2 \in 2 .. m /\ l + 2 = l + 1 + 1
        BY <1>1, <1>2
      <4>2. QED
        BY <1>10, <2>3, <3>1, <3>4, <4>1
    <3>5. QED
      BY <1>2, <3>2, <3>3, <3>4
  <2>a. m = 2 \/ m = 3
    BY <1>1
  <2>8. CASE m = 2
    <3>1. Len(x) = Len(y2) /\ Len(x) = l + 2
      BY <1>2, <1>7, <2>3, <2>8
    <3>2. \A i \in 1 .. Len(x) : x[i] = y2[i]
      BY <2>7, <3>1
    <3>3. x = y2
      BY <1>7, <2>3, <3>1, <3>2, SeqEqual
    <3>4. QED
      BY <2>2, <2>4, <3>3
  <2>9. CASE m = 3
    <3>1. Len(x) = Len(y3) /\ Len(x) = l + 3
      BY <1>2, <1>7, <2>5, <2>9
    <3>2. ASSUME NEW i \in 1 .. Len(x) PROVE x[i] = y3[i]
      <4>1. CASE i \in 1 .. l + 2
        <5>1. i \in 1 .. l + 1 + 1
          BY <1>2, <4>1
        <5>2. QED
          BY <2>5, <2>7, <4>1, <5>1
      <4>2. CASE i = l + 3
        <5>1. 3 \in 2 .. m /\ l + 3 = l + 1 + 1 + 1
          BY <1>2, <2>9
        <5>2. QED
          BY <1>10, <2>5, <4>2, <5>1
      <4>3. QED
        BY <1>2, <3>1, <4>1, <4>2
    <3>3. x = y3
      BY <1>7, <2>5, <3>1, <3>2, SeqEqual
    <3>4. QED
      BY <2>2, <2>4, <2>6, <3>3
  <2>10. QED
    BY <2>8, <2>9, <2>a
<1>13. FlattenSeq(y) \in Seq(Chars)
  BY <1>7, FlattenType
<1>14. FlattenSeq(y) \o <<c>> = Append(FlattenSeq(y), c)
  BY <1>13, AppendIsConcat
<1>15. Substituted(w, p, c) = FlattenSeq(x) /\ Substituted(u, p, c) = FlattenSeq(y)
  BY <1>2, SubstitutedCells DEF x, y
<1>16. QED
  BY <1>12, <1>14, <1>15 DEF w

LEMMA SubType ==
  ASSUME NEW v \in Seq(Chars), NEW p \in Patterns, NEW c \in Chars
  PROVE  Substituted(v, p, c) \in Seq(Chars)
BY SubstitutedCells, FlattenType

LEMMA SubEmpty ==
  ASSUME NEW p \in Patterns, NEW c \in Chars
  PROVE  Substituted(<<>>, p, c) = <<>>
<1> DEFINE x == Cells(<<>>, p, c)
<1>1. <<>> \in Seq(Chars) /\ Len(<<>>) = 0
  OBVIOUS
<1>2. Substituted(<<>>, p, c) = FlattenSeq(x) /\ x \in Seq(Seq(Chars)) /\ Len(x) = 0
  BY <1>1, SubstitutedCells
<1> HIDE DEF x
<1>3. x = <<>>
  BY <1>2
<1>4. QED
  BY <1>2, <1>3, FlattenEmpty

\* What ends with a pattern is the pattern behind something.
LEMMA EndsIs ==
  ASSUME NEW v \in Seq(Chars), NEW p \in Patterns, Ends(v, p)
  PROVE  \E u \in Seq(Chars) : v = u \o p /\ Len(u) < Len(v)
<1> DEFINE l == Len(v)
           m == Len(p)
           u == SubSeq(v, 1, l - m)
           w == u \o p
<1>1. l \in Nat /\ m \in Int /\ 2 <= m /\ m <= 3 /\ p \in Seq(Chars)
  BY PatternIs
<1>2. l - m + 1 \in 1 .. l - m + 1 /\ \A k \in 1 .. m : v[l - m + 1 + k - 1] = p[k]
  BY DEF Ends, Places
<1> HIDE DEF l, m
<1>3. m <= l
  BY <1>1, <1>2
<1>4. u \in Seq(Chars) /\ Len(u) = l - m /\ \A i \in 1 .. l - m : u[i] = v[i]
  <2>1. 1 \in 1 .. l + 1 /\ l - m \in 1 - 1 .. l
    BY <1>1, <1>3
  <2>2. /\ u \in Seq(Chars) /\ Len(u) = l - m - 1 + 1
        /\ \A i \in 1 .. l - m - 1 + 1 : u[i] = v[1 + i - 1]
    BY <2>1, SubSeqProperties DEF l
  <2> HIDE DEF u
  <2>3. l - m - 1 + 1 = l - m /\ \A i \in 1 .. l - m : 1 + i - 1 = i
    BY <1>1
  <2>4. QED
    BY <2>2, <2>3
<1> HIDE DEF u
<1>5. /\ w \in Seq(Chars) /\ Len(w) = l - m + m
      /\ \A i \in 1 .. l - m + m : w[i] = IF i <= l - m THEN u[i] ELSE p[i - (l - m)]
  BY <1>1, <1>4, ConcatProperties DEF m
<1> HIDE DEF w
<1>6. l - m + m = l
  BY <1>1
<1>7. ASSUME NEW i \in 1 .. l PROVE w[i] = v[i]
  <2>1. CASE i <= l - m
    <3>1. i \in 1 .. l - m
      BY <1>1, <2>1
    <3>2. QED
      BY <1>4, <1>5, <1>6, <2>1, <3>1
  <2>2. CASE ~(i <= l - m)
    <3> DEFINE k == i - (l - m)
    <3>1. k \in 1 .. m /\ l - m + 1 + k - 1 = i
      BY <1>1, <2>2
    <3>2. w[i] = p[k]
      BY <1>5, <1>6, <2>2
    <3> HIDE DEF k
    <3>3. QED
      BY <1>2, <3>1, <3>2
  <2>3. QED
    BY <2>1, <2>2
<1>8. w = v
  BY <1>5, <1>6, <1>7, SeqEqual DEF l
<1>9. l - m < l
  BY <1>1
<1>10. QED
  BY <1>4, <1>8, <1>9 DEF w, l

\* Induction over a text, pattern by pattern.
LEMMA InductPatterns ==
  ASSUME NEW p \in Patterns, NEW T \in SUBSET Seq(Chars), <<>> \in T,
         \A u \in T : u \o p \in T,
         \A u \in T : \A a \in Chars : ~Ends(Append(u, a), p) => Append(u, a) \in T
  PROVE  T = Seq(Chars)
<1> DEFINE N == {n \in Nat : \A v \in Seq(Chars) : Len(v) <= n => v \in T}
<1>1. 0 \in N
  <2>1. ASSUME NEW v \in Seq(Chars), Len(v) <= 0 PROVE v \in T
    <3>1. v = <<>>
      BY <2>1
    <3>2. QED
      BY <3>1
  <2>2. QED
    BY <2>1
<1>2. ASSUME NEW n \in N PROVE n + 1 \in N
  <2>1. ASSUME NEW v \in Seq(Chars), Len(v) <= n + 1 PROVE v \in T
    <3>1. CASE v = <<>>
      BY <3>1
    <3>2. CASE v # <<>> /\ Ends(v, p)
      <4>1. PICK u \in Seq(Chars) : v = u \o p /\ Len(u) < Len(v)
        BY <3>2, EndsIs
      <4>2. Len(u) \in Nat /\ Len(v) \in Nat
        OBVIOUS
      <4>3. Len(u) <= n
        BY <2>1, <4>1, <4>2
      <4>4. u \in T
        BY <4>3
      <4>5. QED
        BY <4>1, <4>4
    <3>3. CASE v # <<>> /\ ~Ends(v, p)
      <4>1. PICK u \in Seq(Chars), a \in Chars : v = Append(u, a)
        BY <3>3, SequenceEmptyOrAppend
      <4>2. Len(v) = Len(u) + 1 /\ Len(u) \in Nat
        BY <4>1
      <4>3. Len(u) <= n
        BY <2>1, <4>2
      <4>4. u \in T
        BY <4>3
      <4>5. QED
        BY <3>3, <4>1, <4>4
    <3>4. QED
      BY <3>1, <3>2, <3>3
  <2>2. QED
    BY <2>1
<1>3. N \in SUBSET Nat
  OBVIOUS
<1> HIDE DEF N
<1>4. N = Nat
  BY <1>1, <1>2, <1>3, Induct
<1>5. ASSUME NEW v \in Seq(Chars) PROVE v \in T
  <2>1. Len(v) \in N /\ Len(v) <= Len(v)
    BY <1>4
  <2>2. QED
    BY <2>1 DEF N
<1>6. QED
  BY <1>5
-----------------------------------------------------------------------------
(* Character by character *)

\* What becomes of s when each character c becomes h[c].
Each(h, s) == FlattenSeq([i \in 1 .. Len(s) |-> h[s[i]]])

LEMMA EachIs ==
  ASSUME NEW h \in [Chars -> Seq(Chars)]
  PROVE  /\ Each(h, <<>>) = <<>>
         /\ \A s \in Seq(Chars) : Each(h, s) \in Seq(Chars)
         /\ \A s \in Seq(Chars), c \in Chars : Each(h, Append(s, c)) = Each(h, s) \o h[c]
<1> DEFINE M(s) == [i \in 1 .. Len(s) |-> h[s[i]]]
<1>1. ASSUME NEW s \in Seq(Chars)
      PROVE  M(s) \in Seq(Seq(Chars)) /\ Len(M(s)) = Len(s) /\ Each(h, s) = FlattenSeq(M(s))
  <2>1. Len(s) \in Nat /\ \A i \in 1 .. Len(s) : h[s[i]] \in Seq(Chars)
    OBVIOUS
  <2>2. M(s) \in [1 .. Len(s) -> Seq(Chars)]
    BY <2>1
  <2>3. M(s) \in Seq(Seq(Chars)) /\ Len(M(s)) = Len(s)
    BY <2>1, <2>2
  <2>4. QED
    BY <2>3 DEF Each
<1>2. Each(h, <<>>) = <<>>
  <2>1. <<>> \in Seq(Chars) /\ Len(<<>>) = 0
    OBVIOUS
  <2> DEFINE x == M(<<>>)
  <2>2. x \in Seq(Seq(Chars)) /\ Len(x) = 0 /\ Each(h, <<>>) = FlattenSeq(x)
    BY <1>1, <2>1
  <2> HIDE DEF x
  <2>3. x = <<>>
    BY <2>2
  <2>4. QED
    BY <2>2, <2>3, FlattenEmpty
<1>3. ASSUME NEW s \in Seq(Chars), NEW c \in Chars
      PROVE  Each(h, Append(s, c)) = Each(h, s) \o h[c]
  <2> DEFINE t == Append(s, c)
             x == M(t)
             y == M(s)
             z == Append(y, h[c])
  <2>1. /\ t \in Seq(Chars) /\ Len(t) = Len(s) + 1 /\ t[Len(s) + 1] = c /\ Len(s) \in Nat
        /\ \A i \in 1 .. Len(s) : t[i] = s[i]
    BY AppendProperties
  <2> HIDE DEF t
  <2>2. /\ x \in Seq(Seq(Chars)) /\ Len(x) = Len(t) /\ Each(h, t) = FlattenSeq(x)
        /\ y \in Seq(Seq(Chars)) /\ Len(y) = Len(s) /\ Each(h, s) = FlattenSeq(y)
    BY <1>1, <2>1
  <2>3. h[c] \in Seq(Chars)
    OBVIOUS
  <2>4. \A i \in 1 .. Len(s) : x[i] = y[i]
    BY <2>1
  <2>5. x[Len(s) + 1] = h[c]
    BY <2>1
  <2> HIDE DEF x, y
  <2>6. /\ z \in Seq(Seq(Chars)) /\ Len(z) = Len(s) + 1 /\ z[Len(s) + 1] = h[c]
        /\ \A i \in 1 .. Len(s) : z[i] = y[i]
    BY <2>2, <2>3, AppendProperties
  <2> HIDE DEF z
  <2>7. \A i \in 1 .. Len(s) + 1 : i \in 1 .. Len(s) \/ i = Len(s) + 1
    BY <2>1
  <2>8. \A i \in 1 .. Len(s) + 1 : x[i] = z[i]
    BY <2>4, <2>5, <2>6, <2>7
  <2>9. x = z
    BY <2>1, <2>2, <2>6, <2>8, SeqEqual
  <2>10. FlattenSeq(z) = FlattenSeq(y) \o h[c]
    BY <2>2, <2>3, FlattenAppend DEF z
  <2>11. QED
    BY <2>2, <2>9, <2>10 DEF t
<1>4. QED
  BY <1>1, <1>2, <1>3, FlattenType

\* How many of the characters of s are a blank, or escaped with one.
Wide == {Blank, Newline, Return}
Wides == [c \in Chars |-> IF c \in Wide THEN <<c>> ELSE <<>>]
Weight(s) == Len(Each(Wides, s))

LEMMA WidesIs ==
  /\ Wides \in [Chars -> Seq(Chars)]
  /\ \A c \in Chars : Len(Wides[c]) = IF c \in Wide THEN 1 ELSE 0
<1>1. \A c \in Chars : <<c>> \in Seq(Chars) /\ <<>> \in Seq(Chars)
  OBVIOUS
<1>2. \A c \in Chars : Wides[c] = IF c \in Wide THEN <<c>> ELSE <<>>
  BY DEF Wides
<1>3. ASSUME NEW c \in Chars PROVE Len(Wides[c]) = IF c \in Wide THEN 1 ELSE 0
  <2>1. Len(<<c>>) = 1 /\ Len(<<>>) = 0
    OBVIOUS
  <2>2. CASE c \in Wide
    BY <1>2, <2>1, <2>2
  <2>3. CASE c \notin Wide
    BY <1>2, <2>1, <2>3
  <2>4. QED
    BY <2>2, <2>3
<1>4. Wides \in [Chars -> Seq(Chars)]
  BY <1>1, Zenon DEF Wides
<1>5. QED
  BY <1>3, <1>4

LEMMA WeightIs ==
  /\ Weight(<<>>) = 0
  /\ \A s \in Seq(Chars) : Weight(s) \in Nat
  /\ \A s \in Seq(Chars), c \in Chars :
       Weight(Append(s, c)) = Weight(s) + (IF c \in Wide THEN 1 ELSE 0)
<1>1. Weight(<<>>) = 0
  <2>1. Each(Wides, <<>>) = <<>>
    BY WidesIs, EachIs
  <2>2. QED
    BY <2>1 DEF Weight
<1>2. ASSUME NEW s \in Seq(Chars) PROVE Each(Wides, s) \in Seq(Chars) /\ Weight(s) \in Nat
  <2>1. Each(Wides, s) \in Seq(Chars)
    BY WidesIs, EachIs
  <2>2. QED
    BY <2>1 DEF Weight
<1>3. ASSUME NEW s \in Seq(Chars), NEW c \in Chars
      PROVE  Weight(Append(s, c)) = Weight(s) + (IF c \in Wide THEN 1 ELSE 0)
  <2> DEFINE x == Each(Wides, s)
             y == Wides[c]
  <2>1. Each(Wides, Append(s, c)) = x \o y
    BY WidesIs, EachIs
  <2>2. x \in Seq(Chars) /\ y \in Seq(Chars) /\ Len(y) = IF c \in Wide THEN 1 ELSE 0
    BY <1>2, WidesIs
  <2> HIDE DEF x, y
  <2>3. Len(x \o y) = Len(x) + Len(y)
    BY <2>2, ConcatProperties
  <2>4. QED
    BY <2>1, <2>2, <2>3 DEF Weight, x
<1>4. QED
  BY <1>1, <1>2, <1>3

LEMMA WeightConcat ==
  ASSUME NEW s \in Seq(Chars), NEW t \in Seq(Chars)
  PROVE  Weight(s \o t) = Weight(s) + Weight(t)
<1> DEFINE T == {u \in Seq(Chars) : Weight(s \o u) = Weight(s) + Weight(u)}
<1>1. <<>> \in T
  <2>1. s \o <<>> = s /\ <<>> \in Seq(Chars)
    OBVIOUS
  <2>2. Weight(s) \in Nat /\ Weight(<<>>) = 0
    BY WeightIs
  <2>3. QED
    BY <2>1, <2>2
<1>2. ASSUME NEW u \in T, NEW c \in Chars PROVE Append(u, c) \in T
  <2>1. s \o Append(u, c) = Append(s \o u, c) /\ s \o u \in Seq(Chars) /\ Append(u, c) \in Seq(Chars)
    OBVIOUS
  <2>2. PICK n \in Nat : n = IF c \in Wide THEN 1 ELSE 0
    OBVIOUS
  <2>3. Weight(Append(s \o u, c)) = Weight(s \o u) + n /\ Weight(Append(u, c)) = Weight(u) + n
    BY <2>1, <2>2, WeightIs
  <2>4. Weight(s) \in Nat /\ Weight(u) \in Nat /\ Weight(s \o u) = Weight(s) + Weight(u)
    BY WeightIs
  <2>5. Weight(s \o Append(u, c)) = Weight(s) + Weight(Append(u, c))
    BY <2>1, <2>3, <2>4
  <2>6. QED
    BY <2>1, <2>5
<1>3. T \in SUBSET Seq(Chars)
  OBVIOUS
<1> HIDE DEF T
<1>4. T = Seq(Chars)
  BY <1>1, <1>2, <1>3, InductSeq
<1>5. QED
  BY <1>4 DEF T

LEMMA Spelled ==
  ASSUME NEW x \in Chars, NEW y \in Chars, NEW z \in Chars
  PROVE  /\ Append(<<>>, x) = <<x>> /\ Append(<<x>>, y) = <<x, y>>
         /\ Append(<<x, y>>, z) = <<x, y, z>>
         /\ <<x>> \in Seq(Chars) /\ <<x, y>> \in Seq(Chars) /\ <<x, y, z>> \in Seq(Chars)
<1>1. Append(<<>>, x) = <<x>>
  OBVIOUS
<1>2. ASSUME NEW s \in Seq(Chars), NEW t \in Seq(Chars), NEW c \in Chars,
             Len(t) = Len(s) + 1, t[Len(s) + 1] = c, \A i \in 1 .. Len(s) : t[i] = s[i]
      PROVE  Append(s, c) = t
  <2> DEFINE a == Append(s, c)
  <2>1. /\ a \in Seq(Chars) /\ Len(a) = Len(s) + 1 /\ a[Len(s) + 1] = c
        /\ \A i \in 1 .. Len(s) : a[i] = s[i]
    BY AppendProperties
  <2> HIDE DEF a
  <2>2. Len(s) \in Nat
    OBVIOUS
  <2>3. \A i \in 1 .. Len(s) + 1 : i \in 1 .. Len(s) \/ i = Len(s) + 1
    BY <2>2
  <2>4. \A i \in 1 .. Len(t) : a[i] = t[i]
    BY <1>2, <2>1, <2>3
  <2>5. a = t
    BY <1>2, <2>1, <2>4, SeqEqual
  <2>6. QED
    BY <2>5 DEF a
<1>3. Append(<<x>>, y) = <<x, y>>
  <2>1. PICK s : s = <<x>>
    OBVIOUS
  <2>2. PICK t : t = <<x, y>>
    OBVIOUS
  <2>3. /\ s \in Seq(Chars) /\ Len(s) = 1 /\ s[1] = x
        /\ t \in Seq(Chars) /\ Len(t) = 2 /\ t[1] = x /\ t[2] = y
    BY <2>1, <2>2
  <2>4. \A i \in 1 .. 1 : i = 1
    OBVIOUS
  <2>5. Len(t) = Len(s) + 1 /\ t[Len(s) + 1] = y /\ \A i \in 1 .. Len(s) : t[i] = s[i]
    BY <2>3, <2>4
  <2>6. Append(s, y) = t
    BY <1>2, <2>3, <2>5
  <2>7. QED
    BY <2>1, <2>2, <2>6, Zenon
<1>4. Append(<<x, y>>, z) = <<x, y, z>>
  <2>1. PICK s : s = <<x, y>>
    OBVIOUS
  <2>2. PICK t : t = <<x, y, z>>
    OBVIOUS
  <2>3. /\ s \in Seq(Chars) /\ Len(s) = 2 /\ s[1] = x /\ s[2] = y
        /\ t \in Seq(Chars) /\ Len(t) = 3 /\ t[1] = x /\ t[2] = y /\ t[3] = z
    BY <2>1, <2>2
  <2>4. \A i \in 1 .. 2 : i = 1 \/ i = 2
    OBVIOUS
  <2>5. Len(t) = Len(s) + 1 /\ t[Len(s) + 1] = z /\ \A i \in 1 .. Len(s) : t[i] = s[i]
    BY <2>3, <2>4
  <2>6. Append(s, z) = t
    BY <1>2, <2>3, <2>5
  <2>7. QED
    BY <2>1, <2>2, <2>6, Zenon
<1>5. QED
  BY <1>1, <1>3, <1>4

LEMMA PatternWeight ==
  ASSUME NEW p \in Patterns
  PROVE  Weight(p) = 1
<1>1. /\ {Slash, Blank, "n", "r"} \subseteq Chars
      /\ Blank \in Wide /\ Slash \notin Wide /\ "n" \notin Wide /\ "r" \notin Wide
  BY DEF Slash, Blank, Newline, Return, Chars, Wide
<1>2. <<>> \in Seq(Chars) /\ Weight(<<>>) = 0
  BY WeightIs
<1>3. \A s \in Seq(Chars), c \in Chars : c \notin Wide => Weight(Append(s, c)) = Weight(s)
  BY WeightIs
<1>4. Weight(<<Slash>>) = 0 /\ Append(<<>>, Slash) = <<Slash>> /\ <<Slash>> \in Seq(Chars)
  BY <1>1, <1>2, <1>3, Spelled
<1>5. Weight(<<Slash, Blank>>) = 1 /\ <<Slash, Blank>> \in Seq(Chars)
  <2>1. Append(<<Slash>>, Blank) = <<Slash, Blank>> /\ <<Slash, Blank>> \in Seq(Chars)
    BY <1>1, Spelled
  <2>2. Weight(Append(<<Slash>>, Blank)) = 0 + 1
    BY <1>1, <1>4, WeightIs
  <2>3. 0 + 1 = 1
    OBVIOUS
  <2>4. QED
    BY <2>1, <2>2, <2>3, Zenon
<1>6. ASSUME NEW c \in {"n", "r"} PROVE Weight(<<Slash, Blank, c>>) = 1
  <2>1. c \in Chars /\ c \notin Wide
    BY <1>1
  <2>2. Append(<<Slash, Blank>>, c) = <<Slash, Blank, c>>
    BY <1>1, <2>1, Spelled
  <2>3. Weight(Append(<<Slash, Blank>>, c)) = 1
    BY <1>3, <1>5, <2>1
  <2>4. QED
    BY <2>2, <2>3
<1>7. QED
  BY <1>5, <1>6 DEF Patterns

\* A replacement of a pattern leaves the weight as it is.
LEMMA SubWeight ==
  ASSUME NEW p \in Patterns, NEW c \in Wide
  PROVE  \A v \in Seq(Chars) : Weight(Substituted(v, p, c)) = Weight(v)
<1> DEFINE T == {v \in Seq(Chars) : Weight(Substituted(v, p, c)) = Weight(v)}
<1>1. c \in Chars /\ p \in Seq(Chars)
  BY PatternIs DEF Wide, Chars
<1>2. <<>> \in T
  BY <1>1, SubEmpty
<1>3. ASSUME NEW u \in T PROVE u \o p \in T
  <2>1. u \in Seq(Chars) /\ u \o p \in Seq(Chars) /\ Weight(Substituted(u, p, c)) = Weight(u)
    BY <1>1
  <2>2. Substituted(u \o p, p, c) = Append(Substituted(u, p, c), c)
    BY <1>1, SubPattern
  <2>3. Substituted(u, p, c) \in Seq(Chars)
    BY <1>1, SubType
  <2>4. Weight(Append(Substituted(u, p, c), c)) = Weight(Substituted(u, p, c)) + 1
    BY <1>1, <2>3, WeightIs
  <2>5. Weight(u \o p) = Weight(u) + 1
    BY <1>1, <2>1, WeightConcat, PatternWeight
  <2>6. QED
    BY <2>1, <2>2, <2>4, <2>5
<1>4. ASSUME NEW u \in T, NEW a \in Chars, ~Ends(Append(u, a), p) PROVE Append(u, a) \in T
  <2>1. /\ u \in Seq(Chars) /\ Append(u, a) \in Seq(Chars)
        /\ Weight(Substituted(u, p, c)) = Weight(u)
    OBVIOUS
  <2>2. Substituted(Append(u, a), p, c) = Append(Substituted(u, p, c), a)
    BY <1>1, <1>4, <2>1, SubAppend
  <2>3. Substituted(u, p, c) \in Seq(Chars)
    BY <1>1, SubType
  <2>4. PICK n \in Nat : n = IF a \in Wide THEN 1 ELSE 0
    OBVIOUS
  <2>5. Weight(Append(Substituted(u, p, c), a)) = Weight(Substituted(u, p, c)) + n
    BY <2>3, <2>4, WeightIs
  <2>6. Weight(Append(u, a)) = Weight(u) + n
    BY <2>1, <2>4, WeightIs
  <2>7. QED
    BY <2>1, <2>2, <2>5, <2>6
<1>5. T \in SUBSET Seq(Chars)
  OBVIOUS
<1> HIDE DEF T
<1>6. T = Seq(Chars)
  BY <1>2, <1>3, <1>4, <1>5, InductPatterns
<1>7. QED
  BY <1>6 DEF T

-----------------------------------------------------------------------------
(* Texts one behind the other *)

\* What the last two characters are if the text ends with a pattern.
LEMMA EndsLast ==
  ASSUME NEW v \in Seq(Chars), NEW a \in Chars, NEW p \in Patterns, Ends(Append(v, a), p)
  PROVE  /\ v # <<>> /\ (a = Blank \/ v[Len(v)] = Blank)
         /\ a \in {Blank, "n", "r"}
         /\ p = <<Slash, Blank>> => a = Blank
         /\ p = <<Slash, Blank, "n">> => a = "n" /\ v[Len(v)] = Blank
         /\ p = <<Slash, Blank, "r">> => a = "r" /\ v[Len(v)] = Blank
<1> DEFINE w == Append(v, a)
           l == Len(v)
           m == Len(p)
<1>1. /\ w \in Seq(Chars) /\ Len(w) = l + 1 /\ l \in Nat /\ w[l + 1] = a
      /\ \A i \in 1 .. l : w[i] = v[i]
  BY AppendProperties
<1>2. m \in Int /\ 2 <= m /\ m <= 3
  BY PatternIs
<1>3. Len(w) - m + 1 \in 1 .. Len(w) - m + 1
      /\ \A k \in 1 .. m : w[Len(w) - m + 1 + k - 1] = p[k]
  BY DEF Ends, Places
<1> HIDE DEF w, l, m
<1>4. /\ m \in 1 .. m /\ m - 1 \in 1 .. m /\ l \in 1 .. l /\ 0 < l
      /\ Len(w) - m + 1 + m - 1 = l + 1 /\ Len(w) - m + 1 + (m - 1) - 1 = l
  BY <1>1, <1>2, <1>3
<1>5. a = p[m] /\ v[l] = p[m - 1]
  BY <1>1, <1>3, <1>4
<1>6. v # <<>>
  BY <1>4 DEF l
<1>7. CASE p = <<Slash, Blank>>
  <2>1. m = 2 /\ p[2] = Blank /\ p # <<Slash, Blank, "n">> /\ p # <<Slash, Blank, "r">>
    BY <1>7 DEF m
  <2>2. QED
    BY <1>5, <1>6, <2>1
<1>8. CASE p = <<Slash, Blank, "n">>
  <2>1. m = 3 /\ p[3] = "n" /\ p[2] = Blank /\ p # <<Slash, Blank>> /\ p # <<Slash, Blank, "r">>
    BY <1>8 DEF m
  <2>2. QED
    BY <1>5, <1>6, <2>1 DEF l
<1>9. CASE p = <<Slash, Blank, "r">>
  <2>1. m = 3 /\ p[3] = "r" /\ p[2] = Blank /\ p # <<Slash, Blank>> /\ p # <<Slash, Blank, "n">>
    BY <1>9 DEF m
  <2>2. QED
    BY <1>5, <1>6, <2>1 DEF l
<1>10. QED
  BY <1>7, <1>8, <1>9 DEF Patterns

\* A pattern at the end of two texts is one at the end of the second, if there is no
\* blank where they meet.
LEMMA EndsBehind ==
  ASSUME NEW u \in Seq(Chars), NEW e \in Seq(Chars), NEW p \in Patterns,
         2 <= Len(e), e[1] # Blank, Ends(u \o e, p)
  PROVE  Ends(e, p)
<1> DEFINE w == u \o e
           l == Len(u)
           n == Len(e)
           m == Len(p)
<1>1. /\ w \in Seq(Chars) /\ Len(w) = l + n /\ l \in Nat /\ n \in Nat
      /\ \A i \in 1 .. l + n : w[i] = IF i <= l THEN u[i] ELSE e[i - l]
  BY ConcatProperties
<1>2. m \in Int /\ 2 <= m /\ m <= 3 /\ p[2] = Blank
  BY PatternIs
<1>3. Len(w) - m + 1 \in 1 .. Len(w) - m + 1
      /\ \A k \in 1 .. m : w[Len(w) - m + 1 + k - 1] = p[k]
  BY DEF Ends, Places
<1>4. 2 <= n
  OBVIOUS
<1> HIDE DEF w, l, m, n
<1>5. ASSUME NEW i \in 1 .. n PROVE w[l + i] = e[i]
  <2>1. l + i \in 1 .. l + n /\ ~(l + i <= l) /\ l + i - l = i
    BY <1>1
  <2>2. QED
    BY <1>1, <2>1
<1>6. CASE m <= n
  <2>1. ASSUME NEW k \in 1 .. m PROVE e[n - m + 1 + k - 1] = p[k]
    <3>1. /\ n - m + 1 + k - 1 \in 1 .. n
          /\ Len(w) - m + 1 + k - 1 = l + (n - m + 1 + k - 1)
      BY <1>1, <1>2, <1>6
    <3>2. w[Len(w) - m + 1 + k - 1] = p[k]
      BY <1>3
    <3> DEFINE i == n - m + 1 + k - 1
    <3> HIDE DEF i
    <3>3. i \in 1 .. n /\ w[l + i] = p[k]
      BY <3>1, <3>2 DEF i
    <3>4. e[i] = p[k]
      BY <1>5, <3>3
    <3>5. QED
      BY <3>4 DEF i
  <2>2. n - m + 1 \in 1 .. n - m + 1
    BY <1>1, <1>2, <1>6
  <2>3. QED
    BY <2>1, <2>2 DEF Ends, Places, m, n
<1>7. CASE ~(m <= n)
  <2>1. m = 3 /\ n = 2
    BY <1>1, <1>2, <1>4, <1>7
  <2>2. 2 \in 1 .. m /\ 1 \in 1 .. n /\ Len(w) - m + 1 + 2 - 1 = l + 1
    BY <1>1, <2>1
  <2>3. w[l + 1] = Blank
    BY <1>2, <1>3, <2>2
  <2>4. w[l + 1] = e[1]
    BY <1>5, <2>2
  <2>5. QED
    BY <2>3, <2>4
<1>8. QED
  BY <1>6, <1>7

LEMMA SubConcat ==
  ASSUME NEW p \in Patterns, NEW c \in Chars, NEW u \in Seq(Chars),
         u = <<>> \/ u[Len(u)] # Blank
  PROVE  \A e \in Seq(Chars) : e # <<>> /\ e[1] # Blank =>
           Substituted(u \o e, p, c) = Substituted(u, p, c) \o Substituted(e, p, c)
<1>a. \A e \in Seq(Chars) : (u \o e) \o p = u \o (e \o p)
  <2>1. p \in Seq(Chars)
    BY PatternIs
  <2>2. QED
    BY <2>1, ConcatAssociative
<1> DEFINE S(v) == Substituted(v, p, c)
           T == {e \in Seq(Chars) : e = <<>> \/ e[1] = Blank \/ S(u \o e) = S(u) \o S(e)}
<1>1. p \in Seq(Chars) /\ p # <<>>
  BY PatternIs
<1>2. <<>> \in T
  OBVIOUS
<1>3. ASSUME NEW e \in T PROVE e \o p \in T
  <2>1. e \in Seq(Chars) /\ e \o p \in Seq(Chars) /\ u \o e \in Seq(Chars)
    BY <1>1
  <2>2. S(e) \in Seq(Chars) /\ S(u) \in Seq(Chars)
    BY <2>1, SubType
  <2>3. S(e \o p) = Append(S(e), c)
    BY <2>1, SubPattern
  <2>4. S((u \o e) \o p) = Append(S(u \o e), c)
    BY <2>1, SubPattern
  <2>5. (u \o e) \o p = u \o (e \o p)
    BY <1>a, <2>1
  <2> HIDE DEF S
  <2>6. S(u) \o Append(S(e), c) = Append(S(u) \o S(e), c)
    BY <2>2, Regroup
  <2>7. CASE e = <<>>
    <3>1. u \o e = u /\ S(e) = <<>> /\ S(u) \o <<>> = S(u)
      <4>1. u \o <<>> = u
        OBVIOUS
      <4>2. S(<<>>) = <<>>
        BY SubEmpty DEF S
      <4>3. S(u) \o <<>> = S(u)
        BY <2>2
      <4>4. QED
        BY <2>7, <4>1, <4>2, <4>3, Zenon
    <3>2. S(u \o (e \o p)) = S(u) \o S(e \o p)
      BY <2>3, <2>4, <2>5, <2>6, <3>1, Zenon
    <3>3. QED
      BY <2>1, <3>2
  <2>8. CASE e # <<>> /\ e[1] = Blank
    <3>1. (e \o p)[1] = e[1]
      BY <1>1, <2>1, <2>8
    <3>2. QED
      BY <2>1, <2>8, <3>1
  <2>9. CASE e # <<>> /\ e[1] # Blank
    <3>1. S(u \o e) = S(u) \o S(e)
      BY <2>9
    <3>2. S(u \o (e \o p)) = S(u) \o S(e \o p)
      BY <2>3, <2>4, <2>5, <2>6, <3>1, Zenon
    <3>3. QED
      BY <2>1, <3>2
  <2>10. QED
    BY <2>7, <2>8, <2>9
<1>4. ASSUME NEW e \in T, NEW a \in Chars, ~Ends(Append(e, a), p) PROVE Append(e, a) \in T
  <2>1. e \in Seq(Chars) /\ Append(e, a) \in Seq(Chars) /\ u \o e \in Seq(Chars)
    OBVIOUS
  <2>2. S(e) \in Seq(Chars) /\ S(u) \in Seq(Chars)
    BY <2>1, SubType
  <2>3. S(Append(e, a)) = Append(S(e), a)
    BY <1>4, <2>1, SubAppend
  <2>4. u \o Append(e, a) = Append(u \o e, a)
    BY <2>1, Regroup
  <2>5. ~Ends(Append(u \o e, a), p) => S(Append(u \o e, a)) = Append(S(u \o e), a)
    BY <2>1, SubAppend
  <2> HIDE DEF S
  <2>6. S(u) \o Append(S(e), a) = Append(S(u) \o S(e), a)
    BY <2>2, Regroup
  <2>7. CASE e = <<>> /\ a # Blank
    <3>1. u \o e = u /\ S(e) = <<>> /\ S(u) \o <<>> = S(u)
      <4>1. u \o <<>> = u
        OBVIOUS
      <4>2. S(<<>>) = <<>>
        BY SubEmpty DEF S
      <4>3. S(u) \o <<>> = S(u)
        BY <2>2
      <4>4. QED
        BY <2>7, <4>1, <4>2, <4>3, Zenon
    <3>2. ~Ends(Append(u, a), p)
      BY <2>7, EndsLast
    <3>3. S(u \o Append(e, a)) = S(u) \o S(Append(e, a))
      BY <2>3, <2>4, <2>5, <2>6, <3>1, <3>2, Zenon
    <3>4. QED
      BY <2>1, <3>3
  <2>8. CASE e = <<>> /\ a = Blank
    <3>1. Append(e, a)[1] = Blank
      BY <2>8
    <3>2. QED
      BY <2>1, <3>1
  <2>9. CASE e # <<>> /\ e[1] = Blank
    <3>1. Append(e, a)[1] = e[1]
      BY <2>1, <2>9
    <3>2. QED
      BY <2>1, <2>9, <3>1
  <2>10. CASE e # <<>> /\ e[1] # Blank
    <3>1. Append(e, a)[1] = e[1] /\ 2 <= Len(Append(e, a))
      BY <2>1, <2>10
    <3>2. ~Ends(u \o Append(e, a), p)
      BY <1>4, <2>1, <2>10, <3>1, EndsBehind
    <3>3. S(u \o e) = S(u) \o S(e)
      BY <2>10
    <3>4. S(u \o Append(e, a)) = S(u) \o S(Append(e, a))
      BY <2>3, <2>4, <2>5, <2>6, <3>2, <3>3, Zenon
    <3>5. QED
      BY <2>1, <3>4
  <2>11. QED
    BY <2>7, <2>8, <2>9, <2>10
<1>5. T \in SUBSET Seq(Chars)
  OBVIOUS
<1> HIDE DEF T
<1>6. T = Seq(Chars)
  BY <1>2, <1>3, <1>4, <1>5, InductPatterns
<1>7. QED
  BY <1>6 DEF T

\* A replacement by a line end puts no blank at the beginning or the end.
LEMMA SubTidy ==
  ASSUME NEW p \in Patterns, NEW c \in Chars, c # Blank
  PROVE  \A v \in Seq(Chars) : v # <<>> =>
           /\ Substituted(v, p, c) # <<>>
           /\ v[1] # Blank => Substituted(v, p, c)[1] # Blank
           /\ v[Len(v)] # Blank => Substituted(v, p, c)[Len(Substituted(v, p, c))] # Blank
<1> DEFINE S(v) == Substituted(v, p, c)
           Q(v) == v # <<>> => /\ S(v) # <<>>
                               /\ v[1] # Blank => S(v)[1] # Blank
                               /\ v[Len(v)] # Blank => S(v)[Len(S(v))] # Blank
           T == {v \in Seq(Chars) : Q(v)}
<1>1. p \in Seq(Chars) /\ p # <<>>
  BY PatternIs
<1>2. <<>> \in T
  OBVIOUS
<1>3. ASSUME NEW s \in Seq(Chars), NEW a \in Chars
      PROVE  /\ Append(s, a) # <<>> /\ Append(s, a) \in Seq(Chars)
             /\ Append(s, a)[Len(Append(s, a))] = a
             /\ s # <<>> => Append(s, a)[1] = s[1]
             /\ s = <<>> => Append(s, a)[1] = a
  <2>1. /\ Append(s, a) \in Seq(Chars) /\ Append(s, a) # <<>> /\ Len(Append(s, a)) = Len(s) + 1
        /\ Append(s, a)[Len(s) + 1] = a /\ \A i \in 1 .. Len(s) : Append(s, a)[i] = s[i]
    BY AppendProperties
  <2>2. s # <<>> => 1 \in 1 .. Len(s)
    OBVIOUS
  <2>3. s = <<>> => Len(s) + 1 = 1
    OBVIOUS
  <2>4. QED
    BY <2>1, <2>2, <2>3
<1>4. S(<<>>) = <<>>
  BY SubEmpty
<1>5. ASSUME NEW e \in T PROVE e \o p \in T
  <2>1. e \in Seq(Chars) /\ e \o p \in Seq(Chars) /\ Q(e)
    BY <1>1
  <2>2. S(e) \in Seq(Chars)
    BY <2>1, SubType
  <2>3. S(e \o p) = Append(S(e), c)
    BY <2>1, SubPattern
  <2> HIDE DEF S
  <2>4. Append(S(e), c) # <<>> /\ Append(S(e), c)[Len(Append(S(e), c))] # Blank
    BY <1>3, <2>2
  <2>5. CASE e = <<>>
    <3>1. Append(S(e), c)[1] = c
      BY <1>3, <1>4, <2>2, <2>5
    <3>2. QED
      BY <2>1, <2>3, <2>4, <3>1
  <2>6. CASE e # <<>>
    <3>1. (e \o p)[1] = e[1]
      BY <1>1, <2>1, <2>6
    <3>2. Append(S(e), c)[1] = S(e)[1]
      BY <1>3, <2>1, <2>2, <2>6
    <3>3. QED
      BY <2>1, <2>3, <2>4, <2>6, <3>1, <3>2
  <2>7. QED
    BY <2>5, <2>6
<1>6. ASSUME NEW e \in T, NEW a \in Chars, ~Ends(Append(e, a), p) PROVE Append(e, a) \in T
  <2>1. e \in Seq(Chars) /\ Append(e, a) \in Seq(Chars) /\ Q(e)
    OBVIOUS
  <2>2. S(e) \in Seq(Chars)
    BY <2>1, SubType
  <2>3. S(Append(e, a)) = Append(S(e), a)
    BY <1>6, <2>1, SubAppend
  <2> HIDE DEF S
  <2>4. /\ Append(S(e), a) # <<>> /\ Append(S(e), a)[Len(Append(S(e), a))] = a
        /\ Append(e, a)[Len(Append(e, a))] = a
    BY <1>3, <2>1, <2>2
  <2>5. CASE e = <<>>
    <3>1. Append(S(e), a)[1] = a /\ Append(e, a)[1] = a
      BY <1>3, <1>4, <2>1, <2>2, <2>5
    <3>2. QED
      BY <2>1, <2>3, <2>4, <3>1
  <2>6. CASE e # <<>>
    <3>1. Append(e, a)[1] = e[1]
      BY <1>3, <2>1, <2>6
    <3>2. Append(S(e), a)[1] = S(e)[1]
      BY <1>3, <2>1, <2>2, <2>6
    <3>3. QED
      BY <2>1, <2>3, <2>4, <2>6, <3>1, <3>2
  <2>7. QED
    BY <2>5, <2>6
<1>7. T \in SUBSET Seq(Chars)
  OBVIOUS
<1> HIDE DEF T
<1>8. T = Seq(Chars)
  BY <1>2, <1>5, <1>6, <1>7, InductPatterns
<1>9. QED
  BY <1>8 DEF T

\* What has no blanks at its ends is unescaped alone as well as behind something that
\* does not end with one.
LEMMA UnescapedConcat ==
  ASSUME NEW u \in Seq(Chars), NEW e \in Seq(Chars), u = <<>> \/ u[Len(u)] # Blank,
         e # <<>>, e[1] # Blank
  PROVE  Unescaped(u \o e) = Unescaped(u) \o Unescaped(e)
<1> DEFINE n == <<Slash, Blank, "n">>
           r == <<Slash, Blank, "r">>
           b == <<Slash, Blank>>
           u1 == Substituted(u, n, Newline)
           e1 == Substituted(e, n, Newline)
           u2 == Substituted(u1, r, Return)
           e2 == Substituted(e1, r, Return)
<1>1. /\ n \in Patterns /\ r \in Patterns /\ b \in Patterns
      /\ {Newline, Return, Blank} \subseteq Chars /\ Newline # Blank /\ Return # Blank
  BY DEF Patterns, Newline, Return, Blank, Chars
<1>2. /\ u1 \in Seq(Chars) /\ e1 \in Seq(Chars)
      /\ Substituted(u \o e, n, Newline) = u1 \o e1
  BY <1>1, SubType, SubConcat
<1>3. u1 = <<>> \/ u1[Len(u1)] # Blank
  BY <1>1, SubEmpty, SubTidy
<1>4. e1 # <<>> /\ e1[1] # Blank
  BY <1>1, SubTidy
<1> HIDE DEF u1, e1
<1>5. /\ u2 \in Seq(Chars) /\ e2 \in Seq(Chars)
      /\ Substituted(u1 \o e1, r, Return) = u2 \o e2
  BY <1>1, <1>2, <1>3, <1>4, SubType, SubConcat
<1>6. u2 = <<>> \/ u2[Len(u2)] # Blank
  BY <1>1, <1>2, <1>3, SubEmpty, SubTidy
<1>7. e2 # <<>> /\ e2[1] # Blank
  BY <1>1, <1>2, <1>4, SubTidy
<1> HIDE DEF u2, e2
<1>8. Substituted(u2 \o e2, b, Blank) = Substituted(u2, b, Blank) \o Substituted(e2, b, Blank)
  BY <1>1, <1>5, <1>6, <1>7, SubConcat
<1>9. /\ Unescaped(u \o e) = Substituted(u2 \o e2, b, Blank)
      /\ Unescaped(u) = Substituted(u2, b, Blank) /\ Unescaped(e) = Substituted(e2, b, Blank)
  BY <1>2, <1>5 DEF Unescaped, u1, e1, u2, e2
<1>10. QED
  BY <1>8, <1>9

LEMMA UnescapedIs ==
  /\ Unescaped(<<>>) = <<>>
  /\ \A v \in Seq(Chars) : Unescaped(v) \in Seq(Chars) /\ Weight(Unescaped(v)) = Weight(v)
<1> DEFINE n == <<Slash, Blank, "n">>
           r == <<Slash, Blank, "r">>
           b == <<Slash, Blank>>
<1>1. /\ n \in Patterns /\ r \in Patterns /\ b \in Patterns
      /\ {Newline, Return, Blank} \subseteq Chars
      /\ Newline \in Wide /\ Return \in Wide /\ Blank \in Wide
  BY DEF Patterns, Newline, Return, Blank, Chars, Wide
<1> HIDE DEF n, r, b
<1>2. Unescaped(<<>>) = <<>>
  BY <1>1, SubEmpty DEF Unescaped, n, r, b
<1>3. ASSUME NEW v \in Seq(Chars)
      PROVE  Unescaped(v) \in Seq(Chars) /\ Weight(Unescaped(v)) = Weight(v)
  <2> DEFINE v1 == Substituted(v, n, Newline)
             v2 == Substituted(v1, r, Return)
             v3 == Substituted(v2, b, Blank)
  <2>1. v1 \in Seq(Chars) /\ Weight(v1) = Weight(v)
    BY <1>1, SubType, SubWeight
  <2> HIDE DEF v1
  <2>2. v2 \in Seq(Chars) /\ Weight(v2) = Weight(v1)
    BY <1>1, <2>1, SubType, SubWeight
  <2> HIDE DEF v2
  <2>3. v3 \in Seq(Chars) /\ Weight(v3) = Weight(v2)
    BY <1>1, <2>2, SubType, SubWeight
  <2>4. Unescaped(v) = v3
    BY DEF Unescaped, v1, v2, n, r, b
  <2>5. QED
    BY <2>1, <2>2, <2>3, <2>4
<1>4. QED
  BY <1>2, <1>3

-----------------------------------------------------------------------------
(* The escapes *)

LEMMA EachConcat ==
  ASSUME NEW h \in [Chars -> Seq(Chars)], NEW s \in Seq(Chars)
  PROVE  \A t \in Seq(Chars) : Each(h, s \o t) = Each(h, s) \o Each(h, t)
<1>a. \A x, y, z \in Seq(Chars) : (x \o y) \o z = x \o (y \o z)
  <2>1. Reassociates(Chars)
    BY Reassociate, Zenon
  <2>2. QED
    BY <2>1, Zenon DEF Reassociates
<1> DEFINE T == {t \in Seq(Chars) : Each(h, s \o t) = Each(h, s) \o Each(h, t)}
<1>1. /\ Each(h, <<>>) = <<>>
      /\ \A v \in Seq(Chars) : Each(h, v) \in Seq(Chars)
      /\ \A v \in Seq(Chars), c \in Chars : Each(h, Append(v, c)) = Each(h, v) \o h[c]
  BY EachIs
<1>2. <<>> \in T
  <2>1. s \o <<>> = s /\ <<>> \in Seq(Chars)
    OBVIOUS
  <2>2. Each(h, s) \in Seq(Chars)
    BY <1>1
  <2>3. Each(h, s) \o <<>> = Each(h, s)
    BY <2>2
  <2>4. QED
    BY <1>1, <2>1, <2>3
<1>3. ASSUME NEW t \in T, NEW c \in Chars PROVE Append(t, c) \in T
  <2>1. s \o Append(t, c) = Append(s \o t, c) /\ s \o t \in Seq(Chars) /\ Append(t, c) \in Seq(Chars)
    OBVIOUS
  <2>2. Each(h, Append(s \o t, c)) = (Each(h, s) \o Each(h, t)) \o h[c]
    BY <1>1, <2>1
  <2>3. Each(h, Append(t, c)) = Each(h, t) \o h[c]
    BY <1>1
  <2>4. Each(h, s) \in Seq(Chars) /\ Each(h, t) \in Seq(Chars) /\ h[c] \in Seq(Chars)
    BY <1>1
  <2>5. (Each(h, s) \o Each(h, t)) \o h[c] = Each(h, s) \o (Each(h, t) \o h[c])
    BY <1>a, <2>4
  <2>6. QED
    BY <2>1, <2>2, <2>3, <2>5
<1>4. T \in SUBSET Seq(Chars)
  OBVIOUS
<1> HIDE DEF T
<1>5. T = Seq(Chars)
  BY <1>2, <1>3, <1>4, InductSeq
<1>6. QED
  BY <1>5 DEF T

LEMMA ReplacedIs ==
  ASSUME NEW c \in Chars, NEW by \in Seq(Chars)
  PROVE  /\ Replaced(<<>>, c, by) = <<>>
         /\ \A s \in Seq(Chars) : Replaced(s, c, by) \in Seq(Chars)
         /\ \A s, t \in Seq(Chars) :
              Replaced(s \o t, c, by) = Replaced(s, c, by) \o Replaced(t, c, by)
         /\ Replaced(<<c>>, c, by) = by
         /\ \A a \in Chars : a # c => Replaced(<<a>>, c, by) = <<a>>
         /\ \A s \in Seq(Chars) : Replaced(Append(s, c), c, by) = Replaced(s, c, by) \o by
         /\ \A s \in Seq(Chars), a \in Chars : a # c =>
              Replaced(Append(s, a), c, by) = Replaced(s, c, by) \o <<a>>
<1> DEFINE h == [a \in Chars |-> IF a = c THEN by ELSE <<a>>]
<1>1. h \in [Chars -> Seq(Chars)] /\ \A a \in Chars : h[a] = IF a = c THEN by ELSE <<a>>
  <2>1. \A a \in Chars : <<a>> \in Seq(Chars)
    OBVIOUS
  <2>2. QED
    BY <2>1, Zenon
<1>2. ASSUME NEW s \in Seq(Chars) PROVE Replaced(s, c, by) = Each(h, s)
  <2>1. \A i \in 1 .. Len(s) : h[s[i]] = IF s[i] = c THEN by ELSE <<s[i]>>
    OBVIOUS
  <2>2. QED
    BY <2>1, Zenon DEF Replaced, Each
<1> HIDE DEF h
<1>3. /\ Each(h, <<>>) = <<>>
      /\ \A v \in Seq(Chars) : Each(h, v) \in Seq(Chars)
      /\ \A v \in Seq(Chars), a \in Chars : Each(h, Append(v, a)) = Each(h, v) \o h[a]
      /\ \A s, t \in Seq(Chars) : Each(h, s \o t) = Each(h, s) \o Each(h, t)
  BY <1>1, EachIs, EachConcat
<1>4. ASSUME NEW a \in Chars PROVE Replaced(<<a>>, c, by) = IF a = c THEN by ELSE <<a>>
  <2>1. Append(<<>>, a) = <<a>> /\ <<a>> \in Seq(Chars) /\ <<>> \in Seq(Chars)
    OBVIOUS
  <2>2. Each(h, Append(<<>>, a)) = <<>> \o h[a]
    BY <1>3, <2>1
  <2>3. <<>> \o h[a] = h[a]
    BY <1>1
  <2>4. QED
    BY <1>1, <1>2, <2>1, <2>2, <2>3
<1>5. <<>> \in Seq(Chars)
  OBVIOUS
<1>6. \A s, t \in Seq(Chars) : s \o t \in Seq(Chars)
  OBVIOUS
<1>7. \A s \in Seq(Chars), a \in Chars : Append(s, a) \in Seq(Chars)
  OBVIOUS
<1>8. Replaced(<<>>, c, by) = <<>> /\ \A s \in Seq(Chars) : Replaced(s, c, by) \in Seq(Chars)
  BY <1>2, <1>3, <1>5
<1>9. ASSUME NEW s \in Seq(Chars), NEW t \in Seq(Chars)
      PROVE  Replaced(s \o t, c, by) = Replaced(s, c, by) \o Replaced(t, c, by)
  <2>1. s \o t \in Seq(Chars)
    BY <1>6
  <2>2. /\ Replaced(s \o t, c, by) = Each(h, s \o t)
        /\ Replaced(s, c, by) = Each(h, s) /\ Replaced(t, c, by) = Each(h, t)
    BY <1>2, <2>1, Zenon
  <2>3. Each(h, s \o t) = Each(h, s) \o Each(h, t)
    BY <1>3, Zenon
  <2>4. QED
    BY <2>2, <2>3, Zenon
<1>10. ASSUME NEW s \in Seq(Chars), NEW a \in Chars
       PROVE  Replaced(Append(s, a), c, by) = Replaced(s, c, by) \o (IF a = c THEN by ELSE <<a>>)
  <2>1. Replaced(Append(s, a), c, by) = Each(h, Append(s, a)) /\ Replaced(s, c, by) = Each(h, s)
    BY <1>2, <1>7
  <2>2. Each(h, Append(s, a)) = Each(h, s) \o h[a]
    BY <1>3
  <2>3. h[a] = IF a = c THEN by ELSE <<a>>
    BY <1>1
  <2>4. QED
    BY <2>1, <2>2, <2>3, Zenon
<1>11. QED
  BY <1>4, <1>8, <1>9, <1>10

\* What a character is escaped to.
Code(c) == IF c = Blank THEN <<Slash, Blank>>
           ELSE IF c = Newline THEN <<Slash, Blank, "n">>
           ELSE IF c = Return THEN <<Slash, Blank, "r">> ELSE <<c>>

LEMMA CharsDiffer ==
  /\ {Slash, Blank, Newline, Return, "n", "r"} \subseteq Chars
  /\ Slash # Blank /\ Slash # Newline /\ Slash # Return /\ Slash # "n" /\ Slash # "r"
  /\ Blank # Newline /\ Blank # Return /\ Blank # "n" /\ Blank # "r"
  /\ Newline # Return /\ Newline # "n" /\ Newline # "r" /\ Return # "n" /\ Return # "r"
  /\ "n" # "r"
BY DEF Slash, Blank, Newline, Return, Chars

LEMMA CodeType ==
  ASSUME NEW c \in Chars
  PROVE  Code(c) \in Seq(Chars)
BY CharsDiffer DEF Code

LEMMA EscapedIs ==
  /\ Escaped(<<>>) = <<>>
  /\ \A d \in Seq(Chars) : Escaped(d) \in Seq(Chars)
  /\ \A d \in Seq(Chars), c \in Chars : Escaped(Append(d, c)) = Escaped(d) \o Code(c)
<1> DEFINE b == <<Slash, Blank>>
           n == <<Slash, Blank, "n">>
           r == <<Slash, Blank, "r">>
<1>1. b \in Seq(Chars) /\ n \in Seq(Chars) /\ r \in Seq(Chars)
  BY CharsDiffer
<1> HIDE DEF b, n, r
<1> DEFINE B(d) == Replaced(d, Blank, b)
           N(d) == Replaced(d, Newline, n)
           R(d) == Replaced(d, Return, r)
<1>a. Blank \in Chars /\ Newline \in Chars /\ Return \in Chars
  BY CharsDiffer
<1>2. /\ B(<<>>) = <<>> /\ N(<<>>) = <<>> /\ R(<<>>) = <<>>
      /\ \A s \in Seq(Chars) : B(s) \in Seq(Chars) /\ N(s) \in Seq(Chars) /\ R(s) \in Seq(Chars)
  BY <1>1, <1>a, ReplacedIs
<1>3. /\ \A s, t \in Seq(Chars) : N(s \o t) = N(s) \o N(t)
      /\ \A s, t \in Seq(Chars) : R(s \o t) = R(s) \o R(t)
  BY <1>1, <1>a, ReplacedIs, Zenon
<1>4. /\ N(<<Newline>>) = n /\ R(<<Return>>) = r
      /\ \A a \in Chars : a # Newline => N(<<a>>) = <<a>>
      /\ \A a \in Chars : a # Return => R(<<a>>) = <<a>>
  BY <1>1, <1>a, ReplacedIs, Zenon
<1>5. /\ \A s \in Seq(Chars) : B(Append(s, Blank)) = B(s) \o b
      /\ \A s \in Seq(Chars), a \in Chars : a # Blank => B(Append(s, a)) = B(s) \o <<a>>
  <2>1. \A s, t \in Seq(Chars) : B(s \o t) = B(s) \o B(t)
    <3>1. Blank \in Chars /\ b \in Seq(Chars)
      BY <1>1, <1>a
    <3>2. QED
      BY <3>1, ReplacedIs, Zenon
  <2>2. B(<<Blank>>) = b /\ \A a \in Chars : a # Blank => B(<<a>>) = <<a>>
    BY <1>1, <1>a, ReplacedIs, Zenon
  <2> HIDE DEF B
  <2>3. ASSUME NEW s \in Seq(Chars), NEW a \in Chars PROVE B(Append(s, a)) = B(s) \o B(<<a>>)
    <3>1. Append(s, a) = s \o <<a>> /\ <<a>> \in Seq(Chars)
      BY AppendIsConcat
    <3>2. QED
      BY <2>1, <3>1, Zenon
  <2>4. QED
    BY <1>a, <2>2, <2>3
<1>6. Escaped(<<>>) = <<>> /\ \A d : Escaped(d) = R(N(B(d)))
  BY <1>2 DEF Escaped, b, n, r
<1>7. N(b) = b /\ R(b) = b /\ R(n) = n
  <2>1. /\ Append(<<Slash>>, Blank) = b /\ Append(b, "n") = n
        /\ <<Slash>> \in Seq(Chars) /\ <<Blank>> \in Seq(Chars) /\ <<"n">> \in Seq(Chars)
    BY CharsDiffer, Spelled DEF b, n
  <2>2. <<Slash>> \o <<Blank>> = b /\ b \o <<"n">> = n
    BY <1>1, <2>1, CharsDiffer, AppendIsConcat
  <2>3. N(<<Slash>>) = <<Slash>> /\ N(<<Blank>>) = <<Blank>>
    BY <1>4, CharsDiffer
  <2>4. R(<<Slash>>) = <<Slash>> /\ R(<<Blank>>) = <<Blank>> /\ R(<<"n">>) = <<"n">>
    BY <1>4, CharsDiffer
  <2> HIDE DEF N, R, b, n
  <2>5. N(<<Slash>> \o <<Blank>>) = <<Slash>> \o <<Blank>>
        /\ R(<<Slash>> \o <<Blank>>) = <<Slash>> \o <<Blank>>
    BY <1>3, <2>1, <2>3, <2>4
  <2>6. R(b \o <<"n">>) = R(b) \o R(<<"n">>)
    BY <1>1, <1>3, <2>1
  <2>7. QED
    BY <2>2, <2>4, <2>5, <2>6
<1> HIDE DEF B, N, R, b, n, r
<1>8. ASSUME NEW d \in Seq(Chars), NEW c \in Chars
      PROVE  Escaped(Append(d, c)) = Escaped(d) \o Code(c)
  <2>1. <<c>> \in Seq(Chars)
    OBVIOUS
  <2>2. B(d) \in Seq(Chars) /\ N(B(d)) \in Seq(Chars)
    BY <1>2
  <2>3. ASSUME NEW x \in Seq(Chars), B(Append(d, c)) = B(d) \o x
        PROVE  Escaped(Append(d, c)) = Escaped(d) \o R(N(x))
    <3>1. N(B(d) \o x) = N(B(d)) \o N(x) /\ N(x) \in Seq(Chars)
      BY <1>2, <1>3, <2>2
    <3>2. R(N(B(d)) \o N(x)) = R(N(B(d))) \o R(N(x))
      BY <1>3, <2>2, <3>1
    <3>3. QED
      BY <1>6, <2>3, <3>1, <3>2, Zenon
  <2>4. CASE c = Blank
    <3>1. B(Append(d, c)) = B(d) \o b /\ Code(c) = b
      BY <1>5, <2>4 DEF Code, b
    <3>2. QED
      BY <1>1, <1>7, <2>3, <3>1, Zenon
  <2>5. CASE c = Newline
    <3>1. B(Append(d, c)) = B(d) \o <<c>> /\ Code(c) = n /\ N(<<c>>) = n
      BY <1>4, <1>5, <2>5, CharsDiffer DEF Code, n
    <3>2. QED
      BY <1>7, <2>1, <2>3, <3>1, Zenon
  <2>6. CASE c = Return
    <3>1. B(Append(d, c)) = B(d) \o <<c>> /\ Code(c) = r /\ N(<<c>>) = <<c>> /\ R(<<c>>) = r
      BY <1>4, <1>5, <2>6, CharsDiffer DEF Code, r
    <3>2. QED
      BY <2>1, <2>3, <3>1, Zenon
  <2>7. CASE c \notin Wide
    <3>1. /\ B(Append(d, c)) = B(d) \o <<c>> /\ Code(c) = <<c>>
          /\ N(<<c>>) = <<c>> /\ R(<<c>>) = <<c>>
      BY <1>4, <1>5, <2>7, CharsDiffer DEF Code, Wide
    <3>2. QED
      BY <2>1, <2>3, <3>1, Zenon
  <2>8. QED
    BY <2>4, <2>5, <2>6, <2>7 DEF Wide
<1>9. \A d \in Seq(Chars) : Escaped(d) \in Seq(Chars)
  BY <1>2, <1>6
<1>10. QED
  BY <1>6, <1>8, <1>9

LEMMA SpelledBehind ==
  ASSUME NEW s \in Seq(Chars), NEW x \in Chars, NEW y \in Chars, NEW z \in Chars
  PROVE  /\ s \o <<x>> = Append(s, x) /\ s \o <<x, y>> = Append(Append(s, x), y)
         /\ s \o <<x, y, z>> = Append(Append(Append(s, x), y), z)
<1>1. /\ Append(<<>>, x) = <<x>> /\ Append(<<x>>, y) = <<x, y>> /\ Append(<<x, y>>, z) = <<x, y, z>>
      /\ <<x>> \in Seq(Chars) /\ <<x, y>> \in Seq(Chars)
  BY Spelled
<1>2. s \o <<x>> = Append(s, x)
  BY AppendIsConcat
<1>3. \A t \in Seq(Chars), a \in Chars : s \o Append(t, a) = Append(s \o t, a)
  BY Regroup
<1>4. s \o Append(<<x>>, y) = Append(s \o <<x>>, y) /\ s \o Append(<<x, y>>, z) = Append(s \o <<x, y>>, z)
  BY <1>1, <1>3, Zenon
<1>5. QED
  BY <1>1, <1>2, <1>4, Zenon

\* Texts without line ends and with a backslash before each blank.
Plain == {s \in Seq(Chars) : \A i \in 1 .. Len(s) :
            s[i] \notin {Newline, Return} /\ (s[i] = Blank => 1 < i /\ s[i - 1] = Slash)}

LEMMA PlainAppend ==
  ASSUME NEW s \in Plain
  PROVE  /\ \A a \in Chars : a \notin Wide => Append(s, a) \in Plain
         /\ Append(Append(s, Slash), Blank) \in Plain
<1>1. s \in Seq(Chars) /\ Len(s) \in Nat
      /\ \A i \in 1 .. Len(s) :
            s[i] \notin {Newline, Return} /\ (s[i] = Blank => 1 < i /\ s[i - 1] = Slash)
  BY LenProperties DEF Plain
<1>2. ASSUME NEW v \in Plain, NEW a \in Chars, a \notin {Newline, Return},
             a = Blank => v # <<>> /\ v[Len(v)] = Slash
      PROVE  Append(v, a) \in Plain
  <2> DEFINE w == Append(v, a)
             l == Len(v)
  <2>0. v \in Seq(Chars) /\ l \in Nat
        /\ \A i \in 1 .. l :
             v[i] \notin {Newline, Return} /\ (v[i] = Blank => 1 < i /\ v[i - 1] = Slash)
    BY LenProperties DEF Plain
  <2>1. /\ w \in Seq(Chars) /\ Len(w) = l + 1 /\ w[l + 1] = a /\ \A i \in 1 .. l : w[i] = v[i]
    BY <2>0, AppendProperties
  <2>2. v # <<>> => l # 0
    BY <2>0
  <2> HIDE DEF w, l
  <2>3. ASSUME NEW i \in 1 .. l + 1
        PROVE  w[i] \notin {Newline, Return} /\ (w[i] = Blank => 1 < i /\ w[i - 1] = Slash)
    <3>1. CASE i \in 1 .. l
      <4>1. 1 < i => i - 1 \in 1 .. l
        BY <2>0, <3>1
      <4>2. QED
        BY <2>0, <2>1, <3>1, <4>1
    <3>2. CASE i = l + 1
      <4>1. l # 0 => 1 < i /\ i - 1 = l /\ l \in 1 .. l
        BY <2>0, <3>2
      <4>2. QED
        BY <1>2, <2>1, <2>2, <3>2, <4>1 DEF l
    <3>3. QED
      BY <2>0, <3>1, <3>2
  <2>4. QED
    BY <2>1, <2>3 DEF Plain, w
<1>3. ASSUME NEW a \in Chars, a \notin Wide PROVE Append(s, a) \in Plain
  BY <1>2, <1>3 DEF Wide
<1>4. Append(Append(s, Slash), Blank) \in Plain
  <2> DEFINE v == Append(s, Slash)
  <2>1. Slash \notin Wide /\ Slash \in Chars /\ Blank \in Chars /\ Blank \notin {Newline, Return}
    BY CharsDiffer DEF Wide
  <2>2. v \in Plain
    BY <1>3, <2>1
  <2>3. v # <<>> /\ v[Len(v)] = Slash
    <3>1. v # <<>> /\ Len(v) = Len(s) + 1 /\ v[Len(s) + 1] = Slash
      BY <1>1, <2>1, AppendProperties
    <3>2. QED
      BY <3>1
  <2> HIDE DEF v
  <2>4. Append(v, Blank) \in Plain
    BY <1>2, <2>1, <2>2, <2>3
  <2>5. QED
    BY <2>4 DEF v
<1>5. QED
  BY <1>3, <1>4

LEMMA CodeBehind ==
  ASSUME NEW s \in Seq(Chars)
  PROVE  /\ s \o Code(Blank) = Append(Append(s, Slash), Blank)
         /\ s \o Code(Newline) = Append(Append(Append(s, Slash), Blank), "n")
         /\ s \o Code(Return) = Append(Append(Append(s, Slash), Blank), "r")
         /\ \A c \in Chars : c \notin Wide => s \o Code(c) = Append(s, c)
<1>1. /\ Code(Blank) = <<Slash, Blank>> /\ Code(Newline) = <<Slash, Blank, "n">>
      /\ Code(Return) = <<Slash, Blank, "r">>
      /\ \A c \in Chars : c \notin Wide => Code(c) = <<c>>
  BY CharsDiffer DEF Code, Wide
<1>2. Slash \in Chars /\ Blank \in Chars /\ "n" \in Chars /\ "r" \in Chars
  BY CharsDiffer
<1>3. s \o <<Slash, Blank>> = Append(Append(s, Slash), Blank)
  BY <1>2, SpelledBehind
<1>4. \A x \in {"n", "r"} : s \o <<Slash, Blank, x>> = Append(Append(Append(s, Slash), Blank), x)
  BY <1>2, SpelledBehind
<1>5. \A c \in Chars : s \o <<c>> = Append(s, c)
  BY SpelledBehind
<1>6. QED
  BY <1>1, <1>3, <1>4, <1>5

LEMMA EscapedShape ==
  \A d \in Seq(Chars) : Escaped(d) \in Plain /\ Weight(Escaped(d)) = Weight(d)
<1> DEFINE T == {d \in Seq(Chars) : Escaped(d) \in Plain /\ Weight(Escaped(d)) = Weight(d)}
<1>1. <<>> \in T
  <2>1. <<>> \in Plain /\ <<>> \in Seq(Chars)
    BY DEF Plain
  <2>2. QED
    BY <2>1, EscapedIs
<1>2. ASSUME NEW d \in T, NEW c \in Chars PROVE Append(d, c) \in T
  <2> DEFINE e == Escaped(d)
             f == Escaped(Append(d, c))
  <2>1. d \in Seq(Chars) /\ Append(d, c) \in Seq(Chars)
    OBVIOUS
  <2>2. f = e \o Code(c) /\ e \in Seq(Chars) /\ e \in Plain /\ Weight(e) = Weight(d)
    BY <2>1, EscapedIs
  <2> HIDE DEF e, f
  <2>3. /\ \A s \in Seq(Chars), a \in Chars : a \notin Wide => Weight(Append(s, a)) = Weight(s)
        /\ \A s \in Seq(Chars), a \in Chars : a \in Wide => Weight(Append(s, a)) = Weight(s) + 1
        /\ \A s \in Seq(Chars) : Weight(s) \in Nat
    BY WeightIs
  <2>4. /\ {Slash, Blank, Newline, Return, "n", "r"} \subseteq Chars
        /\ Blank \in Wide /\ Newline \in Wide /\ Return \in Wide
        /\ Slash \notin Wide /\ "n" \notin Wide /\ "r" \notin Wide
    BY CharsDiffer DEF Wide
  <2>5. PICK x : x = Append(Append(e, Slash), Blank)
    OBVIOUS
  <2>6. x \in Plain
    BY <2>2, <2>5, PlainAppend
  <2>7. x \in Seq(Chars) /\ Weight(x) = Weight(d) + 1
    <3>1. Append(e, Slash) \in Seq(Chars)
      BY <2>2, <2>4
    <3>2. x \in Seq(Chars)
      BY <2>6 DEF Plain
    <3>3. Weight(Append(e, Slash)) = Weight(d)
      BY <2>2, <2>3, <2>4
    <3>4. QED
      BY <2>3, <2>4, <2>5, <3>1, <3>2, <3>3
  <2>8. CASE c = Blank
    <3>1. f = x
      BY <2>2, <2>5, <2>8, CodeBehind
    <3>2. Weight(Append(d, c)) = Weight(d) + 1
      BY <2>1, <2>3, <2>4, <2>8
    <3>3. QED
      BY <2>1, <2>6, <2>7, <3>1, <3>2 DEF f
  <2>9. CASE c = Newline \/ c = Return
    <3>1. PICK a \in {"n", "r"} : f = Append(x, a)
      BY <2>2, <2>5, <2>9, CodeBehind
    <3>2. Append(x, a) \in Plain
      BY <2>4, <2>6, PlainAppend
    <3>3. Weight(Append(x, a)) = Weight(x)
      BY <2>3, <2>4, <2>7
    <3>4. Weight(Append(d, c)) = Weight(d) + 1
      BY <2>1, <2>3, <2>4, <2>9
    <3>5. QED
      BY <2>1, <2>7, <3>1, <3>2, <3>3, <3>4 DEF f
  <2>10. CASE c \notin Wide
    <3>1. f = Append(e, c)
      BY <2>2, <2>10, CodeBehind
    <3>2. f \in Plain
      BY <2>2, <2>10, <3>1, PlainAppend
    <3>3. Weight(f) = Weight(e) /\ Weight(Append(d, c)) = Weight(d)
      BY <2>1, <2>2, <2>3, <2>10, <3>1
    <3>4. QED
      BY <2>1, <2>2, <3>2, <3>3 DEF f
  <2>11. QED
    BY <2>8, <2>9, <2>10 DEF Wide
<1>3. T \in SUBSET Seq(Chars)
  OBVIOUS
<1> HIDE DEF T
<1>4. T = Seq(Chars)
  BY <1>1, <1>2, <1>3, InductSeq
<1>5. QED
  BY <1>4 DEF T

\* The three replacements of Unescaped.
Lines(v) == Substituted(v, <<Slash, Blank, "n">>, Newline)
Returns(v) == Substituted(v, <<Slash, Blank, "r">>, Return)
Blanks(v) == Substituted(v, <<Slash, Blank>>, Blank)

\* ... of one character more, and of one escape more.
LEMMA LinesIs ==
  ASSUME NEW v \in Seq(Chars)
  PROVE  /\ Lines(v) \in Seq(Chars)
         /\ \A a \in Chars : a # "n" \/ v = <<>> \/ v[Len(v)] # Blank =>
              Lines(Append(v, a)) = Append(Lines(v), a)
         /\ Lines(Append(Append(Append(v, Slash), Blank), "n")) = Append(Lines(v), Newline)
<1> DEFINE p == <<Slash, Blank, "n">>
<1>1. p \in Patterns /\ Newline \in Chars
  BY CharsDiffer DEF Patterns
<1>2. ASSUME NEW a \in Chars, a # "n" \/ v = <<>> \/ v[Len(v)] # Blank
      PROVE  Lines(Append(v, a)) = Append(Lines(v), a)
  <2>1. ~Ends(Append(v, a), p)
    BY <1>1, <1>2, EndsLast
  <2>2. QED
    BY <1>1, <2>1, SubAppend DEF Lines
<1>3. Lines(v \o p) = Append(Lines(v), Newline)
  BY <1>1, SubPattern DEF Lines
<1>4. v \o p = Append(Append(Append(v, Slash), Blank), "n")
  BY CharsDiffer, SpelledBehind
<1>5. Lines(v) \in Seq(Chars)
  BY <1>1, SubType DEF Lines
<1>6. QED
  BY <1>2, <1>3, <1>4, <1>5

LEMMA ReturnsIs ==
  ASSUME NEW v \in Seq(Chars)
  PROVE  /\ Returns(v) \in Seq(Chars)
         /\ \A a \in Chars : a # "r" \/ v = <<>> \/ v[Len(v)] # Blank =>
              Returns(Append(v, a)) = Append(Returns(v), a)
         /\ Returns(Append(Append(Append(v, Slash), Blank), "r")) = Append(Returns(v), Return)
<1> DEFINE p == <<Slash, Blank, "r">>
<1>1. p \in Patterns /\ Return \in Chars
  BY CharsDiffer DEF Patterns
<1>2. ASSUME NEW a \in Chars, a # "r" \/ v = <<>> \/ v[Len(v)] # Blank
      PROVE  Returns(Append(v, a)) = Append(Returns(v), a)
  <2>1. ~Ends(Append(v, a), p)
    BY <1>1, <1>2, EndsLast
  <2>2. QED
    BY <1>1, <2>1, SubAppend DEF Returns
<1>3. Returns(v \o p) = Append(Returns(v), Return)
  BY <1>1, SubPattern DEF Returns
<1>4. v \o p = Append(Append(Append(v, Slash), Blank), "r")
  BY CharsDiffer, SpelledBehind
<1>5. Returns(v) \in Seq(Chars)
  BY <1>1, SubType DEF Returns
<1>6. QED
  BY <1>2, <1>3, <1>4, <1>5

LEMMA BlanksIs ==
  ASSUME NEW v \in Seq(Chars)
  PROVE  /\ Blanks(v) \in Seq(Chars)
         /\ \A a \in Chars : a # Blank => Blanks(Append(v, a)) = Append(Blanks(v), a)
         /\ Blanks(Append(Append(v, Slash), Blank)) = Append(Blanks(v), Blank)
<1> DEFINE p == <<Slash, Blank>>
<1>1. p \in Patterns /\ Blank \in Chars
  BY CharsDiffer DEF Patterns
<1>2. ASSUME NEW a \in Chars, a # Blank
      PROVE  Blanks(Append(v, a)) = Append(Blanks(v), a)
  <2>1. ~Ends(Append(v, a), p)
    BY <1>1, <1>2, EndsLast
  <2>2. QED
    BY <1>1, <2>1, SubAppend DEF Blanks
<1>3. Blanks(v \o p) = Append(Blanks(v), Blank)
  BY <1>1, SubPattern DEF Blanks
<1>4. v \o p = Append(Append(v, Slash), Blank)
  BY CharsDiffer, SpelledBehind
<1>5. Blanks(v) \in Seq(Chars)
  BY <1>1, SubType DEF Blanks
<1>6. QED
  BY <1>2, <1>3, <1>4, <1>5

\* What the escapes of d are turned into, one replacement after the other; and what is
\* unescaped as a whole has not become longer, and is d exactly if d is unambiguous.
Decodes(d, e, x, y, z) ==
  /\ e \in Seq(Chars) /\ x = Lines(e) /\ y = Returns(x) /\ z = Blanks(y)
  /\ e = <<>> \/ e[Len(e)] # Blank \/ d[Len(d)] = Blank
  /\ x = <<>> \/ x[Len(x)] # Blank \/ d[Len(d)] = Blank
  /\ d # <<>> /\ d[Len(d)] = Blank =>
       \E u \in Seq(Chars) : e = Append(Append(u, Slash), Blank)
  /\ d = <<>> => e = <<>> /\ x = <<>>
  /\ Len(z) <= Len(d)
  /\ Unambiguous(d) => z = d
  /\ ~Unambiguous(d) => Len(z) < Len(d)

LEMMA UnambiguousAppend ==
  ASSUME NEW d \in Seq(Chars), NEW c \in Chars
  PROVE  Unambiguous(Append(d, c)) <=>
           Unambiguous(d) /\ (d = <<>> \/ d[Len(d)] # Blank \/ c \notin {"n", "r"})
<1> DEFINE f == Append(d, c)
           l == Len(d)
<1>1. /\ f \in Seq(Chars) /\ Len(f) = l + 1 /\ f[l + 1] = c /\ l \in Nat
      /\ \A i \in 1 .. l : f[i] = d[i]
  BY AppendProperties
<1>2. d = <<>> <=> l = 0
  OBVIOUS
<1> HIDE DEF f, l
<1>3. ASSUME Unambiguous(f) PROVE Unambiguous(d) /\ (d = <<>> \/ d[l] # Blank \/ c \notin {"n", "r"})
  <2>1. \A i \in 1 .. l : f[i] = Blank => f[i + 1] \notin {"n", "r"}
    BY <1>1, <1>3 DEF Unambiguous
  <2>2. ASSUME NEW i \in 1 .. l - 1, d[i] = Blank PROVE d[i + 1] \notin {"n", "r"}
    <3>1. i \in 1 .. l /\ i + 1 \in 1 .. l
      BY <1>1
    <3>2. QED
      BY <1>1, <2>1, <2>2, <3>1
  <2>3. ASSUME d # <<>>, d[l] = Blank PROVE c \notin {"n", "r"}
    <3>1. l \in 1 .. l
      BY <1>1, <1>2, <2>3
    <3>2. QED
      BY <1>1, <2>1, <2>3, <3>1
  <2>4. QED
    BY <2>2, <2>3 DEF Unambiguous, l
<1>4. ASSUME Unambiguous(d), d = <<>> \/ d[l] # Blank \/ c \notin {"n", "r"} PROVE Unambiguous(f)
  <2>1. \A i \in 1 .. l - 1 : d[i] = Blank => d[i + 1] \notin {"n", "r"}
    BY <1>4 DEF Unambiguous, l
  <2>2. ASSUME NEW i \in 1 .. l, f[i] = Blank PROVE f[i + 1] \notin {"n", "r"}
    <3>1. CASE i = l
      <4>1. l # 0
        BY <1>1
      <4>2. QED
        BY <1>1, <1>2, <1>4, <2>2, <3>1, <4>1
    <3>2. CASE i # l
      <4>1. i \in 1 .. l - 1 /\ i + 1 \in 1 .. l
        BY <1>1, <3>2
      <4>2. QED
        BY <1>1, <2>1, <2>2, <4>1
    <3>3. QED
      BY <3>1, <3>2
  <2>3. Len(f) - 1 = l
    BY <1>1
  <2>4. QED
    BY <2>2, <2>3 DEF Unambiguous
<1>5. QED
  BY <1>3, <1>4 DEF f, l

\* ... which stays so when each of the five grows by a character of its own, or, if the
\* text becomes ambiguous, only its length does.
LEMMA DecodesNext ==
  ASSUME NEW d \in Seq(Chars), NEW c \in Chars, NEW e \in Seq(Chars), NEW x, NEW y, NEW z,
         Decodes(d, e, x, y, z),
         NEW f \in Seq(Chars), NEW k, NEW m, NEW n,
         k = Lines(f), m = Returns(k), n = Blanks(m),
         c = Blank \/ (f # <<>> /\ f[Len(f)] # Blank /\ k # <<>> /\ k[Len(k)] # Blank),
         c = Blank => \E u \in Seq(Chars) : f = Append(Append(u, Slash), Blank),
         \/ n = Append(z, c) /\ (d = <<>> \/ d[Len(d)] # Blank \/ c \notin {"n", "r"})
         \/ Len(n) = Len(z) /\ d # <<>> /\ d[Len(d)] = Blank /\ c \in {"n", "r"}
  PROVE  Decodes(Append(d, c), f, k, m, n)
<1> DEFINE a == Append(d, c)
<1>1. a \in Seq(Chars) /\ a # <<>> /\ a[Len(a)] = c /\ Len(a) = Len(d) + 1 /\ Len(d) \in Nat
  BY AppendProperties
<1>2. Unambiguous(a) <=> Unambiguous(d) /\ (d = <<>> \/ d[Len(d)] # Blank \/ c \notin {"n", "r"})
  BY UnambiguousAppend
<1> HIDE DEF a
<1>3. /\ z \in Seq(Chars) /\ Len(z) <= Len(d) /\ Len(z) \in Nat /\ (Unambiguous(d) => z = d)
      /\ ~Unambiguous(d) => Len(z) < Len(d)
  <2>1. e \in Seq(Chars) /\ x \in Seq(Chars) /\ y \in Seq(Chars) /\ z \in Seq(Chars)
    BY LinesIs, ReturnsIs, BlanksIs DEF Decodes
  <2>2. Len(z) \in Nat
    BY <2>1, LenProperties
  <2>3. QED
    BY <2>1, <2>2, Zenon DEF Decodes
<1>4. /\ Len(n) <= Len(a) /\ (Unambiguous(a) => n = a)
      /\ ~Unambiguous(a) => Len(n) < Len(a)
  <2>1. CASE n = Append(z, c) /\ (d = <<>> \/ d[Len(d)] # Blank \/ c \notin {"n", "r"})
    <3>1. Len(n) = Len(z) + 1
      BY <1>3, <2>1, AppendProperties
    <3>2. Unambiguous(a) => n = a
      BY <1>2, <1>3, <2>1 DEF a
    <3>3. Unambiguous(a) <=> Unambiguous(d)
      BY <1>2, <2>1
    <3>4. QED
      BY <1>1, <1>3, <3>1, <3>2, <3>3
  <2>2. CASE Len(n) = Len(z) /\ d # <<>> /\ d[Len(d)] = Blank /\ c \in {"n", "r"}
    <3>1. ~Unambiguous(a)
      BY <1>2, <2>2
    <3>2. QED
      BY <1>1, <1>3, <2>2, <3>1
  <2>3. QED
    BY <2>1, <2>2
<1>5. QED
  BY <1>1, <1>4, Zenon DEF Decodes, a

LEMMA DecodesAll ==
  \A d \in Seq(Chars) : LET e == Escaped(d) IN
    Decodes(d, e, Lines(e), Returns(Lines(e)), Blanks(Returns(Lines(e))))
<1> DEFINE D(d) == LET e == Escaped(d) IN
                     Decodes(d, e, Lines(e), Returns(Lines(e)), Blanks(Returns(Lines(e))))
           T == {d \in Seq(Chars) : D(d)}
<1>1. <<>> \in T
  <2>1. Escaped(<<>>) = <<>> /\ <<>> \in Seq(Chars) /\ Len(<<>>) = 0
    BY EscapedIs
  <2>2. Lines(<<>>) = <<>> /\ Returns(<<>>) = <<>> /\ Blanks(<<>>) = <<>>
    BY CharsDiffer, SubEmpty DEF Lines, Returns, Blanks, Patterns
  <2>3. Unambiguous(<<>>)
    BY <2>1 DEF Unambiguous
  <2>4. Decodes(<<>>, <<>>, <<>>, <<>>, <<>>)
    <3>1. 0 <= 0
      OBVIOUS
    <3>2. QED
      BY <2>1, <2>2, <2>3, <3>1, Zenon DEF Decodes
  <2>a. D(<<>>)
    BY <2>1, <2>2, <2>4
  <2>5. QED
    BY <2>1, <2>a
<1>2. ASSUME NEW d \in T, NEW c \in Chars PROVE Append(d, c) \in T
  <2> DEFINE e == Escaped(d)
             x == Lines(e)
             y == Returns(x)
             z == Blanks(y)
             f == Escaped(Append(d, c))
  <2>1. /\ d \in Seq(Chars) /\ Append(d, c) \in Seq(Chars) /\ Decodes(d, e, x, y, z)
        /\ e \in Seq(Chars) /\ f \in Seq(Chars) /\ f = e \o Code(c)
    <3>1. d \in Seq(Chars) /\ Append(d, c) \in Seq(Chars) /\ D(d)
      OBVIOUS
    <3>2. Decodes(d, e, x, y, z)
      BY <3>1
    <3>3. QED
      BY <3>1, <3>2, EscapedIs
  <2>2. x \in Seq(Chars) /\ y \in Seq(Chars) /\ z \in Seq(Chars)
    BY <2>1, LinesIs, ReturnsIs, BlanksIs
  <2>3. x = Lines(e) /\ y = Returns(x) /\ z = Blanks(y)
    OBVIOUS
  <2>4. D(Append(d, c)) <=> Decodes(Append(d, c), f, Lines(f), Returns(Lines(f)), Blanks(Returns(Lines(f))))
    OBVIOUS
  <2> HIDE DEF D, e, x, y, z, f
  <2>5. SUFFICES Decodes(Append(d, c), f, Lines(f), Returns(Lines(f)), Blanks(Returns(Lines(f))))
    BY <2>1, <2>4
  <2>6. \A s \in Seq(Chars), a \in Chars :
          Append(s, a) \in Seq(Chars) /\ Append(s, a) # <<>> /\ Append(s, a)[Len(Append(s, a))] = a
    BY AppendProperties
  <2>7. d = <<>> \/ d[Len(d)] # Blank => /\ e = <<>> \/ e[Len(e)] # Blank
                                         /\ x = <<>> \/ x[Len(x)] # Blank
    BY <2>1, Zenon DEF Decodes
  <2>8. CASE c = Blank
    <3>1. f = Append(Append(e, Slash), Blank)
      BY <2>1, <2>8, CodeBehind
    <3>2. Lines(f) = Append(Append(x, Slash), Blank)
      <4>1. Append(e, Slash) \in Seq(Chars)
        BY <2>1, <2>6, CharsDiffer
      <4>2. Lines(Append(e, Slash)) = Append(x, Slash)
        BY <2>1, <2>3, CharsDiffer, LinesIs
      <4>3. Lines(Append(Append(e, Slash), Blank)) = Append(Lines(Append(e, Slash)), Blank)
        BY <4>1, CharsDiffer, LinesIs
      <4>4. QED
        BY <3>1, <4>2, <4>3
    <3>3. Returns(Lines(f)) = Append(Append(y, Slash), Blank)
      <4>1. Append(x, Slash) \in Seq(Chars)
        BY <2>2, <2>6, CharsDiffer
      <4>2. Returns(Append(x, Slash)) = Append(y, Slash)
        BY <2>2, <2>3, CharsDiffer, ReturnsIs
      <4>3. Returns(Append(Append(x, Slash), Blank)) = Append(Returns(Append(x, Slash)), Blank)
        BY <4>1, CharsDiffer, ReturnsIs
      <4>4. QED
        BY <3>2, <4>2, <4>3
    <3>4. Blanks(Returns(Lines(f))) = Append(z, c)
      BY <2>2, <2>3, <2>8, <3>3, BlanksIs
    <3>5. \E u \in Seq(Chars) : f = Append(Append(u, Slash), Blank)
      BY <2>1, <3>1
    <3>6. c \notin {"n", "r"}
      BY <2>8, CharsDiffer
    <3>7. QED
      BY <2>1, <2>8, <3>4, <3>5, <3>6, DecodesNext
  <2>9. CASE c = Newline
    <3>1. f = Append(Append(Append(e, Slash), Blank), "n")
      BY <2>1, <2>9, CodeBehind
    <3>2. Lines(f) = Append(x, Newline)
      BY <2>1, <2>3, <3>1, LinesIs
    <3>3. Returns(Lines(f)) = Append(y, Newline)
      BY <2>2, <2>3, <3>2, CharsDiffer, ReturnsIs
    <3>4. Blanks(Returns(Lines(f))) = Append(z, c)
      BY <2>2, <2>3, <2>9, <3>3, CharsDiffer, BlanksIs
    <3>5. f # <<>> /\ f[Len(f)] # Blank
      <4>1. Append(Append(e, Slash), Blank) \in Seq(Chars)
        BY <2>1, <2>6, CharsDiffer
      <4>2. QED
        BY <2>6, <3>1, <4>1, CharsDiffer
    <3>6. Lines(f) # <<>> /\ Lines(f)[Len(Lines(f))] # Blank
      BY <2>2, <2>6, <3>2, CharsDiffer
    <3>7. c \notin {"n", "r"} /\ c # Blank
      BY <2>9, CharsDiffer
    <3>8. QED
      BY <2>1, <3>4, <3>5, <3>6, <3>7, DecodesNext
  <2>10. CASE c = Return
    <3>1. f = Append(Append(Append(e, Slash), Blank), "r")
      BY <2>1, <2>10, CodeBehind
    <3>a. Append(e, Slash) \in Seq(Chars) /\ Append(Append(e, Slash), Blank) \in Seq(Chars)
      BY <2>1, <2>6, CharsDiffer
    <3>2. Lines(f) = Append(Append(Append(x, Slash), Blank), "r")
      <4>1. Lines(Append(e, Slash)) = Append(x, Slash)
        BY <2>1, <2>3, CharsDiffer, LinesIs
      <4>2. Lines(Append(Append(e, Slash), Blank)) = Append(Lines(Append(e, Slash)), Blank)
        BY <3>a, CharsDiffer, LinesIs
      <4>3. Lines(f) = Append(Lines(Append(Append(e, Slash), Blank)), "r")
        BY <3>1, <3>a, CharsDiffer, LinesIs
      <4>4. QED
        BY <4>1, <4>2, <4>3
    <3>3. Returns(Lines(f)) = Append(y, Return)
      BY <2>2, <2>3, <3>2, ReturnsIs
    <3>4. Blanks(Returns(Lines(f))) = Append(z, c)
      BY <2>2, <2>3, <2>10, <3>3, CharsDiffer, BlanksIs
    <3>5. f # <<>> /\ f[Len(f)] # Blank
      BY <2>6, <3>1, <3>a, CharsDiffer
    <3>6. Lines(f) # <<>> /\ Lines(f)[Len(Lines(f))] # Blank
      <4>1. Append(Append(x, Slash), Blank) \in Seq(Chars)
        BY <2>2, <2>6, CharsDiffer
      <4>2. QED
        BY <2>6, <3>2, <4>1, CharsDiffer
    <3>7. c \notin {"n", "r"} /\ c # Blank
      BY <2>10, CharsDiffer
    <3>8. QED
      BY <2>1, <3>4, <3>5, <3>6, <3>7, DecodesNext
  <2>11. CASE c \notin Wide /\ (d = <<>> \/ d[Len(d)] # Blank \/ c \notin {"n", "r"})
    <3>1. f = Append(e, c)
      BY <2>1, <2>11, CodeBehind
    <3>2. Lines(f) = Append(x, c)
      <4>1. c # "n" \/ e = <<>> \/ e[Len(e)] # Blank
        BY <2>7, <2>11
      <4>2. QED
        BY <2>1, <2>3, <3>1, <4>1, LinesIs
    <3>3. Returns(Lines(f)) = Append(y, c)
      <4>1. c # "r" \/ x = <<>> \/ x[Len(x)] # Blank
        BY <2>7, <2>11
      <4>2. QED
        BY <2>2, <2>3, <3>2, <4>1, ReturnsIs
    <3>4. c # Blank
      BY <2>11 DEF Wide
    <3>5. Blanks(Returns(Lines(f))) = Append(z, c)
      BY <2>2, <2>3, <3>3, <3>4, BlanksIs
    <3>6. f # <<>> /\ f[Len(f)] # Blank /\ Lines(f) # <<>> /\ Lines(f)[Len(Lines(f))] # Blank
      <4>1. \A s \in Seq(Chars) : Append(s, c) # <<>> /\ Append(s, c)[Len(Append(s, c))] # Blank
        BY <2>6, <3>4
      <4>2. QED
        BY <2>1, <2>2, <3>1, <3>2, <4>1, Zenon
    <3>7. QED
      BY <2>1, <2>11, <3>4, <3>5, <3>6, DecodesNext
  <2>12. CASE d # <<>> /\ d[Len(d)] = Blank /\ c \in {"n", "r"}
    <3>1. PICK u \in Seq(Chars) : e = Append(Append(u, Slash), Blank)
      BY <2>1, <2>12, Zenon DEF Decodes
    <3>2. PICK v : v = Lines(u)
      OBVIOUS
    <3>3. PICK w : w = Returns(v)
      OBVIOUS
    <3>4. v \in Seq(Chars) /\ w \in Seq(Chars)
      BY <3>2, <3>3, LinesIs, ReturnsIs
    <3>5. c # Blank /\ c \notin Wide /\ "n" \in Chars /\ "r" \in Chars /\ Slash \in Chars /\ Blank \in Chars
          /\ Newline \in Chars /\ Return \in Chars
      BY <2>12, CharsDiffer DEF Wide
    <3>6. f = Append(e, c)
      BY <2>1, <3>5, CodeBehind
    <3>7. x = Append(Append(v, Slash), Blank)
      <4>1. Append(u, Slash) \in Seq(Chars)
        BY <2>6, <3>5
      <4>2. Lines(Append(u, Slash)) = Append(v, Slash)
        BY <3>2, CharsDiffer, LinesIs
      <4>3. Lines(Append(Append(u, Slash), Blank)) = Append(Lines(Append(u, Slash)), Blank)
        BY <4>1, CharsDiffer, LinesIs
      <4>4. QED
        BY <2>3, <3>1, <4>2, <4>3
    <3>8. y = Append(Append(w, Slash), Blank)
      <4>1. Append(v, Slash) \in Seq(Chars)
        BY <2>6, <3>4, <3>5
      <4>2. Returns(Append(v, Slash)) = Append(w, Slash)
        BY <3>3, <3>4, CharsDiffer, ReturnsIs
      <4>3. Returns(Append(Append(v, Slash), Blank)) = Append(Returns(Append(v, Slash)), Blank)
        BY <4>1, CharsDiffer, ReturnsIs
      <4>4. QED
        BY <2>3, <3>7, <4>2, <4>3
    <3>9. z = Append(Blanks(w), Blank) /\ Blanks(w) \in Seq(Chars)
      BY <2>3, <3>4, <3>8, BlanksIs
    <3>10. f # <<>> /\ f[Len(f)] # Blank
      BY <2>1, <2>6, <3>5, <3>6
    <3>11. CASE c = "n"
      <4>1. Lines(f) = Append(v, Newline)
        BY <3>1, <3>2, <3>6, <3>11, LinesIs
      <4>2. Returns(Lines(f)) = Append(w, Newline)
        BY <3>3, <3>4, <4>1, CharsDiffer, ReturnsIs
      <4>3. Blanks(Returns(Lines(f))) = Append(Blanks(w), Newline)
        BY <3>4, <4>2, CharsDiffer, BlanksIs
      <4>4. Len(Blanks(Returns(Lines(f)))) = Len(z)
        BY <3>5, <3>9, <4>3, AppendProperties
      <4>5. Lines(f) # <<>> /\ Lines(f)[Len(Lines(f))] # Blank
        BY <2>6, <3>4, <4>1, CharsDiffer
      <4>6. QED
        BY <2>1, <2>12, <3>5, <3>10, <4>4, <4>5, DecodesNext
    <3>12. CASE c = "r"
      <4>1. Lines(f) = Append(x, c)
        BY <2>1, <2>3, <3>6, <3>12, CharsDiffer, LinesIs
      <4>2. Returns(Lines(f)) = Append(w, Return)
        BY <3>3, <3>4, <3>7, <3>12, <4>1, ReturnsIs
      <4>3. Blanks(Returns(Lines(f))) = Append(Blanks(w), Return)
        BY <3>4, <4>2, CharsDiffer, BlanksIs
      <4>4. Len(Blanks(Returns(Lines(f)))) = Len(z)
        BY <3>5, <3>9, <4>3, AppendProperties
      <4>5. Lines(f) # <<>> /\ Lines(f)[Len(Lines(f))] # Blank
        <5>1. \A s \in Seq(Chars) : Append(s, c) # <<>> /\ Append(s, c)[Len(Append(s, c))] # Blank
          BY <2>6, <3>5
        <5>2. QED
          BY <2>2, <4>1, <5>1, Zenon
      <4>6. QED
        BY <2>1, <2>12, <3>5, <3>10, <4>4, <4>5, DecodesNext
    <3>13. QED
      BY <2>12, <3>11, <3>12
  <2>13. QED
    BY <2>8, <2>9, <2>10, <2>11, <2>12, CharsDiffer DEF Wide
<1>3. T \in SUBSET Seq(Chars)
  OBVIOUS
<1>4. QED
  <2> HIDE DEF T
  <2>1. T = Seq(Chars)
    BY <1>1, <1>2, <1>3, InductSeq
  <2>2. QED
    BY <2>1 DEF T

\* What is escaped and unescaped as a whole is what it was exactly if it is unambiguous.
LEMMA RoundTrip ==
  ASSUME NEW d \in Seq(Chars)
  PROVE  Unescaped(Escaped(d)) = d <=> Unambiguous(d)
<1> DEFINE e == Escaped(d)
           z == Blanks(Returns(Lines(e)))
<1>1. Decodes(d, e, Lines(e), Returns(Lines(e)), z)
  BY DecodesAll
<1>2. Unescaped(e) = z
  BY DEF Unescaped, Blanks, Returns, Lines
<1> HIDE DEF e, z
<1>3. (Unambiguous(d) => z = d) /\ (~Unambiguous(d) => Len(z) < Len(d))
  BY <1>1, Zenon DEF Decodes
<1>4. QED
  BY <1>2, <1>3, LenProperties DEF e
-----------------------------------------------------------------------------
(* The words of a command *)

\* The characters of p at the places in t.
Kept(p, t) == FlattenSeq([i \in 1 .. Len(p) |-> IF i \in t THEN <<p[i]>> ELSE <<>>])

LEMMA KeptAppend ==
  ASSUME NEW t, NEW p \in Seq(Chars)
  PROVE  /\ Kept(<<>>, t) = <<>> /\ Kept(p, t) \in Seq(Chars)
         /\ \A c \in Chars : Kept(Append(p, c), t) =
              IF Len(p) + 1 \in t THEN Append(Kept(p, t), c) ELSE Kept(p, t)
<1> DEFINE M(s) == [i \in 1 .. Len(s) |-> IF i \in t THEN <<s[i]>> ELSE <<>>]
<1>1. ASSUME NEW s \in Seq(Chars)
      PROVE  /\ M(s) \in Seq(Seq(Chars)) /\ Len(M(s)) = Len(s) /\ Kept(s, t) = FlattenSeq(M(s))
             /\ \A i \in 1 .. Len(s) : M(s)[i] = IF i \in t THEN <<s[i]>> ELSE <<>>
  <2>1. \A i \in 1 .. Len(s) : s[i] \in Chars
    OBVIOUS
  <2>2. \A c \in Chars : <<c>> \in Seq(Chars) /\ <<>> \in Seq(Chars)
    OBVIOUS
  <2>3. \A i \in 1 .. Len(s) : (IF i \in t THEN <<s[i]>> ELSE <<>>) \in Seq(Chars)
    BY <2>1, <2>2
  <2>4. QED
    BY <2>3, LenProperties DEF Kept
<1>2. Kept(<<>>, t) = <<>>
  <2> DEFINE x == M(<<>>)
  <2>0. <<>> \in Seq(Chars) /\ Len(<<>>) = 0
    OBVIOUS
  <2>1. x \in Seq(Seq(Chars)) /\ Len(x) = 0 /\ Kept(<<>>, t) = FlattenSeq(x)
    BY <1>1, <2>0, Zenon
  <2> HIDE DEF x
  <2>2. x = <<>>
    BY <2>1
  <2>3. QED
    BY <2>1, <2>2, FlattenEmpty
<1>3. ASSUME NEW c \in Chars
      PROVE  Kept(Append(p, c), t) = IF Len(p) + 1 \in t THEN Append(Kept(p, t), c) ELSE Kept(p, t)
  <2> DEFINE q == Append(p, c)
             l == Len(p)
             h == IF l + 1 \in t THEN <<c>> ELSE <<>>
             x == M(q)
             y == M(p)
             z == Append(y, h)
  <2>1. q \in Seq(Chars) /\ Len(q) = l + 1 /\ q[l + 1] = c /\ l \in Nat /\ \A i \in 1 .. l : q[i] = p[i]
    BY AppendProperties
  <2>2. /\ x \in Seq(Seq(Chars)) /\ Len(x) = l + 1 /\ Kept(q, t) = FlattenSeq(x)
        /\ \A i \in 1 .. l + 1 : x[i] = IF i \in t THEN <<q[i]>> ELSE <<>>
    BY <1>1, <2>1
  <2>3. /\ y \in Seq(Seq(Chars)) /\ Len(y) = l /\ Kept(p, t) = FlattenSeq(y)
        /\ \A i \in 1 .. l : y[i] = IF i \in t THEN <<p[i]>> ELSE <<>>
    BY <1>1
  <2>4. h \in Seq(Chars)
    OBVIOUS
  <2> HIDE DEF q, l, x, y, M
  <2>5. x[l + 1] = h
    BY <2>1, <2>2
  <2> HIDE DEF h
  <2>6. z \in Seq(Seq(Chars)) /\ Len(z) = l + 1 /\ z[l + 1] = h /\ \A i \in 1 .. l : z[i] = y[i]
    BY <2>3, <2>4, AppendProperties
  <2> HIDE DEF z
  <2>7. \A i \in 1 .. l + 1 : x[i] = z[i]
    <3>1. ASSUME NEW i \in 1 .. l PROVE x[i] = y[i]
      <4>1. i \in 1 .. l + 1 /\ q[i] = p[i]
        BY <2>1
      <4>2. x[i] = (IF i \in t THEN <<q[i]>> ELSE <<>>) /\ y[i] = (IF i \in t THEN <<p[i]>> ELSE <<>>)
        BY <2>2, <2>3, <4>1
      <4>3. QED
        BY <4>1, <4>2
    <3>2. QED
      BY <2>1, <2>5, <2>6, <3>1
  <2>8. x = z
    BY <2>1, <2>2, <2>6, <2>7
  <2>9. Kept(q, t) = Kept(p, t) \o h
    BY <2>2, <2>3, <2>4, <2>8, FlattenAppend DEF z
  <2>10. Kept(p, t) \in Seq(Chars)
    BY <2>3, FlattenType
  <2>11. Kept(p, t) \o <<c>> = Append(Kept(p, t), c) /\ Kept(p, t) \o <<>> = Kept(p, t)
    BY <2>10, AppendIsConcat
  <2>12. QED
    BY <2>9, <2>11 DEF h, q, l
<1>4. Kept(p, t) \in Seq(Chars)
  BY <1>1, FlattenType
<1>5. QED
  BY <1>2, <1>3, <1>4

LEMMA KeptIs ==
  ASSUME NEW t
  PROVE  \A p \in Seq(Chars) :
           /\ (\A i \in 1 .. Len(p) : i \in t) => Kept(p, t) = p
           /\ Weight(Kept(p, t)) <= Weight(p)
           /\ (\E i \in 1 .. Len(p) : i \notin t /\ p[i] = Blank) => Weight(Kept(p, t)) < Weight(p)
<1> DEFINE Q(p) == /\ (\A i \in 1 .. Len(p) : i \in t) => Kept(p, t) = p
                   /\ Weight(Kept(p, t)) <= Weight(p)
                   /\ (\E i \in 1 .. Len(p) : i \notin t /\ p[i] = Blank) =>
                        Weight(Kept(p, t)) < Weight(p)
           T == {p \in Seq(Chars) : Q(p)}
<1>1. <<>> \in T
  <2>1. <<>> \in Seq(Chars) /\ Len(<<>>) = 0
    OBVIOUS
  <2>2. Kept(<<>>, t) = <<>> /\ Weight(<<>>) = 0
    BY <2>1, KeptAppend, WeightIs
  <2>3. QED
    BY <2>1, <2>2
<1>2. ASSUME NEW p \in T, NEW c \in Chars PROVE Append(p, c) \in T
  <2> DEFINE q == Append(p, c)
             l == Len(p)
             k == Kept(p, t)
             m == Kept(q, t)
             w == IF c \in Wide THEN 1 ELSE 0
  <2>1. p \in Seq(Chars) /\ Q(p)
    OBVIOUS
  <2>2. q \in Seq(Chars) /\ Len(q) = l + 1 /\ q[l + 1] = c /\ l \in Nat /\ \A i \in 1 .. l : q[i] = p[i]
    BY <2>1, AppendProperties
  <2>3. k \in Seq(Chars) /\ m = IF l + 1 \in t THEN Append(k, c) ELSE k
    BY <2>1, KeptAppend
  <2>4. /\ Weight(q) = Weight(p) + w /\ Weight(Append(k, c)) = Weight(k) + w
        /\ Weight(p) \in Nat /\ Weight(k) \in Nat
    BY <2>1, <2>3, WeightIs
  <2>5. w \in {0, 1} /\ (c = Blank => w = 1)
    BY DEF Wide
  <2>6. /\ (\A i \in 1 .. l : i \in t) => k = p
        /\ Weight(k) <= Weight(p)
        /\ (\E i \in 1 .. l : i \notin t /\ p[i] = Blank) => Weight(k) < Weight(p)
    BY <2>1
  <2>7. Q(q) <=> /\ (\A i \in 1 .. Len(q) : i \in t) => m = q
                 /\ Weight(m) <= Weight(q)
                 /\ (\E i \in 1 .. Len(q) : i \notin t /\ q[i] = Blank) => Weight(m) < Weight(q)
    OBVIOUS
  <2>a. q = Append(p, c)
    OBVIOUS
  <2> HIDE DEF q, l, k, m, w, Q
  <2>8. ASSUME \A i \in 1 .. l + 1 : i \in t PROVE m = q
    <3>1. l + 1 \in t /\ \A i \in 1 .. l : i \in t
      BY <2>2, <2>8
    <3>2. QED
      BY <2>3, <2>6, <2>a, <3>1
  <2>9. Weight(m) <= Weight(q)
    BY <2>3, <2>4, <2>5, <2>6
  <2>10. ASSUME NEW i \in 1 .. l + 1, i \notin t, q[i] = Blank PROVE Weight(m) < Weight(q)
    <3>1. CASE i = l + 1
      BY <2>2, <2>3, <2>4, <2>5, <2>6, <2>10, <3>1
    <3>2. CASE i # l + 1
      <4>1. i \in 1 .. l
        BY <2>2, <3>2
      <4>2. Weight(k) < Weight(p)
        BY <2>2, <2>6, <2>10, <4>1
      <4>3. QED
        BY <2>3, <2>4, <2>5, <4>2
    <3>3. QED
      BY <3>1, <3>2
  <2>11. Q(q)
    BY <2>2, <2>7, <2>8, <2>9, <2>10
  <2>12. QED
    BY <2>2, <2>11 DEF q
<1>3. T \in SUBSET Seq(Chars)
  OBVIOUS
<1>4. QED
  <2> HIDE DEF T
  <2>1. T = Seq(Chars)
    BY <1>1, <1>2, <1>3, InductSeq
  <2>2. QED
    BY <2>1 DEF T

\* The words of a text are the text itself if it has no blank at an end and no two in a
\* row, and have lost a blank if it has one at an end.
LEMMA JoinedIs ==
  ASSUME NEW p \in Seq(Chars)
  PROVE  /\ Joined(p) \in Seq(Chars) /\ Weight(Joined(p)) <= Weight(p)
         /\ (p # <<>> /\ p[1] # Blank /\ p[Len(p)] # Blank
              /\ \A i \in 2 .. Len(p) : p[i] = Blank => p[i - 1] # Blank) => Joined(p) = p
         /\ p # <<>> /\ Blank \in {p[1], p[Len(p)]} => Weight(Joined(p)) < Weight(p)
<1> DEFINE l == Len(p)
           word(i) == i \in 1 .. l /\ p[i] # Blank
           stays(i) == word(i) \/ (word(i + 1) /\ \E k \in 1 .. i : word(k))
           t == {i \in 1 .. l : stays(i)}
<1>1. l \in Nat /\ (p # <<>> => 1 <= l)
  OBVIOUS
<1>2. Joined(p) = Kept(p, t)
  <2>1. [i \in 1 .. l |-> IF stays(i) THEN <<p[i]>> ELSE <<>>]
        = [i \in 1 .. l |-> IF i \in t THEN <<p[i]>> ELSE <<>>]
    <3>1. \A i \in 1 .. l : stays(i) <=> i \in t
      OBVIOUS
    <3> HIDE DEF stays, t
    <3>2. QED
      BY <3>1
  <2>2. Joined(p) = FlattenSeq([i \in 1 .. l |-> IF stays(i) THEN <<p[i]>> ELSE <<>>])
    BY Zenon DEF Joined
  <2>3. QED
    BY <2>1, <2>2, Zenon DEF Kept
<1>3. ASSUME p # <<>>, p[1] # Blank, p[l] # Blank,
             \A i \in 2 .. l : p[i] = Blank => p[i - 1] # Blank
      PROVE  \A i \in 1 .. l : i \in t
  <2>1. ASSUME NEW i \in 1 .. l PROVE stays(i)
    <3>1. CASE p[i] # Blank
      BY <3>1
    <3>2. CASE p[i] = Blank
      <4>1. i + 1 \in 2 .. l /\ (i + 1) - 1 = i /\ 1 \in 1 .. i
        BY <1>1, <1>3, <3>2
      <4>2. p[i + 1] # Blank
        BY <1>3, <3>2, <4>1
      <4>3. word(i + 1) /\ word(1)
        BY <1>1, <1>3, <4>1, <4>2
      <4>4. QED
        BY <4>1, <4>3
    <3>3. QED
      BY <3>1, <3>2
  <2> HIDE DEF stays
  <2>2. QED
    BY <2>1
<1>4. ASSUME p # <<>>, Blank \in {p[1], p[l]}
      PROVE  \E i \in 1 .. l : i \notin t /\ p[i] = Blank
  <2>1. CASE p[1] = Blank
    <3>1. 1 \in 1 .. l /\ \A k \in 1 .. 1 : k = 1
      BY <1>1, <1>4
    <3>2. ~word(1)
      BY <2>1
    <3>3. ~stays(1)
      BY <3>1, <3>2
    <3>4. QED
      BY <2>1, <3>1, <3>3
  <2>2. CASE p[l] = Blank
    <3>1. l \in 1 .. l /\ l + 1 \notin 1 .. l
      BY <1>1, <1>4
    <3>2. ~stays(l)
      BY <2>2, <3>1
    <3>3. QED
      BY <2>2, <3>1, <3>2
  <2>3. QED
    BY <1>4, <2>1, <2>2
<1> HIDE DEF t
<1>5. Kept(p, t) \in Seq(Chars)
  BY KeptAppend
<1>6. /\ (\A i \in 1 .. Len(p) : i \in t) => Kept(p, t) = p
      /\ Weight(Kept(p, t)) <= Weight(p)
      /\ (\E i \in 1 .. Len(p) : i \notin t /\ p[i] = Blank) => Weight(Kept(p, t)) < Weight(p)
  BY KeptIs
<1>7. QED
  BY <1>2, <1>3, <1>4, <1>5, <1>6

-----------------------------------------------------------------------------
(* The pieces *)

LEMMA DividedBy ==
  ASSUME NEW a \in Nat, NEW q \in Nat \ {0}
  PROVE  /\ a \div q \in Nat /\ a % q \in 0 .. q - 1
         /\ a = q * (a \div q) + (a % q)
<1>1. a % q \in 0 .. q - 1
  BY SMT
<1>2. a \div q \in Int /\ a = q * (a \div q) + (a % q)
  BY SMT
<1>3. a \div q >= 0
  BY SMT
<1>4. QED
  BY <1>1, <1>2, <1>3

\* s is e cut at the places in h.
Cut(e, s, h) ==
  /\ h \in [0 .. Len(s) -> 0 .. Len(e)] /\ h[0] = 0 /\ h[Len(s)] = Len(e)
  /\ \A x \in 1 .. Len(s) : /\ h[x - 1] < h[x] /\ h[x] - h[x - 1] <= PieceSize
                            /\ s[x] = SubSeq(e, h[x - 1] + 1, h[x])

LEMMA PiecesAre ==
  ASSUME NEW e \in Seq(Chars)
  PROVE  Pieces(e) \in Seq(Seq(Chars)) /\ \E h : Cut(e, Pieces(e), h)
<1> DEFINE q == PieceSize
           l == Len(e)
           num == l \div q
           whole == [x \in 1 .. num |-> SubSeq(e, q * (x - 1) + 1, q * x)]
           rest == SubSeq(e, q * num + 1, l)
           s == Pieces(e)
<1>1. q \in Nat \ {0} /\ l \in Nat
  BY CodecAssumption
<1>2. num \in Nat /\ l % q \in 0 .. q - 1 /\ l = q * num + (l % q)
  BY <1>1, DividedBy
<1>3. \A i \in 1 .. l : e[i] \in Chars
  OBVIOUS
<1>4. s = IF l % q > 0 THEN Append(whole, rest) ELSE whole
  BY DEF Pieces
<1>5. \A x \in 1 .. num : whole[x] = SubSeq(e, q * (x - 1) + 1, q * x)
  OBVIOUS
<1>a. whole = [x \in 1 .. num |-> SubSeq(e, q * (x - 1) + 1, q * x)]
  OBVIOUS
<1>b. rest = SubSeq(e, q * num + 1, l)
  OBVIOUS
<1> HIDE DEF q, l, num, s, whole, rest
<1>6. ASSUME NEW x \in 1 .. num
      PROVE  /\ q * x \in 1 .. l /\ q * (x - 1) \in 0 .. l /\ q * x = q * (x - 1) + q
             /\ q * (x - 1) < q * x
  <2>1. q * x \in Nat /\ q * (x - 1) \in Nat /\ q * num \in Nat
    BY <1>1, <1>2
  <2>2. q * x = q * (x - 1) + q
    BY <1>1
  <2>3. q * (num - x) \in Nat
    <3>1. num - x \in Nat
      BY <1>2
    <3>2. QED
      BY <1>1, <3>1
  <2>4. q * num = q * (num - x) + q * x
    BY <1>1, <1>2
  <2>5. QED
    BY <1>1, <1>2, <2>1, <2>2, <2>3, <2>4
<1>7. whole \in Seq(Seq(Chars)) /\ Len(whole) = num
  <2>1. ASSUME NEW x \in 1 .. num PROVE SubSeq(e, q * (x - 1) + 1, q * x) \in Seq(Chars)
    <3>1. \A i \in q * (x - 1) + 1 .. q * x : i \in 1 .. l
      BY <1>1, <1>6
    <3>2. q * (x - 1) + 1 \in Int /\ q * x \in Int
      BY <1>1, <1>6
    <3>3. QED
      BY <1>3, <3>1, <3>2, SubSeqProperties
  <2>2. QED
    BY <1>2, <1>a, <2>1
<1>8. q * num \in Nat /\ q * num <= l
  BY <1>1, <1>2
<1>9. rest \in Seq(Chars)
  <2>1. \A i \in q * num + 1 .. l : i \in 1 .. l
    BY <1>1, <1>8
  <2>2. q * num + 1 \in Int /\ l \in Int
    BY <1>1, <1>8
  <2>3. QED
    BY <1>3, <1>b, <2>1, <2>2, SubSeqProperties
<1>10. CASE l % q = 0
  <2>1. s = whole
    BY <1>4, <1>10
  <2> DEFINE h == [x \in 0 .. num |-> q * x]
  <2>2. \A x \in 0 .. num : q * x \in 0 .. l
    <3>1. ASSUME NEW x \in 0 .. num PROVE q * x \in 0 .. l
      <4>1. CASE x = 0
        BY <1>1, <4>1
      <4>2. CASE x # 0
        <5>1. x \in 1 .. num
          BY <1>2, <4>2
        <5>2. QED
          BY <1>1, <1>6, <5>1
      <4>3. QED
        BY <4>1, <4>2
    <3>2. QED
      BY <3>1
  <2>3. h \in [0 .. num -> 0 .. l] /\ h[0] = 0 /\ h[num] = l /\ \A x \in 0 .. num : h[x] = q * x
    BY <1>1, <1>2, <1>10, <2>2
  <2> HIDE DEF h
  <2>4. ASSUME NEW x \in 1 .. num
        PROVE  h[x - 1] < h[x] /\ h[x] - h[x - 1] <= q /\ s[x] = SubSeq(e, h[x - 1] + 1, h[x])
    <3>1. x - 1 \in 0 .. num /\ x \in 0 .. num
      BY <1>2
    <3>2. h[x - 1] = q * (x - 1) /\ h[x] = q * x
      BY <2>3, <3>1
    <3>3. QED
      BY <1>1, <1>5, <1>6, <2>1, <3>2
  <2>5. Cut(e, s, h)
    BY <1>7, <2>1, <2>3, <2>4 DEF Cut, l, q
  <2>6. QED
    BY <1>7, <2>1, <2>5 DEF s
<1>11. CASE l % q > 0
  <2>1. s = Append(whole, rest)
    BY <1>4, <1>11
  <2>2. s \in Seq(Seq(Chars)) /\ Len(s) = num + 1 /\ s[num + 1] = rest /\ \A x \in 1 .. num : s[x] = whole[x]
    BY <1>7, <1>9, <2>1, AppendProperties
  <2> DEFINE h == [x \in 0 .. num + 1 |-> IF x <= num THEN q * x ELSE l]
  <2>3. \A x \in 0 .. num + 1 : (IF x <= num THEN q * x ELSE l) \in 0 .. l
    <3>1. ASSUME NEW x \in 0 .. num PROVE q * x \in 0 .. l
      <4>1. CASE x = 0
        BY <1>1, <4>1
      <4>2. CASE x # 0
        <5>1. x \in 1 .. num
          BY <1>2, <4>2
        <5>2. QED
          BY <1>1, <1>6, <5>1
      <4>3. QED
        BY <4>1, <4>2
    <3>2. l \in 0 .. l
      BY <1>1
    <3>3. QED
      BY <1>2, <3>1, <3>2
  <2>4. /\ h \in [0 .. num + 1 -> 0 .. l] /\ h[0] = 0 /\ h[num + 1] = l
        /\ \A x \in 0 .. num : h[x] = q * x
    <3>1. \A x \in 0 .. num + 1 : h[x] = IF x <= num THEN q * x ELSE l
      OBVIOUS
    <3>2. h \in [0 .. num + 1 -> 0 .. l]
      BY <2>3
    <3> HIDE DEF h
    <3>3. h[0] = 0
      BY <1>1, <1>2, <3>1
    <3>4. h[num + 1] = l
      BY <1>1, <1>2, <3>1
    <3>5. \A x \in 0 .. num : h[x] = q * x
      BY <1>1, <1>2, <3>1
    <3>6. QED
      BY <3>2, <3>3, <3>4, <3>5
  <2> HIDE DEF h
  <2>5. ASSUME NEW x \in 1 .. num + 1
        PROVE  h[x - 1] < h[x] /\ h[x] - h[x - 1] <= q /\ s[x] = SubSeq(e, h[x - 1] + 1, h[x])
    <3>1. CASE x \in 1 .. num
      <4>1. x - 1 \in 0 .. num /\ x \in 0 .. num
        BY <1>2, <3>1
      <4>2. h[x - 1] = q * (x - 1) /\ h[x] = q * x
        BY <2>4, <4>1
      <4>3. s[x] = SubSeq(e, q * (x - 1) + 1, q * x)
        BY <1>5, <2>2, <3>1
      <4>4. q * (x - 1) < q * x /\ q * x - q * (x - 1) <= q
        BY <1>1, <1>6, <3>1
      <4>5. QED
        BY <4>2, <4>3, <4>4
    <3>2. CASE x = num + 1
      <4>1. x - 1 = num /\ num \in 0 .. num
        BY <1>2, <3>2
      <4>2. h[x - 1] = q * num /\ h[x] = l /\ s[x] = rest
        BY <2>2, <2>4, <3>2, <4>1
      <4>3. q * num < l /\ l - q * num <= q
        BY <1>1, <1>2, <1>8, <1>11
      <4>4. QED
        BY <1>b, <4>2, <4>3
    <3>3. QED
      BY <1>2, <3>1, <3>2
  <2>6. Cut(e, s, h)
    BY <2>2, <2>4, <2>5 DEF Cut, l, q
  <2>7. QED
    BY <2>2, <2>6 DEF s
<1>12. QED
  BY <1>1, <1>2, <1>10, <1>11

\* The pieces of a text make up the text.
LEMMA PiecesWhole ==
  ASSUME NEW e \in Seq(Chars)
  PROVE  FlattenSeq(Pieces(e)) = e
<1> DEFINE s == Pieces(e)
           l == Len(s)
           n == Len(e)
<1>1. s \in Seq(Seq(Chars)) /\ l \in Nat /\ n \in Nat
  BY PiecesAre
<1>2. PICK h : Cut(e, s, h)
  BY PiecesAre
<1>a. FlattenSeq(Pieces(e)) = FlattenSeq(s) /\ s \in Seq(Seq(Chars))
  BY PiecesAre
<1>b. SubSeq(s, 1, l) = s /\ SubSeq(e, 1, n) = e
  BY <1>1, SubSeqFull
<1>c. Before(s, 0) = <<>> /\ \A k \in 1 .. l : Before(s, k) = Before(s, k - 1) \o s[k]
  <2>1. 0 \in 0 .. l
    BY <1>1
  <2>2. Before(s, 0) = <<>>
    BY <1>1, <2>1, PartsType
  <2>3. \A k \in 1 .. l : Before(s, k) = Before(s, k - 1) \o s[k]
    BY <1>1, PartsNext
  <2>4. QED
    BY <2>2, <2>3
<1>d. /\ h \in [0 .. l -> 0 .. n] /\ h[0] = 0 /\ h[l] = n
      /\ \A x \in 1 .. l : /\ h[x - 1] < h[x] /\ h[x] - h[x - 1] <= PieceSize
                           /\ s[x] = SubSeq(e, h[x - 1] + 1, h[x])
  BY <1>2 DEF Cut
<1>e. Before(s, l) = FlattenSeq(SubSeq(s, 1, l))
  BY DEF Before
<1> HIDE DEF s, l
<1> DEFINE T == {k \in Nat : k <= l => Before(s, k) = SubSeq(e, 1, h[k])}
<1>3. 0 \in T
  <2>1. SubSeq(e, 1, 0) = <<>>
    BY SubSeqEmpty
  <2>2. QED
    BY <1>c, <1>d, <2>1
<1>4. ASSUME NEW k \in T PROVE k + 1 \in T
  <2>1. SUFFICES ASSUME k + 1 <= l PROVE Before(s, k + 1) = SubSeq(e, 1, h[k + 1])
    OBVIOUS
  <2>2. k \in Nat /\ k + 1 \in 1 .. l /\ (k + 1) - 1 = k /\ Before(s, k) = SubSeq(e, 1, h[k])
    BY <1>1, <2>1
  <2>3. Before(s, k + 1) = Before(s, k) \o s[k + 1] /\ s[k + 1] = SubSeq(e, h[k] + 1, h[k + 1]) /\ h[k] < h[k + 1]
    BY <1>c, <1>d, <2>2
  <2>4. h[k] \in 0 .. n /\ h[k + 1] \in 0 .. n
    BY <1>1, <1>d, <2>2
  <2>5. 1 \in 1 .. Len(e) + 1 /\ h[k] \in 1 - 1 .. Len(e) /\ h[k + 1] \in h[k] .. Len(e)
    BY <1>1, <2>3, <2>4
  <2>6. SubSeq(e, 1, h[k]) \o SubSeq(e, h[k] + 1, h[k + 1]) = SubSeq(e, 1, h[k + 1])
    BY <2>5, ConcatAdjacentSubSeq
  <2>7. QED
    BY <2>2, <2>3, <2>6
<1>5. T \in SUBSET Nat
  OBVIOUS
<1> HIDE DEF T
<1>6. T = Nat
  BY <1>3, <1>4, <1>5, Induct
<1>7. Before(s, l) = SubSeq(e, 1, h[l])
  BY <1>1, <1>6 DEF T
<1>8. QED
  BY <1>7, <1>a, <1>b, <1>d, <1>e

\* What a piece of an escaped text is like.
Typed == {p \in Seq(Chars) : /\ p # <<>> /\ Len(p) <= PieceSize
                             /\ \A i \in 1 .. Len(p) : p[i] \notin {Newline, Return}
                             /\ \A i \in 2 .. Len(p) : p[i] = Blank => p[i - 1] # Blank}

LEMMA PiecesTyped ==
  ASSUME NEW e \in Plain
  PROVE  Pieces(e) \in Seq(Typed)
<1> DEFINE s == Pieces(e)
           n == Len(e)
<1>1. /\ e \in Seq(Chars) /\ n \in Nat
      /\ \A i \in 1 .. n : /\ e[i] \in Chars /\ e[i] \notin {Newline, Return}
                           /\ e[i] = Blank => 1 < i /\ e[i - 1] = Slash
  BY LenProperties, ElementOfSeq DEF Plain
<1>2. s \in Seq(Seq(Chars)) /\ Len(s) \in Nat
  BY <1>1, PiecesAre
<1>3. PICK h : Cut(e, s, h)
  BY <1>1, PiecesAre
<1>4. /\ h \in [0 .. Len(s) -> 0 .. n]
      /\ \A x \in 1 .. Len(s) : /\ h[x - 1] < h[x] /\ h[x] - h[x - 1] <= PieceSize
                                /\ s[x] = SubSeq(e, h[x - 1] + 1, h[x])
  BY <1>3 DEF Cut
<1> HIDE DEF s, n
<1>5. ASSUME NEW x \in 1 .. Len(s) PROVE s[x] \in Typed
  <2> DEFINE a == h[x - 1]
             b == h[x]
             p == s[x]
  <2>1. a \in 0 .. n /\ b \in 0 .. n /\ a < b /\ b - a <= PieceSize /\ p = SubSeq(e, a + 1, b)
    <3>1. x - 1 \in 0 .. Len(s) /\ x \in 0 .. Len(s)
      BY <1>2
    <3>2. QED
      BY <1>4, <3>1
  <2> HIDE DEF a, b, p
  <2>2. \A i \in a + 1 .. b : i \in 1 .. n /\ e[i] \in Chars
    BY <1>1, <2>1
  <2>3. /\ p \in Seq(Chars) /\ Len(p) = b - a
        /\ \A i \in 1 .. b - a : p[i] = e[a + i]
    <3>1. a + 1 \in Int /\ b \in Int /\ a + 1 <= b /\ b - (a + 1) + 1 = b - a
          /\ \A i \in 1 .. b - a : a + 1 + i - 1 = a + i
      BY <1>1, <2>1
    <3>2. /\ SubSeq(e, a + 1, b) \in Seq(Chars)
          /\ Len(SubSeq(e, a + 1, b)) = IF a + 1 <= b THEN b - (a + 1) + 1 ELSE 0
          /\ \A i \in 1 .. b - (a + 1) + 1 : SubSeq(e, a + 1, b)[i] = e[a + 1 + i - 1]
      BY <2>2, <3>1, SubSeqProperties
    <3>3. QED
      BY <2>1, <3>1, <3>2
  <2>4. p # <<>> /\ Len(p) <= PieceSize
    <3>1. b - a # 0 /\ Len(p) <= PieceSize
      BY <1>1, <2>1, <2>3
    <3>2. p # <<>>
      BY <2>3, <3>1
    <3>3. QED
      BY <3>1, <3>2
  <2>5. \A i \in 1 .. Len(p) : p[i] \notin {Newline, Return}
    <3>1. \A i \in 1 .. b - a : a + i \in 1 .. n
      BY <1>1, <2>1
    <3>2. QED
      BY <1>1, <2>3, <3>1
  <2>6. ASSUME NEW i \in 2 .. Len(p), p[i] = Blank PROVE p[i - 1] # Blank
    <3>1. i \in 1 .. b - a /\ i - 1 \in 1 .. b - a /\ a + i \in 1 .. n /\ a + (i - 1) = (a + i) - 1
      BY <1>1, <2>1, <2>3
    <3>2. p[i] = e[a + i] /\ p[i - 1] = e[(a + i) - 1]
      BY <2>3, <3>1
    <3>3. QED
      BY <1>1, <2>6, <3>1, <3>2, CharsDiffer
  <2>7. QED
    BY <2>3, <2>4, <2>5, <2>6 DEF Typed, p
<1>6. s \in [1 .. Len(s) -> Typed]
  <2>1. s \in [1 .. Len(s) -> Seq(Chars)]
    BY <1>2, LenProperties
  <2>2. QED
    BY <1>5, <2>1
<1>7. s \in Seq(Typed)
  BY <1>2, <1>6
<1>8. QED
  BY <1>7 DEF s

-----------------------------------------------------------------------------
(* What the plugin puts together *)

Heard(s) == FlattenSeq([x \in 1 .. Len(s) |-> Unescaped(Joined(s[x]))])

LEMMA HeardAppend ==
  ASSUME NEW s \in Seq(Typed)
  PROVE  /\ Heard(<<>>) = <<>> /\ Heard(s) \in Seq(Chars)
         /\ \A p \in Typed : /\ Unescaped(Joined(p)) \in Seq(Chars)
                             /\ Heard(Append(s, p)) = Heard(s) \o Unescaped(Joined(p))
<1> DEFINE H(p) == Unescaped(Joined(p))
           M(t) == [x \in 1 .. Len(t) |-> H(t[x])]
<1>1. \A p \in Typed : H(p) \in Seq(Chars)
  <2>1. \A p \in Typed : p \in Seq(Chars)
    BY DEF Typed
  <2>2. QED
    BY <2>1, JoinedIs, UnescapedIs
<1>2. \A t : Heard(t) = FlattenSeq(M(t))
  BY DEF Heard
<1> HIDE DEF H
<1>3. ASSUME NEW t \in Seq(Typed)
      PROVE  M(t) \in Seq(Seq(Chars)) /\ Len(M(t)) = Len(t) /\ \A x \in 1 .. Len(t) : M(t)[x] = H(t[x])
  <2>1. \A x \in 1 .. Len(t) : H(t[x]) \in Seq(Chars)
    BY <1>1
  <2>2. QED
    BY <2>1, LenProperties
<1>4. Heard(<<>>) = <<>>
  <2> DEFINE x == M(<<>>)
  <2>1. <<>> \in Seq(Typed) /\ Len(<<>>) = 0
    OBVIOUS
  <2>2. x \in Seq(Seq(Chars)) /\ Len(x) = 0 /\ Heard(<<>>) = FlattenSeq(x)
    BY <1>2, <1>3, <2>1, Zenon
  <2> HIDE DEF x
  <2>3. x = <<>>
    BY <2>2
  <2>4. QED
    BY <2>2, <2>3, FlattenEmpty
<1>5. ASSUME NEW p \in Typed
      PROVE  Heard(Append(s, p)) = Heard(s) \o H(p)
  <2> DEFINE t == Append(s, p)
             l == Len(s)
             x == M(t)
             y == M(s)
             z == Append(y, H(p))
  <2>1. t \in Seq(Typed) /\ Len(t) = l + 1 /\ t[l + 1] = p /\ l \in Nat /\ \A i \in 1 .. l : t[i] = s[i]
    BY AppendProperties
  <2>2. x \in Seq(Seq(Chars)) /\ Len(x) = l + 1 /\ \A i \in 1 .. l + 1 : x[i] = H(t[i])
    BY <1>3, <2>1
  <2>3. y \in Seq(Seq(Chars)) /\ Len(y) = l /\ \A i \in 1 .. l : y[i] = H(s[i])
    BY <1>3
  <2>4. Heard(t) = FlattenSeq(x) /\ Heard(s) = FlattenSeq(y)
    BY <1>2
  <2> HIDE DEF t, l, x, y, M
  <2>5. z \in Seq(Seq(Chars)) /\ Len(z) = l + 1 /\ z[l + 1] = H(p) /\ \A i \in 1 .. l : z[i] = y[i]
    BY <1>1, <2>3, AppendProperties
  <2> HIDE DEF z
  <2>6. \A i \in 1 .. l + 1 : x[i] = z[i]
    <3>1. ASSUME NEW i \in 1 .. l PROVE x[i] = z[i]
      <4>1. i \in 1 .. l + 1
        BY <2>1
      <4>2. QED
        BY <2>1, <2>2, <2>3, <2>5, <4>1
    <3>2. l + 1 \in 1 .. l + 1 /\ x[l + 1] = H(p)
      BY <2>1, <2>2
    <3>3. QED
      BY <2>1, <2>5, <3>1, <3>2
  <2>7. x = z
    BY <2>1, <2>2, <2>5, <2>6
  <2>8. QED
    BY <1>1, <2>3, <2>4, <2>7, FlattenAppend DEF z, t
<1>6. Heard(s) \in Seq(Chars)
  BY <1>2, <1>3, FlattenType
<1>7. QED
  BY <1>1, <1>4, <1>5, <1>6 DEF H

\* Nothing at the ends of a piece gets lost.
Clean(p) == Blank \notin {p[1], p[Len(p)]}

\* Clean pieces are unescaped like the whole; of others, something is lost.
LEMMA HeardIs ==
  \A s \in Seq(Typed) :
    /\ (\A x \in 1 .. Len(s) : Clean(s[x])) => Heard(s) = Unescaped(FlattenSeq(s))
    /\ (\E x \in 1 .. Len(s) : ~Clean(s[x])) => Weight(Heard(s)) < Weight(FlattenSeq(s))
<1> DEFINE F(s) == FlattenSeq(s)
           Q(s) == /\ (\A x \in 1 .. Len(s) : Clean(s[x])) =>
                        /\ Heard(s) = Unescaped(F(s))
                        /\ F(s) = <<>> \/ F(s)[Len(F(s))] # Blank
                   /\ Weight(Heard(s)) <= Weight(F(s))
                   /\ (\E x \in 1 .. Len(s) : ~Clean(s[x])) => Weight(Heard(s)) < Weight(F(s))
           T == {s \in Seq(Typed) : Q(s)}
<1>1. <<>> \in T
  <2>1. <<>> \in Seq(Typed) /\ Len(<<>>) = 0
    OBVIOUS
  <2>2. F(<<>>) = <<>> /\ Heard(<<>>) = <<>> /\ Unescaped(<<>>) = <<>> /\ Weight(<<>>) = 0
    BY <2>1, FlattenEmpty, HeardAppend, UnescapedIs, WeightIs
  <2>3. QED
    BY <2>1, <2>2
<1>2. ASSUME NEW s \in T, NEW p \in Typed PROVE Append(s, p) \in T
  <2> DEFINE t == Append(s, p)
             l == Len(s)
             f == F(s)
             h == Heard(s)
             u == Unescaped(Joined(p))
  <2>1. s \in Seq(Typed) /\ Q(s)
    OBVIOUS
  <2>2. p \in Seq(Chars) /\ p # <<>> /\ Len(p) \in Nat /\ 1 <= Len(p)
        /\ \A i \in 2 .. Len(p) : p[i] = Blank => p[i - 1] # Blank
    BY DEF Typed
  <2>3. t \in Seq(Typed) /\ Len(t) = l + 1 /\ t[l + 1] = p /\ l \in Nat /\ \A i \in 1 .. l : t[i] = s[i]
    BY <2>1, AppendProperties
  <2>4. s \in Seq(Seq(Chars))
    <3>1. \A q \in Typed : q \in Seq(Chars)
      BY DEF Typed
    <3>2. \A i \in 1 .. l : s[i] \in Seq(Chars)
      BY <2>1, <3>1
    <3>3. QED
      BY <2>1, <3>2
  <2>5. f \in Seq(Chars) /\ F(t) = f \o p
    BY <2>2, <2>4, FlattenType, FlattenAppend
  <2>6. h \in Seq(Chars) /\ u \in Seq(Chars) /\ Heard(t) = h \o u
    BY <2>1, HeardAppend
  <2>7. /\ (\A x \in 1 .. l : Clean(s[x])) => h = Unescaped(f) /\ (f = <<>> \/ f[Len(f)] # Blank)
        /\ Weight(h) <= Weight(f)
        /\ (\E x \in 1 .. l : ~Clean(s[x])) => Weight(h) < Weight(f)
    BY <2>1
  <2>8. Q(t) <=> /\ (\A x \in 1 .. Len(t) : Clean(t[x])) =>
                      /\ Heard(t) = Unescaped(F(t))
                      /\ F(t) = <<>> \/ F(t)[Len(F(t))] # Blank
                 /\ Weight(Heard(t)) <= Weight(F(t))
                 /\ (\E x \in 1 .. Len(t) : ~Clean(t[x])) => Weight(Heard(t)) < Weight(F(t))
    OBVIOUS
  <2>9. /\ Joined(p) \in Seq(Chars) /\ Weight(Joined(p)) <= Weight(p)
        /\ Clean(p) => Joined(p) = p
        /\ ~Clean(p) => Weight(Joined(p)) < Weight(p)
    BY <2>2, JoinedIs DEF Clean
  <2>10. Weight(u) = Weight(Joined(p))
    BY <2>9, UnescapedIs
  <2>11. /\ Weight(F(t)) = Weight(f) + Weight(p) /\ Weight(Heard(t)) = Weight(h) + Weight(u)
         /\ Weight(f) \in Nat /\ Weight(p) \in Nat /\ Weight(h) \in Nat /\ Weight(u) \in Nat
    BY <2>2, <2>5, <2>6, WeightConcat, WeightIs
  <2>12. u = Unescaped(Joined(p))
    OBVIOUS
  <2> HIDE DEF t, l, f, h, u, F, Q
  <2>13. Weight(Heard(t)) <= Weight(F(t))
    BY <2>7, <2>9, <2>10, <2>11
  <2>14. ASSUME NEW x \in 1 .. l + 1, ~Clean(t[x]) PROVE Weight(Heard(t)) < Weight(F(t))
    <3>1. CASE x = l + 1
      BY <2>3, <2>7, <2>9, <2>10, <2>11, <2>14, <3>1
    <3>2. CASE x # l + 1
      <4>1. x \in 1 .. l
        BY <2>3, <3>2
      <4>2. Weight(h) < Weight(f)
        BY <2>3, <2>7, <2>14, <4>1
      <4>3. Weight(u) <= Weight(p)
        BY <2>9, <2>10
      <4>4. QED
        BY <2>11, <4>2, <4>3
    <3>3. QED
      BY <3>1, <3>2
  <2>15. ASSUME \A x \in 1 .. l + 1 : Clean(t[x])
         PROVE  /\ Heard(t) = Unescaped(F(t))
                /\ F(t) = <<>> \/ F(t)[Len(F(t))] # Blank
    <3>1. l + 1 \in 1 .. l + 1 /\ Clean(p)
      BY <2>3, <2>15
    <3>2. \A x \in 1 .. l : Clean(s[x])
      <4>1. \A x \in 1 .. l : x \in 1 .. l + 1
        BY <2>3
      <4>2. QED
        BY <2>3, <2>15, <4>1
    <3>3. h = Unescaped(f) /\ (f = <<>> \/ f[Len(f)] # Blank)
      BY <2>7, <3>2
    <3>4. p[1] # Blank /\ p[Len(p)] # Blank /\ u = Unescaped(p)
      BY <2>9, <2>12, <3>1 DEF Clean
    <3>5. Unescaped(f \o p) = Unescaped(f) \o Unescaped(p)
      BY <2>2, <2>5, <3>3, <3>4, UnescapedConcat
    <3>6. Len(f \o p) = Len(f) + Len(p) /\ (f \o p)[Len(f) + Len(p)] = p[Len(p)]
      BY <2>2, <2>5, ConcatProperties
    <3>7. QED
      BY <2>5, <2>6, <3>3, <3>4, <3>5, <3>6
  <2>16. Q(t)
    BY <2>3, <2>8, <2>13, <2>14, <2>15
  <2>17. QED
    BY <2>3, <2>16 DEF t
<1>3. T \in SUBSET Seq(Typed)
  OBVIOUS
<1>4. QED
  <2> HIDE DEF T
  <2>1. T = Seq(Typed)
    BY <1>1, <1>2, <1>3, InductSeq
  <2>2. QED
    BY <2>1 DEF T

\* What is put together of the pieces of a text is the text exactly if the cuts are clean
\* and the text is unambiguous.
LEMMA HeardWhole ==
  ASSUME NEW d \in Seq(Chars)
  PROVE  Heard(Pieces(Escaped(d))) = d <=> CleanCuts(d) /\ Unambiguous(d)
<1> DEFINE e == Escaped(d)
           s == Pieces(e)
<1>1. e \in Plain /\ e \in Seq(Chars) /\ Weight(e) = Weight(d)
  BY EscapedShape, EscapedIs
<1>2. s \in Seq(Typed) /\ FlattenSeq(s) = e /\ Heard(s) \in Seq(Chars)
  BY <1>1, PiecesTyped, PiecesWhole, HeardAppend
<1>3. CleanCuts(d) <=> \A x \in 1 .. Len(s) : Clean(s[x])
  <2>1. DOMAIN s = 1 .. Len(s)
    BY <1>2
  <2>2. QED
    BY <2>1, Zenon DEF CleanCuts, Clean
<1>4. Unescaped(e) = d <=> Unambiguous(d)
  BY RoundTrip
<1> HIDE DEF e, s
<1>5. CASE \A x \in 1 .. Len(s) : Clean(s[x])
  <2>1. Heard(s) = Unescaped(e)
    BY <1>2, <1>5, HeardIs
  <2>2. QED
    BY <1>3, <1>4, <1>5, <2>1 DEF s, e
<1>6. CASE ~ \A x \in 1 .. Len(s) : Clean(s[x])
  <2>1. Weight(Heard(s)) < Weight(d)
    BY <1>1, <1>2, <1>6, HeardIs
  <2>2. Weight(d) \in Nat
    BY WeightIs
  <2>3. Heard(s) # d
    BY <2>1, <2>2
  <2>4. QED
    BY <1>3, <1>6, <2>3 DEF s, e
<1>7. QED
  BY <1>5, <1>6

-----------------------------------------------------------------------------
(* The commands on their way *)

Commands == [name : {"j", "k", "l"}, text : Seq(Chars)]

\* Of the pieces s of a text, the command x, counted from 0.
Command(s, x) ==
  IF x = 0 THEN [name |-> "k", text |-> <<>>]
  ELSE IF x = Len(s) + 1 THEN [name |-> "l", text |-> <<>>] ELSE [name |-> "j", text |-> s[x]]

\* The entry of a player of whom h has been heard: none is as good as an empty one.
Entry(h) == bytes = h \/ (bytes = None /\ h = <<>>)

\* The first m of the commands have been carried out.
Done(s, m) ==
  /\ Len(commands) = Len(s) + 2 - m
  /\ \A i \in 1 .. Len(commands) : commands[i] = Command(s, m + i - 1)
  /\ m < Len(s) + 2 => requests = <<>> /\ \E n \in 0 .. Len(s) :
       (n = m - 1 \/ (m = 0 /\ n = 0)) /\ Entry(Heard(SubSeq(s, 1, n)))
  /\ m = Len(s) + 2 => requests = <<Heard(s)>> \/ (requests = <<>> /\ Heard(s) = <<>>)

\* What TypeOK, Typeable and Intact rest on.
CodecInv ==
  /\ TypeOK
  /\ sent = None => commands = <<>> /\ requests = <<>> /\ bytes \in {None, <<>>}
  /\ sent # None => LET s == Pieces(Escaped(sent)) IN \E m \in 0 .. Len(s) + 2 : Done(s, m)

LEMMA CommandIs ==
  ASSUME NEW s \in Seq(Typed)
  PROVE  /\ \A x \in 0 .. Len(s) + 1 : Command(s, x) \in Commands
         /\ \A x \in 1 .. Len(s) : /\ Command(s, x).name = "j" /\ Command(s, x).text = s[x]
                                   /\ s[x] \in Typed
         /\ Command(s, 0).name = "k" /\ Command(s, 0).text = <<>>
         /\ Command(s, Len(s) + 1).name = "l" /\ Command(s, Len(s) + 1).text = <<>>
<1>1. Len(s) \in Nat /\ \A x \in 1 .. Len(s) : s[x] \in Typed /\ s[x] \in Seq(Chars)
  BY LenProperties, ElementOfSeq DEF Typed
<1>2. \A x \in 1 .. Len(s) : x # 0 /\ x # Len(s) + 1 /\ Command(s, x) = [name |-> "j", text |-> s[x]]
  BY <1>1 DEF Command
<1>3. Command(s, 0) = [name |-> "k", text |-> <<>>] /\ Command(s, Len(s) + 1) = [name |-> "l", text |-> <<>>]
  BY <1>1 DEF Command
<1>4. \A x \in 0 .. Len(s) + 1 : x = 0 \/ x = Len(s) + 1 \/ x \in 1 .. Len(s)
  BY <1>1
<1>5. <<>> \in Seq(Chars)
  OBVIOUS
<1>a. \A b \in {"j", "k", "l"}, t \in Seq(Chars) : [name |-> b, text |-> t] \in Commands
  BY DEF Commands
<1>6. \A x \in 1 .. Len(s) : Command(s, x) \in Commands
  BY <1>1, <1>2, <1>a
<1>7. Command(s, 0) \in Commands /\ Command(s, Len(s) + 1) \in Commands
  <2>1. "k" \in {"j", "k", "l"} /\ "l" \in {"j", "k", "l"}
    OBVIOUS
  <2>2. QED
    BY <1>3, <1>5, <1>a, <2>1, Zenon
<1>8. QED
  BY <1>1, <1>2, <1>3, <1>4, <1>6, <1>7

LEMMA Initially ==
  Init => CodecInv
<1> SUFFICES ASSUME Init PROVE CodecInv
  OBVIOUS
<1>1. <<>> \in Seq(Chars) /\ <<>> \in Seq(Seq(Chars)) /\ <<>> \in Seq(Commands)
  OBVIOUS
<1>2. TypeOK
  BY <1>1 DEF Init, TypeOK, Commands
<1>3. QED
  BY <1>2 DEF Init, CodecInv

LEMMA SendMessageKeeps ==
  ASSUME CodecInv, NEW data \in Inputs, SendMessage(data)
  PROVE  CodecInv'
<1> DEFINE s == Pieces(Escaped(data))
           n == Len(s)
           k == <<[name |-> "k", text |-> <<>>]>>
           j == [x \in 1 .. n |-> [name |-> "j", text |-> s[x]]]
           l == <<[name |-> "l", text |-> <<>>]>>
<1>1. data \in Seq(Chars) /\ data # None
  BY CodecAssumption
<1>2. s \in Seq(Typed) /\ n \in Nat
  <2>1. s \in Seq(Typed)
    BY <1>1, EscapedShape, PiecesTyped
  <2>2. QED
    BY <2>1, LenProperties
<1>3. /\ sent = None /\ sent' = data /\ commands' = (k \o j) \o l
      /\ bytes' = bytes /\ requests' = requests
  BY DEF SendMessage
<1>4. requests = <<>> /\ bytes \in {None, <<>>}
  BY <1>3 DEF CodecInv
<1>5. \A x \in 1 .. n : s[x] \in Seq(Chars)
  BY <1>2, ElementOfSeq DEF Typed
<1>6. \A x \in 0 .. n + 1 : Command(s, x) \in Commands
  BY <1>2, CommandIs
<1>7. k = <<Command(s, 0)>> /\ l = <<Command(s, n + 1)>> /\ j = [x \in 1 .. n |-> Command(s, x)]
  BY <1>2 DEF Command
<1>a. Pieces(Escaped(data)) = s
  OBVIOUS
<1> HIDE DEF s, k, j, l
<1>8. k \in Seq(Commands) /\ l \in Seq(Commands) /\ j \in Seq(Commands) /\ Len(k) = 1 /\ Len(l) = 1 /\ Len(j) = n
  <2>1. 0 \in 0 .. n + 1 /\ n + 1 \in 0 .. n + 1 /\ \A x \in 1 .. n : x \in 0 .. n + 1
    BY <1>2
  <2>2. QED
    BY <1>2, <1>6, <1>7, <2>1
<1>9. /\ k \o j \in Seq(Commands) /\ Len(k \o j) = n + 1
      /\ \A i \in 1 .. n + 1 : (k \o j)[i] = IF i <= 1 THEN k[i] ELSE j[i - 1]
  <2>1. /\ k \o j \in Seq(Commands) /\ Len(k \o j) = Len(k) + Len(j)
        /\ \A i \in 1 .. Len(k) + Len(j) : (k \o j)[i] = IF i <= Len(k) THEN k[i] ELSE j[i - Len(k)]
    <3>1. \A a, b \in Seq(Commands) : /\ a \o b \in Seq(Commands) /\ Len(a \o b) = Len(a) + Len(b)
            /\ \A i \in 1 .. Len(a) + Len(b) : (a \o b)[i] = IF i <= Len(a) THEN a[i] ELSE b[i - Len(a)]
      BY ConcatProperties
    <3>2. QED
      BY <1>8, <3>1, Zenon
  <2>2. QED
    BY <1>2, <1>8, <2>1
<1>10. /\ commands' \in Seq(Commands) /\ Len(commands') = n + 2
       /\ \A i \in 1 .. n + 2 : commands'[i] = IF i <= n + 1 THEN (k \o j)[i] ELSE l[i - (n + 1)]
  <2>1. /\ commands' \in Seq(Commands) /\ Len(commands') = Len(k \o j) + Len(l)
        /\ \A i \in 1 .. Len(k \o j) + Len(l) :
             commands'[i] = IF i <= Len(k \o j) THEN (k \o j)[i] ELSE l[i - Len(k \o j)]
    BY <1>3, <1>8, <1>9, ConcatProperties
  <2>2. QED
    BY <1>2, <1>8, <1>9, <2>1
<1>11. ASSUME NEW i \in 1 .. n + 2 PROVE commands'[i] = Command(s, i - 1)
  <2>1. CASE i = 1
    BY <1>2, <1>7, <1>9, <1>10, <2>1
  <2>2. CASE i = n + 2
    <3>1. i - (n + 1) = 1 /\ i - 1 = n + 1 /\ ~ i <= n + 1
      BY <1>2, <2>2
    <3>2. commands'[i] = l[1]
      BY <1>10, <3>1
    <3>3. QED
      BY <1>7, <3>1, <3>2
  <2>3. CASE i \in 2 .. n + 1
    <3>1. i - 1 \in 1 .. n /\ i \in 1 .. n + 1 /\ i <= n + 1 /\ ~ i <= 1
      BY <1>2, <2>3
    <3>2. commands'[i] = j[i - 1]
      BY <1>9, <1>10, <3>1
    <3>3. QED
      BY <1>7, <3>1, <3>2
  <2>4. QED
    BY <1>2, <2>1, <2>2, <2>3
<1>12. Done(s, 0)'
  <2>1. SubSeq(s, 1, 0) = <<>>
    BY SubSeqEmpty
  <2>2. Heard(<<>>) = <<>>
    BY <1>2, HeardAppend
  <2>3. Entry(Heard(SubSeq(s, 1, 0)))'
    BY <1>3, <1>4, <2>1, <2>2 DEF Entry
  <2>4. \A i \in 1 .. n + 2 : 0 + i - 1 = i - 1
    BY <1>2
  <2>5. Len(commands') = n + 2 - 0 /\ 0 \in 0 .. n /\ 0 # n + 2
    BY <1>2, <1>10
  <2>6. \A i \in 1 .. Len(commands') : commands'[i] = Command(s, 0 + i - 1)
    BY <1>10, <1>11, <2>4
  <2>7. QED
    BY <1>3, <1>4, <2>3, <2>5, <2>6, Zenon DEF Done
<1>13. TypeOK'
  BY <1>1, <1>3, <1>10 DEF CodecInv, TypeOK, Commands
<1>14. 0 \in 0 .. n + 2
  BY <1>2
<1>15. Pieces(Escaped(sent')) = s
  BY <1>3, <1>a
<1>16. \E m \in 0 .. n + 2 : Done(s, m)'
  BY <1>12, <1>14
<1>17. QED
  BY <1>1, <1>3, <1>13, <1>15, <1>16, Zenon DEF CodecInv

\* What /j makes of the entry.
LEMMA EntryNext ==
  ASSUME NEW h \in Seq(Chars), NEW p \in Typed, bytes \in Seq(Chars) \cup {None}, Entry(h), J(p)
  PROVE  /\ Entry(h \o Unescaped(Joined(p)))' /\ requests' = requests
         /\ bytes' \in Seq(Chars) \cup {None}
<1> DEFINE v == Unescaped(Joined(p))
<1>1. v \in Seq(Chars) /\ Joined(p) \in Seq(Chars) /\ (Joined(p) = <<>> => v = <<>>)
  <2>1. p \in Seq(Chars)
    BY DEF Typed
  <2>2. QED
    BY <2>1, JoinedIs, UnescapedIs
<1>2. /\ requests' = requests
      /\ bytes' = IF Joined(p) = <<>> THEN bytes ELSE IF bytes = None THEN v ELSE bytes \o v
  BY DEF J
<1>3. h \o <<>> = h /\ <<>> \o v = v /\ h \o v \in Seq(Chars)
  BY <1>1
<1> HIDE DEF v
<1>4. bytes = h \/ (bytes = None /\ h = <<>>)
  BY DEF Entry
<1>5. CASE Joined(p) = <<>>
  BY <1>1, <1>2, <1>3, <1>4, <1>5 DEF Entry, v
<1>6. CASE Joined(p) # <<>> /\ bytes = None
  <2>1. h = <<>>
    BY <1>4, <1>6, CodecAssumption
  <2>2. bytes' = h \o v
    BY <1>2, <1>3, <1>6, <2>1
  <2>3. QED
    BY <1>2, <1>3, <2>2 DEF Entry, v
<1>7. CASE Joined(p) # <<>> /\ bytes # None
  BY <1>2, <1>3, <1>4, <1>7 DEF Entry, v
<1>8. QED
  BY <1>5, <1>6, <1>7

LEMMA OnCommandKeeps ==
  ASSUME CodecInv, OnCommand
  PROVE  CodecInv'
<1>1. /\ commands # <<>> /\ commands' = Tail(commands) /\ sent' = sent
      /\ \/ Head(commands).name = "j" /\ J(Head(commands).text)
         \/ Head(commands).name = "k" /\ K
         \/ Head(commands).name = "l" /\ L
  BY DEF OnCommand
<1>2. sent # None /\ sent \in Seq(Chars) /\ TypeOK
  BY <1>1 DEF CodecInv, TypeOK
<1>3. PICK s : s = Pieces(Escaped(sent))
  OBVIOUS
<1>4. s \in Seq(Typed)
  BY <1>2, <1>3, EscapedShape, PiecesTyped
<1> DEFINE n == Len(s)
<1>5. n \in Nat
  BY <1>4, LenProperties
<1>6. PICK m \in 0 .. n + 2 : Done(s, m)
  BY <1>2, <1>3, Zenon DEF CodecInv
<1>7. /\ commands \in Seq(Commands) /\ requests \in Seq(Seq(Chars))
      /\ bytes \in Seq(Chars) \cup {None}
  BY <1>2 DEF TypeOK, Commands
<1>8. /\ Len(commands) = n + 2 - m
      /\ \A i \in 1 .. Len(commands) : commands[i] = Command(s, m + i - 1)
      /\ m < n + 2 => requests = <<>> /\ \E x \in 0 .. n :
           (x = m - 1 \/ (m = 0 /\ x = 0)) /\ Entry(Heard(SubSeq(s, 1, x)))
  BY <1>6 DEF Done
<1>a. Len(s) = n
  OBVIOUS
<1> HIDE DEF n
<1>9. /\ commands' \in Seq(Commands) /\ Len(commands') = Len(commands) - 1 /\ 1 <= Len(commands)
      /\ Head(commands) = commands[1]
      /\ \A i \in 1 .. Len(commands) - 1 : commands'[i] = commands[i + 1]
  BY <1>1, <1>7, HeadTailProperties
<1>10. m < n + 2 /\ m \in 0 .. n + 1 /\ m + 1 \in 0 .. n + 2
  BY <1>5, <1>8, <1>9
<1>11. /\ Len(commands') = n + 2 - (m + 1)
       /\ \A i \in 1 .. Len(commands') : commands'[i] = Command(s, m + 1 + i - 1)
  <2>1. Len(commands') = n + 2 - (m + 1)
    BY <1>5, <1>8, <1>9
  <2>2. ASSUME NEW i \in 1 .. n + 2 - (m + 1) PROVE commands'[i] = Command(s, m + 1 + i - 1)
    <3>1. i \in 1 .. Len(commands) - 1 /\ i + 1 \in 1 .. Len(commands) /\ m + (i + 1) - 1 = m + 1 + i - 1
      BY <1>5, <1>8, <1>9
    <3>2. commands[i + 1] = Command(s, m + (i + 1) - 1)
      BY <1>8, <3>1
    <3>3. QED
      BY <1>9, <3>1, <3>2
  <2>3. QED
    BY <2>1, <2>2
<1>12. Head(commands) = Command(s, m)
  <2>1. 1 \in 1 .. Len(commands) /\ m + 1 - 1 = m
    BY <1>5, <1>9
  <2>2. QED
    BY <1>8, <1>9, <2>1
<1>13. PICK x \in 0 .. n : (x = m - 1 \/ (m = 0 /\ x = 0)) /\ Entry(Heard(SubSeq(s, 1, x)))
  BY <1>8, <1>10
<1>14. requests = <<>>
  BY <1>8, <1>10
<1>b. \A y \in 0 .. n : SubSeq(s, 1, y) \in Seq(Typed)
  <2>1. \A i \in 1 .. n : s[i] \in Typed
    BY <1>4, <1>a, ElementOfSeq
  <2>2. ASSUME NEW y \in 0 .. n PROVE SubSeq(s, 1, y) \in Seq(Typed)
    <3>1. y \in Int /\ 1 \in Int /\ \A i \in 1 .. y : s[i] \in Typed
      BY <1>5, <2>1
    <3>2. QED
      BY <3>1, SubSeqProperties
  <2>3. QED
    BY <2>2
<1>15. SUFFICES /\ requests' \in Seq(Seq(Chars)) /\ bytes' \in Seq(Chars) \cup {None}
                /\ m + 1 < n + 2 => requests' = <<>> /\ \E y \in 0 .. n :
                     (y = m + 1 - 1 \/ (m + 1 = 0 /\ y = 0)) /\ Entry(Heard(SubSeq(s, 1, y)))'
                /\ m + 1 = n + 2 => requests' = <<Heard(s)>> \/ (requests' = <<>> /\ Heard(s) = <<>>)
  <2>1. Done(s, m + 1)'
    BY <1>11, <1>15 DEF Done, n, Entry
  <2>2. TypeOK'
    BY <1>1, <1>2, <1>9, <1>15 DEF TypeOK, Commands
  <2>3. \E y \in 0 .. Len(s) + 2 : Done(s, y)'
    BY <1>10, <1>a, <2>1
  <2>4. sent' # None /\ Pieces(Escaped(sent')) = s
    BY <1>1, <1>2, <1>3
  <2>5. QED
    BY <2>2, <2>3, <2>4, Zenon DEF CodecInv
<1>16. /\ Command(s, 0).name = "k" /\ Command(s, n + 1).name = "l"
       /\ \A y \in 1 .. n : Command(s, y).name = "j" /\ Command(s, y).text = s[y] /\ s[y] \in Typed
  BY <1>4, <1>a, CommandIs
<1>17. CASE m = 0
  <2>1. K
    BY <1>1, <1>12, <1>16, <1>17
  <2>2. bytes' = bytes /\ requests' = requests
    BY <2>1 DEF K
  <2>3. x = 0 /\ Entry(Heard(SubSeq(s, 1, 0)))'
    BY <1>5, <1>13, <1>17, <2>2 DEF Entry
  <2>4. 0 \in 0 .. n /\ 0 = m + 1 - 1 /\ m + 1 # n + 2
    BY <1>5, <1>17
  <2>5. QED
    BY <1>7, <1>14, <2>2, <2>3, <2>4
<1>18. CASE m \in 1 .. n
  <2>1. J(s[m]) /\ s[m] \in Typed
    BY <1>1, <1>12, <1>16, <1>18
  <2>2. x = m - 1 /\ m - 1 \in 0 .. n /\ m \in 0 .. n
    BY <1>5, <1>13, <1>18
  <2>3. SubSeq(s, 1, m) = Append(SubSeq(s, 1, m - 1), s[m])
    <3>1. 1 \in 1 .. Len(s) /\ m \in 1 .. Len(s)
      BY <1>5, <1>18, <1>a
    <3>2. SubSeq(s, 1, m) = SubSeq(s, 1, m - 1) \o <<s[m]>>
      BY <1>4, <3>1, SubSeqRecursiveSecond
    <3>3. SubSeq(s, 1, m - 1) \in Seq(Typed)
      BY <1>b, <2>2
    <3>4. QED
      BY <2>1, <3>2, <3>3, AppendIsConcat
  <2>4. PICK b : b = SubSeq(s, 1, m - 1)
    OBVIOUS
  <2>5. b \in Seq(Typed) /\ Heard(b) \in Seq(Chars)
        /\ Heard(Append(b, s[m])) = Heard(b) \o Unescaped(Joined(s[m]))
    BY <1>b, <2>1, <2>2, <2>4, HeardAppend
  <2>6. Entry(Heard(b))
    BY <1>13, <2>2, <2>4
  <2>7. Entry(Heard(b) \o Unescaped(Joined(s[m])))' /\ requests' = requests /\ bytes' \in Seq(Chars) \cup {None}
    BY <1>7, <2>1, <2>5, <2>6, EntryNext
  <2>8. Entry(Heard(SubSeq(s, 1, m)))'
    <3>1. Heard(SubSeq(s, 1, m)) = Heard(b) \o Unescaped(Joined(s[m]))
      BY <2>3, <2>4, <2>5
    <3>2. QED
      BY <2>7, <3>1 DEF Entry
  <2>9. m = m + 1 - 1 /\ m + 1 # n + 2
    BY <1>5, <1>18
  <2>10. QED
    BY <1>7, <1>14, <2>2, <2>7, <2>8, <2>9
<1>19. CASE m = n + 1
  <2>1. L
    BY <1>1, <1>12, <1>16, <1>19
  <2>2. x = n /\ SubSeq(s, 1, n) = s
    <3>1. x = n
      BY <1>5, <1>13, <1>19
    <3>2. QED
      BY <1>4, <3>1, <1>a, SubSeqFull
  <2>3. bytes = Heard(s) \/ (bytes = None /\ Heard(s) = <<>>)
    BY <1>13, <2>2 DEF Entry
  <2>4. ~ m + 1 < n + 2
    BY <1>5, <1>19
  <2>5. CASE bytes = None
    <3>1. bytes' = bytes /\ requests' = requests
      BY <2>1, <2>5 DEF L
    <3>2. Heard(s) = <<>>
      <4>1. Heard(s) \in Seq(Chars)
        BY <1>4, HeardAppend
      <4>2. QED
        BY <2>3, <2>5, <4>1, CodecAssumption
    <3>3. QED
      BY <1>7, <1>14, <2>4, <3>1, <3>2
  <2>6. CASE bytes # None
    <3>1. requests' = Append(requests, bytes) /\ bytes' = <<>>
      BY <2>1, <2>6 DEF L
    <3>2. bytes = Heard(s) /\ bytes \in Seq(Chars)
      BY <1>7, <2>3, <2>6
    <3>3. Append(<<>>, bytes) = <<bytes>> /\ <<bytes>> \in Seq(Seq(Chars)) /\ <<>> \in Seq(Chars)
      BY <3>2
    <3>4. QED
      BY <1>14, <2>4, <3>1, <3>2, <3>3
  <2>7. QED
    BY <2>5, <2>6
<1>20. QED
  BY <1>5, <1>10, <1>17, <1>18, <1>19

-----------------------------------------------------------------------------
(* The theorems *)

LEMMA StepsKeep ==
  CodecInv /\ [Next]_vars => CodecInv'
<1> SUFFICES ASSUME CodecInv, [Next]_vars
             PROVE  CodecInv'
  OBVIOUS
<1>1. ASSUME NEW data \in Inputs, SendMessage(data)
      PROVE  CodecInv'
  BY <1>1, SendMessageKeeps
<1>2. CASE OnCommand
  BY <1>2, OnCommandKeeps
<1>3. CASE UNCHANGED vars
  <2>1. UNCHANGED <<sent, commands, bytes, requests>>
    BY <1>3 DEF vars
  <2>2. QED
    BY <2>1 DEF CodecInv, TypeOK, Done, Entry
<1>4. QED
  BY <1>1, <1>2, <1>3 DEF Next

\* send_message escapes and cuts, the plugin joins, unescapes and concatenates: of the
\* commands of a text as many have been carried out, in order, as are missing, and the
\* entry of the player is what has been heard of its pieces.
THEOREM CommandsInOrder == Spec => []CodecInv
<1>1. Init => CodecInv
  BY Initially
<1>2. CodecInv /\ [Next]_vars => CodecInv'
  BY StepsKeep
<1>3. QED
  BY <1>1, <1>2, PTL DEF Spec

\* All the variables of the codec have their types, whatever the text.
THEOREM CodecTypes == Spec => []TypeOK
<1>1. CodecInv => TypeOK
  BY DEF CodecInv
<1>2. QED
  BY <1>1, CommandsInOrder, PTL

LEMMA TypeableFollows == CodecInv => Typeable
<1> SUFFICES ASSUME CodecInv, NEW i \in DOMAIN commands
             PROVE  LET text == commands[i].text IN
                      Len(text) <= PieceSize /\ \A k \in DOMAIN text : text[k] \notin {Newline, Return}
  BY DEF Typeable
<1>1. commands \in Seq(Commands) /\ i \in 1 .. Len(commands)
  <2>1. commands \in Seq(Commands)
    BY DEF CodecInv, TypeOK, Commands
  <2>2. QED
    BY <2>1
<1>2. sent # None /\ sent \in Seq(Chars)
  <2>1. commands # <<>>
    BY <1>1
  <2>2. QED
    BY <2>1 DEF CodecInv, TypeOK
<1>3. PICK s : s = Pieces(Escaped(sent))
  OBVIOUS
<1>4. PICK m \in 0 .. Len(s) + 2 : Done(s, m)
  BY <1>2, <1>3, Zenon DEF CodecInv
<1>5. s \in Seq(Typed) /\ Len(s) \in Nat
  <2>1. s \in Seq(Typed)
    BY <1>2, <1>3, EscapedShape, PiecesTyped
  <2>2. QED
    BY <2>1, LenProperties
<1>6. commands[i] = Command(s, m + i - 1) /\ m + i - 1 \in 0 .. Len(s) + 1
  <2>1. Len(commands) = Len(s) + 2 - m /\ commands[i] = Command(s, m + i - 1)
    BY <1>1, <1>4 DEF Done
  <2>2. QED
    BY <1>1, <1>5, <2>1
<1>7. commands[i].text = <<>> \/ commands[i].text \in Typed
  <2>1. m + i - 1 = 0 \/ m + i - 1 = Len(s) + 1 \/ m + i - 1 \in 1 .. Len(s)
    BY <1>1, <1>5, <1>6
  <2>2. QED
    BY <1>5, <1>6, <2>1, CommandIs
<1>8. CASE commands[i].text = <<>>
  BY <1>8, CodecAssumption
<1>9. CASE commands[i].text \in Typed
  BY <1>9 DEF Typed
<1>10. QED
  BY <1>7, <1>8, <1>9

\* No piece of any text is longer than a command may be or has a line end, for which the
\* server would drop the connection: escaping comes before cutting.
THEOREM AlwaysTypeable == Spec => []Typeable
<1>1. CodecInv => Typeable
  BY TypeableFollows
<1>2. QED
  BY <1>1, CommandsInOrder, PTL

LEMMA IntactFollows == CodecInv => Intact
<1> SUFFICES ASSUME CodecInv, sent \notin {None, <<>>}, commands = <<>>
             PROVE  requests = <<sent>> <=> CleanCuts(sent) /\ Unambiguous(sent)
  BY DEF Intact
<1>1. sent \in Seq(Chars) /\ sent # None
  BY DEF CodecInv, TypeOK
<1>2. PICK s : s = Pieces(Escaped(sent))
  OBVIOUS
<1>3. PICK m \in 0 .. Len(s) + 2 : Done(s, m)
  BY <1>1, <1>2, Zenon DEF CodecInv
<1>4. Len(s) \in Nat
  BY <1>1, <1>2, EscapedIs, PiecesAre, LenProperties
<1>5. m = Len(s) + 2
  <2>1. 0 = Len(s) + 2 - m
    BY <1>3 DEF Done
  <2>2. QED
    BY <1>4, <2>1
<1>6. requests = <<Heard(s)>> \/ (requests = <<>> /\ Heard(s) = <<>>)
  BY <1>3, <1>5 DEF Done
<1>7. requests = <<sent>> <=> Heard(s) = sent
  <2>1. \A a, b : <<a>> = <<b>> <=> a = b
    OBVIOUS
  <2>2. \A a : <<a>> # <<>>
    OBVIOUS
  <2>3. QED
    BY <1>6, <2>1, <2>2
<1>8. QED
  BY <1>1, <1>2, <1>7, HeardWhole

\* A text of any length, cut into pieces of any size, arrives as it was sent exactly if no
\* cut falls beside a blank of the escaped text and no blank stands before an n or an r.
THEOREM ArrivesIntact == Spec => []Intact
<1>1. CodecInv => Intact
  BY IntactFollows
<1>2. QED
  BY <1>1, CommandsInOrder, PTL
=============================================================================
