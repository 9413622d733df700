--------------------------- MODULE SequenceLemmas ---------------------------
(***************************************************************************)
(* Induction over the natural numbers and over sequences, for properties   *)
(* that are given as sets, and what it shows of FlattenSeq and FoldLeft.   *)
(***************************************************************************)
EXTENDS SequencesExt, SequenceTheorems, WellFoundedInduction, TLAPS

\* A set of natural numbers that is not empty has a least element.
LEMMA Least ==
  ASSUME NEW T \in SUBSET Nat, T # {}
  PROVE  \E x \in T : \A y \in T : x <= y
<1> DEFINE R == OpToRel(<, Nat)
<1>1. IsWellFoundedOn(R, Nat)
  BY NatLessThanWellFounded
<1>2. \A x, y \in Nat : x < y => <<x, y>> \in R
  BY DEF OpToRel
<1> HIDE DEF R
<1>3. PICK x \in T : \A y \in T : ~ (<<y, x>> \in R)
  BY <1>1, WFMin
<1>4. x \in Nat /\ \A y \in T : y \in Nat
  OBVIOUS
<1>5. \A y \in T : ~ (y < x)
  BY <1>2, <1>3, <1>4
<1>6. QED
  BY <1>4, <1>5

\* Induction over the natural numbers.
LEMMA Induct ==
  ASSUME NEW T \in SUBSET Nat, 0 \in T, \A n \in T : n + 1 \in T
  PROVE  T = Nat
<1> SUFFICES ASSUME Nat \ T # {} PROVE FALSE
  OBVIOUS
<1>1. PICK x \in Nat \ T : \A y \in Nat \ T : x <= y
  BY Least
<1>2. x - 1 \in Nat /\ x - 1 \in T
  BY <1>1
<1>3. QED
  BY <1>2

\* Induction over sequences, from the front to the back.
LEMMA InductSeq ==
  ASSUME NEW S, NEW T \in SUBSET Seq(S), <<>> \in T,
         \A s \in T, e \in S : Append(s, e) \in T
  PROVE  T = Seq(S)
<1> DEFINE N == {n \in Nat : \A s \in Seq(S) : Len(s) = n => s \in T}
<1>1. 0 \in N
  BY EmptySeq
<1>2. ASSUME NEW n \in N
      PROVE  n + 1 \in N
  <2>1. n \in Nat /\ \A s \in Seq(S) : Len(s) = n => s \in T
    BY <1>2
  <2>2. ASSUME NEW s \in Seq(S), Len(s) = n + 1
        PROVE  s \in T
    <3>1. s # <<>>
      BY <2>1, <2>2
    <3>2. PICK t \in Seq(S), e \in S : s = Append(t, e)
      BY <3>1, SequenceEmptyOrAppend
    <3>3. Len(t) = n
      BY <2>1, <2>2, <3>2
    <3>4. QED
      BY <2>1, <3>2, <3>3
  <2>3. QED
    BY <2>1, <2>2
<1> HIDE DEF N
<1>3. N = Nat
  <2>1. N \in SUBSET Nat
    BY DEF N
  <2>2. QED
    BY <1>1, <1>2, <2>1, Induct
<1>4. ASSUME NEW s \in Seq(S)
      PROVE  s \in T
  <2>1. Len(s) \in N
    BY <1>3
  <2>2. QED
    BY <2>1 DEF N
<1>5. QED
  BY <1>4

\* Moving the first element of a sequence to the end of the one before it, and adding
\* an element to the second of two.
LEMMA Regroup ==
  ASSUME NEW S, NEW s \in Seq(S), NEW t \in Seq(S)
  PROVE  /\ t # <<>> => Append(s, Head(t)) \o Tail(t) = s \o t
         /\ \A e \in S : s \o Append(t, e) = Append(s \o t, e)
<1>1. ASSUME t # <<>>
      PROVE  Append(s, Head(t)) \o Tail(t) = s \o t
  <2> DEFINE h == <<Head(t)>>
             u == Tail(t)
  <2>1. h \in Seq(S) /\ u \in Seq(S) /\ t = h \o u
    BY <1>1
  <2>2. Append(s, Head(t)) = s \o h
    BY <1>1, AppendIsConcat
  <2> HIDE DEF h, u
  <2>3. (s \o h) \o u = s \o (h \o u)
    BY <2>1, ConcatAssociative
  <2>4. QED
    BY <2>1, <2>2, <2>3, Zenon DEF u
<1>2. ASSUME NEW e \in S
      PROVE  s \o Append(t, e) = Append(s \o t, e)
  BY <1>2
<1>3. QED
  BY <1>1, <1>2
\* ConcatAssociative, in the form in which Zenon applies it.
Reassociates(S) == \A s, t, u \in Seq(S) : (s \o t) \o u = s \o (t \o u)

LEMMA Reassociate == \A S : Reassociates(S)
BY ConcatAssociative, SMT DEF Reassociates
-----------------------------------------------------------------------------
(* FlattenSeq *)

\* f has what FlattenSeq makes of s up to each place.
Joins(f, s) ==
  /\ DOMAIN f = 1 .. Len(s)
  /\ \A i \in 1 .. Len(s) : f[i] = IF i = 1 THEN s[i] ELSE f[i - 1] \o s[i]

\* There is such a function, and there is one only, however s goes on.
LEMMA JoinsExists ==
  ASSUME NEW S, NEW s \in Seq(Seq(S))
  PROVE  \E f \in Seq(Seq(S)) : Joins(f, s)
<1> DEFINE T == {t \in Seq(Seq(S)) : \E f \in Seq(Seq(S)) : Joins(f, t)}
<1>1. <<>> \in T
  <2>1. Joins(<<>>, <<>>) /\ <<>> \in Seq(Seq(S))
    BY DEF Joins
  <2>2. QED
    BY <2>1, Zenon
<1>2. ASSUME NEW t \in T, NEW e \in Seq(S)
      PROVE  Append(t, e) \in T
  <2>1. PICK f \in Seq(Seq(S)) : Joins(f, t)
    BY <1>2
  <2> DEFINE x == IF t = <<>> THEN e ELSE f[Len(t)] \o e
             g == Append(f, x)
             r == Append(t, e)
  <2>2. t \in Seq(Seq(S)) /\ Len(f) = Len(t)
    BY <2>1 DEF Joins
  <2>3. x \in Seq(S)
    BY <2>2
  <2> HIDE DEF x
  <2>4. /\ g \in Seq(Seq(S)) /\ r \in Seq(Seq(S)) /\ Len(r) = Len(t) + 1
        /\ Len(g) = Len(t) + 1 /\ g[Len(t) + 1] = x /\ r[Len(t) + 1] = e
        /\ \A i \in 1 .. Len(t) : g[i] = f[i] /\ r[i] = t[i]
    BY <2>2, <2>3
  <2> HIDE DEF g, r
  <2>5. \A i \in 1 .. Len(t) : g[i] = IF i = 1 THEN r[i] ELSE g[i - 1] \o r[i]
    <3>1. \A i \in 1 .. Len(t) : i = 1 \/ i - 1 \in 1 .. Len(t)
      BY <2>2
    <3>2. QED
      BY <2>1, <2>4, <3>1 DEF Joins
  <2>6. g[Len(t) + 1] = IF Len(t) + 1 = 1 THEN r[Len(t) + 1] ELSE g[Len(t)] \o r[Len(t) + 1]
    <3>1. CASE t = <<>>
      BY <2>4, <3>1 DEF x
    <3>2. CASE t # <<>>
      <4>1. Len(t) \in 1 .. Len(t) /\ Len(t) + 1 # 1
        BY <2>2, <3>2
      <4>2. QED
        BY <2>4, <3>2, <4>1 DEF x
    <3>3. QED
      BY <3>1, <3>2
  <2>7. \A i \in 1 .. Len(r) : i \in 1 .. Len(t) \/ i = Len(t) + 1
    BY <2>2, <2>4
  <2>8. \A i \in 1 .. Len(r) : g[i] = IF i = 1 THEN r[i] ELSE g[i - 1] \o r[i]
    <3> SUFFICES ASSUME NEW i \in 1 .. Len(r)
                 PROVE  g[i] = IF i = 1 THEN r[i] ELSE g[i - 1] \o r[i]
      OBVIOUS
    <3>1. CASE i \in 1 .. Len(t)
      BY <2>5, <3>1
    <3>2. CASE i = Len(t) + 1
      <4>1. i - 1 = Len(t) /\ (i = 1 <=> Len(t) + 1 = 1)
        BY <2>2, <3>2
      <4>2. QED
        BY <2>6, <3>2, <4>1
    <3>3. QED
      BY <2>7, <3>1, <3>2
  <2>9. Joins(g, r)
    <3>1. DOMAIN g = 1 .. Len(r)
      BY <2>4, LenProperties
    <3>2. QED
      BY <2>8, <3>1 DEF Joins
  <2>10. QED
    BY <2>4, <2>9 DEF r
<1>3. T \in SUBSET Seq(Seq(S))
  OBVIOUS
<1> HIDE DEF T
<1>4. T = Seq(Seq(S))
  BY <1>1, <1>2, <1>3, InductSeq
<1>5. s \in T
  BY <1>4
<1>6. QED
  BY <1>5 DEF T

LEMMA JoinsAgree ==
  ASSUME NEW S, NEW s \in Seq(S), NEW t \in Seq(S), NEW f, NEW g, Joins(f, s), Joins(g, t),
         Len(s) <= Len(t), \A i \in 1 .. Len(s) : t[i] = s[i]
  PROVE  \A i \in 1 .. Len(s) : g[i] = f[i]
<1> DEFINE N == {n \in Nat : n \in 1 .. Len(s) => g[n] = f[n]}
<1>1. 0 \in N
  OBVIOUS
<1>2. ASSUME NEW n \in N
      PROVE  n + 1 \in N
  <2>1. CASE n + 1 \in 1 .. Len(s)
    <3>1. n + 1 \in 1 .. Len(t) /\ (n + 1) - 1 = n /\ t[n + 1] = s[n + 1]
      BY <2>1
    <3>2. n = 0 \/ n \in 1 .. Len(s)
      BY <2>1
    <3>3. /\ g[n + 1] = IF n + 1 = 1 THEN t[n + 1] ELSE g[n] \o t[n + 1]
          /\ f[n + 1] = IF n + 1 = 1 THEN s[n + 1] ELSE f[n] \o s[n + 1]
      BY <2>1, <3>1 DEF Joins
    <3>4. QED
      BY <1>2, <3>1, <3>2, <3>3
  <2>2. CASE n + 1 \notin 1 .. Len(s)
    BY <2>2
  <2>3. QED
    BY <2>1, <2>2
<1> HIDE DEF N
<1>3. N = Nat
  <2>1. N \in SUBSET Nat
    BY DEF N
  <2>2. QED
    BY <1>1, <1>2, <2>1, Induct
<1>4. QED
  BY <1>3 DEF N

LEMMA FlattenJoins ==
  ASSUME NEW R, NEW s \in Seq(R), s # <<>>, NEW f \in Seq(R), Joins(f, s)
  PROVE  FlattenSeq(s) = f[Len(s)]
<1> DEFINE F(g) == g = [i \in 1 .. Len(s) |-> IF i = 1 THEN s[i] ELSE g[i - 1] \o s[i]]
           c == CHOOSE g : F(g)
<1>1. F(f)
  <2>1. f \in [1 .. Len(s) -> R]
    BY LenProperties DEF Joins
  <2>2. QED
    BY <2>1 DEF Joins
<1>2. F(c)
  BY <1>1
<1>3. FlattenSeq(s) = c[Len(s)]
  BY DEF FlattenSeq
<1> HIDE DEF c
<1>4. Joins(c, s)
  BY <1>2 DEF Joins
<1>5. Len(s) \in 1 .. Len(s) /\ Len(s) <= Len(s) /\ \A i \in 1 .. Len(s) : s[i] = s[i]
  OBVIOUS
<1>6. \A i \in 1 .. Len(s) : c[i] = f[i]
  BY <1>4, <1>5, JoinsAgree
<1>7. QED
  BY <1>3, <1>5, <1>6

LEMMA FlattenJoinsNext ==
  ASSUME NEW R, NEW s \in Seq(R), s # <<>>, NEW f \in Seq(R), Joins(f, s), NEW e \in R,
         NEW g \in Seq(R), Joins(g, Append(s, e))
  PROVE  FlattenSeq(Append(s, e)) = FlattenSeq(s) \o e
<1> DEFINE r == Append(s, e)
<1>1. /\ r \in Seq(R) /\ r # <<>> /\ Len(r) = Len(s) + 1 /\ r[Len(s) + 1] = e
      /\ \A i \in 1 .. Len(s) : r[i] = s[i]
  BY AppendProperties
<1> HIDE DEF r
<1>2. Joins(g, r)
  BY DEF r
<1>3. FlattenSeq(s) = f[Len(s)] /\ FlattenSeq(r) = g[Len(r)]
  BY <1>1, <1>2, FlattenJoins
<1>4. /\ Len(s) \in 1 .. Len(s) /\ Len(s) + 1 # 1 /\ (Len(s) + 1) - 1 = Len(s)
      /\ Len(s) + 1 \in 1 .. Len(r) /\ Len(s) <= Len(r)
  BY <1>1
<1>5. \A i \in 1 .. Len(s) : g[i] = f[i]
  BY <1>1, <1>2, <1>4, JoinsAgree
<1>6. g[Len(s) + 1] = g[Len(s)] \o r[Len(s) + 1]
  BY <1>2, <1>4 DEF Joins
<1>7. QED
  BY <1>1, <1>3, <1>4, <1>5, <1>6 DEF r

\* Flattening sequences of elements of S: nothing, one sequence more, and all of them.
LEMMA FlattenEmpty == FlattenSeq(<<>>) = <<>>
BY DEF FlattenSeq

LEMMA FlattenType ==
  ASSUME NEW S, NEW s \in Seq(Seq(S))
  PROVE  FlattenSeq(s) \in Seq(S)
<1>1. CASE s = <<>>
  <2>1. FlattenSeq(s) = <<>>
    BY <1>1, FlattenEmpty, Zenon
  <2>2. QED
    BY <2>1
<1>2. CASE s # <<>>
  <2>1. PICK f \in Seq(Seq(S)) : Joins(f, s)
    BY JoinsExists
  <2>2. Len(s) \in 1 .. Len(s) /\ DOMAIN f = 1 .. Len(f) /\ Len(f) \in Nat
    BY <1>2
  <2>3. Len(s) \in 1 .. Len(f)
    BY <2>1, <2>2 DEF Joins
  <2>4. FlattenSeq(s) = f[Len(s)]
    BY <1>2, <2>1, FlattenJoins, Zenon
  <2>5. QED
    BY <2>3, <2>4
<1>3. QED
  BY <1>1, <1>2

LEMMA FlattenAppend ==
  ASSUME NEW S, NEW s \in Seq(Seq(S)), NEW e \in Seq(S)
  PROVE  FlattenSeq(Append(s, e)) = FlattenSeq(s) \o e
<1>1. Append(s, e) \in Seq(Seq(S))
  OBVIOUS
<1>2. PICK g \in Seq(Seq(S)) : Joins(g, Append(s, e))
  BY <1>1, JoinsExists
<1>3. CASE s = <<>>
  <2>1. FlattenSeq(Append(<<>>, e)) = e
    <3>1. Append(<<>>, e) = <<e>> /\ Len(<<e>>) = 1 /\ <<e>> # <<>>
      OBVIOUS
    <3>2. g[1] = e
      BY <1>2, <1>3, <3>1 DEF Joins
    <3>3. FlattenSeq(Append(s, e)) = g[Len(Append(s, e))]
      <4>1. Append(s, e) # <<>>
        BY <1>3, <3>1, Zenon
      <4>2. QED
        BY <1>1, <1>2, <4>1, FlattenJoins, Zenon
    <3>4. Len(Append(s, e)) = 1
      BY <1>3, <3>1
    <3>5. FlattenSeq(Append(s, e)) = e
      BY <3>2, <3>3, <3>4, Zenon
    <3>6. QED
      BY <1>3, <3>5, Zenon
  <2>2. <<>> \o e = e
    OBVIOUS
  <2>3. QED
    BY <1>3, <2>1, <2>2, FlattenEmpty, Zenon
<1>4. CASE s # <<>>
  <2>1. PICK f \in Seq(Seq(S)) : Joins(f, s)
    BY JoinsExists
  <2>2. QED
    BY <1>2, <1>4, <2>1, FlattenJoinsNext, Zenon
<1>5. QED
  BY <1>3, <1>4

\* ... those of one sequence of sequences and of another.
LEMMA FlattenConcat ==
  ASSUME NEW S, NEW s \in Seq(Seq(S)), NEW t \in Seq(Seq(S))
  PROVE  FlattenSeq(s \o t) = FlattenSeq(s) \o FlattenSeq(t)
<1> DEFINE T == {u \in Seq(Seq(S)) : FlattenSeq(s \o u) = FlattenSeq(s) \o FlattenSeq(u)}
<1>1. <<>> \in T
  <2>1. s \o <<>> = s /\ FlattenSeq(s) \o <<>> = FlattenSeq(s)
    <3>1. FlattenSeq(s) \in Seq(S)
      BY FlattenType
    <3>2. QED
      BY <3>1
  <2>2. <<>> \in Seq(Seq(S))
    OBVIOUS
  <2>3. QED
    BY <2>1, <2>2, FlattenEmpty
<1>2. ASSUME NEW u \in T, NEW e \in Seq(S)
      PROVE  Append(u, e) \in T
  <2>1. s \o Append(u, e) = Append(s \o u, e) /\ s \o u \in Seq(Seq(S)) /\ u \in Seq(Seq(S))
    OBVIOUS
  <2>2. FlattenSeq(s \o Append(u, e)) = (FlattenSeq(s) \o FlattenSeq(u)) \o e
    BY <1>2, <2>1, FlattenAppend
  <2>3. FlattenSeq(Append(u, e)) = FlattenSeq(u) \o e
    BY <2>1, FlattenAppend
  <2>4. FlattenSeq(s) \in Seq(S) /\ FlattenSeq(u) \in Seq(S)
    BY <2>1, FlattenType
  <2>5. (FlattenSeq(s) \o FlattenSeq(u)) \o e = FlattenSeq(s) \o (FlattenSeq(u) \o e)
    BY <2>4
  <2>6. Append(u, e) \in Seq(Seq(S))
    BY <2>1
  <2>7. QED
    BY <2>2, <2>3, <2>5, <2>6
<1>3. T \in SUBSET Seq(Seq(S))
  OBVIOUS
<1> HIDE DEF T
<1>4. T = Seq(Seq(S))
  BY <1>1, <1>2, <1>3, InductSeq
<1>5. t \in T
  BY <1>4
<1>6. QED
  BY <1>5 DEF T

\* ... and of the first and the rest.
LEMMA FlattenFirst ==
  ASSUME NEW S, NEW s \in Seq(Seq(S)), s # <<>>
  PROVE  FlattenSeq(s) = Head(s) \o FlattenSeq(Tail(s))
<1>1. Head(s) \in Seq(S) /\ Tail(s) \in Seq(Seq(S)) /\ s = <<Head(s)>> \o Tail(s)
  OBVIOUS
<1>2. FlattenSeq(<<Head(s)>>) = Head(s)
  <2>1. <<Head(s)>> = Append(<<>>, Head(s)) /\ <<>> \o Head(s) = Head(s) /\ <<>> \in Seq(Seq(S))
    BY <1>1
  <2>2. QED
    BY <1>1, <2>1, FlattenAppend, FlattenEmpty
<1>3. <<Head(s)>> \in Seq(Seq(S))
  BY <1>1
<1>4. FlattenSeq(<<Head(s)>> \o Tail(s)) = FlattenSeq(<<Head(s)>>) \o FlattenSeq(Tail(s))
  BY <1>1, <1>3, FlattenConcat
<1>5. QED
  BY <1>1, <1>2, <1>4
-----------------------------------------------------------------------------
(* FoldLeft *)

\* Of numbers up to n there is a largest.
LEMMA Largest ==
  ASSUME NEW n \in Nat, NEW t \in SUBSET (1 .. n), t # {}
  PROVE  /\ Max(t) \in t /\ \A y \in t : y <= Max(t)
<1> DEFINE U == {n - x : x \in t}
<1>1. U \in SUBSET Nat /\ U # {}
  <2>1. \A x \in t : n - x \in Nat
    OBVIOUS
  <2>2. PICK x \in t : TRUE
    OBVIOUS
  <2>3. n - x \in U
    OBVIOUS
  <2>4. QED
    BY <2>1, <2>3
<1>2. PICK u \in U : \A y \in U : u <= y
  BY <1>1, Least
<1>3. PICK x \in t : u = n - x
  BY <1>2
<1>4. ASSUME NEW y \in t PROVE y <= x
  <2>1. n - y \in U
    OBVIOUS
  <2>2. n - x <= n - y
    BY <1>2, <1>3, <2>1
  <2>3. x \in Int /\ y \in Int
    OBVIOUS
  <2>4. QED
    BY <2>2, <2>3
<1> DEFINE P(m) == \A y \in t : m >= y
<1>5. P(x)
  BY <1>4
<1>6. Max(t) = CHOOSE m \in t : P(m)
  BY DEF Max
<1> HIDE DEF P
<1>7. Max(t) \in t /\ P(Max(t))
  BY <1>5, <1>6
<1>8. \A y \in t : y \in Int
  OBVIOUS
<1>9. QED
  BY <1>7, <1>8 DEF P

\* What is taken last from the numbers up to one, and what is left.
LEMMA LastTaken ==
  ASSUME NEW k \in Nat
  PROVE  Max(1 .. k + 1) = k + 1 /\ (1 .. k + 1) \ {k + 1} = 1 .. k /\ 1 .. k + 1 # {}
<1> DEFINE t == 1 .. k + 1
<1>1. k + 1 \in Nat /\ t \in SUBSET (1 .. k + 1) /\ t # {} /\ k + 1 \in t
      /\ \A y \in t : y \in Int /\ y <= k + 1
  OBVIOUS
<1>2. t \ {k + 1} = 1 .. k
  OBVIOUS
<1> HIDE DEF t
<1>3. Max(t) \in t /\ k + 1 <= Max(t)
  BY <1>1, Largest
<1>4. Max(t) = k + 1
  <2> DEFINE m == Max(t)
  <2>1. m \in t /\ k + 1 <= m
    BY <1>3
  <2> HIDE DEF m
  <2>2. m \in Int /\ m <= k + 1
    BY <1>1, <2>1
  <2>3. m = k + 1
    BY <1>1, <2>1, <2>2
  <2>4. QED
    BY <2>3 DEF m
<1>5. QED
  BY <1>1, <1>2, <1>4 DEF t

\* The last element at the places in a set.
LEMMA LastOf ==
  ASSUME NEW B, NEW s \in Seq(B), NEW t \in SUBSET DOMAIN s, t # {}
  PROVE  s[Max(t)] \in B /\ t \ {Max(t)} \in SUBSET DOMAIN s
<1>1. Len(s) \in Nat /\ t \in SUBSET (1 .. Len(s))
  OBVIOUS
<1>2. Max(t) \in t
  BY <1>1, Largest
<1>3. QED
  BY <1>2

\* g is what FoldLeft makes, with the function F, of the elements of s at the places in
\* each set.
Folds(g, F, base, s) ==
  g = [t \in SUBSET DOMAIN s |->
         IF t = {} THEN base ELSE F[<<g[t \ {Max(t)}], s[Max(t)]>>]]

LEMMA FoldsExists ==
  ASSUME NEW A, NEW B, NEW F \in [A \X B -> A], NEW base \in A, NEW s \in Seq(B)
  PROVE  \E g \in [SUBSET DOMAIN s -> A] : Folds(g, F, base, s)
<1> DEFINE T == {r \in Seq(B) : \E g \in [SUBSET DOMAIN r -> A] : Folds(g, F, base, r)}
<1>1. <<>> \in T
  <2> DEFINE g == [t \in SUBSET DOMAIN <<>> |-> base]
  <2>1. g \in [SUBSET DOMAIN <<>> -> A] /\ \A t \in SUBSET DOMAIN <<>> : t = {}
    <3>1. DOMAIN <<>> = {}
      OBVIOUS
    <3>2. QED
      BY <3>1
  <2>2. Folds(g, F, base, <<>>)
    BY <2>1 DEF Folds
  <2> HIDE DEF g
  <2>3. <<>> \in Seq(B)
    OBVIOUS
  <2>4. QED
    BY <2>1, <2>2, <2>3, Zenon
<1>2. ASSUME NEW r \in T, NEW e \in B
      PROVE  Append(r, e) \in T
  <2> DEFINE n == Len(r) + 1
             q == Append(r, e)
  <2>1. PICK g \in [SUBSET DOMAIN r -> A] : Folds(g, F, base, r)
    BY <1>2
  <2>2. /\ r \in Seq(B) /\ DOMAIN r = 1 .. Len(r) /\ Len(r) \in Nat /\ q \in Seq(B)
        /\ DOMAIN q = 1 .. n /\ q[n] = e /\ \A i \in 1 .. Len(r) : q[i] = r[i]
    BY AppendProperties
  <2> HIDE DEF q
  <2> DEFINE h == [t \in SUBSET DOMAIN q |-> IF n \in t THEN F[<<g[t \ {n}], e>>] ELSE g[t]]
  <2>3. ASSUME NEW t \in SUBSET DOMAIN q, n \in t
        PROVE  t \ {n} \in SUBSET DOMAIN r /\ Max(t) = n
    <3>1. n \in Nat /\ t \in SUBSET (1 .. n) /\ t # {}
      BY <2>2, <2>3
    <3>2. Max(t) \in t /\ n <= Max(t)
      BY <2>3, <3>1, Largest
    <3>3. QED
      BY <2>2, <3>1, <3>2
  <2>4. ASSUME NEW t \in SUBSET DOMAIN q, n \notin t
        PROVE  /\ t \in SUBSET DOMAIN r
               /\ t # {} => /\ Max(t) \in 1 .. Len(r) /\ t \ {Max(t)} \in SUBSET DOMAIN r
                            /\ n \notin t \ {Max(t)}
    <3>1. t \in SUBSET (1 .. Len(r))
      BY <2>2, <2>4
    <3>2. QED
      BY <2>2, <2>4, <3>1, Largest
  <2>5. ASSUME NEW t \in SUBSET DOMAIN q
        PROVE  h[t] \in A
    <3>1. CASE n \in t
      BY <2>1, <2>3, <3>1
    <3>2. CASE n \notin t
      BY <2>1, <2>4, <3>2
    <3>3. QED
      BY <3>1, <3>2
  <2>6. ASSUME NEW t \in SUBSET DOMAIN q
        PROVE  h[t] = IF t = {} THEN base ELSE F[<<h[t \ {Max(t)}], q[Max(t)]>>]
    <3>1. CASE n \in t
      <4>1. h[t] = F[<<g[t \ {n}], e>>] /\ Max(t) = n /\ t # {} /\ q[n] = e
        BY <2>2, <2>3, <3>1
      <4>2. h[t \ {n}] = g[t \ {n}]
        OBVIOUS
      <4>3. QED
        BY <4>1, <4>2
    <3>2. CASE n \notin t
      <4>1. h[t] = g[t] /\ g[t] = IF t = {} THEN base ELSE F[<<g[t \ {Max(t)}], r[Max(t)]>>]
        BY <2>1, <2>4, <3>2 DEF Folds
      <4>2. t # {} => h[t \ {Max(t)}] = g[t \ {Max(t)}] /\ q[Max(t)] = r[Max(t)]
        BY <2>2, <2>4, <3>2
      <4>3. QED
        BY <4>1, <4>2
    <3>3. QED
      BY <3>1, <3>2
  <2>7. h \in [SUBSET DOMAIN q -> A]
    BY <2>5
  <2>8. Folds(h, F, base, q)
    <3>1. h = [t \in SUBSET DOMAIN q |-> h[t]]
      OBVIOUS
    <3> HIDE DEF h
    <3>2. QED
      BY <2>6, <3>1 DEF Folds
  <2>9. QED
    BY <2>2, <2>7, <2>8 DEF q
<1>3. T \in SUBSET Seq(B)
  OBVIOUS
<1> HIDE DEF T
<1>4. T = Seq(B)
  BY <1>1, <1>2, <1>3, InductSeq
<1>5. s \in T
  BY <1>4
<1>6. QED
  BY <1>5 DEF T

\* There is one such function only, as far as the first elements go, and however the
\* sequence goes on.
SameUpTo(n, s, q) ==
  1 .. n \subseteq DOMAIN s /\ 1 .. n \subseteq DOMAIN q /\ \A i \in 1 .. n : s[i] = q[i]

LEMMA FoldsAgree ==
  ASSUME NEW F, NEW base, NEW s, NEW q, NEW n \in Nat, SameUpTo(n, s, q),
         NEW g, NEW h, Folds(g, F, base, s), Folds(h, F, base, q)
  PROVE  g[1 .. n] = h[1 .. n]
<1> DEFINE N == {m \in Nat : m <= n => g[1 .. m] = h[1 .. m]}
<1>1. 0 \in N
  <2>1. 1 .. 0 = {}
    OBVIOUS
  <2>2. g[{}] = base /\ h[{}] = base
    BY DEF Folds
  <2>3. QED
    BY <2>1, <2>2
<1>2. ASSUME NEW m \in N
      PROVE  m + 1 \in N
  <2>1. CASE m + 1 <= n
    <3> DEFINE t == 1 .. m + 1
    <3>1. m \in Nat
      OBVIOUS
    <3>2. t \in SUBSET DOMAIN s /\ t \in SUBSET DOMAIN q /\ s[m + 1] = q[m + 1]
      BY <2>1, <3>1 DEF SameUpTo
    <3>3. Max(t) = m + 1 /\ t # {}
      BY <3>1, LastTaken
    <3>4. t \ {m + 1} = 1 .. m
      BY <3>1, LastTaken
    <3>5. g[1 .. m] = h[1 .. m]
      BY <1>2, <2>1
    <3> HIDE DEF t
    <3>6. g[t] = F[<<g[t \ {Max(t)}], s[Max(t)]>>] /\ h[t] = F[<<h[t \ {Max(t)}], q[Max(t)]>>]
      BY <3>2, <3>3 DEF Folds
    <3>7. g[t] = h[t]
      BY <3>2, <3>3, <3>4, <3>5, <3>6
    <3>8. QED
      BY <3>7 DEF t
  <2>2. CASE ~(m + 1 <= n)
    BY <2>2
  <2>3. QED
    BY <2>1, <2>2
<1> HIDE DEF N
<1>3. N = Nat
  <2>1. N \in SUBSET Nat
    BY DEF N
  <2>2. QED
    BY <1>1, <1>2, <2>1, Induct
<1>4. QED
  BY <1>3 DEF N

\* FoldLeft with a function, and what it makes of one element more.
Folding(F, A, B) == F \in [A \X B -> A]

Fold(F, base, s) == (CHOOSE g : Folds(g, F, base, s))[DOMAIN s]

LEMMA FoldIs ==
  ASSUME NEW A, NEW B, NEW F, Folding(F, A, B), NEW base \in A
  PROVE  /\ \A s \in Seq(B) : Fold(F, base, s) \in A
         /\ Fold(F, base, <<>>) = base
         /\ \A s \in Seq(B), e \in B : Fold(F, base, Append(s, e)) = F[<<Fold(F, base, s), e>>]
<1> DEFINE c(s) == CHOOSE g : Folds(g, F, base, s)
<1>1. ASSUME NEW s \in Seq(B)
      PROVE  /\ Folds(c(s), F, base, s) /\ Fold(F, base, s) = c(s)[1 .. Len(s)]
             /\ Fold(F, base, s) \in A
  <2>1. PICK g \in [SUBSET DOMAIN s -> A] : Folds(g, F, base, s)
    BY FoldsExists DEF Folding
  <2>2. Folds(c(s), F, base, s)
    BY <2>1
  <2>3. DOMAIN s = 1 .. Len(s) /\ Len(s) \in Nat
    OBVIOUS
  <2>4. Fold(F, base, s) = c(s)[1 .. Len(s)]
    BY <2>3 DEF Fold
  <2> HIDE DEF c
  <2>5. SameUpTo(Len(s), s, s)
    BY <2>3 DEF SameUpTo
  <2>6. c(s)[1 .. Len(s)] = g[1 .. Len(s)]
    BY <2>1, <2>2, <2>3, <2>5, FoldsAgree
  <2>7. QED
    BY <2>1, <2>2, <2>3, <2>4, <2>6
<1> HIDE DEF c
<1>2. Fold(F, base, <<>>) = base
  <2>1. <<>> \in Seq(B) /\ Len(<<>>) = 0 /\ DOMAIN <<>> = {} /\ 1 .. 0 = {}
    OBVIOUS
  <2>2. Fold(F, base, <<>>) = c(<<>>)[{}] /\ Folds(c(<<>>), F, base, <<>>)
    BY <1>1, <2>1
  <2>3. QED
    BY <2>1, <2>2 DEF Folds
<1>3. ASSUME NEW s \in Seq(B), NEW e \in B
      PROVE  Fold(F, base, Append(s, e)) = F[<<Fold(F, base, s), e>>]
  <2> DEFINE q == Append(s, e)
             n == Len(s)
             t == 1 .. n + 1
  <2>1. /\ q \in Seq(B) /\ Len(q) = n + 1 /\ DOMAIN q = t /\ q[n + 1] = e /\ n \in Nat
        /\ \A i \in 1 .. n : q[i] = s[i]
        /\ DOMAIN s = 1 .. n
    BY AppendProperties
  <2> HIDE DEF q
  <2>2. /\ Folds(c(s), F, base, s) /\ Fold(F, base, s) = c(s)[1 .. n]
        /\ Folds(c(q), F, base, q) /\ Fold(F, base, q) = c(q)[t]
    BY <1>1, <2>1
  <2>3. c(q)[1 .. n] = c(s)[1 .. n]
    <3>1. SameUpTo(n, s, q)
      BY <2>1 DEF SameUpTo
    <3>2. n \in Nat /\ Folds(c(s), F, base, s) /\ Folds(c(q), F, base, q)
      BY <2>1, <2>2
    <3> HIDE DEF n, t
    <3>3. c(s)[1 .. n] = c(q)[1 .. n]
      BY <3>1, <3>2, FoldsAgree
    <3>4. QED
      BY <3>3
  <2>4. Max(t) = n + 1
    BY <2>1, LastTaken
  <2>5. t \ {n + 1} = 1 .. n /\ t # {}
    BY <2>1, LastTaken
  <2> HIDE DEF t
  <2>6. c(q)[t] = F[<<c(q)[t \ {Max(t)}], q[Max(t)]>>]
    BY <2>1, <2>2, <2>5 DEF Folds
  <2>7. QED
    BY <2>1, <2>2, <2>3, <2>4, <2>5, <2>6 DEF q
<1>4. QED
  BY <1>1, <1>2, <1>3

\* A function that goes on as FoldLeft with F does makes what that makes.
GoesOn(c, A, F, s) ==
  \A t \in SUBSET DOMAIN s : t # {} /\ c[t \ {Max(t)}] \in A
    => c[t] = F[<<c[t \ {Max(t)}], s[Max(t)]>>]

LEMMA FoldChosen ==
  ASSUME NEW A, NEW B, NEW F, Folding(F, A, B), NEW base \in A, NEW s \in Seq(B), NEW c,
         c[{}] = base, GoesOn(c, A, F, s)
  PROVE  c[DOMAIN s] = Fold(F, base, s)
<1>1. PICK g \in [SUBSET DOMAIN s -> A] : Folds(g, F, base, s)
  BY FoldsExists DEF Folding
<1>2. DOMAIN s = 1 .. Len(s) /\ Len(s) \in Nat
  OBVIOUS
<1> DEFINE f == CHOOSE x : Folds(x, F, base, s)
<1>3. Folds(f, F, base, s) /\ Fold(F, base, s) = f[DOMAIN s]
  BY <1>1 DEF Fold
<1> HIDE DEF f
<1>4. f[1 .. Len(s)] = g[1 .. Len(s)]
  <2> DEFINE n == Len(s)
  <2>1. n \in Nat /\ SameUpTo(n, s, s)
    BY <1>2 DEF SameUpTo
  <2> HIDE DEF n
  <2>2. f[1 .. n] = g[1 .. n]
    BY <1>1, <1>3, <2>1, FoldsAgree
  <2>3. QED
    BY <2>2 DEF n
<1> DEFINE N == {m \in Nat : m <= Len(s) => c[1 .. m] = g[1 .. m]}
<1>5. 0 \in N
  <2>1. 1 .. 0 = {}
    OBVIOUS
  <2>2. {} \in SUBSET DOMAIN s
    OBVIOUS
  <2>3. g[{}] = base
    BY <1>1, <2>2, Zenon DEF Folds
  <2>4. c[1 .. 0] = g[1 .. 0]
    BY <2>1, <2>3
  <2>5. QED
    BY <2>4
<1>6. ASSUME NEW m \in N
      PROVE  m + 1 \in N
  <2>1. CASE m + 1 <= Len(s)
    <3>1. m \in Nat /\ m < Len(s) /\ c[1 .. m] = g[1 .. m] /\ 1 .. m \in SUBSET DOMAIN s
          /\ 1 .. m + 1 \in SUBSET DOMAIN s
      BY <1>2, <1>6, <2>1
    <3>2. g[1 .. m] \in A
      BY <1>1, <3>1
    <3> DEFINE t == 1 .. m + 1
    <3>3. Max(t) = m + 1 /\ t \ {m + 1} = 1 .. m /\ t # {} /\ t \in SUBSET DOMAIN s
      BY <3>1, LastTaken
    <3> HIDE DEF t
    <3>4. t \ {Max(t)} = 1 .. m /\ c[t \ {Max(t)}] = g[t \ {Max(t)}]
          /\ c[t \ {Max(t)}] \in A
      BY <3>1, <3>2, <3>3
    <3>5. g[t] = F[<<g[t \ {Max(t)}], s[Max(t)]>>]
      BY <1>1, <3>3 DEF Folds
    <3>6. c[t] = F[<<c[t \ {Max(t)}], s[Max(t)]>>]
      BY <3>3, <3>4 DEF GoesOn
    <3>7. c[1 .. m + 1] = g[1 .. m + 1]
      BY <3>4, <3>5, <3>6, Zenon DEF t
    <3>8. QED
      BY <3>1, <3>7
  <2>2. CASE ~(m + 1 <= Len(s))
    BY <2>2
  <2>3. QED
    BY <2>1, <2>2
<1> HIDE DEF N
<1>7. N = Nat
  <2>1. N \in SUBSET Nat
    BY DEF N
  <2>2. QED
    BY <1>5, <1>6, <2>1, Induct
<1>8. c[1 .. Len(s)] = g[1 .. Len(s)]
  BY <1>2, <1>7 DEF N
<1>9. QED
  BY <1>2, <1>3, <1>4, <1>8
-----------------------------------------------------------------------------
(* What FlattenSeq makes of the first elements, and of the others *)

Before(f, m) == FlattenSeq(SubSeq(f, 1, m))
Rest(f, m) == FlattenSeq(SubSeq(f, m + 1, Len(f)))

LEMMA PartsType ==
  ASSUME NEW S, NEW f \in Seq(Seq(S)), NEW m \in 0 .. Len(f)
  PROVE  /\ Before(f, m) \in Seq(S) /\ Rest(f, m) \in Seq(S)
         /\ Before(f, 0) = <<>> /\ Rest(f, Len(f)) = <<>>
<1> DEFINE R == Seq(S)
<1>1. f \in Seq(R)
  OBVIOUS
<1> HIDE DEF R
<1>2. \A i \in 1 .. Len(f) : f[i] \in R
  BY <1>1
<1>3. SubSeq(f, 1, m) \in Seq(R) /\ SubSeq(f, m + 1, Len(f)) \in Seq(R)
  BY <1>1, <1>2, SubSeqProperties
<1>4. SubSeq(f, 1, 0) = <<>> /\ SubSeq(f, Len(f) + 1, Len(f)) = <<>>
  BY <1>1, SubSeqEmpty
<1>5. Before(f, m) \in Seq(S) /\ Rest(f, m) \in Seq(S)
  BY <1>3, FlattenType, Zenon DEF Before, Rest, R
<1>6. Before(f, 0) = <<>> /\ Rest(f, Len(f)) = <<>>
  BY <1>4, FlattenEmpty, Zenon DEF Before, Rest
<1>7. QED
  BY <1>5, <1>6

\* One element more before, and one less to come.
LEMMA PartsNext ==
  ASSUME NEW S, NEW f \in Seq(Seq(S)), NEW n \in 1 .. Len(f)
  PROVE  /\ Before(f, n) = Before(f, n - 1) \o f[n]
         /\ Rest(f, n - 1) = f[n] \o Rest(f, n)
<1> DEFINE R == Seq(S)
           b == SubSeq(f, 1, n - 1)
           r == SubSeq(f, n + 1, Len(f))
           t == SubSeq(f, n, Len(f))
<1>1. f \in Seq(R)
  OBVIOUS
<1> HIDE DEF R
<1>2. f[n] \in R /\ Len(f) \in Nat /\ n \in Nat /\ n <= Len(f) /\ \A i \in 1 .. Len(f) : f[i] \in R
  BY <1>1
<1>3. b \in Seq(R) /\ t \in Seq(R) /\ t # <<>>
  <2>1. (\A i \in 1 .. n - 1 : f[i] \in R) /\ (\A i \in n .. Len(f) : f[i] \in R)
    BY <1>2
  <2>2. b \in Seq(R)
    BY <1>2, <2>1, SubSeqProperties
  <2>3. t \in Seq(R) /\ Len(t) = Len(f) - n + 1
    BY <1>2, <2>1, SubSeqProperties
  <2> HIDE DEF t
  <2>4. QED
    BY <1>2, <2>2, <2>3
<1>4. SubSeq(f, 1, n) = Append(b, f[n])
  <2>1. SubSeq(f, 1, n) = b \o <<f[n]>>
    BY <1>1, <1>2, SubSeqRecursiveSecond
  <2> HIDE DEF b
  <2>2. QED
    BY <1>2, <1>3, <2>1
<1>5. Head(t) = f[n] /\ Tail(t) = r
  BY <1>1, <1>2, HeadTailOfSubSeq
<1> HIDE DEF b, r, t
<1>6. FlattenSeq(Append(b, f[n])) = FlattenSeq(b) \o f[n]
  BY <1>2, <1>3, FlattenAppend, Zenon DEF R
<1>7. FlattenSeq(t) = f[n] \o FlattenSeq(r)
  BY <1>3, <1>5, FlattenFirst, Zenon DEF R
<1>8. Before(f, n) = Before(f, n - 1) \o f[n]
  BY <1>4, <1>6, Zenon DEF Before, b
<1>9. n - 1 + 1 = n
  BY <1>2
<1>10. Rest(f, n - 1) = FlattenSeq(t) /\ Rest(f, n) = FlattenSeq(r)
  BY <1>9 DEF Rest, r, t
<1>11. QED
  BY <1>7, <1>8, <1>10
=============================================================================
