----------------------------- MODULE Calls_proofs -----------------------------
(* Theorems about the calls to a provider. The first part is about Calls, for *)
(* every pool, every batch, every text and every number of retries: what is   *)
(* cut, halved, split and recovered comes back together, and what it costs.   *)
EXTENDS Calls, SequenceTheorems, WellFoundedInduction, TLAPS

\* Induction on the natural numbers up to m: P are those of which something holds.
LEMMA Upwards ==
  ASSUME NEW m \in Nat, NEW P, 0 \in P, \A n \in 1 .. m : n - 1 \in P => n \in P
  PROVE  \A n \in 0 .. m : n \in P
<1> DEFINE T == {n \in 0 .. m : n \notin P}
<1>1. SUFFICES ASSUME T # {} PROVE FALSE
  OBVIOUS
<1>2. PICK n \in T : \A k \in T : n <= k
  <2>1. T \subseteq Nat
    OBVIOUS
  <2> HIDE DEF T
  <2>2. PICK x \in T : \A y \in T : ~(<<y, x>> \in OpToRel(<, Nat))
    BY <1>1, <2>1, NatLessThanWellFounded, WFMin
  <2>3. \A y \in T : ~(y < x)
    BY <2>1, <2>2 DEF OpToRel
  <2> QED
    BY <2>1, <2>3
<1>3. n \in 1 .. m /\ n - 1 \notin T
  BY <1>2
<1> QED
  BY <1>2, <1>3

\* A set of natural numbers has a least one, and if it has a bound a greatest one.
LEMMA Least ==
  ASSUME NEW T, T \subseteq Nat, T # {}
  PROVE  \E n \in T : \A m \in T : n <= m
<1>1. PICK x \in T : \A y \in T : ~(<<y, x>> \in OpToRel(<, Nat))
  BY NatLessThanWellFounded, WFMin
<1>2. \A y \in T : ~(y < x)
  BY <1>1 DEF OpToRel
<1> QED
  BY <1>2

LEMMA Greatest ==
  ASSUME NEW m \in Nat, NEW T, T \subseteq 0 .. m, T # {}
  PROVE  \E n \in T : \A k \in T : k <= n
<1> DEFINE D == {d \in 0 .. m : m - d \in T}
<1>1. D \subseteq Nat /\ D # {}
  <2>1. PICK x \in T : x \in 0 .. m
    OBVIOUS
  <2>2. m - x \in D
    BY <2>1
  <2> QED
    BY <2>2
<1>2. PICK d \in D : \A e \in D : d <= e
  BY <1>1, Least
<1>3. \A k \in T : m - k \in D
  OBVIOUS
<1>4. \A k \in T : k <= m - d
  BY <1>2, <1>3
<1> QED
  BY <1>2, <1>4

\* The first n elements.
First(s, n) == SubSeq(s, 1, n)
LEMMA FirstAll ==
  ASSUME NEW V, NEW s \in Seq(V)
  PROVE  Len(s) \in Nat /\ First(s, 0) = <<>> /\ First(s, Len(s)) = s
BY DEF First

\* The first n + 1 elements are the first n and one more.
LEMMA OneMore ==
  ASSUME NEW V, NEW s \in Seq(V), NEW n \in 1 .. Len(s)
  PROVE  /\ First(s, n) = Append(First(s, n - 1), s[n])
         /\ First(s, n - 1) \in Seq(V) /\ Len(First(s, n - 1)) = n - 1
         /\ First(s, n) \in Seq(V) /\ Len(First(s, n)) = n
         /\ s[n] \in V
<1>1. /\ SubSeq(s, 1, n - 1) \in Seq(V) /\ Len(SubSeq(s, 1, n - 1)) = n - 1
      /\ SubSeq(s, 1, n) \in Seq(V) /\ Len(SubSeq(s, 1, n)) = n
      /\ \A i \in 1 .. n - 1 : SubSeq(s, 1, n - 1)[i] = s[i]
      /\ \A i \in 1 .. n : SubSeq(s, 1, n)[i] = s[i]
      /\ s[n] \in V
  OBVIOUS
<1> DEFINE a == SubSeq(s, 1, n - 1)  b == SubSeq(s, 1, n)
<1>2. /\ Append(a, s[n]) \in Seq(V) /\ Len(Append(a, s[n])) = n
      /\ \A i \in 1 .. n : Append(a, s[n])[i] = s[i]
  <2> HIDE DEF a
  <2>1. a \in Seq(V) /\ Len(a) = n - 1 /\ s[n] \in V /\ \A i \in 1 .. n - 1 : a[i] = s[i]
    BY <1>1 DEF a
  <2> QED
    BY <2>1
<1>3. b = Append(a, s[n])
  <2> HIDE DEF a, b
  <2>1. b \in Seq(V) /\ Len(b) = n /\ \A i \in 1 .. n : b[i] = s[i]
    BY <1>1 DEF b
  <2> QED
    BY <1>2, <2>1, SeqEqual
<1> QED
  BY <1>1, <1>3 DEF First
-----------------------------------------------------------------------------
(* Selecting elements of a sequence.                                          *)

\* The function that Selected is defined by: f[n] are the elements of s at the positions in G
\* up to n.
Selects(f, s, G, m) ==
  f = [n \in 0 .. m |->
         IF n = 0 THEN <<>> ELSE IF n \in G THEN Append(f[n - 1], s[n]) ELSE f[n - 1]]

LEMMA SelectsIs ==
  ASSUME NEW V, NEW s \in Seq(V), NEW G, NEW f, Selects(f, s, G, Len(s))
  PROVE  /\ f[0] = <<>>
         /\ \A n \in 1 .. Len(s) : f[n] = IF n \in G THEN Append(f[n - 1], s[n]) ELSE f[n - 1]
<1>1. Len(s) \in Nat /\ 0 \in 0 .. Len(s) /\ \A n \in 1 .. Len(s) : n \in 0 .. Len(s) /\ n # 0
  OBVIOUS
<1> QED
  BY <1>1 DEF Selects

\* There is such a function, one position after another.
LEMMA SelectsExists ==
  ASSUME NEW V, NEW s \in Seq(V), NEW G
  PROVE  \E f : Selects(f, s, G, Len(s))
<1> DEFINE P == {m \in 0 .. Len(s) : \E f : Selects(f, s, G, m)}
<1>1. Len(s) \in Nat
  OBVIOUS
<1>2. 0 \in P
  <2>1. Selects([n \in 0 .. 0 |-> <<>>], s, G, 0)
    BY DEF Selects
  <2> QED
    BY <1>1, <2>1
<1>3. ASSUME NEW m \in 1 .. Len(s), m - 1 \in P PROVE m \in P
  <2>1. PICK f : Selects(f, s, G, m - 1)
    BY <1>3
  <2>2. \A n \in 0 .. m - 1 :
          f[n] = IF n = 0 THEN <<>> ELSE IF n \in G THEN Append(f[n - 1], s[n]) ELSE f[n - 1]
    BY <2>1 DEF Selects
  <2> DEFINE g == [n \in 0 .. m |-> IF n < m THEN f[n]
                                    ELSE IF m \in G THEN Append(f[m - 1], s[m]) ELSE f[m - 1]]
  <2>3. \A n \in 0 .. m : g[n] = IF n = 0 THEN <<>>
                                 ELSE IF n \in G THEN Append(g[n - 1], s[n]) ELSE g[n - 1]
    <3> TAKE n \in 0 .. m
    <3>1. CASE n = 0
      BY <3>1, <2>2
    <3>2. CASE n \in 1 .. m - 1
      <4>1. g[n] = f[n] /\ g[n - 1] = f[n - 1] /\ n # 0 /\ n \in 0 .. m - 1
        BY <3>2
      <4> HIDE DEF g
      <4> QED
        BY <4>1, <2>2
    <3>3. CASE n = m
      BY <3>3
    <3> QED
      BY <3>1, <3>2, <3>3
  <2>4. Selects(g, s, G, m)
    <3>1. g = [n \in 0 .. m |-> g[n]]
      OBVIOUS
    <3> HIDE DEF g
    <3> QED
      BY <3>1, <2>3 DEF Selects
  <2> HIDE DEF g
  <2> QED
    BY <1>1, <2>4
<1>4. \A m \in 0 .. Len(s) : m \in P
  <2> HIDE DEF P
  <2> QED
    BY <1>1, <1>2, <1>3, Upwards
<1> QED
  BY <1>1, <1>4

LEMMA SelectedIs ==
  ASSUME NEW V, NEW s \in Seq(V), NEW G
  PROVE  \E f : Selects(f, s, G, Len(s)) /\ Selected(s, G) = f[Len(s)]
<1> DEFINE some == CHOOSE f : Selects(f, s, G, Len(s))
<1>1. Selects(some, s, G, Len(s))
  BY SelectsExists
<1>2. Selected(s, G) = some[Len(s)]
  BY DEF Selected, Selects
<1> QED
  BY <1>1, <1>2

\* What is selected from the first n elements only depends on them.
LEMMA SelectsAgree ==
  ASSUME NEW V, NEW s \in Seq(V), NEW G, NEW f, Selects(f, s, G, Len(s)),
         NEW t \in Seq(V), NEW H, NEW g, Selects(g, t, H, Len(t)),
         NEW n \in Nat, n <= Len(s), n <= Len(t),
         \A i \in 1 .. n : s[i] = t[i] /\ (i \in G <=> i \in H)
  PROVE  f[n] = g[n]
<1> DEFINE P == {i \in 0 .. n : f[i] = g[i]}
<1>1. 0 \in P
  BY SelectsIs
<1>2. ASSUME NEW i \in 1 .. n, i - 1 \in P PROVE i \in P
  <2>1. i \in 1 .. Len(s) /\ i \in 1 .. Len(t) /\ f[i - 1] = g[i - 1]
    BY <1>2
  <2>2. f[i] = g[i]
    BY <2>1, SelectsIs
  <2> QED
    BY <2>2
<1>3. \A i \in 0 .. n : i \in P
  <2> HIDE DEF P
  <2> QED
    BY <1>1, <1>2, Upwards
<1> QED
  BY <1>3

\* Selecting from nothing, and from one more element.
LEMMA SelectedNone == ASSUME NEW G PROVE Selected(<<>>, G) = <<>>
<1>1. <<>> \in Seq({}) /\ Len(<<>>) = 0
  OBVIOUS
<1>2. PICK f : Selects(f, <<>>, G, Len(<<>>)) /\ Selected(<<>>, G) = f[Len(<<>>)]
  BY <1>1, SelectedIs
<1>3. f[0] = <<>>
  <2>1. f = [n \in 0 .. Len(<<>>) |->
               IF n = 0 THEN <<>> ELSE IF n \in G THEN Append(f[n - 1], <<>>[n]) ELSE f[n - 1]]
    BY <1>2 DEF Selects
  <2>2. 0 \in 0 .. Len(<<>>)
    BY <1>1
  <2> HIDE <1>1, <1>2
  <2> QED
    BY <2>1, <2>2, Zenon
<1> QED
  BY <1>1, <1>2, <1>3

LEMMA SelectedAppend ==
  ASSUME NEW V, NEW s \in Seq(V), NEW x \in V, NEW G
  PROVE  Selected(Append(s, x), G) =
           IF Len(s) + 1 \in G THEN Append(Selected(s, G), x) ELSE Selected(s, G)
<1> DEFINE t == Append(s, x)
<1>1. /\ t \in Seq(V) /\ Len(t) = Len(s) + 1 /\ Len(s) \in Nat /\ t[Len(s) + 1] = x
      /\ \A i \in 1 .. Len(s) : t[i] = s[i]
  OBVIOUS
<1> HIDE DEF t
<1>2. PICK f : Selects(f, s, G, Len(s)) /\ Selected(s, G) = f[Len(s)]
  BY SelectedIs
<1>3. PICK g : Selects(g, t, G, Len(t)) /\ Selected(t, G) = g[Len(t)]
  BY <1>1, SelectedIs
<1>4. g[Len(s)] = f[Len(s)]
  BY <1>1, <1>2, <1>3, SelectsAgree
<1>5. g[Len(s) + 1] = IF Len(s) + 1 \in G THEN Append(g[Len(s)], x) ELSE g[Len(s)]
  <2>1. Len(s) + 1 \in 1 .. Len(t) /\ (Len(s) + 1) - 1 = Len(s)
    BY <1>1
  <2>2. \A n \in 1 .. Len(t) : g[n] = IF n \in G THEN Append(g[n - 1], t[n]) ELSE g[n - 1]
    BY <1>1, <1>3, SelectsIs
  <2> QED
    BY <1>1, <2>1, <2>2
<1> QED
  BY <1>1, <1>2, <1>3, <1>4, <1>5 DEF t

\* Positions beyond the sequence do not matter.
LEMMA SelectedAgree ==
  ASSUME NEW V, NEW s \in Seq(V), NEW G, NEW H, \A i \in 1 .. Len(s) : i \in G <=> i \in H
  PROVE  Selected(s, G) = Selected(s, H)
<1>1. PICK f : Selects(f, s, G, Len(s)) /\ Selected(s, G) = f[Len(s)]
  BY SelectedIs
<1>2. PICK g : Selects(g, s, H, Len(s)) /\ Selected(s, H) = g[Len(s)]
  BY SelectedIs
<1> QED
  BY <1>1, <1>2, SelectsAgree

\* What is selected are elements.
LEMMA SelectedType ==
  ASSUME NEW V, NEW s \in Seq(V), NEW G
  PROVE  Selected(s, G) \in Seq(V)
<1> DEFINE P == {n \in 0 .. Len(s) : Selected(First(s, n), G) \in Seq(V)}
<1>1. Len(s) \in Nat /\ First(s, 0) = <<>> /\ First(s, Len(s)) = s
  BY FirstAll
<1>2. 0 \in P
  <2>1. Selected(First(s, 0), G) = <<>>
    BY <1>1, SelectedNone, Zenon
  <2>2. 0 \in 0 .. Len(s) /\ <<>> \in Seq(V)
    BY <1>1
  <2> QED
    BY <2>1, <2>2
<1>3. ASSUME NEW n \in 1 .. Len(s), n - 1 \in P PROVE n \in P
  <2> DEFINE t == First(s, n - 1)
  <2>1. First(s, n) = Append(t, s[n]) /\ t \in Seq(V) /\ s[n] \in V
    BY OneMore
  <2>2. Selected(t, G) \in Seq(V)
    BY <1>3
  <2> HIDE DEF t
  <2>3. Selected(Append(t, s[n]), G) =
          IF Len(t) + 1 \in G THEN Append(Selected(t, G), s[n]) ELSE Selected(t, G)
    BY <2>1, SelectedAppend
  <2>4. Append(Selected(t, G), s[n]) \in Seq(V)
    BY <2>1, <2>2
  <2>5. Selected(First(s, n), G) \in Seq(V)
    BY <2>1, <2>2, <2>3, <2>4, Zenon
  <2> QED
    BY <2>5
<1>4. \A n \in 0 .. Len(s) : n \in P
  <2> HIDE DEF P
  <2> QED
    BY <1>1, <1>2, <1>3, Upwards
<1>5. Selected(First(s, Len(s)), G) \in Seq(V)
  BY <1>1, <1>4
<1> QED
  BY <1>1, <1>5, Zenon
\* A sequence is its first n elements and those after them.
After(s, n) == SubSeq(s, n + 1, Len(s))
LEMMA Cut ==
  ASSUME NEW V, NEW s \in Seq(V), NEW n \in 0 .. Len(s)
  PROVE  /\ First(s, n) \in Seq(V) /\ Len(First(s, n)) = n
         /\ After(s, n) \in Seq(V) /\ Len(After(s, n)) = Len(s) - n
         /\ First(s, n) \o After(s, n) = s
         /\ \A i \in 1 .. n : First(s, n)[i] = s[i]
         /\ \A i \in 1 .. Len(s) - n : After(s, n)[i] = s[n + i]
<1>1. Len(s) \in Nat /\ n \in 1 - 1 .. Len(s) /\ Len(s) \in n .. Len(s) /\ 1 \in 1 .. Len(s) + 1
  OBVIOUS
<1>2. First(s, n) \o After(s, n) = SubSeq(s, 1, Len(s))
  BY <1>1, ConcatAdjacentSubSeq DEF First, After
<1>3. SubSeq(s, 1, Len(s)) = s
  BY SubSeqFull
<1>4. /\ First(s, n) \in Seq(V) /\ Len(First(s, n)) = n
      /\ \A i \in 1 .. n : First(s, n)[i] = s[i]
  BY <1>1 DEF First
<1>5. /\ After(s, n) \in Seq(V) /\ Len(After(s, n)) = Len(s) - n
      /\ \A i \in 1 .. Len(s) - n : After(s, n)[i] = s[n + i]
  BY <1>1 DEF After
<1> QED
  BY <1>2, <1>3, <1>4, <1>5

\* What the first n positions give, from what those before n give.
LEMMA SelectedNext ==
  ASSUME NEW V, NEW s \in Seq(V), NEW n \in 1 .. Len(s), NEW G
  PROVE  /\ n \in G => Selected(First(s, n), G) = Append(Selected(First(s, n - 1), G), s[n])
         /\ n \notin G => Selected(First(s, n), G) = Selected(First(s, n - 1), G)
         /\ Selected(First(s, n - 1), G) \in Seq(V)
<1> DEFINE t == First(s, n - 1)  x == s[n]
<1>1. First(s, n) = Append(t, x) /\ t \in Seq(V) /\ Len(t) = n - 1 /\ x \in V
  BY OneMore
<1> HIDE DEF t, x
<1>2. Selected(Append(t, x), G) = IF Len(t) + 1 \in G THEN Append(Selected(t, G), x) ELSE Selected(t, G)
  BY <1>1, SelectedAppend
<1>3. Len(t) + 1 = n /\ Selected(t, G) \in Seq(V)
  BY <1>1, SelectedType
<1>4. Selected(First(s, n), G) = IF n \in G THEN Append(Selected(t, G), x) ELSE Selected(t, G)
  BY <1>1, <1>2, <1>3, Zenon
<1> QED
  BY <1>3, <1>4 DEF t, x

\* Induction on sequences: what holds of the empty one and, with a sequence, of one with one
\* element more holds of them all.
LEMMA OneByOne ==
  ASSUME NEW V, NEW s \in Seq(V), NEW Q, <<>> \in Q,
         \A t \in Seq(V), x \in V : t \in Q => Append(t, x) \in Q
  PROVE  s \in Q
<1> DEFINE P == {n \in 0 .. Len(s) : First(s, n) \in Q}
<1>1. Len(s) \in Nat /\ First(s, 0) = <<>> /\ First(s, Len(s)) = s
  BY FirstAll
<1>2. 0 \in P
  BY <1>1
<1>3. ASSUME NEW n \in 1 .. Len(s), n - 1 \in P PROVE n \in P
  <2>1. First(s, n) = Append(First(s, n - 1), s[n]) /\ First(s, n - 1) \in Seq(V) /\ s[n] \in V
    BY OneMore
  <2>2. First(s, n - 1) \in Q
    BY <1>3
  <2>3. First(s, n) \in Q
    BY <2>1, <2>2, Zenon
  <2> QED
    BY <2>3
<1>4. \A n \in 0 .. Len(s) : n \in P
  <2> HIDE DEF P
  <2> QED
    BY <1>1, <1>2, <1>3, Upwards
<1>5. First(s, Len(s)) \in Q
  BY <1>1, <1>4
<1> QED
  BY <1>1, <1>5, Zenon
-----------------------------------------------------------------------------
(* Texts.                                                                     *)

\* What an answer covers, character by character.
LEMMA CoveredNone == Covered(<<>>) = <<>>
BY SelectedNone DEF Covered

LEMMA CoveredAppend ==
  ASSUME NEW s \in Seq(Chars), NEW x \in Chars
  PROVE  Covered(Append(s, x)) = IF IsSpace(x) THEN Covered(s) ELSE Append(Covered(s), x)
<1> DEFINE t == Append(s, x)
<1>1. /\ t \in Seq(Chars) /\ Len(t) = Len(s) + 1 /\ Len(s) \in Nat
      /\ t[Len(s) + 1] = x /\ \A i \in 1 .. Len(s) : t[i] = s[i]
  OBVIOUS
<1>2. Selected(t, Solid(t)) =
        IF Len(s) + 1 \in Solid(t) THEN Append(Selected(s, Solid(t)), x) ELSE Selected(s, Solid(t))
  BY SelectedAppend
<1> HIDE DEF t
<1>3. \A i \in 1 .. Len(s) : i \in Solid(t) <=> i \in Solid(s)
  BY <1>1 DEF Solid
<1>4. Len(s) + 1 \in Solid(t) <=> ~IsSpace(x)
  BY <1>1 DEF Solid
<1>5. Selected(s, Solid(t)) = Selected(s, Solid(s))
  BY <1>3, SelectedAgree
<1>6. Covered(t) = IF IsSpace(x) THEN Covered(s) ELSE Append(Covered(s), x)
  BY <1>2, <1>4, <1>5, Zenon DEF Covered
<1> QED
  BY <1>6, Zenon DEF t

LEMMA CoveredType == ASSUME NEW s \in Seq(Chars) PROVE Covered(s) \in Seq(Chars)
BY SelectedType DEF Covered

\* A text covers what its two parts cover.
LEMMA CoveredConcat ==
  ASSUME NEW s \in Seq(Chars), NEW u \in Seq(Chars)
  PROVE  Covered(s \o u) = Covered(s) \o Covered(u)
<1> DEFINE Q == {t \in Seq(Chars) : Covered(s \o t) = Covered(s) \o Covered(t)}
<1>1. <<>> \in Q
  <2>1. s \o <<>> = s /\ Covered(s) \in Seq(Chars) /\ <<>> \in Seq(Chars)
    BY CoveredType, ConcatEmptySeq
  <2>2. Covered(s) \o <<>> = Covered(s)
    BY <2>1, ConcatEmptySeq
  <2>3. Covered(s \o <<>>) = Covered(s) \o Covered(<<>>)
    BY <2>1, <2>2, CoveredNone, Zenon
  <2> QED
    BY <2>1, <2>3, Zenon
<1>2. ASSUME NEW t \in Seq(Chars), NEW x \in Chars, t \in Q PROVE Append(t, x) \in Q
  <2>1. s \o Append(t, x) = Append(s \o t, x) /\ s \o t \in Seq(Chars) /\ Append(t, x) \in Seq(Chars)
    OBVIOUS
  <2>2. Covered(Append(s \o t, x)) = IF IsSpace(x) THEN Covered(s \o t) ELSE Append(Covered(s \o t), x)
    BY <2>1, CoveredAppend
  <2>3. Covered(Append(t, x)) = IF IsSpace(x) THEN Covered(t) ELSE Append(Covered(t), x)
    BY CoveredAppend
  <2>4. Covered(s \o t) = Covered(s) \o Covered(t)
    BY <1>2
  <2>5. Append(Covered(s) \o Covered(t), x) = Covered(s) \o Append(Covered(t), x)
    <3> DEFINE a == Covered(s)  b == Covered(t)
    <3>1. a \in Seq(Chars) /\ b \in Seq(Chars)
      BY CoveredType
    <3> HIDE DEF a, b
    <3>2. <<x>> \in Seq(Chars) /\ a \o b \in Seq(Chars)
      BY <3>1
    <3>3. Append(a \o b, x) = (a \o b) \o <<x>> /\ Append(b, x) = b \o <<x>>
      BY <3>1, <3>2, AppendIsConcat
    <3>4. (a \o b) \o <<x>> = a \o (b \o <<x>>)
      BY <3>1, <3>2, ConcatAssociative
    <3>5. Append(a \o b, x) = a \o Append(b, x)
      BY <3>3, <3>4, Zenon
    <3> QED
      BY <3>5, Zenon DEF a, b
  <2>6. Covered(s \o Append(t, x)) = Covered(s) \o Covered(Append(t, x))
    BY <2>1, <2>2, <2>3, <2>4, <2>5, Zenon
  <2> QED
    BY <2>1, <2>6, Zenon
<1>3. u \in Q
  <2> HIDE DEF Q
  <2> QED
    BY <1>1, <1>2, OneByOne
<1> QED
  BY <1>3, Zenon

\* Spaces cover nothing, and anything else something.
LEMMA CoveredBlank ==
  ASSUME NEW s \in Seq(Chars), Solid(s) = {} PROVE Covered(s) = <<>>
<1> DEFINE Q == {t \in Seq(Chars) : Solid(t) = {} => Covered(t) = <<>>}
<1>1. <<>> \in Q
  BY CoveredNone
<1>2. ASSUME NEW t \in Seq(Chars), NEW x \in Chars, t \in Q PROVE Append(t, x) \in Q
  <2> DEFINE r == Append(t, x)
  <2>1. /\ r \in Seq(Chars) /\ DOMAIN r = 1 .. Len(t) + 1 /\ DOMAIN t = 1 .. Len(t) /\ Len(t) \in Nat
        /\ r[Len(t) + 1] = x /\ \A i \in 1 .. Len(t) : r[i] = t[i]
    OBVIOUS
  <2>2. Covered(r) = IF IsSpace(x) THEN Covered(t) ELSE Append(Covered(t), x)
    BY CoveredAppend
  <2> HIDE DEF r
  <2>3. ASSUME Solid(r) = {} PROVE Solid(t) = {} /\ IsSpace(x)
    BY <2>1, <2>3 DEF Solid
  <2>4. Solid(r) = {} => Covered(r) = <<>>
    BY <1>2, <2>2, <2>3
  <2>5. r \in Q
    BY <2>1, <2>4
  <2> QED
    BY <2>5 DEF r
<1>3. s \in Q
  <2> HIDE DEF Q
  <2> QED
    BY <1>1, <1>2, OneByOne
<1> QED
  BY <1>3

LEMMA CoveredSome ==
  ASSUME NEW s \in Seq(Chars), Solid(s) # {} PROVE Covered(s) # <<>> /\ Len(Covered(s)) \in Nat \ {0}
<1> DEFINE Q == {t \in Seq(Chars) : Solid(t) # {} => Covered(t) # <<>>}
<1>1. <<>> \in Q
  <2>1. Solid(<<>>) = {} /\ <<>> \in Seq(Chars)
    BY DEF Solid
  <2> QED
    BY <2>1
<1>2. ASSUME NEW t \in Seq(Chars), NEW x \in Chars, t \in Q PROVE Append(t, x) \in Q
  <2> DEFINE r == Append(t, x)
  <2>1. /\ r \in Seq(Chars) /\ DOMAIN r = 1 .. Len(t) + 1 /\ DOMAIN t = 1 .. Len(t) /\ Len(t) \in Nat
        /\ r[Len(t) + 1] = x /\ \A i \in 1 .. Len(t) : r[i] = t[i]
    OBVIOUS
  <2>2. Covered(r) = IF IsSpace(x) THEN Covered(t) ELSE Append(Covered(t), x)
    BY CoveredAppend
  <2>a. Covered(t) \in Seq(Chars) /\ Append(Covered(t), x) # <<>>
    <3>1. Covered(t) \in Seq(Chars)
      BY CoveredType
    <3> QED
      BY <3>1, AppendProperties, Zenon
  <2> HIDE DEF r
  <2>3. ASSUME Solid(r) # {}, IsSpace(x) PROVE Solid(t) # {}
    BY <2>1, <2>3 DEF Solid
  <2>4. Solid(r) # {} => Covered(r) # <<>>
    BY <1>2, <2>2, <2>a, <2>3
  <2>5. r \in Q
    BY <2>1, <2>4
  <2> QED
    BY <2>5 DEF r
<1>3. s \in Q
  <2> HIDE DEF Q
  <2> QED
    BY <1>1, <1>2, OneByOne
<1>4. Covered(s) # <<>> /\ Covered(s) \in Seq(Chars)
  BY <1>3, CoveredType
<1> QED
  BY <1>4, EmptySeq

\* Only spaces are trimmed: the text covers what it covered, and what is left of it is solid.
LEMMA TrimEndKeeps ==
  ASSUME NEW s \in Seq(Chars)
  PROVE  /\ TrimEnd(s) \in Seq(Chars) /\ Covered(TrimEnd(s)) = Covered(s)
         /\ TrimEnd(s) # <<>> => Solid(TrimEnd(s)) # {}
<1>1. CASE Solid(s) = {}
  <2>1. TrimEnd(s) = <<>>
    BY <1>1 DEF TrimEnd
  <2>2. Covered(s) = <<>> /\ Covered(<<>>) = <<>> /\ <<>> \in Seq(Chars)
    BY <1>1, CoveredBlank, CoveredNone
  <2> QED
    BY <2>1, <2>2, Zenon
<1>2. CASE Solid(s) # {}
  <2> DEFINE m == Max(Solid(s))
  <2>1. Len(s) \in Nat /\ Solid(s) \subseteq 0 .. Len(s) /\ Solid(s) \subseteq 1 .. Len(s)
    BY DEF Solid
  <2>2. m \in Solid(s) /\ \A k \in Solid(s) : k <= m
    <3>1. \E n \in Solid(s) : \A k \in Solid(s) : k <= n
      BY <1>2, <2>1, Greatest
    <3>2. \E n \in Solid(s) : \A k \in Solid(s) : n >= k
      BY <2>1, <3>1
    <3>3. m \in Solid(s) /\ \A k \in Solid(s) : m >= k
      BY <3>2 DEF Max
    <3> QED
      BY <2>1, <3>3
  <2> HIDE DEF m
  <2>3. m \in 1 .. Len(s) /\ m \in 0 .. Len(s)
    BY <2>1, <2>2
  <2> DEFINE l == First(s, m)  r == After(s, m)
  <2>4. l \o r = s
    BY <2>1, <2>3, Cut
  <2>5. /\ l \in Seq(Chars) /\ Len(l) = m /\ \A i \in 1 .. m : l[i] = s[i]
        /\ r \in Seq(Chars) /\ Len(r) = Len(s) - m /\ \A i \in 1 .. Len(s) - m : r[i] = s[m + i]
    BY <2>1, <2>3, Cut
  <2>6. TrimEnd(s) = l
    BY <1>2 DEF TrimEnd, m, First
  <2> HIDE DEF l, r
  <2>7. Solid(r) = {}
    <3> SUFFICES ASSUME NEW i \in Solid(r) PROVE FALSE
      OBVIOUS
    <3>1. i \in 1 .. Len(s) - m /\ ~IsSpace(r[i])
      BY <2>5 DEF Solid
    <3>2. m + i \in Solid(s)
      <4>1. m + i \in 1 .. Len(s) /\ r[i] = s[m + i] /\ DOMAIN s = 1 .. Len(s)
        BY <2>1, <2>3, <2>5, <3>1
      <4> QED
        BY <3>1, <4>1 DEF Solid
    <3> QED
      BY <2>2, <2>3, <3>1, <3>2
  <2>8. m \in Solid(l)
    BY <2>1, <2>2, <2>3, <2>5 DEF Solid
  <2>9. Covered(l) \in Seq(Chars) /\ Covered(r) = <<>> /\ Covered(s) = Covered(l) \o Covered(r)
    <3>1. Covered(l \o r) = Covered(l) \o Covered(r)
      BY <2>5, CoveredConcat
    <3> QED
      BY <2>4, <2>5, <2>7, <3>1, CoveredType, CoveredBlank, Zenon
  <2>10. Covered(s) = Covered(l)
    BY <2>9, ConcatEmptySeq, Zenon
  <2> QED
    BY <2>5, <2>6, <2>8, <2>10
<1> QED
  BY <1>1, <1>2

LEMMA TrimStartKeeps ==
  ASSUME NEW s \in Seq(Chars)
  PROVE  /\ TrimStart(s) \in Seq(Chars) /\ Covered(TrimStart(s)) = Covered(s)
         /\ TrimStart(s) # <<>> => Solid(TrimStart(s)) # {}
<1>1. CASE Solid(s) = {}
  <2>1. TrimStart(s) = <<>>
    BY <1>1 DEF TrimStart
  <2>2. Covered(s) = <<>> /\ Covered(<<>>) = <<>> /\ <<>> \in Seq(Chars)
    BY <1>1, CoveredBlank, CoveredNone
  <2> QED
    BY <2>1, <2>2, Zenon
<1>2. CASE Solid(s) # {}
  <2> DEFINE m == Min(Solid(s))
  <2>1. Len(s) \in Nat /\ Solid(s) \subseteq Nat /\ Solid(s) \subseteq 1 .. Len(s)
    BY DEF Solid
  <2>2. m \in Solid(s) /\ \A k \in Solid(s) : m <= k
    <3>1. \E n \in Solid(s) : \A k \in Solid(s) : n <= k
      BY <1>2, <2>1, Least
    <3> QED
      BY <3>1 DEF Min
  <2> HIDE DEF m
  <2>3. m \in 1 .. Len(s) /\ m - 1 \in 0 .. Len(s)
    BY <2>1, <2>2
  <2> DEFINE l == First(s, m - 1)  r == After(s, m - 1)
  <2>4. l \o r = s
    BY <2>1, <2>3, Cut
  <2>5. /\ l \in Seq(Chars) /\ Len(l) = m - 1 /\ \A i \in 1 .. m - 1 : l[i] = s[i]
        /\ r \in Seq(Chars) /\ Len(r) = Len(s) - m + 1
        /\ \A i \in 1 .. Len(s) - m + 1 : r[i] = s[m + i - 1]
    <3>1. m - 1 \in 0 .. Len(s)
      BY <2>1, <2>3
    <3> DEFINE n == m - 1
    <3>2. /\ l \in Seq(Chars) /\ Len(l) = n /\ \A i \in 1 .. n : l[i] = s[i]
          /\ r \in Seq(Chars) /\ Len(r) = Len(s) - n /\ \A i \in 1 .. Len(s) - n : r[i] = s[n + i]
      BY <3>1, Cut
    <3>3. Len(s) - n = Len(s) - m + 1 /\ \A i \in Int : n + i = m + i - 1
      BY <2>1, <2>3
    <3> HIDE DEF l, r
    <3>4. \A i \in 1 .. Len(s) - m + 1 : r[i] = s[m + i - 1]
      <4> SUFFICES ASSUME NEW i \in 1 .. Len(s) - m + 1 PROVE r[i] = s[m + i - 1]
        OBVIOUS
      <4>1. i \in 1 .. Len(s) - n /\ n + i = m + i - 1
        BY <3>3
      <4> QED
        BY <3>2, <4>1
    <3> QED
      BY <3>2, <3>3, <3>4
  <2>6. TrimStart(s) = r
    <3>1. m - 1 + 1 = m
      BY <2>3
    <3>2. r = SubSeq(s, m, Len(s))
      BY <3>1, Zenon DEF After
    <3> QED
      BY <1>2, <3>2 DEF TrimStart, m
  <2> HIDE DEF l, r
  <2>7. Solid(l) = {}
    <3> SUFFICES ASSUME NEW i \in Solid(l) PROVE FALSE
      OBVIOUS
    <3>1. i \in 1 .. m - 1 /\ ~IsSpace(l[i])
      BY <2>3, <2>5 DEF Solid
    <3>2. i \in Solid(s)
      BY <2>1, <2>3, <2>5, <3>1 DEF Solid
    <3> QED
      BY <2>2, <2>3, <3>1, <3>2
  <2>8. 1 \in Solid(r)
    <3>1. 1 \in 1 .. Len(s) - m + 1 /\ m + 1 - 1 = m /\ Len(s) - m + 1 \in Nat
      BY <2>1, <2>3
    <3>2. DOMAIN r = 1 .. Len(s) - m + 1
      BY <2>5
    <3>3. 1 \in DOMAIN r /\ r[1] = s[m]
      BY <2>5, <3>1, <3>2
    <3> QED
      BY <2>2, <3>3 DEF Solid
  <2>9. Covered(r) \in Seq(Chars) /\ Covered(l) = <<>> /\ Covered(s) = Covered(l) \o Covered(r)
    <3>1. Covered(l \o r) = Covered(l) \o Covered(r)
      BY <2>5, CoveredConcat
    <3> QED
      BY <2>4, <2>5, <2>7, <3>1, CoveredType, CoveredBlank, Zenon
  <2>10. Covered(s) = Covered(r)
    BY <2>9, ConcatEmptySeq, Zenon
  <2> QED
    BY <2>5, <2>6, <2>8, <2>10
<1> QED
  BY <1>1, <1>2

\* There is a best place to cut.
LEMMA BoundaryIs ==
  ASSUME NEW s \in Seq(Chars), Len(s) >= 2
  PROVE  Boundary(s) \in 1 .. Len(s) - 1
<1> DEFINE middle == Len(s) \div 2
<1>1. Len(s) \in Nat /\ middle \in 1 .. Len(s) - 1
  OBVIOUS
<1>2. Boundary(s) = IF Cuts(s) = {} THEN middle
                    ELSE CHOOSE i \in Cuts(s) : \A j \in Cuts(s) :
                           \/ Distance(i, middle) < Distance(j, middle)
                           \/ Distance(i, middle) = Distance(j, middle) /\ i <= j
  BY DEF Boundary
<1> HIDE DEF middle
<1>3. CASE Cuts(s) # {}
  <2>1. Cuts(s) \subseteq 1 .. Len(s) - 1
    BY DEF Cuts
  <2> DEFINE Ds == {Distance(i, middle) : i \in Cuts(s)}
  <2>2. Ds \subseteq Nat /\ Ds # {}
    BY <1>1, <1>3, <2>1 DEF Distance
  <2>3. PICK d \in Ds : \A e \in Ds : d <= e
    BY <2>2, Least
  <2> HIDE DEF Ds
  <2> DEFINE Best == {i \in Cuts(s) : Distance(i, middle) = d}
  <2>4. Best \subseteq Nat /\ Best # {}
    BY <2>1, <2>3 DEF Ds
  <2>5. PICK i \in Best : \A j \in Best : i <= j
    BY <2>4, Least
  <2>6. \A j \in Cuts(s) : \/ Distance(i, middle) < Distance(j, middle)
                           \/ Distance(i, middle) = Distance(j, middle) /\ i <= j
    <3> SUFFICES ASSUME NEW j \in Cuts(s)
                 PROVE  \/ Distance(i, middle) < Distance(j, middle)
                        \/ Distance(i, middle) = Distance(j, middle) /\ i <= j
      OBVIOUS
    <3>1. Distance(j, middle) \in Ds /\ Distance(i, middle) = d
      BY <2>5 DEF Ds
    <3>2. d \in Nat /\ Distance(j, middle) \in Nat /\ d <= Distance(j, middle)
      BY <2>2, <2>3, <3>1
    <3>3. Distance(j, middle) = d => i <= j
      BY <2>5
    <3> QED
      BY <3>1, <3>2, <3>3
  <2>7. Boundary(s) \in Cuts(s)
    BY <1>2, <1>3, <2>5, <2>6
  <2> QED
    BY <2>1, <2>7
<1> QED
  BY <1>1, <1>2, <1>3

\* A text that is split loses only spaces, and neither part is blank.
LEMMA SplitKeeps ==
  ASSUME NEW s \in Seq(Chars), Splits(s)
  PROVE  /\ LeftOf(s) \in Seq(Chars) /\ RightOf(s) \in Seq(Chars)
         /\ Covered(LeftOf(s)) \o Covered(RightOf(s)) = Covered(s)
         /\ Solid(LeftOf(s)) # {} /\ Solid(RightOf(s)) # {}
<1> DEFINE b == Boundary(s)  l == SubSeq(s, 1, b)  r == SubSeq(s, b + 1, Len(s))
<1>1. b \in 1 .. Len(s) - 1 /\ Len(s) \in Nat
  BY BoundaryIs DEF Splits
<1> HIDE DEF b
<1>2. l \in Seq(Chars) /\ r \in Seq(Chars) /\ l \o r = s
  <2>1. l \in Seq(Chars) /\ r \in Seq(Chars)
    BY <1>1
  <2>2. l \o r = SubSeq(s, 1, Len(s)) /\ SubSeq(s, 1, Len(s)) = s
    BY <1>1, ConcatAdjacentSubSeq, SubSeqFull
  <2> QED
    BY <2>1, <2>2
<1>3. LeftOf(s) = TrimEnd(l) /\ RightOf(s) = TrimStart(r)
  BY DEF LeftOf, RightOf, b
<1> HIDE DEF l, r
<1>4. Covered(l \o r) = Covered(l) \o Covered(r)
  BY <1>2, CoveredConcat
<1>5. LeftOf(s) # <<>> /\ RightOf(s) # <<>>
  BY DEF Splits
<1>6. /\ TrimEnd(l) \in Seq(Chars) /\ Covered(TrimEnd(l)) = Covered(l)
      /\ TrimEnd(l) # <<>> => Solid(TrimEnd(l)) # {}
  BY <1>2, TrimEndKeeps
<1>7. /\ TrimStart(r) \in Seq(Chars) /\ Covered(TrimStart(r)) = Covered(r)
      /\ TrimStart(r) # <<>> => Solid(TrimStart(r)) # {}
  BY <1>2, TrimStartKeeps
<1> QED
  BY <1>2, <1>3, <1>4, <1>5, <1>6, <1>7, Zenon
-----------------------------------------------------------------------------
(* Chunks: pieces of text, each under an id of its own, none of them blank.   *)
Pieces == [id : Seq(Nat), text : Seq(Chars)]
Good(chunk) ==
  /\ chunk \in Seq(Pieces) /\ chunk # <<>>
  /\ \A i, j \in DOMAIN chunk : chunk[i].id = chunk[j].id => i = j
  /\ \A i \in DOMAIN chunk : Solid(chunk[i].text) # {}

\* A function on 1 .. n is a sequence.
LEMMA Listed ==
  ASSUME NEW V, NEW n \in Nat, NEW f, DOMAIN f = 1 .. n, f = [i \in DOMAIN f |-> f[i]],
         \A i \in 1 .. n : f[i] \in V
  PROVE  f \in Seq(V) /\ Len(f) = n
<1>1. f \in [1 .. n -> V]
  OBVIOUS
<1> QED
  BY <1>1, SeqDef

LEMMA AnswerIs ==
  ASSUME NEW p \in Pieces
  PROVE  Answer(p) = Piece(p.id, Covered(p.text)) /\ Answer(p) \in Pieces
BY CoveredType DEF Answer, Piece, Pieces

LEMMA AnswersAre ==
  ASSUME NEW chunk \in Seq(Pieces)
  PROVE  /\ Answers(chunk) \in Seq(Pieces) /\ Len(Answers(chunk)) = Len(chunk)
         /\ \A i \in 1 .. Len(chunk) : Answers(chunk)[i] = Answer(chunk[i])
<1> DEFINE f == Answers(chunk)
<1>1. DOMAIN chunk = 1 .. Len(chunk) /\ Len(chunk) \in Nat /\ \A i \in 1 .. Len(chunk) : chunk[i] \in Pieces
  OBVIOUS
<1>2. DOMAIN f = 1 .. Len(chunk) /\ f = [i \in DOMAIN f |-> f[i]]
      /\ \A i \in 1 .. Len(chunk) : f[i] = Answer(chunk[i])
  BY <1>1 DEF Answers
<1>3. \A i \in 1 .. Len(chunk) : f[i] \in Pieces
  BY <1>1, <1>2, AnswerIs
<1> HIDE DEF f
<1>4. f \in Seq(Pieces) /\ Len(f) = Len(chunk)
  BY <1>1, <1>2, <1>3, Listed
<1> QED
  BY <1>2, <1>4 DEF f

\* Two halves are answered as the whole is.
LEMMA AnswersJoin ==
  ASSUME NEW chunk \in Seq(Pieces), NEW n \in 0 .. Len(chunk)
  PROVE  Answers(First(chunk, n)) \o Answers(After(chunk, n)) = Answers(chunk)
<1> DEFINE l == First(chunk, n)  r == After(chunk, n)
           a == Answers(l)  b == Answers(r)  t == Answers(chunk)
<1>1. /\ l \in Seq(Pieces) /\ Len(l) = n /\ r \in Seq(Pieces) /\ Len(r) = Len(chunk) - n
      /\ \A i \in 1 .. n : l[i] = chunk[i]
      /\ \A i \in 1 .. Len(chunk) - n : r[i] = chunk[n + i]
  BY Cut
<1>2. /\ a \in Seq(Pieces) /\ Len(a) = Len(l) /\ \A i \in 1 .. Len(l) : a[i] = Answer(l[i])
      /\ b \in Seq(Pieces) /\ Len(b) = Len(r) /\ \A i \in 1 .. Len(r) : b[i] = Answer(r[i])
      /\ t \in Seq(Pieces) /\ Len(t) = Len(chunk) /\ \A i \in 1 .. Len(chunk) : t[i] = Answer(chunk[i])
  BY <1>1, AnswersAre
<1> HIDE DEF l, r, a, b, t
<1>3. /\ a \o b \in Seq(Pieces) /\ Len(a \o b) = Len(a) + Len(b)
      /\ \A i \in 1 .. Len(a) + Len(b) : (a \o b)[i] = IF i <= Len(a) THEN a[i] ELSE b[i - Len(a)]
  <2>1. a \in Seq(Pieces) /\ b \in Seq(Pieces)
    BY <1>2
  <2> QED
    BY <2>1, ConcatProperties
<1>4. Len(chunk) \in Nat
  OBVIOUS
<1> DEFINE u == a \o b
<1>5. u \in Seq(Pieces) /\ Len(u) = Len(chunk)
      /\ \A i \in 1 .. Len(chunk) : u[i] = IF i <= n THEN a[i] ELSE b[i - n]
  BY <1>1, <1>2, <1>3, <1>4
<1> HIDE DEF u
<1>6. ASSUME NEW i \in 1 .. Len(chunk) PROVE u[i] = t[i]
  <2>1. CASE i <= n
    BY <1>1, <1>2, <1>4, <1>5, <2>1
  <2>2. CASE ~(i <= n)
    <3>1. i - n \in 1 .. Len(chunk) - n /\ n + (i - n) = i
      BY <1>4, <2>2
    <3>2. u[i] = b[i - n] /\ b[i - n] = Answer(r[i - n]) /\ r[i - n] = chunk[n + (i - n)]
      BY <1>1, <1>2, <1>5, <2>2, <3>1
    <3> QED
      BY <1>2, <3>1, <3>2
  <2> QED
    BY <2>1, <2>2
<1>7. u = t
  BY <1>2, <1>5, <1>6, SeqEqual
<1> QED
  BY <1>7 DEF u, a, b, l, r, t

\* The parts of a good chunk are good.
LEMMA GoodParts ==
  ASSUME NEW chunk, Good(chunk), NEW n \in 1 .. Len(chunk) - 1
  PROVE  Good(First(chunk, n)) /\ Good(After(chunk, n))
<1> DEFINE l == First(chunk, n)  r == After(chunk, n)
<1>1. chunk \in Seq(Pieces) /\ Len(chunk) \in Nat /\ n \in 0 .. Len(chunk) /\ DOMAIN chunk = 1 .. Len(chunk)
  BY DEF Good
<1>2. /\ l \in Seq(Pieces) /\ Len(l) = n /\ r \in Seq(Pieces) /\ Len(r) = Len(chunk) - n
      /\ \A i \in 1 .. n : l[i] = chunk[i]
      /\ \A i \in 1 .. Len(chunk) - n : r[i] = chunk[n + i]
  BY <1>1, Cut
<1> HIDE DEF l, r
<1>3. DOMAIN l = 1 .. n /\ DOMAIN r = 1 .. Len(chunk) - n /\ l # <<>> /\ r # <<>>
  BY <1>1, <1>2
<1>4. Good(l)
  <2>1. \A i \in DOMAIN l : i \in DOMAIN chunk /\ l[i] = chunk[i]
    BY <1>1, <1>2, <1>3
  <2>2. /\ \A i, j \in DOMAIN l : l[i].id = l[j].id => i = j
        /\ \A i \in DOMAIN l : Solid(l[i].text) # {}
    BY <2>1 DEF Good
  <2> QED
    BY <1>2, <1>3, <2>2 DEF Good
<1>5. \A i \in DOMAIN r : n + i \in DOMAIN chunk /\ r[i] = chunk[n + i]
  BY <1>1, <1>2, <1>3
<1>6. \A i, j \in DOMAIN r : r[i].id = r[j].id => i = j
  <2> SUFFICES ASSUME NEW i \in DOMAIN r, NEW j \in DOMAIN r, r[i].id = r[j].id PROVE i = j
    OBVIOUS
  <2>1. n + i = n + j
    BY <1>5 DEF Good
  <2> QED
    BY <1>1, <1>3, <2>1
<1>7. \A i \in DOMAIN r : Solid(r[i].text) # {}
  BY <1>5 DEF Good
<1>8. Good(r)
  BY <1>2, <1>3, <1>6, <1>7 DEF Good
<1> QED
  BY <1>4, <1>8 DEF l, r
\* What is selected is what stands at the positions selected, all of it.
TakenFrom(s, n, G, r) ==
  /\ \A j \in 1 .. Len(r) : \E i \in 1 .. n : i \in G /\ r[j] = s[i]
  /\ \A i \in 1 .. n : i \in G => \E j \in 1 .. Len(r) : r[j] = s[i]

\* What is selected is taken from the sequence, in its order.
LEMMA SelectedElements ==
  ASSUME NEW V, NEW s \in Seq(V), NEW G
  PROVE  TakenFrom(s, Len(s), G, Selected(s, G))
<1> DEFINE P == {n \in 0 .. Len(s) : TakenFrom(s, n, G, Selected(First(s, n), G))}
<1>1. Len(s) \in Nat /\ First(s, 0) = <<>> /\ First(s, Len(s)) = s
  BY FirstAll
<1>2. 0 \in P
  <2>1. Selected(First(s, 0), G) = <<>>
    BY <1>1, SelectedNone, Zenon
  <2>2. TakenFrom(s, 0, G, <<>>)
    BY DEF TakenFrom
  <2>3. TakenFrom(s, 0, G, Selected(First(s, 0), G))
    BY <2>1, <2>2, Zenon
  <2> QED
    BY <1>1, <2>3
<1>3. ASSUME NEW n \in 1 .. Len(s), n - 1 \in P PROVE n \in P
  <2> DEFINE t == First(s, n - 1)  q == Selected(t, G)
  <2>1. First(s, n) = Append(t, s[n]) /\ t \in Seq(V) /\ s[n] \in V /\ Len(t) = n - 1
    BY OneMore
  <2>2. TakenFrom(s, n - 1, G, q)
    BY <1>3
  <2>3. q \in Seq(V)
    BY <2>1, SelectedType
  <2> HIDE DEF t
  <2>4. Selected(Append(t, s[n]), G) = IF Len(t) + 1 \in G THEN Append(q, s[n]) ELSE q
    BY <2>1, SelectedAppend
  <2>5. Len(t) + 1 = n
    BY <2>1
  <2>6. Selected(First(s, n), G) = IF n \in G THEN Append(q, s[n]) ELSE q
    BY <2>1, <2>4, <2>5, Zenon
  <2> HIDE DEF q, t
  <2>7. CASE n \in G
    <3> DEFINE r == Append(q, s[n])
    <3>1. /\ Len(r) = Len(q) + 1 /\ Len(q) \in Nat /\ r[Len(q) + 1] = s[n]
          /\ \A j \in 1 .. Len(q) : r[j] = q[j]
      BY <2>1, <2>3
    <3> HIDE DEF r
    <3>2. ASSUME NEW j \in 1 .. Len(r) PROVE \E i \in 1 .. n : i \in G /\ r[j] = s[i]
      <4>1. CASE j = Len(q) + 1
        BY <2>7, <3>1, <4>1
      <4>2. CASE j # Len(q) + 1
        <5>1. j \in 1 .. Len(q) /\ r[j] = q[j]
          BY <3>1, <4>2
        <5>2. PICK i \in 1 .. n - 1 : i \in G /\ q[j] = s[i]
          BY <2>2, <5>1 DEF TakenFrom
        <5>3. i \in 1 .. n
          OBVIOUS
        <5> QED
          BY <5>1, <5>2, <5>3
      <4> QED
        BY <4>1, <4>2
    <3>3. ASSUME NEW i \in 1 .. n, i \in G PROVE \E j \in 1 .. Len(r) : r[j] = s[i]
      <4>1. CASE i = n
        BY <3>1, <4>1
      <4>2. CASE i # n
        <5>1. i \in 1 .. n - 1
          BY <4>2
        <5>2. PICK j \in 1 .. Len(q) : q[j] = s[i]
          BY <2>2, <3>3, <5>1 DEF TakenFrom
        <5>3. j \in 1 .. Len(r) /\ r[j] = q[j]
          BY <3>1
        <5> QED
          BY <5>2, <5>3
      <4> QED
        BY <4>1, <4>2
    <3>4. TakenFrom(s, n, G, r)
      BY <3>2, <3>3 DEF TakenFrom
    <3>5. Selected(First(s, n), G) = r
      BY <2>6, <2>7 DEF r
    <3>6. TakenFrom(s, n, G, Selected(First(s, n), G))
      BY <3>4, <3>5, Zenon
    <3> QED
      BY <3>6
  <2>8. CASE n \notin G
    <3>1. ASSUME NEW j \in 1 .. Len(q) PROVE \E i \in 1 .. n : i \in G /\ q[j] = s[i]
      <4>1. PICK i \in 1 .. n - 1 : i \in G /\ q[j] = s[i]
        BY <2>2 DEF TakenFrom
      <4>2. i \in 1 .. n
        OBVIOUS
      <4> QED
        BY <4>1, <4>2
    <3>2. ASSUME NEW i \in 1 .. n, i \in G PROVE \E j \in 1 .. Len(q) : q[j] = s[i]
      <4>1. i \in 1 .. n - 1
        BY <2>8, <3>2
      <4> QED
        BY <2>2, <3>2, <4>1 DEF TakenFrom
    <3>3. TakenFrom(s, n, G, q)
      BY <3>1, <3>2 DEF TakenFrom
    <3>4. Selected(First(s, n), G) = q
      BY <2>6, <2>8
    <3>5. TakenFrom(s, n, G, Selected(First(s, n), G))
      BY <3>3, <3>4, Zenon
    <3> QED
      BY <3>5
  <2> QED
    BY <2>7, <2>8
<1>4. \A n \in 0 .. Len(s) : n \in P
  <2> HIDE DEF P
  <2> QED
    BY <1>1, <1>2, <1>3, Upwards
<1>5. TakenFrom(s, Len(s), G, Selected(First(s, Len(s)), G))
  BY <1>1, <1>4
<1>6. TakenFrom(s, Len(s), G, Selected(s, G))
  BY <1>1, <1>5, Zenon
<1> QED
  BY <1>6

\* Some of the pieces of a good chunk are a good chunk, and no piece comes twice.
LEMMA GoodSelected ==
  ASSUME NEW chunk, Good(chunk), NEW E, E \subseteq DOMAIN chunk, E # {}
  PROVE  Good(Selected(chunk, E))
<1>1. chunk \in Seq(Pieces) /\ Len(chunk) \in Nat /\ DOMAIN chunk = 1 .. Len(chunk)
  BY DEF Good
<1> DEFINE r == Selected(chunk, E)
<1>2. r \in Seq(Pieces) /\ DOMAIN r = 1 .. Len(r) /\ Len(r) \in Nat
  BY <1>1, SelectedType
<1>3. /\ \A j \in 1 .. Len(r) : \E i \in 1 .. Len(chunk) : i \in E /\ r[j] = chunk[i]
      /\ \A i \in 1 .. Len(chunk) : i \in E => \E j \in 1 .. Len(r) : r[j] = chunk[i]
  <2>1. TakenFrom(chunk, Len(chunk), E, Selected(chunk, E))
    BY <1>1, SelectedElements
  <2> QED
    BY <2>1 DEF TakenFrom
<1>4. \A j \in DOMAIN r : Solid(r[j].text) # {}
  <2> HIDE DEF r
  <2> SUFFICES ASSUME NEW j \in DOMAIN r PROVE Solid(r[j].text) # {}
    OBVIOUS
  <2>1. PICK i \in 1 .. Len(chunk) : r[j] = chunk[i]
    BY <1>2, <1>3
  <2> QED
    BY <1>1, <2>1 DEF Good
<1>5. r # <<>>
  <2>1. PICK i \in 1 .. Len(chunk) : i \in E
    BY <1>1
  <2>2. PICK j \in 1 .. Len(r) : r[j] = chunk[i]
    BY <1>3, <2>1
  <2> HIDE DEF r
  <2> QED
    BY <1>2, <2>2
<1>6. \A i, j \in DOMAIN r : r[i].id = r[j].id => i = j
  <2> DEFINE Apart(q) == \A i, j \in 1 .. Len(q) : q[i].id = q[j].id => i = j
             P == {n \in 0 .. Len(chunk) : Apart(Selected(First(chunk, n), E))}
  <2>1. Len(chunk) \in Nat /\ First(chunk, 0) = <<>> /\ First(chunk, Len(chunk)) = chunk
    BY <1>1, FirstAll
  <2>2. 0 \in P
    <3>1. Selected(First(chunk, 0), E) = <<>>
      BY <2>1, SelectedNone, Zenon
    <3>2. Apart(<<>>)
      OBVIOUS
    <3>3. Apart(Selected(First(chunk, 0), E))
      BY <3>1, <3>2, Zenon
    <3> QED
      BY <2>1, <3>3
  <2>3. ASSUME NEW n \in 1 .. Len(chunk), n - 1 \in P PROVE n \in P
    <3> DEFINE t == First(chunk, n - 1)  q == Selected(t, E)
    <3>1. t \in Seq(Pieces) /\ chunk[n] \in Pieces /\ Len(t) = n - 1
      BY <1>1, OneMore
    <3>2. Apart(q)
      BY <2>3
    <3>3. q \in Seq(Pieces)
      BY <3>1, SelectedType
    <3>6. /\ n \in E => Selected(First(chunk, n), E) = Append(q, chunk[n])
          /\ n \notin E => Selected(First(chunk, n), E) = q
      BY <1>1, SelectedNext
    <3> HIDE DEF t
    <3>7. \A j \in 1 .. Len(q) : \E i \in 1 .. Len(t) : i \in E /\ q[j] = t[i]
      BY <3>1, SelectedElements DEF TakenFrom
    <3>8. \A i \in 1 .. n - 1 : t[i] = chunk[i]
      <4>1. n - 1 \in 0 .. Len(chunk)
        BY <2>1
      <4> QED
        BY <1>1, <4>1, Cut DEF t
    <3> HIDE DEF q
    <3>9. \A j \in 1 .. Len(q) : q[j].id # chunk[n].id
      <4> SUFFICES ASSUME NEW j \in 1 .. Len(q) PROVE q[j].id # chunk[n].id
        OBVIOUS
      <4>1. PICK i \in 1 .. Len(t) : q[j] = t[i]
        BY <3>7
      <4>2. i \in 1 .. n - 1 /\ q[j] = chunk[i] /\ i \in 1 .. Len(chunk) /\ i # n
        BY <2>1, <3>1, <3>8, <4>1
      <4> QED
        BY <1>1, <4>2 DEF Good
    <3> DEFINE u == Append(q, chunk[n])
    <3>10. Apart(u)
      <4>1. /\ Len(u) = Len(q) + 1 /\ Len(q) \in Nat /\ u[Len(q) + 1] = chunk[n]
            /\ \A j \in 1 .. Len(q) : u[j] = q[j]
        BY <3>1, <3>3
      <4> HIDE DEF u
      <4> SUFFICES ASSUME NEW i \in 1 .. Len(u), NEW j \in 1 .. Len(u), u[i].id = u[j].id PROVE i = j
        OBVIOUS
      <4>2. (i \in 1 .. Len(q) \/ i = Len(q) + 1) /\ (j \in 1 .. Len(q) \/ j = Len(q) + 1)
        BY <4>1
      <4> QED
        BY <3>2, <3>9, <4>1, <4>2
    <3> HIDE DEF Apart, u
    <3>11. Apart(Selected(First(chunk, n), E))
      <4>1. (n \in E => Selected(First(chunk, n), E) = u) /\ (n \notin E => Selected(First(chunk, n), E) = q)
        BY <3>6 DEF u
      <4> QED
        BY <3>2, <3>10, <4>1, Zenon
    <3> QED
      BY <3>11
  <2>4. \A n \in 0 .. Len(chunk) : n \in P
    <3> HIDE DEF P
    <3> QED
      BY <2>1, <2>2, <2>3, Upwards
  <2> HIDE DEF Apart
  <2>5. Apart(Selected(First(chunk, Len(chunk)), E))
    BY <2>1, <2>4
  <2>6. Apart(Selected(chunk, E))
    BY <2>1, <2>5, Zenon
  <2>7. Apart(r)
    BY <2>6, Zenon
  <2> HIDE DEF r
  <2> QED
    BY <1>2, <2>7 DEF Apart
<1> HIDE DEF r
<1>7. Good(r)
  BY <1>2, <1>4, <1>5, <1>6 DEF Good
<1> QED
  BY <1>7 DEF r

\* The two parts of a piece that is split.
LEMMA GoodSplit ==
  ASSUME NEW p \in Pieces, NEW n \in Nat, NEW text \in Seq(Chars), Solid(text) # {}
  PROVE  Good(<<Piece(Append(p.id, n), text)>>)
<1> DEFINE q == Piece(Append(p.id, n), text)
<1>1. q \in Pieces /\ q.text = text
  BY DEF Piece, Pieces
<1> HIDE DEF q
<1>2. <<q>> \in Seq(Pieces) /\ DOMAIN <<q>> = 1 .. 1 /\ <<q>> # <<>> /\ <<q>>[1] = q
  BY <1>1
<1>3. Good(<<q>>)
  BY <1>1, <1>2 DEF Good
<1> QED
  BY <1>3 DEF q
-----------------------------------------------------------------------------
(* The load of a chunk: how many indivisible parts its pieces have together.  *)
LEMMA SizeIs ==
  ASSUME NEW m, NEW p \in Pieces
  PROVE  Size(m, p) \in Nat /\ (Solid(p.text) # {} => Size(m, p) >= 1)
<1>1. p.text \in Seq(Chars)
  BY DEF Pieces
<1> DEFINE t == Covered(p.text)
<1>2. t \in Seq(Chars) /\ (Solid(p.text) # {} => Len(t) \in Nat \ {0})
  BY <1>1, CoveredType, CoveredSome
<1>3. Len(t) \in Nat
  BY <1>2
<1>4. Size(m, p) = IF m = "translation" THEN Len(t) ELSE 1
  BY DEF Size
<1> HIDE DEF t
<1> QED
  BY <1>2, <1>3, <1>4

\* The function that Load is defined by.
Sums(f, m, chunk, k) ==
  f = [n \in 0 .. k |-> IF n = 0 THEN 0 ELSE f[n - 1] + Size(m, chunk[n])]

LEMMA SumsIs ==
  ASSUME NEW m, NEW chunk \in Seq(Pieces), NEW f, Sums(f, m, chunk, Len(chunk))
  PROVE  f[0] = 0 /\ \A n \in 1 .. Len(chunk) : f[n] = f[n - 1] + Size(m, chunk[n])
<1>1. Len(chunk) \in Nat /\ 0 \in 0 .. Len(chunk) /\ \A n \in 1 .. Len(chunk) : n \in 0 .. Len(chunk) /\ n # 0
  OBVIOUS
<1> QED
  BY <1>1 DEF Sums

\* The recursive function that adds up a chunk exists.
LEMMA SumsExists ==
  ASSUME NEW m, NEW chunk \in Seq(Pieces)
  PROVE  \E f : Sums(f, m, chunk, Len(chunk))
<1> DEFINE P == {k \in 0 .. Len(chunk) : \E f : Sums(f, m, chunk, k)}
<1>1. Len(chunk) \in Nat
  OBVIOUS
<1>2. 0 \in P
  <2>1. Sums([n \in 0 .. 0 |-> 0], m, chunk, 0)
    BY DEF Sums
  <2> QED
    BY <1>1, <2>1
<1>3. ASSUME NEW k \in 1 .. Len(chunk), k - 1 \in P PROVE k \in P
  <2>1. PICK f : Sums(f, m, chunk, k - 1)
    BY <1>3
  <2>2. /\ DOMAIN f = 0 .. k - 1
        /\ \A n \in 0 .. k - 1 : f[n] = IF n = 0 THEN 0 ELSE f[n - 1] + Size(m, chunk[n])
    BY <2>1 DEF Sums
  <2> DEFINE g == [n \in 0 .. k |-> IF n \in 0 .. k - 1 THEN f[n] ELSE f[k - 1] + Size(m, chunk[k])]
  <2>3. g = [n \in 0 .. k |-> IF n = 0 THEN 0 ELSE g[n - 1] + Size(m, chunk[n])]
    <3>1. \A n \in 0 .. k - 1 : g[n] = f[n]
      OBVIOUS
    <3>2. ASSUME NEW n \in 0 .. k PROVE g[n] = IF n = 0 THEN 0 ELSE g[n - 1] + Size(m, chunk[n])
      <4>1. CASE n = k
        <5>1. g[k] = f[k - 1] + Size(m, chunk[k]) /\ g[k - 1] = f[k - 1] /\ k # 0
          BY <3>1
        <5> QED
          BY <4>1, <5>1
      <4>2. CASE n # k
        <5>1. n \in 0 .. k - 1
          BY <4>2
        <5>2. g[n] = f[n] /\ (n # 0 => g[n - 1] = f[n - 1])
          BY <3>1, <5>1
        <5> HIDE DEF g
        <5> QED
          BY <2>2, <5>1, <5>2
      <4> QED
        BY <4>1, <4>2
    <3>3. DOMAIN g = 0 .. k /\ g = [n \in 0 .. k |-> g[n]]
      OBVIOUS
    <3> HIDE DEF g
    <3> QED
      BY <3>2, <3>3
  <2>4. Sums(g, m, chunk, k)
    BY <2>3, Zenon DEF Sums
  <2> HIDE DEF g
  <2> QED
    BY <1>1, <2>4
<1>4. \A k \in 0 .. Len(chunk) : k \in P
  <2> HIDE DEF P
  <2> QED
    BY <1>1, <1>2, <1>3, Upwards
<1> QED
  BY <1>1, <1>4

\* What a chunk may cost is the sum over its pieces.
LEMMA LoadIs ==
  ASSUME NEW m, NEW chunk \in Seq(Pieces)
  PROVE  \E f : Sums(f, m, chunk, Len(chunk)) /\ Load(m, chunk) = f[Len(chunk)]
<1> DEFINE sum == CHOOSE f : Sums(f, m, chunk, Len(chunk))
<1>1. Sums(sum, m, chunk, Len(chunk))
  BY SumsExists
<1>2. Load(m, chunk) = sum[Len(chunk)]
  BY DEF Load, Sums
<1> QED
  BY <1>1, <1>2

\* Only the first n pieces matter for the sum of n.
LEMMA SumsAgree ==
  ASSUME NEW m, NEW s \in Seq(Pieces), NEW f, Sums(f, m, s, Len(s)),
         NEW t \in Seq(Pieces), NEW g, Sums(g, m, t, Len(t)),
         NEW n \in Nat, n <= Len(s), n <= Len(t), \A i \in 1 .. n : s[i] = t[i]
  PROVE  f[n] = g[n]
<1> DEFINE P == {i \in 0 .. n : f[i] = g[i]}
<1>1. 0 \in P
  BY SumsIs
<1>2. ASSUME NEW i \in 1 .. n, i - 1 \in P PROVE i \in P
  <2>1. i \in 1 .. Len(s) /\ i \in 1 .. Len(t) /\ s[i] = t[i] /\ f[i - 1] = g[i - 1]
    BY <1>2
  <2>2. f[i] = f[i - 1] + Size(m, s[i]) /\ g[i] = g[i - 1] + Size(m, t[i])
    BY <2>1, SumsIs
  <2> QED
    BY <2>1, <2>2
<1>3. \A i \in 0 .. n : i \in P
  <2> HIDE DEF P
  <2> QED
    BY <1>1, <1>2, Upwards
<1> QED
  BY <1>3

\* The load of nothing, of one piece more, of any chunk, of one piece.
LEMMA LoadNone == ASSUME NEW m PROVE Load(m, <<>>) = 0
<1>1. <<>> \in Seq(Pieces) /\ Len(<<>>) = 0
  OBVIOUS
<1>2. PICK f : Sums(f, m, <<>>, Len(<<>>)) /\ Load(m, <<>>) = f[Len(<<>>)]
  BY <1>1, LoadIs
<1>3. f[0] = 0
  BY <1>1, <1>2, SumsIs
<1> QED
  BY <1>1, <1>2, <1>3

LEMMA LoadAppend ==
  ASSUME NEW m, NEW s \in Seq(Pieces), NEW p \in Pieces
  PROVE  Load(m, Append(s, p)) = Load(m, s) + Size(m, p)
<1> DEFINE t == Append(s, p)
<1>1. /\ t \in Seq(Pieces) /\ Len(t) = Len(s) + 1 /\ Len(s) \in Nat /\ t[Len(s) + 1] = p
      /\ \A i \in 1 .. Len(s) : t[i] = s[i]
  OBVIOUS
<1> HIDE DEF t
<1>2. PICK f : Sums(f, m, s, Len(s)) /\ Load(m, s) = f[Len(s)]
  BY LoadIs
<1>3. PICK g : Sums(g, m, t, Len(t)) /\ Load(m, t) = g[Len(t)]
  BY <1>1, LoadIs
<1>4. g[Len(s)] = f[Len(s)]
  BY <1>1, <1>2, <1>3, SumsAgree
<1>5. g[Len(s) + 1] = g[Len(s)] + Size(m, p)
  <2>1. Len(s) + 1 \in 1 .. Len(t) /\ (Len(s) + 1) - 1 = Len(s)
    BY <1>1
  <2>2. g[Len(s) + 1] = g[(Len(s) + 1) - 1] + Size(m, t[Len(s) + 1])
    BY <1>1, <1>3, <2>1, SumsIs
  <2> QED
    BY <1>1, <2>1, <2>2
<1> QED
  BY <1>1, <1>2, <1>3, <1>4, <1>5 DEF t

LEMMA LoadType == ASSUME NEW m, NEW s \in Seq(Pieces) PROVE Load(m, s) \in Nat
<1> DEFINE Q == {t \in Seq(Pieces) : Load(m, t) \in Nat}
<1>1. <<>> \in Q
  BY LoadNone
<1>2. ASSUME NEW t \in Seq(Pieces), NEW x \in Pieces, t \in Q PROVE Append(t, x) \in Q
  <2>1. Load(m, Append(t, x)) = Load(m, t) + Size(m, x)
    BY LoadAppend
  <2>2. Load(m, t) \in Nat /\ Size(m, x) \in Nat
    BY <1>2, SizeIs
  <2>3. Load(m, Append(t, x)) \in Nat
    BY <2>1, <2>2
  <2> QED
    BY <2>3
<1>3. s \in Q
  <2> HIDE DEF Q
  <2> QED
    BY <1>1, <1>2, OneByOne
<1> QED
  BY <1>3

\* Two chunks together may cost what each may.
LEMMA LoadConcat ==
  ASSUME NEW m, NEW s \in Seq(Pieces), NEW u \in Seq(Pieces)
  PROVE  Load(m, s \o u) = Load(m, s) + Load(m, u)
<1> DEFINE Q == {t \in Seq(Pieces) : Load(m, s \o t) = Load(m, s) + Load(m, t)}
<1>1. <<>> \in Q
  <2>1. s \o <<>> = s /\ <<>> \in Seq(Pieces)
    BY ConcatEmptySeq
  <2>2. Load(m, s) + Load(m, <<>>) = Load(m, s)
    BY LoadNone, LoadType
  <2>3. Load(m, s \o <<>>) = Load(m, s) + Load(m, <<>>)
    BY <2>1, <2>2, Zenon
  <2> QED
    BY <2>1, <2>3, Zenon
<1>2. ASSUME NEW t \in Seq(Pieces), NEW x \in Pieces, t \in Q PROVE Append(t, x) \in Q
  <2>1. s \o Append(t, x) = Append(s \o t, x) /\ s \o t \in Seq(Pieces) /\ Append(t, x) \in Seq(Pieces)
    OBVIOUS
  <2>2. Load(m, Append(s \o t, x)) = Load(m, s \o t) + Size(m, x)
    <3> DEFINE r == s \o t
    <3>1. r \in Seq(Pieces)
      OBVIOUS
    <3> HIDE DEF r
    <3>2. Load(m, Append(r, x)) = Load(m, r) + Size(m, x)
      BY <3>1, LoadAppend
    <3> QED
      BY <3>2, Zenon DEF r
  <2>3. Load(m, Append(t, x)) = Load(m, t) + Size(m, x)
    BY LoadAppend
  <2>4. Load(m, s \o t) = Load(m, s) + Load(m, t)
    BY <1>2
  <2>5. Load(m, s) \in Nat /\ Load(m, t) \in Nat /\ Size(m, x) \in Nat
    BY LoadType, SizeIs
  <2> DEFINE k == Load(m, s)  l == Load(m, t)  z == Size(m, x)
  <2>6. (k + l) + z = k + (l + z)
    BY <2>5
  <2>7. Load(m, s \o Append(t, x)) = Load(m, s) + Load(m, Append(t, x))
    BY <2>1, <2>2, <2>3, <2>4, <2>6, Zenon
  <2> QED
    BY <2>1, <2>7, Zenon
<1>3. u \in Q
  <2> HIDE DEF Q
  <2> QED
    BY <1>1, <1>2, OneByOne
<1> QED
  BY <1>3, Zenon

\* The loads of two halves are the load of the whole.
LEMMA LoadCut ==
  ASSUME NEW m, NEW s \in Seq(Pieces), NEW n \in 0 .. Len(s)
  PROVE  Load(m, First(s, n)) + Load(m, After(s, n)) = Load(m, s)
<1> DEFINE a == First(s, n)  b == After(s, n)
<1>1. a \in Seq(Pieces) /\ b \in Seq(Pieces) /\ a \o b = s
  BY Cut
<1>2. Load(m, a \o b) = Load(m, a) + Load(m, b)
  <2> HIDE DEF a, b
  <2> QED
    BY <1>1, LoadConcat
<1> QED
  BY <1>1, <1>2, Zenon

\* Pieces that are not blank each have a part at least.
LEMMA LoadAtLeast ==
  ASSUME NEW m, NEW s \in Seq(Pieces), \A i \in 1 .. Len(s) : Solid(s[i].text) # {}
  PROVE  Load(m, s) >= Len(s)
<1> DEFINE P == {n \in 0 .. Len(s) : Load(m, First(s, n)) >= n}
<1>1. Len(s) \in Nat /\ First(s, 0) = <<>> /\ First(s, Len(s)) = s
  BY FirstAll
<1>2. 0 \in P
  <2>1. Load(m, First(s, 0)) = 0
    BY <1>1, LoadNone, Zenon
  <2> QED
    BY <1>1, <2>1
<1>3. ASSUME NEW n \in 1 .. Len(s), n - 1 \in P PROVE n \in P
  <2>1. First(s, n) = Append(First(s, n - 1), s[n]) /\ First(s, n - 1) \in Seq(Pieces) /\ s[n] \in Pieces
    BY OneMore
  <2>2. Load(m, Append(First(s, n - 1), s[n])) = Load(m, First(s, n - 1)) + Size(m, s[n])
    <3> DEFINE t == First(s, n - 1)  x == s[n]
    <3>1. t \in Seq(Pieces) /\ x \in Pieces
      BY <2>1
    <3> HIDE DEF t, x
    <3>2. Load(m, Append(t, x)) = Load(m, t) + Size(m, x)
      BY <3>1, LoadAppend
    <3> QED
      BY <3>2, Zenon DEF t, x
  <2>3. Load(m, First(s, n)) = Load(m, First(s, n - 1)) + Size(m, s[n])
    BY <2>1, <2>2, Zenon
  <2>4. Size(m, s[n]) \in Nat /\ Size(m, s[n]) >= 1 /\ Load(m, First(s, n - 1)) \in Nat
    BY <2>1, SizeIs, LoadType
  <2>5. Load(m, First(s, n - 1)) >= n - 1
    BY <1>3
  <2>6. Load(m, First(s, n)) >= n
    BY <2>3, <2>4, <2>5
  <2> QED
    BY <2>6
<1>4. \A n \in 0 .. Len(s) : n \in P
  <2> HIDE DEF P
  <2> QED
    BY <1>1, <1>2, <1>3, Upwards
<1>5. Load(m, First(s, Len(s))) >= Len(s)
  BY <1>1, <1>4
<1> QED
  BY <1>1, <1>5, Zenon

\* Leaving out a piece leaves out a part.
LEMMA LoadSelected ==
  ASSUME NEW m, NEW s \in Seq(Pieces), \A i \in 1 .. Len(s) : Solid(s[i].text) # {}, NEW G,
         NEW k \in 1 .. Len(s), k \notin G
  PROVE  Load(m, Selected(s, G)) <= Load(m, s) - 1
<1> DEFINE Less(n) == Load(m, Selected(First(s, n), G)) + (IF k <= n THEN 1 ELSE 0) <= Load(m, First(s, n))
           P == {n \in 0 .. Len(s) : Less(n)}
<1>1. Len(s) \in Nat /\ First(s, 0) = <<>> /\ First(s, Len(s)) = s
  BY FirstAll
<1>2. 0 \in P
  <2>1. Load(m, First(s, 0)) = 0 /\ Load(m, Selected(First(s, 0), G)) = 0
    BY <1>1, LoadNone, SelectedNone, Zenon
  <2> QED
    BY <1>1, <2>1
<1>3. ASSUME NEW n \in 1 .. Len(s), n - 1 \in P PROVE n \in P
  <2> DEFINE t == First(s, n - 1)  x == s[n]  q == Selected(t, G)
  <2>1. First(s, n) = Append(t, x) /\ t \in Seq(Pieces) /\ x \in Pieces
    BY OneMore
  <2>2. /\ n \in G => Selected(First(s, n), G) = Append(q, x)
        /\ n \notin G => Selected(First(s, n), G) = q
        /\ q \in Seq(Pieces)
    BY SelectedNext
  <2>3. Load(m, q) + (IF k <= n - 1 THEN 1 ELSE 0) <= Load(m, t)
    BY <1>3
  <2>4. Size(m, x) \in Nat /\ Size(m, x) >= 1
    BY <2>1, SizeIs
  <2> HIDE DEF t, x, q
  <2>5. Load(m, t) \in Nat /\ Load(m, q) \in Nat
    BY <2>1, <2>2, LoadType
  <2>6. Load(m, Append(t, x)) = Load(m, t) + Size(m, x) /\ Load(m, Append(q, x)) = Load(m, q) + Size(m, x)
    BY <2>1, <2>2, LoadAppend
  <2>7. Load(m, First(s, n)) = Load(m, t) + Size(m, x)
    BY <2>1, <2>6, Zenon
  <2>8. /\ n \in G => Load(m, Selected(First(s, n), G)) = Load(m, q) + Size(m, x)
        /\ n \notin G => Load(m, Selected(First(s, n), G)) = Load(m, q)
    BY <2>2, <2>6, Zenon
  <2>9. CASE n \in G
    <3>1. k # n
      BY <2>9
    <3> QED
      BY <2>3, <2>4, <2>5, <2>7, <2>8, <2>9, <3>1
  <2>10. CASE n \notin G
    BY <2>3, <2>4, <2>5, <2>7, <2>8, <2>10
  <2> QED
    BY <2>9, <2>10
<1>4. \A n \in 0 .. Len(s) : n \in P
  <2> HIDE DEF P
  <2> QED
    BY <1>1, <1>2, <1>3, Upwards
<1>5. Load(m, Selected(First(s, Len(s)), G)) + 1 <= Load(m, First(s, Len(s)))
  BY <1>1, <1>4
<1>6. Load(m, Selected(s, G)) + 1 <= Load(m, s)
  BY <1>1, <1>5, Zenon
<1> QED
  BY <1>6, LoadType, SelectedType
-----------------------------------------------------------------------------
(* Invocations.                                                               *)
Plans == {None, "halves", "split", "recover"}
Frames == [chunk : Seq(Pieces), at : Points, attempt : 0 .. MaxRetries + 2, wake : Nat,
           kind : Kinds \cup {None}, empty : SUBSET Nat, plan : Plans,
           got : Seq(Seq(Pieces)), rest : Seq(Pieces)]
FrameOK(f) ==
  /\ f \in Frames /\ Good(f.chunk) /\ f.empty \subseteq DOMAIN f.chunk
  /\ f.at = "delay" => f.attempt < MaxRetries + 2

\* What an invocation that waits asks for, one answer after the other.
Middle(f) == (Len(f.chunk) + 1) \div 2
LeftPiece(p) == Piece(Append(p.id, 1), LeftOf(p.text))
RightPiece(p) == Piece(Append(p.id, 2), RightOf(p.text))
Planned(m, f) ==
  \/ f.plan = "halves" /\ Len(f.chunk) > 1 /\ f.rest = After(f.chunk, Middle(f))
  \/ /\ f.plan = "split" /\ m = "translation" /\ Len(f.chunk) = 1 /\ Splits(f.chunk[1].text)
     /\ f.rest = <<RightPiece(f.chunk[1])>>
  \/ f.plan = "recover" /\ Recoverable(f)
Asked(f, k) ==
  IF f.plan = "recover" THEN EmptyOnes(f)
  ELSE IF k = 2 THEN f.rest
  ELSE IF f.plan = "halves" THEN First(f.chunk, Middle(f))
  ELSE <<LeftPiece(f.chunk[1])>>
Collected(f) == \A k \in DOMAIN f.got : f.got[k] = Answers(Asked(f, k))
Waits(m, f) ==
  /\ f.at = "child" /\ Planned(m, f) /\ Collected(f)
  /\ Len(f.got) \in {0, 1} /\ (f.plan = "recover" => Len(f.got) = 0)
Resumes(m, f) ==
  /\ f.at = "back" /\ Planned(m, f) /\ Collected(f)
  /\ Len(f.got) \in {1, 2} /\ (f.plan = "recover" => Len(f.got) = 1)
Runs(m, f) == Resumes(m, f) \/ (f.at \notin {"child", "back"} /\ f.got = <<>>)

\* What a worker has done with its batch b.
Segs(b) == [i \in DOMAIN b |-> Piece(<<i>>, b[i])]
SliceOf(b, from) ==
  LET last == IF from + MaxSegments > Len(b) THEN Len(b) ELSE from + MaxSegments - 1
  IN SubSeq(Segs(b), from, last)
CallsOf == [stack : Seq(Frames), answers : Seq(Pieces), attempts : Nat,
            outcome : {"working", "done", "failed"}]
Stacked(m, stack) ==
  /\ \A k \in 1 .. Len(stack) : FrameOK(stack[k])
  /\ \A k \in 1 .. Len(stack) - 1 :
       Waits(m, stack[k]) /\ stack[k + 1].chunk = Asked(stack[k], Len(stack[k].got) + 1)
  /\ stack # <<>> => Runs(m, stack[Len(stack)])
Sound(b, m, c) ==
  /\ c \in CallsOf
  /\ (c.stack = <<>>) = (c.outcome # "working")
  /\ Stacked(m, c.stack)
  /\ Len(c.answers) <= Len(b) /\ \A i \in 1 .. Len(c.answers) : c.answers[i] = Answer(Segs(b)[i])
  /\ c.stack # <<>> => Len(c.answers) < Len(b) /\ c.stack[1].chunk = SliceOf(b, Len(c.answers) + 1)
  /\ c.outcome = "done" => Len(c.answers) = Len(b)
-----------------------------------------------------------------------------
(* A stack: its last element, what is below it, another one on top.           *)
LEMMA Tops ==
  ASSUME NEW V, NEW s \in Seq(V), s # <<>>
  PROVE  /\ Len(s) \in Nat \ {0} /\ Last(s) = s[Len(s)] /\ Last(s) \in V
         /\ Front(s) \in Seq(V) /\ Len(Front(s)) = Len(s) - 1
         /\ \A k \in 1 .. Len(s) - 1 : Front(s)[k] = s[k]
<1>1. Len(s) \in Nat \ {0}
  BY EmptySeq
<1>2. Front(s) = First(s, Len(s) - 1) /\ Last(s) = s[Len(s)]
  BY DEF Front, Last, First
<1>3. Len(s) - 1 \in 0 .. Len(s) /\ Len(s) \in 1 .. Len(s)
  BY <1>1
<1>4. /\ First(s, Len(s) - 1) \in Seq(V) /\ Len(First(s, Len(s) - 1)) = Len(s) - 1
      /\ \A k \in 1 .. Len(s) - 1 : First(s, Len(s) - 1)[k] = s[k]
  BY <1>3, Cut
<1>5. s[Len(s)] \in V
  BY <1>3, ElementOfSeq
<1> QED
  BY <1>1, <1>2, <1>4, <1>5

\* The top of a stack replaced.
LEMMA Tops2 ==
  ASSUME NEW V, NEW s \in Seq(V), s # <<>>, NEW x \in V
  PROVE  /\ Append(Front(s), x) \in Seq(V) /\ Len(Append(Front(s), x)) = Len(s)
         /\ Append(Front(s), x) # <<>> /\ Append(Front(s), x)[Len(s)] = x
         /\ \A k \in 1 .. Len(s) - 1 : Append(Front(s), x)[k] = s[k]
<1> DEFINE f == Front(s)  r == Append(f, x)
<1>1. /\ Len(s) \in Nat \ {0} /\ f \in Seq(V) /\ Len(f) = Len(s) - 1
      /\ \A k \in 1 .. Len(s) - 1 : f[k] = s[k]
  BY Tops
<1> HIDE DEF f
<1>2. /\ r \in Seq(V) /\ r # <<>> /\ Len(r) = Len(f) + 1 /\ r[Len(f) + 1] = x
      /\ \A k \in 1 .. Len(f) : r[k] = f[k]
  BY <1>1, AppendProperties
<1> HIDE DEF r
<1>3. /\ r \in Seq(V) /\ Len(r) = Len(s) /\ r # <<>> /\ r[Len(s)] = x
      /\ \A k \in 1 .. Len(s) - 1 : r[k] = s[k]
  BY <1>1, <1>2
<1> QED
  BY <1>3 DEF r, f
Pushed(s, x, y) == Front(s) \o <<x, y>>
\* The top of a stack replaced, and one more pushed.
LEMMA Tops3 ==
  ASSUME NEW V, NEW s \in Seq(V), s # <<>>, NEW x \in V, NEW y \in V
  PROVE  /\ Pushed(s, x, y) \in Seq(V) /\ Len(Pushed(s, x, y)) = Len(s) + 1
         /\ Pushed(s, x, y) # <<>>
         /\ Pushed(s, x, y)[Len(s)] = x /\ Pushed(s, x, y)[Len(s) + 1] = y
         /\ \A k \in 1 .. Len(s) - 1 : Pushed(s, x, y)[k] = s[k]
<1> DEFINE f == Front(s)  z == <<x, y>>  r == f \o z
<1>1. /\ Len(s) \in Nat \ {0} /\ f \in Seq(V) /\ Len(f) = Len(s) - 1
      /\ \A k \in 1 .. Len(s) - 1 : f[k] = s[k]
  BY Tops
<1>2. z \in Seq(V) /\ Len(z) = 2 /\ z[1] = x /\ z[2] = y
  OBVIOUS
<1> HIDE DEF f, z
<1>3. /\ r \in Seq(V) /\ Len(r) = Len(f) + Len(z)
      /\ \A i \in 1 .. Len(f) + Len(z) : r[i] = IF i <= Len(f) THEN f[i] ELSE z[i - Len(f)]
  <2>1. f \in Seq(V) /\ z \in Seq(V)
    BY <1>1, <1>2
  <2> QED
    BY <2>1, ConcatProperties
<1> HIDE DEF r
<1>4. Len(r) = Len(s) + 1 /\ r # <<>>
  BY <1>1, <1>2, <1>3
<1>5. r[Len(s)] = x
  <2>1. Len(s) \in 1 .. Len(f) + Len(z) /\ ~(Len(s) <= Len(f)) /\ Len(s) - Len(f) = 1
    BY <1>1, <1>2
  <2> QED
    BY <1>2, <1>3, <2>1
<1>6. r[Len(s) + 1] = y
  <2>1. Len(s) + 1 \in 1 .. Len(f) + Len(z) /\ ~(Len(s) + 1 <= Len(f)) /\ Len(s) + 1 - Len(f) = 2
    BY <1>1, <1>2
  <2> QED
    BY <1>2, <1>3, <2>1
<1>7. \A k \in 1 .. Len(s) - 1 : r[k] = s[k]
  BY <1>1, <1>2, <1>3
<1>8. Pushed(s, x, y) = r
  BY DEF Pushed, r, f, z
<1> QED
  BY <1>3, <1>4, <1>5, <1>6, <1>7, <1>8
-----------------------------------------------------------------------------
(* What an invocation asks for, and what it makes of the answers.             *)
LEMMA MiddleIs ==
  ASSUME NEW f, FrameOK(f)
  PROVE  /\ f.chunk \in Seq(Pieces) /\ Len(f.chunk) \in Nat \ {0} /\ DOMAIN f.chunk = 1 .. Len(f.chunk)
         /\ Len(f.chunk) > 1 => Middle(f) \in 1 .. Len(f.chunk) - 1
<1>1. f.chunk \in Seq(Pieces) /\ f.chunk # <<>>
  BY DEF FrameOK, Good
<1>2. Len(f.chunk) \in Nat \ {0} /\ DOMAIN f.chunk = 1 .. Len(f.chunk)
  BY <1>1, EmptySeq
<1>3. Len(f.chunk) > 1 => Middle(f) \in 1 .. Len(f.chunk) - 1
  <2> DEFINE n == Len(f.chunk)
  <2>1. Middle(f) = (n + 1) \div 2 /\ n \in Nat
    BY <1>2 DEF Middle
  <2> HIDE DEF n
  <2>2. n > 1 => (n + 1) \div 2 \in 1 .. n - 1
    BY <2>1
  <2>3. n > 1 => Middle(f) \in 1 .. n - 1
    BY <2>1, <2>2
  <2> QED
    BY <2>3 DEF n
<1> QED
  BY <1>1, <1>2, <1>3

\* Whatever an invocation asks for is a chunk like any other.
LEMMA AskedIsGood ==
  ASSUME NEW m, NEW f, FrameOK(f), Planned(m, f), NEW k \in {1, 2}, f.plan = "recover" => k = 1
  PROVE  Good(Asked(f, k))
<1>1. /\ f.chunk \in Seq(Pieces) /\ Len(f.chunk) \in Nat \ {0} /\ DOMAIN f.chunk = 1 .. Len(f.chunk)
      /\ Len(f.chunk) > 1 => Middle(f) \in 1 .. Len(f.chunk) - 1
  BY MiddleIs
<1>2. CASE f.plan = "halves"
  <2>1. Len(f.chunk) > 1 /\ f.rest = After(f.chunk, Middle(f))
    BY <1>2 DEF Planned
  <2>2. Good(First(f.chunk, Middle(f))) /\ Good(After(f.chunk, Middle(f)))
    BY <1>1, <2>1, GoodParts DEF FrameOK
  <2> QED
    BY <1>2, <2>1, <2>2 DEF Asked
<1>3. CASE f.plan = "split"
  <2> DEFINE p == f.chunk[1]
  <2>1. Splits(p.text) /\ f.rest = <<RightPiece(p)>> /\ p \in Pieces /\ p.text \in Seq(Chars)
    <3>1. Splits(p.text) /\ f.rest = <<RightPiece(p)>>
      BY <1>3 DEF Planned
    <3>2. p \in Pieces
      BY <1>1
    <3> QED
      BY <3>1, <3>2 DEF Pieces
  <2> HIDE DEF p
  <2>2. /\ LeftOf(p.text) \in Seq(Chars) /\ RightOf(p.text) \in Seq(Chars)
        /\ Solid(LeftOf(p.text)) # {} /\ Solid(RightOf(p.text)) # {}
    BY <2>1, SplitKeeps
  <2>3. Good(<<LeftPiece(p)>>) /\ Good(<<RightPiece(p)>>)
    BY <2>1, <2>2, GoodSplit DEF LeftPiece, RightPiece
  <2> QED
    BY <1>3, <2>1, <2>3 DEF Asked, p
<1>4. CASE f.plan = "recover"
  <2>1. f.empty # {} /\ f.empty \subseteq DOMAIN f.chunk /\ Good(f.chunk)
    BY <1>4 DEF Planned, Recoverable, FrameOK
  <2>2. Good(EmptyOnes(f))
    BY <2>1, GoodSelected DEF EmptyOnes
  <2> QED
    BY <1>4, <2>2 DEF Asked
<1> QED
  BY <1>2, <1>3, <1>4 DEF Planned

\* The answers to the two halves, or to the two parts of a text, are the answers to the chunk.
LEMMA JoinedAnswers ==
  ASSUME NEW m, NEW f, FrameOK(f), Resumes(m, f), f.plan # "recover", Len(f.got) = 2
  PROVE  Joined(f) = Answers(f.chunk)
<1>1. /\ f.chunk \in Seq(Pieces) /\ Len(f.chunk) \in Nat \ {0} /\ DOMAIN f.chunk = 1 .. Len(f.chunk)
      /\ Len(f.chunk) > 1 => Middle(f) \in 1 .. Len(f.chunk) - 1
  BY MiddleIs
<1>2. f.got[1] = Answers(Asked(f, 1)) /\ f.got[2] = Answers(f.rest)
  <2>1. 1 \in DOMAIN f.got /\ 2 \in DOMAIN f.got
    BY DEF FrameOK, Frames
  <2> QED
    BY <2>1 DEF Resumes, Collected, Asked
<1>3. CASE f.plan = "halves"
  <2> DEFINE n == Middle(f)
  <2>1. n \in 0 .. Len(f.chunk) /\ f.rest = After(f.chunk, n)
    BY <1>1, <1>3 DEF Resumes, Planned
  <2>2. Asked(f, 1) = First(f.chunk, n)
    BY <1>3 DEF Asked
  <2> HIDE DEF n
  <2>3. Answers(First(f.chunk, n)) \o Answers(After(f.chunk, n)) = Answers(f.chunk)
    BY <1>1, <2>1, AnswersJoin
  <2>4. Joined(f) = f.got[1] \o f.got[2]
    BY <1>3 DEF Joined
  <2> QED
    BY <1>2, <2>1, <2>2, <2>3, <2>4, Zenon
<1>4. CASE f.plan # "halves"
  <2> DEFINE p == f.chunk[1]
  <2>1. /\ Splits(p.text) /\ f.rest = <<RightPiece(p)>> /\ Len(f.chunk) = 1
        /\ p \in Pieces /\ p.text \in Seq(Chars) /\ p.id \in Seq(Nat)
    <3>1. Splits(p.text) /\ f.rest = <<RightPiece(p)>> /\ Len(f.chunk) = 1
      BY <1>4 DEF Resumes, Planned
    <3>2. p \in Pieces
      BY <1>1
    <3> QED
      BY <3>1, <3>2 DEF Pieces
  <2>2. Asked(f, 1) = <<LeftPiece(p)>>
    BY <1>4 DEF Asked
  <2>3. Joined(f) = <<Piece(p.id, f.got[1][1].text \o f.got[2][1].text)>>
    BY <1>4 DEF Joined
  <2>4. Answers(f.chunk) \in Seq(Pieces) /\ Len(Answers(f.chunk)) = 1 /\ Answers(f.chunk)[1] = Answer(p)
    BY <1>1, <2>1, AnswersAre
  <2> HIDE DEF p
  <2>5. /\ LeftOf(p.text) \in Seq(Chars) /\ RightOf(p.text) \in Seq(Chars)
        /\ Covered(LeftOf(p.text)) \o Covered(RightOf(p.text)) = Covered(p.text)
    BY <2>1, SplitKeeps
  <2>6. LeftPiece(p) \in Pieces /\ RightPiece(p) \in Pieces
        /\ LeftPiece(p).text = LeftOf(p.text) /\ RightPiece(p).text = RightOf(p.text)
    BY <2>1, <2>5 DEF LeftPiece, RightPiece, Piece, Pieces
  <2>7. \A q \in Pieces : Answers(<<q>>)[1].text = Covered(q.text)
    <3> SUFFICES ASSUME NEW q \in Pieces PROVE Answers(<<q>>)[1].text = Covered(q.text)
      OBVIOUS
    <3> DEFINE s == <<q>>
    <3>1. s \in Seq(Pieces) /\ Len(s) = 1 /\ s[1] = q
      OBVIOUS
    <3> HIDE DEF s
    <3>4. Answers(s)[1] = Answer(q)
      BY <3>1, AnswersAre
    <3>2. Answers(<<q>>)[1] = Answer(q)
      BY <3>4, Zenon DEF s
    <3>3. Answer(q) = Piece(q.id, Covered(q.text))
      BY AnswerIs
    <3> QED
      BY <3>2, <3>3 DEF Piece
  <2>8. f.got[1][1].text = Covered(LeftOf(p.text)) /\ f.got[2][1].text = Covered(RightOf(p.text))
    BY <1>2, <2>1, <2>2, <2>6, <2>7, Zenon
  <2>9. Joined(f) = <<Piece(p.id, Covered(p.text))>>
    BY <2>3, <2>5, <2>8, Zenon
  <2>10. Answer(p) = Piece(p.id, Covered(p.text)) /\ Answer(p) \in Pieces
    BY <2>1, AnswerIs
  <2>11. Joined(f) = <<Answer(p)>>
    BY <2>9, <2>10, Zenon
  <2> DEFINE a == Answer(p)  t == Answers(f.chunk)
  <2> HIDE DEF a, t
  <2>12. t = <<a>>
    <3>1. <<a>> \in Seq(Pieces) /\ Len(<<a>>) = 1 /\ <<a>>[1] = a
      BY <2>10 DEF a
    <3>2. t \in Seq(Pieces) /\ Len(t) = 1 /\ t[1] = a
      BY <2>4 DEF a, t
    <3> QED
      BY <3>1, <3>2, SeqEqual
  <2> QED
    BY <2>11, <2>12, Zenon DEF a, t
<1> QED
  BY <1>3, <1>4

\* Answers that came back empty are replaced by those asked for a second time.
LEMMA MergedAnswers ==
  ASSUME NEW m, NEW f, FrameOK(f), Resumes(m, f), f.plan = "recover"
  PROVE  Merged(f) = Answers(f.chunk)
<1> DEFINE g == f.got[1]  e == EmptyOnes(f)
<1>1. /\ f.chunk \in Seq(Pieces) /\ Len(f.chunk) \in Nat \ {0} /\ DOMAIN f.chunk = 1 .. Len(f.chunk)
  BY MiddleIs
<1>2. g = Answers(e)
  <2>1. 1 \in DOMAIN f.got
    BY DEF FrameOK, Frames, Resumes
  <2> QED
    BY <2>1 DEF Resumes, Collected, Asked
<1>3. e \in Seq(Pieces) /\ TakenFrom(f.chunk, Len(f.chunk), f.empty, e)
  BY <1>1, SelectedType, SelectedElements DEF EmptyOnes
<1> HIDE DEF e
<1>4. g \in Seq(Pieces) /\ Len(g) = Len(e) /\ \A j \in 1 .. Len(e) : g[j] = Answer(e[j])
  BY <1>2, <1>3, AnswersAre
<1>5. Merged(f) = [i \in DOMAIN f.chunk |->
        IF i \in f.empty THEN g[CHOOSE j \in DOMAIN g : g[j].id = f.chunk[i].id] ELSE Answer(f.chunk[i])]
  BY DEF Merged
<1> HIDE DEF g
<1>6. ASSUME NEW i \in DOMAIN f.chunk, i \in f.empty
      PROVE  g[CHOOSE j \in DOMAIN g : g[j].id = f.chunk[i].id] = Answer(f.chunk[i])
  <2>1. DOMAIN g = 1 .. Len(e)
    BY <1>4
  <2>2. \A p \in Pieces : Answer(p).id = p.id
    BY AnswerIs DEF Piece
  <2>3. \A j \in 1 .. Len(e) : e[j] \in Pieces
    BY <1>3
  <2>4. \E j \in DOMAIN g : g[j].id = f.chunk[i].id
    <3>1. PICK j \in 1 .. Len(e) : e[j] = f.chunk[i]
      BY <1>1, <1>3, <1>6 DEF TakenFrom
    <3>2. g[j].id = e[j].id
      BY <1>4, <2>2, <2>3
    <3> QED
      BY <2>1, <3>1, <3>2
  <2> DEFINE j == CHOOSE j \in DOMAIN g : g[j].id = f.chunk[i].id
  <2>5. j \in DOMAIN g /\ g[j].id = f.chunk[i].id
    BY <2>4
  <2> HIDE DEF j
  <2>6. j \in 1 .. Len(e) /\ g[j] = Answer(e[j]) /\ e[j].id = f.chunk[i].id
    BY <1>4, <2>1, <2>2, <2>3, <2>5
  <2>7. PICK k \in 1 .. Len(f.chunk) : e[j] = f.chunk[k]
    BY <1>3, <2>6 DEF TakenFrom
  <2>8. k = i
    BY <1>1, <2>6, <2>7 DEF FrameOK, Good
  <2>9. g[j] = Answer(f.chunk[i])
    BY <2>6, <2>7, <2>8
  <2> QED
    BY <2>9 DEF j
<1>7. Merged(f) = [i \in DOMAIN f.chunk |-> Answer(f.chunk[i])]
  BY <1>5, <1>6
<1> QED
  BY <1>7 DEF Answers
-----------------------------------------------------------------------------
(* Segments and slices.                                                       *)
BatchOK(b) ==
  b \in Seq(Seq(Chars)) /\ \A i \in DOMAIN b : \E j \in DOMAIN b[i] : b[i][j][1] # "space"

\* The segments of a batch.
LEMMA SegsAre ==
  ASSUME NEW b, BatchOK(b)
  PROVE  /\ Segs(b) \in Seq(Pieces) /\ Len(Segs(b)) = Len(b) /\ Len(b) \in Nat
         /\ \A i \in 1 .. Len(b) : /\ Segs(b)[i] \in Pieces /\ Segs(b)[i].id[1] = i
                                   /\ Solid(Segs(b)[i].text) # {}
<1> DEFINE f == Segs(b)
<1>1. Len(b) \in Nat /\ DOMAIN b = 1 .. Len(b) /\ \A i \in 1 .. Len(b) : b[i] \in Seq(Chars)
  BY DEF BatchOK
<1>2. DOMAIN f = 1 .. Len(b) /\ f = [i \in DOMAIN f |-> f[i]]
      /\ \A i \in 1 .. Len(b) : f[i] = Piece(<<i>>, b[i])
  BY <1>1 DEF Segs
<1> HIDE DEF f
<1>3. ASSUME NEW i \in 1 .. Len(b) PROVE f[i] \in Pieces /\ f[i].id[1] = i /\ Solid(f[i].text) # {}
  <2>1. <<i>> \in Seq(Nat) /\ <<i>>[1] = i
    BY <1>1
  <2>2. Piece(<<i>>, b[i]) \in Pieces /\ Piece(<<i>>, b[i]).id = <<i>> /\ Piece(<<i>>, b[i]).text = b[i]
    BY <1>1, <2>1 DEF Piece, Pieces
  <2>3. Solid(b[i]) # {}
    BY <1>1 DEF BatchOK, Solid, IsSpace
  <2> QED
    BY <1>2, <2>1, <2>2, <2>3
<1>4. f \in Seq(Pieces) /\ Len(f) = Len(b)
  BY <1>1, <1>2, <1>3, Listed
<1> QED
  BY <1>1, <1>3, <1>4 DEF f

\* Where the slice ends that starts after position q.
EndOf(b, q) == IF q + 1 + MaxSegments > Len(b) THEN Len(b) ELSE q + MaxSegments
\* A slice is a chunk, and the slices before it and it make a longer prefix.
LEMMA SliceIs ==
  ASSUME CallsAssumption, NEW b, BatchOK(b), NEW q \in Nat, q < Len(b), NEW m
  PROVE  /\ Good(SliceOf(b, q + 1))
         /\ EndOf(b, q) \in q + 1 .. Len(b)
         /\ Len(SliceOf(b, q + 1)) = EndOf(b, q) - q
         /\ \A i \in 1 .. EndOf(b, q) - q : SliceOf(b, q + 1)[i] = Segs(b)[q + i]
         /\ Load(m, First(Segs(b), EndOf(b, q))) = Load(m, First(Segs(b), q)) + Load(m, SliceOf(b, q + 1))
<1> DEFINE s == Segs(b)  e == EndOf(b, q)  c == SliceOf(b, q + 1)
<1>1. /\ s \in Seq(Pieces) /\ Len(s) = Len(b) /\ Len(b) \in Nat
      /\ \A i \in 1 .. Len(b) : s[i] \in Pieces /\ s[i].id[1] = i /\ Solid(s[i].text) # {}
  BY SegsAre
<1>2. MaxSegments \in Nat \ {0}
  BY DEF CallsAssumption
<1>3. e \in q + 1 .. Len(b) /\ e \in Nat
  BY <1>1, <1>2 DEF EndOf
<1>4. c = SubSeq(s, q + 1, e)
  <2>1. q + 1 + MaxSegments - 1 = q + MaxSegments
    BY <1>2
  <2> QED
    BY <2>1 DEF SliceOf, EndOf
<1> HIDE DEF s, e
<1>5. /\ c \in Seq(Pieces) /\ Len(c) = e - q /\ \A i \in 1 .. e - q : c[i] = s[q + i]
  <2>1. \A i \in q + 1 .. e : s[i] \in Pieces
    BY <1>1, <1>3
  <2>2. /\ SubSeq(s, q + 1, e) \in Seq(Pieces)
        /\ Len(SubSeq(s, q + 1, e)) = IF q + 1 <= e THEN e - (q + 1) + 1 ELSE 0
        /\ \A i \in 1 .. e - (q + 1) + 1 : SubSeq(s, q + 1, e)[i] = s[q + 1 + i - 1]
    BY <1>3, <2>1, SubSeqProperties
  <2>3. e - (q + 1) + 1 = e - q /\ q + 1 <= e /\ \A i \in Int : q + 1 + i - 1 = q + i
    BY <1>3
  <2> DEFINE r == SubSeq(s, q + 1, e)
  <2> HIDE DEF r, c
  <2>4. /\ r \in Seq(Pieces) /\ Len(r) = e - q
        /\ \A i \in 1 .. e - q : r[i] = s[q + 1 + i - 1]
    BY <2>2, <2>3 DEF r
  <2>5. \A i \in 1 .. e - q : r[i] = s[q + i]
    <3> SUFFICES ASSUME NEW i \in 1 .. e - q PROVE r[i] = s[q + i]
      OBVIOUS
    <3>1. q + 1 + i - 1 = q + i
      BY <2>3
    <3> QED
      BY <2>4, <3>1
  <2>6. c = r
    BY <1>4 DEF r
  <2> QED
    BY <2>4, <2>5, <2>6
<1>6. Load(m, First(s, e)) = Load(m, First(s, q)) + Load(m, c)
  <2> DEFINE a == First(s, q)
  <2>1. First(s, e) = a \o SubSeq(s, q + 1, e)
    <3>1. 1 \in 1 .. Len(s) + 1 /\ q \in 1 - 1 .. Len(s) /\ e \in q .. Len(s)
      BY <1>1, <1>3
    <3> QED
      BY <1>1, <3>1, ConcatAdjacentSubSeq DEF First
  <2>2. a \in Seq(Pieces)
    <3>1. q \in 0 .. Len(s)
      BY <1>1, <1>3
    <3> QED
      BY <1>1, <3>1, Cut
  <2> HIDE DEF a, c
  <2>3. Load(m, a \o c) = Load(m, a) + Load(m, c)
    BY <1>5, <2>2, LoadConcat
  <2> QED
    BY <1>4, <2>1, <2>3, Zenon DEF a
<1> HIDE DEF c
<1>7. Good(c)
  <2>1. DOMAIN c = 1 .. e - q /\ c # <<>>
    BY <1>3, <1>5
  <2>2. \A i \in DOMAIN c : q + i \in 1 .. Len(b) /\ c[i] = s[q + i]
    BY <1>1, <1>3, <1>5, <2>1
  <2>3. \A i \in DOMAIN c : c[i].id[1] = q + i /\ Solid(c[i].text) # {}
    BY <1>1, <2>2
  <2>4. \A i, j \in DOMAIN c : c[i].id = c[j].id => i = j
    <3> SUFFICES ASSUME NEW i \in DOMAIN c, NEW j \in DOMAIN c, c[i].id = c[j].id PROVE i = j
      OBVIOUS
    <3>1. q + i = q + j
      BY <2>3
    <3> QED
      BY <1>3, <2>1, <3>1
  <2> QED
    BY <1>5, <2>1, <2>3, <2>4 DEF Good
<1> QED
  BY <1>3, <1>5, <1>6, <1>7 DEF s, e, c
-----------------------------------------------------------------------------
(* What a step does to what a worker has done: the invocation on top moves    *)
(* on, it invokes itself, it returns, or everything stops.                    *)
Does(stack, answers, n, outcome) ==
  [stack |-> stack, answers |-> answers, attempts |-> n, outcome |-> outcome]

\* An invocation that has just begun.
LEMMA FirstFrame ==
  ASSUME NEW m, NEW chunk, Good(chunk)
  PROVE  /\ FrameOK(Invocation(chunk)) /\ Runs(m, Invocation(chunk))
         /\ Invocation(chunk).chunk = chunk /\ Invocation(chunk).at = "ask"
         /\ Invocation(chunk).attempt = 0
<1>1. 0 \in 0 .. MaxRetries + 2 \/ CallsAssumption => 0 \in 0 .. MaxRetries + 2
  BY DEF CallsAssumption
<1>2. CallsAssumption
  BY CallsAssumption
<1>3. 0 \in 0 .. MaxRetries + 2
  BY <1>2 DEF CallsAssumption
<1>4. <<>> \in Seq(Seq(Pieces)) /\ <<>> \in Seq(Pieces)
  OBVIOUS
<1>5. Invocation(chunk) \in Frames
  BY <1>3, <1>4 DEF Invocation, Frames, Good, Points, Plans
<1>6. FrameOK(Invocation(chunk))
  BY <1>5 DEF FrameOK, Invocation
<1> QED
  BY <1>6 DEF Runs, Invocation

\* The invocation on top moves on.
LEMMA SoundTop ==
  ASSUME NEW b, NEW m, NEW c, Sound(b, m, c), c.stack # <<>>,
         NEW g, FrameOK(g), Runs(m, g), g.chunk = c.stack[Len(c.stack)].chunk, NEW n \in Nat
  PROVE  Sound(b, m, Does(Append(Front(c.stack), g), c.answers, n, "working"))
<1> DEFINE s == c.stack  t == Append(Front(s), g)  d == Does(t, c.answers, n, "working")
<1>1. c \in CallsOf /\ s \in Seq(Frames) /\ c.answers \in Seq(Pieces) /\ g \in Frames
  BY DEF Sound, CallsOf, FrameOK
<1>2. /\ t \in Seq(Frames) /\ Len(t) = Len(s) /\ t # <<>> /\ t[Len(s)] = g
      /\ \A k \in 1 .. Len(s) - 1 : t[k] = s[k]
  BY <1>1, Tops2
<1>3. Len(s) \in Nat \ {0}
  BY <1>1, EmptySeq
<1>4. d \in CallsOf /\ d.stack = t /\ d.answers = c.answers /\ d.outcome = "working"
  BY <1>1, <1>2 DEF Does, CallsOf
<1> HIDE DEF t, d
<1>5. \A k \in 1 .. Len(t) : t[k].chunk = s[k].chunk
  <2> SUFFICES ASSUME NEW k \in 1 .. Len(t) PROVE t[k].chunk = s[k].chunk
    OBVIOUS
  <2>1. k = Len(s) \/ k \in 1 .. Len(s) - 1
    BY <1>2, <1>3
  <2> QED
    BY <1>2, <2>1
<1>6. Stacked(m, t)
  <2>1. \A k \in 1 .. Len(t) : FrameOK(t[k])
    <3> SUFFICES ASSUME NEW k \in 1 .. Len(t) PROVE FrameOK(t[k])
      OBVIOUS
    <3>1. k = Len(s) \/ k \in 1 .. Len(s) - 1
      BY <1>2, <1>3
    <3>2. k \in 1 .. Len(s)
      BY <1>2
    <3> QED
      BY <1>2, <3>1, <3>2 DEF Sound, Stacked
  <2>2. ASSUME NEW k \in 1 .. Len(t) - 1
        PROVE  Waits(m, t[k]) /\ t[k + 1].chunk = Asked(t[k], Len(t[k].got) + 1)
    <3>1. k \in 1 .. Len(s) - 1 /\ k + 1 \in 1 .. Len(t)
      BY <1>2, <1>3
    <3>2. t[k] = s[k] /\ t[k + 1].chunk = s[k + 1].chunk
      BY <1>2, <1>5, <3>1
    <3> QED
      BY <3>1, <3>2 DEF Sound, Stacked
  <2> QED
    BY <1>2, <2>1, <2>2 DEF Stacked
<1>7. t[1].chunk = s[1].chunk
  BY <1>2, <1>3, <1>5
<1>8. Sound(b, m, d)
  BY <1>1, <1>2, <1>4, <1>6, <1>7 DEF Sound
<1> QED
  BY <1>8 DEF d, t

\* It invokes itself.
LEMMA SoundPush ==
  ASSUME NEW b, NEW m, NEW c, Sound(b, m, c), c.stack # <<>>,
         NEW g, FrameOK(g), Waits(m, g), g.chunk = c.stack[Len(c.stack)].chunk,
         NEW chunk, chunk = Asked(g, Len(g.got) + 1)
  PROVE  /\ Good(chunk)
         /\ Sound(b, m, Does(Front(c.stack) \o <<g, Invocation(chunk)>>, c.answers, c.attempts, "working"))
<1>0. Good(chunk)
  <2>0. Planned(m, g) /\ (Len(g.got) = 0 \/ Len(g.got) = 1) /\ (g.plan = "recover" => Len(g.got) = 0)
    BY DEF Waits
  <2> DEFINE n == Len(g.got)
  <2>1. (n = 0 \/ n = 1) /\ (g.plan = "recover" => n = 0)
    BY <2>0
  <2> HIDE DEF n
  <2>2. n + 1 \in {1, 2} /\ (n = 0 => n + 1 = 1)
    BY <2>1
  <2>3. g.plan = "recover" => n + 1 = 1
    BY <2>1, <2>2, Zenon
  <2>4. Good(Asked(g, n + 1))
    BY <2>0, <2>2, <2>3, AskedIsGood
  <2> QED
    BY <2>4 DEF n
<1> DEFINE s == c.stack  h == Invocation(chunk)  t == Pushed(s, g, h)
           d == Does(t, c.answers, c.attempts, "working")
<1>1. /\ c \in CallsOf /\ s \in Seq(Frames) /\ c.answers \in Seq(Pieces) /\ c.attempts \in Nat
      /\ g \in Frames /\ h \in Frames /\ FrameOK(h) /\ Runs(m, h) /\ h.chunk = chunk
  BY <1>0, FirstFrame DEF Sound, CallsOf, FrameOK
<1> HIDE DEF h
<1>2. /\ t \in Seq(Frames) /\ Len(t) = Len(s) + 1 /\ t # <<>> /\ t[Len(s)] = g /\ t[Len(s) + 1] = h
      /\ \A k \in 1 .. Len(s) - 1 : t[k] = s[k]
  <2>1. s \in Seq(Frames) /\ s # <<>> /\ g \in Frames /\ h \in Frames
    BY <1>1
  <2> HIDE DEF s
  <2> QED
    BY <2>1, Tops3
<1>3. Len(s) \in Nat \ {0}
  BY <1>1, EmptySeq
<1>4. d \in CallsOf /\ d.stack = t /\ d.answers = c.answers /\ d.outcome = "working"
  BY <1>1, <1>2 DEF Does, CallsOf
<1> HIDE DEF t, d
<1>5. \A k \in 1 .. Len(s) : t[k].chunk = s[k].chunk
  <2> SUFFICES ASSUME NEW k \in 1 .. Len(s) PROVE t[k].chunk = s[k].chunk
    OBVIOUS
  <2>1. k = Len(s) \/ k \in 1 .. Len(s) - 1
    BY <1>3
  <2> QED
    BY <1>2, <2>1
<1>6. Stacked(m, t)
  <2>1. \A k \in 1 .. Len(t) : FrameOK(t[k])
    <3> SUFFICES ASSUME NEW k \in 1 .. Len(t) PROVE FrameOK(t[k])
      OBVIOUS
    <3>1. k = Len(s) + 1 \/ k = Len(s) \/ k \in 1 .. Len(s) - 1
      BY <1>2, <1>3
    <3>2. k \in 1 .. Len(s) - 1 => k \in 1 .. Len(s)
      BY <1>3
    <3> QED
      BY <1>1, <1>2, <3>1, <3>2 DEF Sound, Stacked
  <2>2. ASSUME NEW k \in 1 .. Len(t) - 1
        PROVE  Waits(m, t[k]) /\ t[k + 1].chunk = Asked(t[k], Len(t[k].got) + 1)
    <3>1. CASE k = Len(s)
      BY <1>1, <1>2, <3>1
    <3>2. CASE k # Len(s)
      <4>1. k \in 1 .. Len(s) - 1 /\ k + 1 \in 1 .. Len(s)
        BY <1>2, <1>3, <3>2
      <4>2. t[k] = s[k] /\ t[k + 1].chunk = s[k + 1].chunk
        BY <1>2, <1>5, <4>1
      <4> QED
        BY <4>1, <4>2 DEF Sound, Stacked
    <3> QED
      BY <3>1, <3>2
  <2> QED
    BY <1>1, <1>2, <2>1, <2>2 DEF Stacked
<1>7. t[1].chunk = s[1].chunk
  BY <1>3, <1>5
<1>8. Sound(b, m, d)
  BY <1>1, <1>2, <1>4, <1>6, <1>7 DEF Sound
<1> QED
  BY <1>0, <1>8 DEF d, t, h, Pushed

\* Its answers go to the invocation below it.
Told(p, answers) == [p EXCEPT !.at = "back", !.got = Append(@, answers)]
\* An invocation that waited is told the answer to what it asked for.
LEMMA ToldIs ==
  ASSUME NEW m, NEW p, FrameOK(p), Waits(m, p), NEW chunk, chunk \in Seq(Pieces),
         chunk = Asked(p, Len(p.got) + 1)
  PROVE  /\ FrameOK(Told(p, Answers(chunk))) /\ Resumes(m, Told(p, Answers(chunk)))
         /\ Told(p, Answers(chunk)).chunk = p.chunk
<1> DEFINE a == Answers(chunk)  g == Told(p, a)
<1>1. p \in Frames /\ p.got \in Seq(Seq(Pieces)) /\ a \in Seq(Pieces)
  BY AnswersAre DEF FrameOK, Frames
<1> DEFINE r == Append(p.got, a)
<1>2. /\ r \in Seq(Seq(Pieces)) /\ Len(r) = Len(p.got) + 1 /\ r[Len(p.got) + 1] = a
      /\ \A k \in 1 .. Len(p.got) : r[k] = p.got[k]
      /\ DOMAIN r = 1 .. Len(p.got) + 1 /\ DOMAIN p.got = 1 .. Len(p.got) /\ Len(p.got) \in Nat
  BY <1>1
<1>3. /\ g \in Frames /\ g.at = "back" /\ g.got = r /\ g.plan = p.plan /\ g.rest = p.rest
      /\ g.chunk = p.chunk /\ g.empty = p.empty
  BY <1>1, <1>2 DEF Told, Frames, Points
<1> HIDE DEF g, r
<1>4. FrameOK(g)
  BY <1>3 DEF FrameOK
<1>5. Planned(m, g) /\ \A k : Asked(g, k) = Asked(p, k)
  BY <1>3 DEF Waits, Planned, Asked, Recoverable, Middle, EmptyOnes
<1>6. Collected(g)
  <2> SUFFICES ASSUME NEW k \in DOMAIN r PROVE r[k] = Answers(Asked(p, k))
    BY <1>3, <1>5 DEF Collected
  <2>1. CASE k = Len(p.got) + 1
    BY <1>2, <2>1
  <2>2. CASE k # Len(p.got) + 1
    <3>1. k \in DOMAIN p.got /\ r[k] = p.got[k]
      BY <1>2, <2>2
    <3> QED
      BY <3>1 DEF Waits, Collected
  <2> QED
    BY <2>1, <2>2
<1>7. Resumes(m, g)
  <2>1. (Len(p.got) = 0 \/ Len(p.got) = 1) /\ (p.plan = "recover" => Len(p.got) = 0)
    BY DEF Waits
  <2>3. Len(r) \in {1, 2} /\ (Len(p.got) = 0 => Len(r) = 1)
    <3> DEFINE n == Len(p.got)  k == Len(r)
    <3>1. k = n + 1 /\ n \in Nat /\ (n = 0 \/ n = 1)
      BY <1>2, <2>1
    <3> HIDE DEF n, k
    <3>2. k \in {1, 2} /\ (n = 0 => k = 1)
      BY <3>1
    <3> QED
      BY <3>2 DEF n, k
  <2>2. Len(r) \in {1, 2} /\ (p.plan = "recover" => Len(r) = 1)
    BY <2>1, <2>3, Zenon
  <2> QED
    BY <1>3, <1>5, <1>6, <2>2 DEF Resumes
<1> QED
  BY <1>3, <1>4, <1>7 DEF g

\* The running invocation answers the one below it.
LEMMA SoundPop ==
  ASSUME NEW b, NEW m, NEW c, Sound(b, m, c), c.stack # <<>>, Front(c.stack) # <<>>
  PROVE  LET g == Told(Last(Front(c.stack)), Answers(Last(c.stack).chunk)) IN
         Sound(b, m, Does(Append(Front(Front(c.stack)), g), c.answers, c.attempts, "working"))
<1> DEFINE s == c.stack  u == Front(s)  p == Last(u)  a == Answers(Last(s).chunk)
           g == Told(p, a)  t == Append(Front(u), g)
           d == Does(t, c.answers, c.attempts, "working")
<1>1. c \in CallsOf /\ s \in Seq(Frames) /\ c.answers \in Seq(Pieces) /\ c.attempts \in Nat
  BY DEF Sound, CallsOf
<1>2. /\ Len(s) \in Nat \ {0} /\ Last(s) = s[Len(s)] /\ u \in Seq(Frames) /\ Len(u) = Len(s) - 1
      /\ \A k \in 1 .. Len(s) - 1 : u[k] = s[k]
  BY <1>1, Tops
<1> HIDE DEF u
<1>3. Len(u) \in Nat \ {0} /\ p = u[Len(u)]
  BY <1>2, Tops DEF u
<1> HIDE DEF p
<1>4. Len(u) \in 1 .. Len(s) - 1 /\ p = s[Len(u)] /\ Len(u) + 1 = Len(s) /\ Len(s) \in 1 .. Len(s)
      /\ Len(u) \in 1 .. Len(s)
  <2>1. Len(u) \in 1 .. Len(s) - 1 /\ Len(u) + 1 = Len(s) /\ Len(s) \in 1 .. Len(s) /\ Len(u) \in 1 .. Len(s)
    <3> DEFINE n == Len(s)  k == Len(u)
    <3>1. n \in Nat /\ k \in Nat \ {0} /\ k = n - 1
      BY <1>2, <1>3
    <3> HIDE DEF n, k
    <3>2. k \in 1 .. n - 1 /\ k + 1 = n /\ n \in 1 .. n /\ k \in 1 .. n
      BY <3>1
    <3> QED
      BY <3>2 DEF n, k
  <2>2. u[Len(u)] = s[Len(u)]
    BY <1>2, <2>1
  <2> QED
    BY <1>3, <2>1, <2>2
<1>5. /\ FrameOK(p) /\ Waits(m, p) /\ Last(s).chunk = Asked(p, Len(p.got) + 1)
      /\ FrameOK(Last(s))
  BY <1>2, <1>4 DEF Sound, Stacked
<1>6. FrameOK(g) /\ Resumes(m, g) /\ g.chunk = p.chunk
  <2>1. Last(s).chunk \in Seq(Pieces)
    BY <1>5 DEF FrameOK, Good
  <2> QED
    BY <1>5, <2>1, ToldIs
<1> HIDE DEF g
<1>7. g \in Frames
  BY <1>6 DEF FrameOK
<1>8. /\ t \in Seq(Frames) /\ Len(t) = Len(u) /\ t # <<>> /\ t[Len(u)] = g
      /\ \A k \in 1 .. Len(u) - 1 : t[k] = u[k]
  BY <1>2, <1>3, <1>7, Tops2 DEF u
<1>9. d \in CallsOf /\ d.stack = t /\ d.answers = c.answers /\ d.outcome = "working"
  BY <1>1, <1>8 DEF Does, CallsOf
<1> HIDE DEF t, d
<1>10. \A k \in 1 .. Len(u) - 1 : t[k] = s[k]
  BY <1>2, <1>8
<1>11. \A k \in 1 .. Len(u) : t[k].chunk = s[k].chunk
  <2> SUFFICES ASSUME NEW k \in 1 .. Len(u) PROVE t[k].chunk = s[k].chunk
    OBVIOUS
  <2>1. k = Len(u) \/ k \in 1 .. Len(u) - 1
    BY <1>3
  <2> QED
    BY <1>4, <1>6, <1>8, <1>10, <2>1
<1>12. Stacked(m, t)
  <2>1. \A k \in 1 .. Len(t) : FrameOK(t[k])
    <3> SUFFICES ASSUME NEW k \in 1 .. Len(t) PROVE FrameOK(t[k])
      OBVIOUS
    <3>1. k = Len(u) \/ k \in 1 .. Len(u) - 1
      BY <1>3, <1>8
    <3>2. k \in 1 .. Len(s)
      BY <1>2, <1>8
    <3> QED
      BY <1>6, <1>8, <1>10, <3>1, <3>2 DEF Sound, Stacked
  <2>2. ASSUME NEW k \in 1 .. Len(t) - 1
        PROVE  Waits(m, t[k]) /\ t[k + 1].chunk = Asked(t[k], Len(t[k].got) + 1)
    <3>1. k \in 1 .. Len(u) - 1 /\ k + 1 \in 1 .. Len(u) /\ k \in 1 .. Len(s) - 1
      BY <1>2, <1>3, <1>8
    <3>2. t[k] = s[k] /\ t[k + 1].chunk = s[k + 1].chunk
      BY <1>10, <1>11, <3>1
    <3> QED
      BY <3>1, <3>2 DEF Sound, Stacked
  <2> QED
    BY <1>6, <1>8, <2>1, <2>2 DEF Stacked, Runs
<1>13. t[1].chunk = s[1].chunk
  BY <1>3, <1>11
<1>14. Sound(b, m, d)
  BY <1>1, <1>8, <1>9, <1>12, <1>13 DEF Sound
<1> QED
  BY <1>14 DEF d, t, g, p, u
\* The last invocation of a slice returns: the answers are those to a slice more.
More(c) == c.answers \o Answers(Last(c.stack).chunk)
\* The answers so far, with those to the slice that ends, are the answers to a prefix.
LEMMA MoreIs ==
  ASSUME CallsAssumption, NEW b, BatchOK(b), NEW m, NEW c, Sound(b, m, c), c.stack # <<>>,
         Front(c.stack) = <<>>
  PROVE  /\ Len(c.stack) = 1 /\ Last(c.stack) = c.stack[1]
         /\ Len(c.answers) \in Nat /\ Len(c.answers) < Len(b)
         /\ More(c) \in Seq(Pieces) /\ Len(More(c)) = EndOf(b, Len(c.answers))
         /\ EndOf(b, Len(c.answers)) \in 1 .. Len(b)
         /\ \A i \in 1 .. Len(More(c)) : More(c)[i] = Answer(Segs(b)[i])
<1> DEFINE q == Len(c.answers)  e == EndOf(b, q)  chunk == SliceOf(b, q + 1)
           s == c.answers  a == Answers(chunk)  t == s \o a
<1>1. c.stack \in Seq(Frames) /\ s \in Seq(Pieces) /\ q \in Nat /\ q < Len(b) /\ Len(b) \in Nat
  BY SegsAre DEF Sound, CallsOf
<1>2. Len(c.stack) = 1 /\ Last(c.stack) = c.stack[1] /\ Last(c.stack).chunk = chunk
  <2>1. Len(c.stack) \in Nat \ {0} /\ Last(c.stack) = c.stack[Len(c.stack)]
        /\ Len(Front(c.stack)) = Len(c.stack) - 1
    BY <1>1, Tops
  <2>2. Len(c.stack) = 1
    BY <2>1
  <2> QED
    BY <2>1, <2>2 DEF Sound
<1> HIDE DEF q, s
<1>3. /\ Good(chunk) /\ e \in q + 1 .. Len(b) /\ Len(chunk) = e - q
      /\ \A i \in 1 .. e - q : chunk[i] = Segs(b)[q + i]
  BY <1>1, SliceIs
<1> HIDE DEF e, chunk
<1>4. chunk \in Seq(Pieces)
  BY <1>3 DEF Good
<1>5. a \in Seq(Pieces) /\ Len(a) = Len(chunk) /\ \A i \in 1 .. Len(chunk) : a[i] = Answer(chunk[i])
  BY <1>4, AnswersAre
<1> HIDE DEF a
<1>6. /\ t \in Seq(Pieces) /\ Len(t) = Len(s) + Len(a)
      /\ \A i \in 1 .. Len(s) + Len(a) : t[i] = IF i <= Len(s) THEN s[i] ELSE a[i - Len(s)]
  <2>1. s \in Seq(Pieces) /\ a \in Seq(Pieces)
    BY <1>1, <1>5
  <2> QED
    BY <2>1, ConcatProperties
<1> HIDE DEF t
<1>7. Len(s) = q /\ Len(t) = e /\ e \in 1 .. Len(b)
  <2>1. Len(s) = q
    BY DEF q, s
  <2> QED
    BY <1>1, <1>3, <1>5, <1>6, <2>1
<1>8. \A i \in 1 .. q : s[i] = Answer(Segs(b)[i])
  BY DEF Sound, q, s
<1>9. ASSUME NEW i \in 1 .. Len(t) PROVE t[i] = Answer(Segs(b)[i])
  <2>0. i \in 1 .. Len(s) + Len(a)
    BY <1>6
  <2>1. CASE i <= q
    BY <1>1, <1>6, <1>7, <1>8, <2>0, <2>1
  <2>2. CASE ~(i <= q)
    <3>1. i - q \in 1 .. e - q /\ q + (i - q) = i
      BY <1>1, <1>7, <2>2
    <3>2. t[i] = a[i - q] /\ a[i - q] = Answer(chunk[i - q]) /\ chunk[i - q] = Segs(b)[q + (i - q)]
      BY <1>3, <1>5, <1>6, <1>7, <2>0, <2>2, <3>1
    <3> QED
      BY <3>1, <3>2
  <2> QED
    BY <2>1, <2>2
<1>10. More(c) = t
  BY <1>2 DEF More, t, s, a
<1>11. More(c) \in Seq(Pieces) /\ Len(More(c)) = e /\ \A i \in 1 .. Len(More(c)) : More(c)[i] = Answer(Segs(b)[i])
  BY <1>6, <1>7, <1>9, <1>10
<1> QED
  BY <1>1, <1>2, <1>7, <1>11 DEF e, q

\* The next slice begins.
LEMMA SoundNextSlice ==
  ASSUME CallsAssumption, NEW b, BatchOK(b), NEW m, NEW c, Sound(b, m, c), c.stack # <<>>,
         Front(c.stack) = <<>>, Len(More(c)) < Len(b)
  PROVE  Sound(b, m, Does(<<Invocation(SliceOf(b, Len(More(c)) + 1))>>, More(c), c.attempts, "working"))
<1> DEFINE q == Len(More(c))  chunk == SliceOf(b, q + 1)  h == Invocation(chunk)  t == <<h>>
           a == More(c)  d == Does(t, a, c.attempts, "working")
<1>1. /\ a \in Seq(Pieces) /\ q \in Nat /\ q < Len(b) /\ \A i \in 1 .. Len(a) : a[i] = Answer(Segs(b)[i])
      /\ Len(a) = q
  BY MoreIs
<1> HIDE DEF a, q
<1>2. Good(chunk)
  BY <1>1, SliceIs
<1> HIDE DEF chunk
<1>3. FrameOK(h) /\ Runs(m, h) /\ h.chunk = chunk /\ h \in Frames /\ c.attempts \in Nat
  BY <1>2, FirstFrame DEF FrameOK, Sound, CallsOf
<1> HIDE DEF h
<1>4. t \in Seq(Frames) /\ Len(t) = 1 /\ t # <<>> /\ t[1] = h
  BY <1>3
<1>5. d \in CallsOf /\ d.stack = t /\ d.answers = a /\ d.outcome = "working"
  BY <1>1, <1>3, <1>4 DEF Does, CallsOf
<1> HIDE DEF t, d
<1>6. Stacked(m, t)
  BY <1>3, <1>4 DEF Stacked
<1>8. Len(b) \in Nat
  BY SegsAre
<1>7. Sound(b, m, d)
  BY <1>1, <1>3, <1>4, <1>5, <1>6, <1>8 DEF Sound, chunk
<1> QED
  BY <1>7 DEF d, t, h, chunk, q, a

\* The batch is done.
LEMMA SoundLastSlice ==
  ASSUME CallsAssumption, NEW b, BatchOK(b), NEW m, NEW c, Sound(b, m, c), c.stack # <<>>,
         Front(c.stack) = <<>>, ~(Len(More(c)) < Len(b))
  PROVE  Sound(b, m, Does(<<>>, More(c), c.attempts, "done"))
<1> DEFINE a == More(c)  d == Does(<<>>, a, c.attempts, "done")
<1>1. /\ a \in Seq(Pieces) /\ Len(a) = Len(b) /\ Len(b) \in Nat
      /\ \A i \in 1 .. Len(a) : a[i] = Answer(Segs(b)[i])
  <2>1. /\ a \in Seq(Pieces) /\ Len(a) \in 1 .. Len(b) /\ Len(b) \in Nat
        /\ \A i \in 1 .. Len(a) : a[i] = Answer(Segs(b)[i])
    BY MoreIs, SegsAre
  <2>2. Len(a) = Len(b)
    BY <2>1
  <2> QED
    BY <2>1, <2>2
<1> HIDE DEF a
<1>2. <<>> \in Seq(Frames) /\ c.attempts \in Nat
  BY DEF Sound, CallsOf
<1>3. d \in CallsOf /\ d.stack = <<>> /\ d.answers = a /\ d.outcome = "done"
  BY <1>1, <1>2 DEF Does, CallsOf
<1> HIDE DEF d
<1>4. Stacked(m, <<>>)
  BY DEF Stacked
<1>5. Sound(b, m, d)
  BY <1>1, <1>3, <1>4 DEF Sound
<1> QED
  BY <1>5 DEF d, a

\* Everything stops.
LEMMA SoundThrow ==
  ASSUME NEW b, NEW m, NEW c, Sound(b, m, c)
  PROVE  Sound(b, m, Does(<<>>, c.answers, c.attempts, "failed"))
<1> DEFINE d == Does(<<>>, c.answers, c.attempts, "failed")
<1>1. <<>> \in Seq(Frames) /\ c.attempts \in Nat /\ c.answers \in Seq(Pieces)
  BY DEF Sound, CallsOf
<1>2. d \in CallsOf /\ d.stack = <<>> /\ d.answers = c.answers /\ d.outcome = "failed"
  BY <1>1 DEF Does, CallsOf
<1> HIDE DEF d
<1>3. Stacked(m, <<>>)
  BY DEF Stacked
<1>4. Sound(b, m, d)
  BY <1>1, <1>2, <1>3 DEF Sound
<1> QED
  BY <1>4 DEF d
-----------------------------------------------------------------------------
(* What a batch may cost. n is the number of invocations so far; L[k] is the  *)
(* most there can be when the invocation at level k of the stack returns.     *)
Tries == MaxRetries + 3
Waiting(f) == f.at \in {"child", "back"}
\* The attempts an invocation has made, and the invocations that it may still need.
Used(f) == IF Waiting(f) THEN Tries ELSE IF f.at = "ask" THEN f.attempt ELSE f.attempt + 1
Pending(f) == f.plan # "recover" /\ Len(f.got) = IF f.at = "child" THEN 0 ELSE 1
Later(m, f) ==
  IF ~Waiting(f) THEN 2 * Load(m, f.chunk) - 2
  ELSE IF Pending(f) THEN 2 * Load(m, f.rest) - 1 ELSE 0
Ledger(b, m, c, n, L, q) ==
  /\ n \in Nat \ {0} /\ q \in Nat /\ L \in [1 .. Len(c.stack) -> Int]
  /\ c.attempts <= Tries * (n - 1) + Used(c.stack[Len(c.stack)])
  /\ n + Later(m, c.stack[Len(c.stack)]) <= L[Len(c.stack)]
  /\ \A k, j \in 1 .. Len(c.stack) : j < k => L[k] + Later(m, c.stack[j]) <= L[j]
  /\ Len(c.answers) = q * MaxSegments
  /\ L[1] + q + 1 <= 2 * Load(m, First(Segs(b), EndOf(b, Len(c.answers))))
SlicesIn(b) == (Len(b) + MaxSegments - 1) \div MaxSegments
Limit(b, m) == Tries * (2 * Load(m, Segs(b)) - SlicesIn(b))
Paid(b, m, c) ==
  /\ c.stack = <<>> => c.attempts <= Limit(b, m)
  /\ c.stack # <<>> => \E n, L, q : Ledger(b, m, c, n, L, q)

\* No invocation makes more attempts than the budget of its error and the first.
LEMMA UsedIs ==
  ASSUME CallsAssumption, NEW f, FrameOK(f)
  PROVE  Used(f) \in 0 .. Tries /\ Tries \in Nat
<1>1. f.attempt \in 0 .. MaxRetries + 2 /\ MaxRetries \in Nat
  BY DEF FrameOK, Frames, CallsAssumption
<1> QED
  BY <1>1 DEF Used, Tries

\* A good chunk has a part for every piece, one at least.
LEMMA GoodLoad ==
  ASSUME NEW m, NEW chunk, Good(chunk)
  PROVE  Load(m, chunk) \in Nat /\ Load(m, chunk) >= 1
<1>1. /\ chunk \in Seq(Pieces) /\ DOMAIN chunk = 1 .. Len(chunk) /\ Len(chunk) \in Nat \ {0}
      /\ \A i \in 1 .. Len(chunk) : Solid(chunk[i].text) # {}
  <2>1. chunk \in Seq(Pieces) /\ chunk # <<>>
    BY DEF Good
  <2>2. DOMAIN chunk = 1 .. Len(chunk) /\ Len(chunk) \in Nat \ {0}
    BY <2>1, EmptySeq
  <2> QED
    BY <2>1, <2>2 DEF Good
<1>2. Load(m, chunk) \in Nat /\ Load(m, chunk) >= Len(chunk)
  BY <1>1, LoadType, LoadAtLeast
<1> QED
  BY <1>1, <1>2

\* The two parts of a split text have the parts of the whole between them.
LEMMA LoadOfOne ==
  ASSUME NEW m, NEW p \in Pieces
  PROVE  Load(m, <<p>>) = Size(m, p) /\ <<p>> \in Seq(Pieces)
<1>1. <<>> \in Seq(Pieces) /\ <<p>> \in Seq(Pieces) /\ Append(<<>>, p) = <<p>>
  OBVIOUS
<1>2. Load(m, Append(<<>>, p)) = Load(m, <<>>) + Size(m, p)
  <2> DEFINE s == <<>>
  <2>1. s \in Seq(Pieces)
    OBVIOUS
  <2> HIDE DEF s
  <2>2. Load(m, Append(s, p)) = Load(m, s) + Size(m, p)
    BY <2>1, LoadAppend
  <2> QED
    BY <2>2, Zenon DEF s
<1>3. Load(m, <<>>) = 0 /\ Size(m, p) \in Nat
  BY LoadNone, SizeIs
<1>4. Load(m, <<>>) + Size(m, p) = Size(m, p)
  BY <1>3
<1>5. Load(m, <<p>>) = Size(m, p)
  BY <1>1, <1>2, <1>4, Zenon
<1> QED
  BY <1>1, <1>5, Zenon

LEMMA LoadOfSplit ==
  ASSUME NEW p \in Pieces, Splits(p.text)
  PROVE  Load("translation", <<LeftPiece(p)>>) + Load("translation", <<RightPiece(p)>>)
           = Load("translation", <<p>>)
<1>1. p.text \in Seq(Chars) /\ p.id \in Seq(Nat)
  BY DEF Pieces
<1>2. /\ LeftOf(p.text) \in Seq(Chars) /\ RightOf(p.text) \in Seq(Chars)
      /\ Covered(LeftOf(p.text)) \o Covered(RightOf(p.text)) = Covered(p.text)
  BY <1>1, SplitKeeps
<1>3. /\ LeftPiece(p) \in Pieces /\ RightPiece(p) \in Pieces
      /\ LeftPiece(p).text = LeftOf(p.text) /\ RightPiece(p).text = RightOf(p.text)
  BY <1>1, <1>2 DEF LeftPiece, RightPiece, Piece, Pieces
<1>4. \A r \in Pieces : Load("translation", <<r>>) = Len(Covered(r.text))
  <2> SUFFICES ASSUME NEW r \in Pieces PROVE Load("translation", <<r>>) = Len(Covered(r.text))
    OBVIOUS
  <2>1. Load("translation", <<r>>) = Size("translation", r)
    BY LoadOfOne
  <2>2. Size("translation", r) = Len(Covered(r.text))
    BY DEF Size
  <2> QED
    BY <2>1, <2>2, Zenon
<1> DEFINE l == Covered(LeftOf(p.text))  r == Covered(RightOf(p.text))
<1>5. l \in Seq(Chars) /\ r \in Seq(Chars)
  BY <1>2, CoveredType
<1> HIDE DEF l, r
<1>6. Len(l \o r) = Len(l) + Len(r)
  BY <1>5, ConcatProperties
<1>7. Len(Covered(p.text)) = Len(l) + Len(r)
  BY <1>2, <1>6, Zenon DEF l, r
<1>8. /\ Load("translation", <<LeftPiece(p)>>) = Len(l)
      /\ Load("translation", <<RightPiece(p)>>) = Len(r)
      /\ Load("translation", <<p>>) = Len(Covered(p.text))
  BY <1>3, <1>4, Zenon DEF l, r
<1> QED
  BY <1>7, <1>8, Zenon

\* What an invocation that begins to wait asks for, now and later, is less than what it may cost.
LEMMA PlanPays ==
  ASSUME NEW m, NEW f, FrameOK(f), Planned(m, f)
  PROVE  /\ Load(m, Asked(f, 1)) \in Nat /\ Load(m, f.chunk) \in Nat
         /\ f.plan = "recover" => 2 * Load(m, Asked(f, 1)) <= 2 * Load(m, f.chunk) - 2
         /\ f.plan # "recover" => /\ Load(m, f.rest) \in Nat /\ Load(m, f.rest) >= 1
                                  /\ Load(m, Asked(f, 1)) + Load(m, f.rest) = Load(m, f.chunk)
<1>1. /\ f.chunk \in Seq(Pieces) /\ Len(f.chunk) \in Nat \ {0} /\ DOMAIN f.chunk = 1 .. Len(f.chunk)
      /\ Len(f.chunk) > 1 => Middle(f) \in 1 .. Len(f.chunk) - 1
  BY MiddleIs
<1>2. Good(Asked(f, 1)) /\ Good(f.chunk) /\ (f.plan # "recover" => Good(f.rest))
  <2>1. Good(Asked(f, 1))
    BY AskedIsGood
  <2>2. f.plan # "recover" => Good(Asked(f, 2))
    BY AskedIsGood
  <2>3. f.plan # "recover" => Asked(f, 2) = f.rest
    BY DEF Asked
  <2> QED
    BY <2>1, <2>2, <2>3 DEF FrameOK
<1>3. /\ Load(m, Asked(f, 1)) \in Nat /\ Load(m, f.chunk) \in Nat
      /\ f.plan # "recover" => Load(m, f.rest) \in Nat /\ Load(m, f.rest) >= 1
  BY <1>2, GoodLoad
<1>4. CASE f.plan = "halves"
  <2> DEFINE n == Middle(f)
  <2>1. n \in 0 .. Len(f.chunk) /\ f.rest = After(f.chunk, n) /\ Asked(f, 1) = First(f.chunk, n)
    BY <1>1, <1>4 DEF Planned, Asked
  <2> HIDE DEF n
  <2>2. Load(m, First(f.chunk, n)) + Load(m, After(f.chunk, n)) = Load(m, f.chunk)
    BY <1>1, <2>1, LoadCut
  <2>3. Load(m, Asked(f, 1)) + Load(m, f.rest) = Load(m, f.chunk)
    BY <2>1, <2>2, Zenon
  <2> QED
    BY <1>3, <1>4, <2>3
<1>5. CASE f.plan = "split"
  <2> DEFINE p == f.chunk[1]
  <2>1. /\ Splits(p.text) /\ f.rest = <<RightPiece(p)>> /\ Asked(f, 1) = <<LeftPiece(p)>>
        /\ m = "translation" /\ Len(f.chunk) = 1
    BY <1>5 DEF Planned, Asked
  <2>2. p \in Pieces
    BY <1>1
  <2>3. f.chunk = <<p>>
    BY <1>1, <2>1
  <2> HIDE DEF p
  <2>4. Load("translation", <<LeftPiece(p)>>) + Load("translation", <<RightPiece(p)>>)
          = Load("translation", <<p>>)
    BY <2>1, <2>2, LoadOfSplit
  <2>5. Load(m, Asked(f, 1)) + Load(m, f.rest) = Load(m, f.chunk)
    BY <2>1, <2>3, <2>4, Zenon
  <2> QED
    BY <1>3, <1>5, <2>5
<1>6. CASE f.plan = "recover"
  <2>1. f.empty # DOMAIN f.chunk /\ f.empty \subseteq DOMAIN f.chunk /\ Asked(f, 1) = Selected(f.chunk, f.empty)
    BY <1>6 DEF Planned, Recoverable, FrameOK, Asked, EmptyOnes
  <2>2. PICK k \in 1 .. Len(f.chunk) : k \notin f.empty
    BY <1>1, <2>1
  <2>3. \A i \in 1 .. Len(f.chunk) : Solid(f.chunk[i].text) # {}
    BY <1>1 DEF FrameOK, Good
  <2>4. Load(m, Selected(f.chunk, f.empty)) <= Load(m, f.chunk) - 1
    BY <1>1, <2>2, <2>3, LoadSelected
  <2>5. Load(m, Asked(f, 1)) <= Load(m, f.chunk) - 1
    BY <2>1, <2>4, Zenon
  <2>6. 2 * Load(m, Asked(f, 1)) <= 2 * Load(m, f.chunk) - 2
    BY <1>3, <2>5
  <2> QED
    BY <1>3, <1>6, <2>6
<1> QED
  BY <1>4, <1>5, <1>6 DEF Planned

\* What an invocation may still need is never negative.
LEMMA LaterIs ==
  ASSUME NEW m, NEW f, FrameOK(f), Waits(m, f) \/ Runs(m, f)
  PROVE  Later(m, f) \in Nat
<1>1. Load(m, f.chunk) \in Nat /\ Load(m, f.chunk) >= 1
  BY GoodLoad DEF FrameOK
<1>2. ASSUME Waiting(f), Pending(f) PROVE Load(m, f.rest) \in Nat /\ Load(m, f.rest) >= 1
  <2>1. Planned(m, f) /\ f.plan # "recover"
    BY <1>2 DEF Waiting, Pending, Waits, Runs, Resumes
  <2> QED
    BY <2>1, PlanPays
<1>3. CASE ~Waiting(f)
  BY <1>1, <1>3 DEF Later
<1>4. CASE Waiting(f) /\ Pending(f)
  BY <1>2, <1>4 DEF Later
<1>5. CASE Waiting(f) /\ ~Pending(f)
  BY <1>5 DEF Later
<1> QED
  BY <1>3, <1>4, <1>5

\* The frames of a stack that is sound.
LEMMA StackIs ==
  ASSUME NEW b, NEW m, NEW c, Sound(b, m, c), c.stack # <<>>
  PROVE  /\ c.stack \in Seq(Frames) /\ Len(c.stack) \in Nat \ {0} /\ c.attempts \in Nat
         /\ Last(c.stack) = c.stack[Len(c.stack)]
         /\ \A k \in 1 .. Len(c.stack) : FrameOK(c.stack[k]) /\ Later(m, c.stack[k]) \in Nat
         /\ \A k \in 1 .. Len(c.stack) - 1 : Waits(m, c.stack[k])
         /\ Runs(m, c.stack[Len(c.stack)])
<1>1. c.stack \in Seq(Frames) /\ c.attempts \in Nat
  BY DEF Sound, CallsOf
<1>2. Len(c.stack) \in Nat \ {0} /\ Last(c.stack) = c.stack[Len(c.stack)]
  BY <1>1, Tops
<1>3. /\ \A k \in 1 .. Len(c.stack) : FrameOK(c.stack[k])
      /\ \A k \in 1 .. Len(c.stack) - 1 : Waits(m, c.stack[k])
      /\ Runs(m, c.stack[Len(c.stack)])
  BY DEF Sound, Stacked
<1>4. ASSUME NEW k \in 1 .. Len(c.stack) PROVE Later(m, c.stack[k]) \in Nat
  <2>1. k \in 1 .. Len(c.stack) - 1 \/ k = Len(c.stack)
    BY <1>2
  <2>2. Waits(m, c.stack[k]) \/ Runs(m, c.stack[k])
    BY <1>3, <2>1
  <2> QED
    BY <1>3, <2>2, LaterIs
<1> QED
  BY <1>1, <1>2, <1>3, <1>4

\* The invocation on top moves on: no more attempts than it is allowed, no more to come.
LEMMA PaidTop ==
  ASSUME NEW b, NEW m, NEW c, Sound(b, m, c), c.stack # <<>>, Paid(b, m, c), CallsAssumption,
         NEW g, FrameOK(g), NEW more \in Nat,
         Used(g) = Used(c.stack[Len(c.stack)]) + more,
         Later(m, g) = Later(m, c.stack[Len(c.stack)])
  PROVE  Paid(b, m, Does(Append(Front(c.stack), g), c.answers, c.attempts + more, "working"))
<1> DEFINE s == c.stack  t == Append(Front(s), g)  d == Does(t, c.answers, c.attempts + more, "working")
<1>1. PICK n, L, q : Ledger(b, m, c, n, L, q)
  BY DEF Paid
<1>2. /\ s \in Seq(Frames) /\ Len(s) \in Nat \ {0} /\ c.attempts \in Nat
      /\ \A k \in 1 .. Len(s) : FrameOK(s[k]) /\ Later(m, s[k]) \in Nat
  BY StackIs
<1>3. /\ t \in Seq(Frames) /\ Len(t) = Len(s) /\ t # <<>> /\ t[Len(s)] = g
      /\ \A k \in 1 .. Len(s) - 1 : t[k] = s[k]
  BY <1>2, Tops2 DEF FrameOK
<1>4. d.stack = t /\ d.answers = c.answers /\ d.attempts = c.attempts + more
  BY DEF Does
<1> HIDE DEF t, d
<1>5. \A k \in 1 .. Len(s) : Later(m, t[k]) = Later(m, s[k])
  <2> SUFFICES ASSUME NEW k \in 1 .. Len(s) PROVE Later(m, t[k]) = Later(m, s[k])
    OBVIOUS
  <2>1. k = Len(s) \/ k \in 1 .. Len(s) - 1
    BY <1>2
  <2> QED
    BY <1>3, <2>1
<1>6. c.attempts + more <= Tries * (n - 1) + Used(g)
  <2>1. c.attempts <= Tries * (n - 1) + Used(s[Len(s)]) /\ n \in Nat \ {0}
    BY <1>1 DEF Ledger
  <2>2. Used(s[Len(s)]) \in Nat /\ Tries \in Nat
    BY <1>2, UsedIs
  <2> DEFINE x == Tries * (n - 1)
  <2>3. x \in Int
    BY <2>1, <2>2
  <2> HIDE DEF x
  <2>4. c.attempts + more <= x + Used(g)
    BY <1>2, <2>1, <2>2, <2>3 DEF x
  <2> QED
    BY <2>4 DEF x
<1>7. Ledger(b, m, d, n, L, q)
  <2>1. n + Later(m, t[Len(t)]) <= L[Len(t)]
    BY <1>1, <1>3 DEF Ledger
  <2>2. \A k, j \in 1 .. Len(t) : j < k => L[k] + Later(m, t[j]) <= L[j]
    BY <1>1, <1>3, <1>5 DEF Ledger
  <2>3. c.attempts + more <= Tries * (n - 1) + Used(t[Len(t)])
    BY <1>3, <1>6
  <2> QED
    BY <1>1, <1>3, <1>4, <2>1, <2>2, <2>3 DEF Ledger
<1>8. Paid(b, m, d)
  BY <1>3, <1>4, <1>7 DEF Paid
<1> QED
  BY <1>8 DEF d, t

\* One more invocation, paid from what was to come.
LEMMA PaidPush ==
  ASSUME NEW b, NEW m, NEW c, Sound(b, m, c), c.stack # <<>>, Paid(b, m, c), CallsAssumption,
         NEW g, FrameOK(g), Waits(m, g), NEW chunk, Good(chunk),
         2 * Load(m, chunk) - 1 + Later(m, g) <= Later(m, c.stack[Len(c.stack)])
  PROVE  Paid(b, m, Does(Front(c.stack) \o <<g, Invocation(chunk)>>, c.answers, c.attempts, "working"))
<1> DEFINE s == c.stack  h == Invocation(chunk)  t == Pushed(s, g, h)
           d == Does(t, c.answers, c.attempts, "working")
<1>1. PICK n, L, q : Ledger(b, m, c, n, L, q)
  BY DEF Paid
<1>2. /\ s \in Seq(Frames) /\ Len(s) \in Nat \ {0} /\ c.attempts \in Nat
      /\ \A k \in 1 .. Len(s) : FrameOK(s[k]) /\ Later(m, s[k]) \in Nat
  BY StackIs
<1>3. /\ FrameOK(h) /\ h.chunk = chunk /\ h.at = "ask" /\ h.attempt = 0 /\ g \in Frames /\ h \in Frames
  BY FirstFrame DEF FrameOK
<1> HIDE DEF h
<1>4. /\ t \in Seq(Frames) /\ Len(t) = Len(s) + 1 /\ t # <<>> /\ t[Len(s)] = g /\ t[Len(s) + 1] = h
      /\ \A k \in 1 .. Len(s) - 1 : t[k] = s[k]
  <2>1. s \in Seq(Frames) /\ s # <<>> /\ g \in Frames /\ h \in Frames
    BY <1>2, <1>3
  <2> HIDE DEF s
  <2> QED
    BY <2>1, Tops3
<1>5. d.stack = t /\ d.answers = c.answers /\ d.attempts = c.attempts
  BY DEF Does
<1> HIDE DEF t, d
<1> DEFINE top == Len(s)  v == Load(m, chunk)
<1>6. v \in Nat /\ v >= 1 /\ Later(m, g) \in Nat
  BY GoodLoad, LaterIs
<1>7. Used(h) = 0 /\ Later(m, h) = 2 * v - 2
  BY <1>3 DEF Used, Later, Waiting
<1> DEFINE K == [k \in 1 .. top + 1 |-> IF k = top + 1 THEN n + 2 * v - 1 ELSE L[k]]
<1>8. /\ n \in Nat \ {0} /\ q \in Nat /\ L \in [1 .. top -> Int]
      /\ n + Later(m, s[top]) <= L[top]
      /\ \A k, j \in 1 .. top : j < k => L[k] + Later(m, s[j]) <= L[j]
  BY <1>1 DEF Ledger
<1>9. K \in [1 .. top + 1 -> Int] /\ K[top + 1] = n + 2 * v - 1 /\ \A k \in 1 .. top : K[k] = L[k]
  BY <1>2, <1>6, <1>8
<1> HIDE DEF K, v
<1>10. n + 2 * v - 1 + Later(m, g) <= L[top]
  <2>1. Later(m, s[top]) \in Nat /\ L[top] \in Int
    BY <1>2, <1>8
  <2>2. 2 * v - 1 + Later(m, g) <= Later(m, s[top])
    BY DEF v
  <2> DEFINE y == Later(m, s[top])  z == L[top]  x == Later(m, g)
  <2>3. y \in Nat /\ z \in Int /\ x \in Nat /\ 2 * v - 1 + x <= y /\ n + y <= z /\ v \in Nat /\ n \in Nat
    BY <1>6, <1>8, <2>1, <2>2
  <2> HIDE DEF x, y, z
  <2>4. n + 2 * v - 1 + x <= z
    BY <2>3
  <2> QED
    BY <2>4 DEF x, z
<1>11. c.attempts <= Tries * (n + 1 - 1) + Used(h)
  <2>1. c.attempts <= Tries * (n - 1) + Used(s[Len(s)])
    BY <1>1 DEF Ledger
  <2>2. Used(s[Len(s)]) \in 0 .. Tries /\ Tries \in Nat
    BY <1>2, UsedIs
  <2>3. Tries * (n + 1 - 1) = Tries * (n - 1) + Tries /\ Tries * (n - 1) \in Int
    BY <1>8, <2>2
  <2> DEFINE x == Tries * (n - 1)  y == Used(s[Len(s)])  z == Tries * (n + 1 - 1)
  <2>4. c.attempts <= x + y /\ x \in Int /\ y \in 0 .. Tries /\ z = x + Tries /\ Tries \in Nat
    BY <2>1, <2>2, <2>3
  <2> HIDE DEF x, y, z
  <2>5. c.attempts <= z + 0
    BY <1>2, <2>4
  <2> QED
    BY <1>7, <2>5 DEF z
<1>12. \A k, j \in 1 .. top + 1 : j < k => K[k] + Later(m, t[j]) <= K[j]
  <2> SUFFICES ASSUME NEW k \in 1 .. top + 1, NEW j \in 1 .. top + 1, j < k
               PROVE  K[k] + Later(m, t[j]) <= K[j]
    OBVIOUS
  <2>1. j \in 1 .. top /\ K[j] = L[j]
    BY <1>2, <1>9
  <2>2. CASE k = top + 1 /\ j = top
    BY <1>2, <1>4, <1>9, <1>10, <2>1, <2>2
  <2>3. CASE k = top + 1 /\ j # top
    <3>1. j \in 1 .. top - 1 /\ t[j] = s[j] /\ top \in 1 .. top /\ j < top
      BY <1>2, <1>4, <2>1, <2>3
    <3>2. L[top] + Later(m, s[j]) <= L[j]
      BY <1>8, <2>1, <3>1
    <3>3. n + 2 * v - 1 <= L[top] /\ L[top] \in Int /\ L[j] \in Int /\ Later(m, s[j]) \in Nat
      <4>1. L[top] \in Int
        BY <1>8, <3>1
      <4>2. n + 2 * v - 1 <= L[top]
        BY <1>6, <1>8, <1>10, <4>1 DEF v
      <4> QED
        BY <1>2, <1>8, <2>1, <4>1, <4>2
    <3> DEFINE w == n + 2 * v - 1
    <3>4. w \in Int
      BY <1>6, <1>8 DEF v
    <3>5. K[k] = w /\ w <= L[top]
      BY <1>9, <2>3, <3>3
    <3> HIDE DEF w
    <3>6. w + Later(m, s[j]) <= L[j]
      BY <3>2, <3>3, <3>4, <3>5
    <3> QED
      BY <2>1, <3>1, <3>5, <3>6
  <2>4. CASE k # top + 1
    <3>1. k \in 1 .. top /\ K[k] = L[k] /\ j \in 1 .. top - 1 /\ t[j] = s[j]
      BY <1>2, <1>4, <1>9, <2>1, <2>4
    <3>2. L[k] + Later(m, s[j]) <= L[j]
      BY <1>8, <2>1, <3>1
    <3> QED
      BY <2>1, <3>1, <3>2
  <2> QED
    BY <2>2, <2>3, <2>4
<1>13. Ledger(b, m, d, n + 1, K, q)
  <2>1. n + 1 + Later(m, h) <= K[top + 1]
    <3>1. n + 1 + (2 * v - 2) <= n + 2 * v - 1
      BY <1>6, <1>8 DEF v
    <3> QED
      BY <1>7, <1>9, <3>1 DEF v
  <2>2. 1 \in 1 .. top /\ K[1] = L[1] /\ n + 1 \in Nat \ {0}
    BY <1>2, <1>8, <1>9
  <2>3. Len(c.answers) = q * MaxSegments /\ L[1] + q + 1 <= 2 * Load(m, First(Segs(b), EndOf(b, Len(c.answers))))
    BY <1>1 DEF Ledger
  <2> QED
    BY <1>4, <1>5, <1>8, <1>9, <1>11, <1>12, <2>1, <2>2, <2>3 DEF Ledger
<1>14. Paid(b, m, d)
  BY <1>4, <1>5, <1>13 DEF Paid
<1> QED
  BY <1>14 DEF d, t, h, Pushed

\* An invocation returns: what was left to it is not needed.
LEMMA PaidPop ==
  ASSUME NEW b, NEW m, NEW c, Sound(b, m, c), c.stack # <<>>, Front(c.stack) # <<>>,
         Paid(b, m, c), CallsAssumption
  PROVE  LET g == Told(Last(Front(c.stack)), Answers(Last(c.stack).chunk)) IN
         Paid(b, m, Does(Append(Front(Front(c.stack)), g), c.answers, c.attempts, "working"))
<1> DEFINE s == c.stack  u == Front(s)  p == Last(u)  g == Told(p, Answers(Last(s).chunk))
           t == Append(Front(u), g)  d == Does(t, c.answers, c.attempts, "working")
<1>1. PICK n, L, q : Ledger(b, m, c, n, L, q)
  BY DEF Paid
<1>2. /\ s \in Seq(Frames) /\ Len(s) \in Nat \ {0} /\ c.attempts \in Nat /\ Last(s) = s[Len(s)]
      /\ \A k \in 1 .. Len(s) : FrameOK(s[k]) /\ Later(m, s[k]) \in Nat
      /\ \A k \in 1 .. Len(s) - 1 : Waits(m, s[k])
  BY StackIs
<1>3. u \in Seq(Frames) /\ Len(u) = Len(s) - 1 /\ \A k \in 1 .. Len(s) - 1 : u[k] = s[k]
  BY <1>2, Tops
<1> HIDE DEF u
<1>4. Len(u) \in Nat \ {0} /\ p = u[Len(u)]
  BY <1>3, Tops DEF u
<1> HIDE DEF p
<1> DEFINE top == Len(s)  low == Len(u)
<1>5. low \in 1 .. top - 1 /\ low + 1 = top /\ top \in 1 .. top /\ low \in 1 .. top /\ low < top
      /\ 1 \in 1 .. low /\ low \in 1 .. low
  <2>1. top \in Nat /\ low \in Nat \ {0} /\ low = top - 1
    BY <1>2, <1>3, <1>4
  <2> HIDE DEF low, top
  <2> QED
    BY <2>1
<1>6. p = s[low] /\ FrameOK(p) /\ Waits(m, p) /\ Last(s).chunk = Asked(p, Len(p.got) + 1) /\ FrameOK(Last(s))
  <2>1. p = s[low]
    BY <1>3, <1>4, <1>5
  <2>2. s[low + 1].chunk = Asked(s[low], Len(s[low].got) + 1)
    BY <1>5 DEF Sound, Stacked
  <2> QED
    BY <1>2, <1>5, <2>1, <2>2
<1>7. FrameOK(g) /\ Later(m, g) = Later(m, p) /\ g \in Frames /\ Used(g) = Tries
  <2> DEFINE a == Answers(Last(s).chunk)
  <2>1. Last(s).chunk \in Seq(Pieces)
    BY <1>6 DEF FrameOK, Good
  <2>2. FrameOK(g) /\ Resumes(m, g)
    BY <1>6, <2>1, ToldIs
  <2>3. /\ g.at = "back" /\ g.plan = p.plan /\ g.rest = p.rest /\ g.got = Append(p.got, a)
        /\ p.got \in Seq(Seq(Pieces)) /\ p.at = "child"
    BY <1>6 DEF Told, FrameOK, Frames, Waits
  <2>4. Len(g.got) = Len(p.got) + 1 /\ Len(p.got) \in Nat
    <3>1. a \in Seq(Pieces)
      BY <2>1, AnswersAre
    <3> QED
      BY <2>3, <3>1
  <2>5. Pending(g) <=> Pending(p)
    BY <2>3, <2>4 DEF Pending
  <2>6. Waiting(g) /\ Waiting(p)
    BY <2>3 DEF Waiting
  <2> HIDE DEF g
  <2>7. Later(m, g) = Later(m, p) /\ Used(g) = Tries
    BY <2>3, <2>5, <2>6 DEF Later, Used
  <2> QED
    BY <2>2, <2>7 DEF FrameOK
<1> HIDE DEF g
<1>8. /\ t \in Seq(Frames) /\ Len(t) = low /\ t # <<>> /\ t[low] = g
      /\ \A k \in 1 .. low - 1 : t[k] = u[k]
  BY <1>3, <1>4, <1>7, Tops2 DEF u
<1>9. d.stack = t /\ d.answers = c.answers /\ d.attempts = c.attempts
  BY DEF Does
<1> HIDE DEF t, d
<1>10. \A k \in 1 .. low : Later(m, t[k]) = Later(m, s[k]) /\ k \in 1 .. top
  <2> SUFFICES ASSUME NEW k \in 1 .. low PROVE Later(m, t[k]) = Later(m, s[k]) /\ k \in 1 .. top
    OBVIOUS
  <2>1. CASE k = low
    BY <1>5, <1>6, <1>7, <1>8, <2>1
  <2>2. CASE k # low
    <3>1. k \in 1 .. low - 1 /\ k \in 1 .. top - 1 /\ k \in 1 .. top
      BY <1>2, <1>5, <2>2
    <3> QED
      BY <1>3, <1>8, <3>1
  <2> QED
    BY <2>1, <2>2
<1>11. /\ n \in Nat \ {0} /\ q \in Nat /\ L \in [1 .. top -> Int]
       /\ n + Later(m, s[top]) <= L[top]
       /\ \A k, j \in 1 .. top : j < k => L[k] + Later(m, s[j]) <= L[j]
       /\ c.attempts <= Tries * (n - 1) + Used(s[top])
       /\ Len(c.answers) = q * MaxSegments
       /\ L[1] + q + 1 <= 2 * Load(m, First(Segs(b), EndOf(b, Len(c.answers))))
  BY <1>1 DEF Ledger
<1> DEFINE K == [k \in 1 .. low |-> L[k]]
<1>12. K \in [1 .. low -> Int] /\ \A k \in 1 .. low : K[k] = L[k]
  BY <1>10, <1>11
<1> HIDE DEF K
<1>13. n + Later(m, g) <= K[low]
  <2>1. L[top] + Later(m, s[low]) <= L[low] /\ Later(m, s[top]) \in Nat /\ Later(m, s[low]) \in Nat
    BY <1>2, <1>5, <1>11
  <2>2. L[top] \in Int /\ L[low] \in Int
    BY <1>5, <1>11
  <2>3. n <= L[top]
    BY <1>11, <2>1, <2>2
  <2>4. n + Later(m, s[low]) <= L[low]
    BY <1>11, <2>1, <2>2, <2>3
  <2> QED
    BY <1>5, <1>6, <1>7, <1>12, <2>4
<1>14. c.attempts <= Tries * (n - 1) + Used(g)
  <2>1. Used(s[top]) \in 0 .. Tries /\ Tries \in Nat
    BY <1>2, <1>5, UsedIs
  <2>2. Tries * (n - 1) \in Int
    BY <1>11, <2>1
  <2> DEFINE x == Tries * (n - 1)  y == Used(s[top])
  <2>3. c.attempts <= x + y /\ x \in Int /\ y \in 0 .. Tries /\ Used(g) = Tries
    BY <1>7, <1>11, <2>1, <2>2
  <2> HIDE DEF x, y
  <2>4. c.attempts <= x + Used(g)
    BY <1>2, <2>1, <2>3
  <2> QED
    BY <2>4 DEF x
<1>15. \A k, j \in 1 .. low : j < k => K[k] + Later(m, t[j]) <= K[j]
  BY <1>10, <1>11, <1>12
<1>16. Ledger(b, m, d, n, K, q)
  BY <1>5, <1>8, <1>9, <1>11, <1>12, <1>13, <1>14, <1>15 DEF Ledger
<1>17. Paid(b, m, d)
  BY <1>8, <1>9, <1>16 DEF Paid
<1> QED
  BY <1>17 DEF d, t, g, p, u
-----------------------------------------------------------------------------
(* The bound on a batch.                                                      *)
LEMMA Products ==
  ASSUME NEW k \in Nat, NEW x \in Int, NEW y \in Int, x <= y
  PROVE  k * x <= k * y /\ k * x \in Int /\ k * y \in Int
OBVIOUS

\* A factor cancels.
LEMMA Cancel ==
  ASSUME NEW k \in Nat \ {0}, NEW x \in Int, NEW y \in Int, k * x < k * y
  PROVE  x < y
<1>1. SUFFICES ASSUME y <= x PROVE FALSE
  OBVIOUS
<1>2. k * y <= k * x /\ k * x \in Int /\ k * y \in Int
  BY <1>1, Products
<1> QED
  BY <1>2

\* The slices that are still to come are no more than the segments they have.
LEMMA SlicesToCome ==
  ASSUME CallsAssumption, NEW b, Len(b) \in Nat, NEW q \in Nat, q * MaxSegments < Len(b)
  PROVE  /\ SlicesIn(b) \in Nat
         /\ SlicesIn(b) <= q + 1 + (Len(b) - EndOf(b, q * MaxSegments))
<1> DEFINE k == MaxSegments  n == Len(b)  x == SlicesIn(b)  e == EndOf(b, q * k)
<1>1. k \in Nat \ {0} /\ n \in Nat
  BY DEF CallsAssumption
<1>2. x = (n + k - 1) \div k
  BY DEF SlicesIn
<1>3. e = IF q * k + 1 + k > n THEN n ELSE q * k + k
  BY DEF EndOf
<1>4. q * k \in Nat /\ q * k < n
  BY <1>1
<1> HIDE DEF k, n, x, e
<1>5. x \in Nat /\ k * x <= n + k - 1
  BY <1>1, <1>2
<1>6. CASE q * k + 1 + k > n
  <2>1. n <= q * k + k
    BY <1>1, <1>4, <1>6
  <2>2. k * (q + 2) = q * k + k + k
    BY <1>1
  <2>3. k * x < k * (q + 2)
    <3> DEFINE u == k * x  v == q * k  w == k * (q + 2)
    <3>1. u \in Int /\ v \in Int /\ u <= n + k - 1 /\ n <= v + k /\ w = v + k + k
      BY <1>1, <1>4, <1>5, <2>1, <2>2
    <3> HIDE DEF u, v, w
    <3>2. u < w
      BY <1>1, <3>1
    <3> QED
      BY <3>2 DEF u, w
  <2>4. x < q + 2
    BY <1>1, <1>5, <2>3, Cancel
  <2>5. e = n
    BY <1>3, <1>6
  <2> QED
    BY <1>1, <1>5, <2>4, <2>5 DEF x, n, e, k
<1>7. CASE ~(q * k + 1 + k > n)
  <2>1. e = q * k + k /\ e \in Nat /\ n - e >= 1 /\ n - e \in Nat
    BY <1>1, <1>3, <1>4, <1>7
  <2> DEFINE r == n - e
  <2>2. r \in Nat /\ n = q * k + k + r
    BY <1>1, <1>4, <2>1
  <2> HIDE DEF r
  <2>3. k * (q + 1 + r + 1) = q * k + k + k * r + k
    BY <1>1, <2>2
  <2>4. r <= k * r
    <3>1. 1 <= k
      BY <1>1
    <3>2. r * 1 <= r * k
      BY <1>1, <2>2, <3>1, Products
    <3> QED
      BY <1>1, <2>2, <3>2
  <2>5. k * x < k * (q + 1 + r + 1)
    <3> DEFINE u == k * x  v == q * k  w == k * (q + 1 + r + 1)  z == k * r
    <3>1. /\ u \in Int /\ v \in Int /\ z \in Int /\ u <= n + k - 1 /\ n = v + k + r
          /\ w = v + k + z + k /\ r <= z
      BY <1>1, <1>4, <1>5, <2>2, <2>3, <2>4
    <3> HIDE DEF u, v, w, z
    <3>2. u < w
      BY <1>1, <2>2, <3>1
    <3> QED
      BY <3>2 DEF u, w
  <2>6. x < q + 1 + r + 1
    BY <1>1, <1>5, <2>2, <2>5, Cancel
  <2>7. x <= q + 1 + (n - e)
    BY <1>5, <2>2, <2>6 DEF r
  <2> QED
    BY <1>5, <2>7 DEF x, n, e, k
<1> QED
  BY <1>6, <1>7

\* A worker whose books are in order has made no more attempts than it may.
LEMMA LedgerBounds ==
  ASSUME CallsAssumption, NEW b, BatchOK(b), NEW m, NEW c, Sound(b, m, c), c.stack # <<>>, Paid(b, m, c)
  PROVE  c.attempts <= Limit(b, m)
<1>1. PICK n, L, q : Ledger(b, m, c, n, L, q)
  BY DEF Paid
<1>2. /\ Len(c.stack) \in Nat \ {0} /\ c.attempts \in Nat
      /\ \A k \in 1 .. Len(c.stack) : FrameOK(c.stack[k]) /\ Later(m, c.stack[k]) \in Nat
  BY StackIs
<1> DEFINE top == Len(c.stack)  s == Segs(b)  e == EndOf(b, q * MaxSegments)
<1>3. /\ n \in Nat \ {0} /\ q \in Nat /\ L \in [1 .. top -> Int]
      /\ c.attempts <= Tries * (n - 1) + Used(c.stack[top])
      /\ n + Later(m, c.stack[top]) <= L[top]
      /\ \A k, j \in 1 .. top : j < k => L[k] + Later(m, c.stack[j]) <= L[j]
      /\ Len(c.answers) = q * MaxSegments
      /\ L[1] + q + 1 <= 2 * Load(m, First(s, e))
  BY <1>1 DEF Ledger
<1>4. s \in Seq(Pieces) /\ Len(s) = Len(b) /\ Len(b) \in Nat
      /\ \A i \in 1 .. Len(b) : Solid(s[i].text) # {}
  BY SegsAre
<1> HIDE DEF s
<1>5. n <= L[1] /\ L[1] \in Int
  <2>1. L[1] \in Int /\ L[top] \in Int /\ Later(m, c.stack[top]) \in Nat /\ Later(m, c.stack[1]) \in Nat
    <3>1. 1 \in 1 .. top /\ top \in 1 .. top
      BY <1>2
    <3> HIDE DEF top
    <3> QED
      BY <1>2, <1>3, <3>1 DEF top
  <2>2. n <= L[top]
    BY <1>3, <2>1
  <2>3. top = 1 \/ L[top] + Later(m, c.stack[1]) <= L[1]
    <3>1. 1 \in 1 .. top /\ top \in 1 .. top /\ (top = 1 \/ 1 < top)
      <4>1. top \in Nat \ {0}
        BY <1>2
      <4> HIDE DEF top
      <4> QED
        BY <4>1
    <3>2. ASSUME 1 < top PROVE L[top] + Later(m, c.stack[1]) <= L[1]
      BY <1>3, <3>1, <3>2
    <3> QED
      BY <3>1, <3>2
  <2> QED
    BY <1>3, <2>1, <2>2, <2>3
<1>6. q * MaxSegments \in Nat /\ q * MaxSegments < Len(b)
  <2>1. Len(c.answers) < Len(b) /\ Len(c.answers) \in Nat
    BY DEF Sound, CallsOf
  <2> QED
    BY <1>3, <2>1
<1>7. e \in 0 .. Len(b)
  <2>1. e \in q * MaxSegments + 1 .. Len(b)
    BY <1>6, SliceIs
  <2> QED
    BY <1>6, <2>1
<1>8. SlicesIn(b) \in Nat /\ SlicesIn(b) <= q + 1 + (Len(b) - e)
  BY <1>3, <1>4, <1>6, SlicesToCome
<1> HIDE DEF e
<1> DEFINE l == Load(m, First(s, e))  r == Load(m, After(s, e))  t == Load(m, s)
<1>9. l + r = t /\ l \in Nat /\ r \in Nat /\ t \in Nat /\ r >= Len(b) - e
  <2>1. e \in 0 .. Len(s)
    BY <1>4, <1>7
  <2>2. /\ First(s, e) \in Seq(Pieces) /\ After(s, e) \in Seq(Pieces) /\ Len(After(s, e)) = Len(s) - e
        /\ \A i \in 1 .. Len(s) - e : After(s, e)[i] = s[e + i]
    BY <1>4, <2>1, Cut
  <2>3. \A i \in 1 .. Len(After(s, e)) : Solid(After(s, e)[i].text) # {}
    <3> SUFFICES ASSUME NEW i \in 1 .. Len(After(s, e)) PROVE Solid(After(s, e)[i].text) # {}
      OBVIOUS
    <3>1. i \in 1 .. Len(s) - e /\ e + i \in 1 .. Len(b)
      BY <1>4, <2>1, <2>2
    <3> QED
      BY <1>4, <2>2, <3>1
  <2>4. r >= Len(After(s, e))
    BY <2>2, <2>3, LoadAtLeast
  <2>5. l + r = t
    BY <1>4, <2>1, LoadCut
  <2>6. l \in Nat /\ r \in Nat /\ t \in Nat
    BY <1>4, <2>2, LoadType
  <2> QED
    BY <1>4, <2>2, <2>4, <2>5, <2>6
<1>10. n <= 2 * t - SlicesIn(b)
  <2>1. L[1] + q + 1 <= 2 * l
    BY <1>3 DEF l
  <2> DEFINE x == L[1]  y == SlicesIn(b)
  <2>2. x \in Int /\ y \in Nat /\ n <= x /\ x + q + 1 <= 2 * l /\ y <= q + 1 + (Len(b) - e)
        /\ q \in Nat /\ n \in Nat /\ e \in 0 .. Len(b) /\ Len(b) \in Nat
    BY <1>3, <1>4, <1>5, <1>7, <1>8, <2>1
  <2> HIDE DEF x, y, l, r, t
  <2>3. n <= 2 * t - y
    BY <1>9, <2>2
  <2> QED
    BY <2>3 DEF y
<1>11. c.attempts <= Tries * n
  <2>1. Used(c.stack[top]) \in 0 .. Tries /\ Tries \in Nat
    BY <1>2, UsedIs
  <2>2. Tries * n = Tries * (n - 1) + Tries /\ Tries * (n - 1) \in Int
    BY <1>3, <2>1
  <2> DEFINE x == Tries * (n - 1)  y == Used(c.stack[top])  z == Tries * n
  <2>3. c.attempts <= x + y /\ x \in Int /\ y \in 0 .. Tries /\ z = x + Tries
    BY <1>3, <2>1, <2>2
  <2> HIDE DEF x, y, z
  <2>4. c.attempts <= z
    BY <1>2, <2>1, <2>3
  <2> QED
    BY <2>4 DEF z
<1> DEFINE w == 2 * t - SlicesIn(b)
<1>12. Tries * n <= Tries * w /\ Tries * n \in Int /\ Tries * w \in Int
  <2>1. w \in Int /\ n <= w /\ n \in Int /\ Tries \in Nat
    BY <1>2, <1>3, <1>8, <1>9, <1>10, UsedIs
  <2> HIDE DEF w
  <2> QED
    BY <2>1, Products
<1>13. Limit(b, m) = Tries * w
  BY DEF Limit, s
<1> HIDE DEF w
<1> QED
  BY <1>2, <1>11, <1>12, <1>13

\* A slice is answered: its invocations are paid, and those of the next one are to come.
LEMMA PaidNextSlice ==
  ASSUME CallsAssumption, NEW b, BatchOK(b), NEW m, NEW c, Sound(b, m, c), c.stack # <<>>,
         Front(c.stack) = <<>>, Paid(b, m, c), Len(More(c)) < Len(b)
  PROVE  Paid(b, m, Does(<<Invocation(SliceOf(b, Len(More(c)) + 1))>>, More(c), c.attempts, "working"))
<1> DEFINE a == More(c)  e == Len(a)  chunk == SliceOf(b, e + 1)  h == Invocation(chunk)  t == <<h>>
           d == Does(t, a, c.attempts, "working")
<1>1. PICK n, L, q : Ledger(b, m, c, n, L, q)
  BY DEF Paid
<1>2. /\ Len(c.stack) = 1 /\ Len(c.answers) \in Nat /\ Len(c.answers) < Len(b)
      /\ e = EndOf(b, Len(c.answers)) /\ e \in 1 .. Len(b)
  BY MoreIs
<1>3. /\ n \in Nat \ {0} /\ q \in Nat /\ L \in [1 .. 1 -> Int]
      /\ c.attempts <= Tries * (n - 1) + Used(c.stack[1])
      /\ n + Later(m, c.stack[1]) <= L[1]
      /\ Len(c.answers) = q * MaxSegments
      /\ L[1] + q + 1 <= 2 * Load(m, First(Segs(b), e))
  BY <1>1, <1>2 DEF Ledger
<1>4. FrameOK(c.stack[1]) /\ Later(m, c.stack[1]) \in Nat /\ c.attempts \in Nat
  BY <1>2, StackIs
<1>5. MaxSegments \in Nat \ {0} /\ Len(b) \in Nat
  BY SegsAre DEF CallsAssumption
<1> HIDE DEF a, e
<1>6. e = (q + 1) * MaxSegments /\ e \in Nat /\ e < Len(b)
  <2> DEFINE k == MaxSegments  p == q * k
  <2>1. e = EndOf(b, p) /\ e < Len(b) /\ e \in 1 .. Len(b)
    BY <1>2, <1>3 DEF e, a
  <2>2. EndOf(b, p) = IF p + 1 + k > Len(b) THEN Len(b) ELSE p + k
    BY DEF EndOf
  <2>3. (q + 1) * k = p + k
    BY <1>3, <1>5
  <2> HIDE DEF p, k
  <2>4. e = p + k
    BY <1>5, <2>1, <2>2
  <2> QED
    BY <1>5, <2>1, <2>3, <2>4 DEF k
<1>7. /\ Good(chunk) /\ Load(m, First(Segs(b), EndOf(b, e))) = Load(m, First(Segs(b), e)) + Load(m, chunk)
  BY <1>6, SliceIs
<1> DEFINE v == Load(m, chunk)
<1>8. v \in Nat /\ v >= 1
  BY <1>7, GoodLoad
<1>9. FrameOK(h) /\ h.chunk = chunk /\ h.at = "ask" /\ h.attempt = 0
  BY <1>7, FirstFrame
<1> HIDE DEF h, chunk
<1>10. Used(h) = 0 /\ Later(m, h) = 2 * v - 2
  BY <1>9 DEF Used, Later, Waiting
<1>11. Len(t) = 1 /\ t[1] = h /\ t # <<>>
  OBVIOUS
<1>12. d.stack = t /\ d.answers = a /\ d.attempts = c.attempts
  BY DEF Does
<1> HIDE DEF t, d, v
<1> DEFINE K == [k \in 1 .. 1 |-> n + 2 * v - 1]
<1>13. K \in [1 .. 1 -> Int] /\ K[1] = n + 2 * v - 1
  BY <1>3, <1>8
<1> HIDE DEF K
<1>14. c.attempts <= Tries * ((n + 1) - 1) + Used(h)
  <2>1. Used(c.stack[1]) \in 0 .. Tries /\ Tries \in Nat
    BY <1>4, UsedIs
  <2>2. Tries * ((n + 1) - 1) = Tries * (n - 1) + Tries /\ Tries * (n - 1) \in Int
    BY <1>3, <2>1
  <2> DEFINE x == Tries * (n - 1)  y == Used(c.stack[1])  z == Tries * ((n + 1) - 1)
  <2>3. c.attempts <= x + y /\ x \in Int /\ y \in 0 .. Tries /\ z = x + Tries
    BY <1>3, <2>1, <2>2
  <2> HIDE DEF x, y, z
  <2>4. c.attempts <= z + 0
    BY <1>4, <2>1, <2>3
  <2> QED
    BY <1>10, <2>4 DEF z
<1>15. n + 1 + Later(m, h) <= K[1]
  BY <1>3, <1>8, <1>10, <1>13
<1>16. K[1] + (q + 1) + 1 <= 2 * Load(m, First(Segs(b), EndOf(b, e)))
  <2>1. Load(m, First(Segs(b), e)) \in Nat
    <3>1. Segs(b) \in Seq(Pieces) /\ e \in 0 .. Len(Segs(b))
      BY <1>5, <1>6, SegsAre
    <3>2. First(Segs(b), e) \in Seq(Pieces)
      BY <3>1, Cut
    <3> QED
      BY <3>2, LoadType
  <2> DEFINE l == Load(m, First(Segs(b), e))  r == Load(m, First(Segs(b), EndOf(b, e)))  x == L[1]
             y == Later(m, c.stack[1])
  <2>2. /\ r = l + v /\ l \in Nat /\ x \in Int /\ y \in Nat /\ n + y <= x /\ x + q + 1 <= 2 * l
        /\ K[1] = n + 2 * v - 1
    BY <1>3, <1>4, <1>7, <1>13, <2>1 DEF v
  <2> DEFINE z == K[1]
  <2>4. z = n + 2 * v - 1 /\ v \in Nat /\ n \in Nat /\ q \in Nat
    BY <1>3, <1>8, <2>2
  <2> HIDE DEF l, r, x, y, z
  <2>3. z + (q + 1) + 1 <= 2 * r
    BY <2>2, <2>4
  <2> QED
    BY <2>3 DEF r, z
<1>17. Ledger(b, m, d, n + 1, K, q + 1)
  <2>1. n + 1 \in Nat \ {0} /\ q + 1 \in Nat /\ Len(a) = (q + 1) * MaxSegments
    BY <1>3, <1>6 DEF e
  <2>2. \A k, j \in 1 .. Len(t) : ~(j < k)
    BY <1>11
  <2>3. K \in [1 .. Len(t) -> Int] /\ n + 1 + Later(m, t[Len(t)]) <= K[Len(t)]
        /\ c.attempts <= Tries * ((n + 1) - 1) + Used(t[Len(t)])
    BY <1>11, <1>13, <1>14, <1>15
  <2>4. K[1] + (q + 1) + 1 <= 2 * Load(m, First(Segs(b), EndOf(b, Len(a))))
    BY <1>16 DEF e
  <2>5. \A k, j \in 1 .. Len(d.stack) : j < k => K[k] + Later(m, d.stack[j]) <= K[j]
    BY <1>12, <2>2
  <2>6. /\ K \in [1 .. Len(d.stack) -> Int] /\ n + 1 + Later(m, d.stack[Len(d.stack)]) <= K[Len(d.stack)]
        /\ d.attempts <= Tries * ((n + 1) - 1) + Used(d.stack[Len(d.stack)])
    BY <1>12, <2>3, Zenon
  <2>7. /\ Len(d.answers) = (q + 1) * MaxSegments
        /\ K[1] + (q + 1) + 1 <= 2 * Load(m, First(Segs(b), EndOf(b, Len(d.answers))))
    BY <1>12, <2>1, <2>4, Zenon
  <2> QED
    BY <2>1, <2>5, <2>6, <2>7, Zenon DEF Ledger
<1>18. Paid(b, m, d)
  BY <1>11, <1>12, <1>17 DEF Paid
<1> QED
  BY <1>18 DEF d, t, h, chunk, e, a

LEMMA PaidEnd ==
  ASSUME CallsAssumption, NEW b, BatchOK(b), NEW m, NEW c, Sound(b, m, c), c.stack # <<>>,
         Paid(b, m, c), NEW answers, NEW outcome
  PROVE  Paid(b, m, Does(<<>>, answers, c.attempts, outcome))
<1>1. c.attempts <= Limit(b, m)
  BY LedgerBounds
<1> QED
  BY <1>1 DEF Paid, Does
-----------------------------------------------------------------------------
(* The inductive invariant: every worker's pending invocations ask for what   *)
(* their plan says and hold the right answers, and its books are in order.    *)
InOrder(b, m, c) == Sound(b, m, c) /\ Paid(b, m, c)

\* The running invocation goes on, with the attempts that the step adds.
LEMMA MoveTop ==
  ASSUME CallsAssumption, NEW b, NEW m, NEW c, InOrder(b, m, c), c.stack # <<>>,
         ~Waiting(Last(c.stack)), NEW g, FrameOK(g), ~Waiting(g), g.got = <<>>,
         g.chunk = Last(c.stack).chunk, NEW more \in Nat, Used(g) = Used(Last(c.stack)) + more
  PROVE  InOrder(b, m, Does(Append(Front(c.stack), g), c.answers, c.attempts + more, "working"))
<1>1. Sound(b, m, c) /\ Paid(b, m, c)
  BY DEF InOrder
<1>2. Last(c.stack) = c.stack[Len(c.stack)] /\ c.attempts \in Nat /\ c.attempts + more \in Nat
  BY <1>1, StackIs
<1>3. Runs(m, g)
  BY DEF Runs, Waiting
<1>4. Later(m, g) = Later(m, c.stack[Len(c.stack)])
  BY <1>2 DEF Later
<1>5. Sound(b, m, Does(Append(Front(c.stack), g), c.answers, c.attempts + more, "working"))
  BY <1>1, <1>2, <1>3, SoundTop
<1>6. Paid(b, m, Does(Append(Front(c.stack), g), c.answers, c.attempts + more, "working"))
  BY <1>1, <1>2, <1>4, PaidTop
<1> QED
  BY <1>5, <1>6 DEF InOrder

\* An invocation asks itself for the first time.
LEMMA MovePush ==
  ASSUME CallsAssumption, NEW b, NEW m, NEW c, InOrder(b, m, c), c.stack # <<>>,
         ~Waiting(Last(c.stack)), NEW g, FrameOK(g), Planned(m, g), g.at = "child", g.got = <<>>,
         g.chunk = Last(c.stack).chunk
  PROVE  InOrder(b, m, Does(Front(c.stack) \o <<g, Invocation(Asked(g, 1))>>,
                            c.answers, c.attempts, "working"))
<1> DEFINE chunk == Asked(g, 1)  f == Last(c.stack)
           d == Does(Front(c.stack) \o <<g, Invocation(chunk)>>, c.answers, c.attempts, "working")
<1>1. Sound(b, m, c) /\ Paid(b, m, c)
  BY DEF InOrder
<1>2. f = c.stack[Len(c.stack)]
  BY <1>1, StackIs
<1>3. Len(g.got) = 0 /\ Waits(m, g) /\ Len(g.got) + 1 = 1
  BY DEF Waits, Collected
<1>4. /\ Load(m, chunk) \in Nat /\ Load(m, g.chunk) \in Nat
      /\ g.plan = "recover" => 2 * Load(m, chunk) <= 2 * Load(m, g.chunk) - 2
      /\ g.plan # "recover" => /\ Load(m, g.rest) \in Nat /\ Load(m, g.rest) >= 1
                               /\ Load(m, chunk) + Load(m, g.rest) = Load(m, g.chunk)
  BY PlanPays
<1>5. Later(m, f) = 2 * Load(m, g.chunk) - 2
  BY DEF Later
<1>6. Later(m, g) = IF g.plan # "recover" THEN 2 * Load(m, g.rest) - 1 ELSE 0
  BY <1>3 DEF Later, Waiting, Pending
<1>7. chunk = Asked(g, Len(g.got) + 1)
  BY <1>3
<1> HIDE DEF chunk
<1>8. Good(chunk) /\ Sound(b, m, d)
  BY <1>1, <1>2, <1>3, <1>7, SoundPush
<1>9. 2 * Load(m, chunk) - 1 + Later(m, g) <= Later(m, f)
  <2> DEFINE x == Load(m, chunk)  y == Load(m, g.rest)  z == Load(m, g.chunk)
  <2>1. CASE g.plan = "recover"
    <3>1. Later(m, g) = 0 /\ x \in Nat /\ z \in Nat /\ 2 * x <= 2 * z - 2
      BY <1>4, <1>6, <2>1
    <3> HIDE DEF x, z
    <3>2. 2 * x - 1 + 0 <= 2 * z - 2
      BY <3>1
    <3> QED
      BY <1>5, <3>1, <3>2 DEF x, z
  <2>2. CASE g.plan # "recover"
    <3>1. Later(m, g) = 2 * y - 1 /\ x \in Nat /\ y \in Nat /\ z \in Nat /\ x + y = z
      BY <1>4, <1>6, <2>2
    <3> HIDE DEF x, y, z
    <3>2. 2 * x - 1 + (2 * y - 1) <= 2 * z - 2
      BY <3>1
    <3> QED
      BY <1>5, <3>1, <3>2 DEF x, y, z
  <2> QED
    BY <2>1, <2>2
<1>10. Paid(b, m, d)
  BY <1>1, <1>2, <1>3, <1>8, <1>9, PaidPush
<1> QED
  BY <1>8, <1>10 DEF InOrder, d, chunk

\* It asks for its second half.
LEMMA MoveRest ==
  ASSUME CallsAssumption, NEW b, NEW m, NEW c, InOrder(b, m, c), c.stack # <<>>,
         Resumes(m, Last(c.stack)), Last(c.stack).plan # "recover", Len(Last(c.stack).got) = 1
  PROVE  InOrder(b, m, Does(Front(c.stack) \o <<[Last(c.stack) EXCEPT !.at = "child"],
                                                Invocation(Last(c.stack).rest)>>,
                            c.answers, c.attempts, "working"))
<1> DEFINE f == Last(c.stack)  g == [f EXCEPT !.at = "child"]  chunk == f.rest
           d == Does(Front(c.stack) \o <<g, Invocation(chunk)>>, c.answers, c.attempts, "working")
<1>1. Sound(b, m, c) /\ Paid(b, m, c)
  BY DEF InOrder
<1>2. f = c.stack[Len(c.stack)] /\ FrameOK(f)
  BY <1>1, StackIs
<1>3. /\ f \in Frames /\ g \in Frames /\ g.at = "child" /\ g.chunk = f.chunk /\ g.plan = f.plan /\ g.rest = f.rest
      /\ g.got = f.got /\ g.empty = f.empty
  BY <1>2 DEF FrameOK, Frames, Points
<1>4. Resumes(m, f) /\ f.at = "back" /\ f.plan # "recover" /\ Len(f.got) = 1
  BY DEF Resumes
<1> HIDE DEF f, g
<1>5. FrameOK(g)
  BY <1>2, <1>3 DEF FrameOK
<1>6. Planned(m, g) /\ Collected(g)
  BY <1>3, <1>4 DEF Resumes, Planned, Collected, Asked, Recoverable, Middle, EmptyOnes
<1>7. Waits(m, g) /\ Len(g.got) + 1 = 2
  BY <1>3, <1>4, <1>6 DEF Waits
<1>8. chunk = Asked(g, Len(g.got) + 1)
  BY <1>3, <1>4, <1>7 DEF Asked
<1>9. Later(m, f) = 2 * Load(m, chunk) - 1 /\ Later(m, g) = 0
  BY <1>3, <1>4 DEF Later, Waiting, Pending
<1> HIDE DEF chunk
<1>10. Good(chunk) /\ Sound(b, m, d)
  BY <1>1, <1>2, <1>3, <1>5, <1>7, <1>8, SoundPush
<1>11. 2 * Load(m, chunk) - 1 + Later(m, g) <= Later(m, f)
  <2>1. Load(m, chunk) \in Nat
    BY <1>10, GoodLoad
  <2> QED
    BY <1>9, <2>1
<1>12. Paid(b, m, d)
  BY <1>1, <1>2, <1>5, <1>7, <1>10, <1>11, PaidPush
<1> QED
  BY <1>10, <1>12 DEF InOrder, d, g, f, chunk
-----------------------------------------------------------------------------
(* What a step makes of what a worker is doing.                               *)
LEMMA Shape ==
  ASSUME NEW c \in CallsOf
  PROVE  c = Does(c.stack, c.answers, c.attempts, c.outcome)
BY DEF CallsOf, Does

\* The records that the steps write.
LEMMA Stack ==
  ASSUME NEW c \in CallsOf, NEW stack
  PROVE  [c EXCEPT !.stack = stack] = Does(stack, c.answers, c.attempts, c.outcome)
<1> DEFINE s == c.stack  a == c.answers  n == c.attempts  o == c.outcome
<1>1. c = Does(s, a, n, o)
  BY Shape
<1> HIDE DEF s, a, n, o
<1>2. [Does(s, a, n, o) EXCEPT !.stack = stack] = Does(stack, a, n, o)
  BY DEF Does
<1>3. [c EXCEPT !.stack = stack] = [c EXCEPT !.stack = stack]
  BY Zenon
<1>4. [c EXCEPT !.stack = stack] = Does(stack, a, n, o)
  BY <1>1, <1>2, Zenon
<1> QED
  BY <1>3, <1>4, Zenon DEF s, a, n, o

LEMMA StackAttempts ==
  ASSUME NEW c \in CallsOf, NEW stack, NEW attempts
  PROVE  [c EXCEPT !.attempts = attempts, !.stack = stack] = Does(stack, c.answers, attempts, c.outcome)
<1> DEFINE s == c.stack  a == c.answers  n == c.attempts  o == c.outcome
<1>1. c = Does(s, a, n, o)
  BY Shape
<1> HIDE DEF s, a, n, o
<1>2. [Does(s, a, n, o) EXCEPT !.attempts = attempts] = Does(s, a, attempts, o)
  BY DEF Does
<1>3. [Does(s, a, attempts, o) EXCEPT !.stack = stack] = Does(stack, a, attempts, o)
  BY DEF Does
<1>4. [c EXCEPT !.attempts = attempts, !.stack = stack] = [[c EXCEPT !.attempts = attempts] EXCEPT !.stack = stack]
  BY Zenon
<1>5. [[c EXCEPT !.attempts = attempts] EXCEPT !.stack = stack] = Does(stack, a, attempts, o)
  BY <1>1, <1>2, <1>3, Zenon
<1> QED
  BY <1>4, <1>5, Zenon DEF s, a, n, o

LEMMA StackAnswers ==
  ASSUME NEW c \in CallsOf, NEW stack, NEW answers
  PROVE  [c EXCEPT !.answers = answers, !.stack = stack] = Does(stack, answers, c.attempts, c.outcome)
<1> DEFINE s == c.stack  a == c.answers  n == c.attempts  o == c.outcome
<1>1. c = Does(s, a, n, o)
  BY Shape
<1> HIDE DEF s, a, n, o
<1>2. [Does(s, a, n, o) EXCEPT !.answers = answers] = Does(s, answers, n, o)
  BY DEF Does
<1>3. [Does(s, answers, n, o) EXCEPT !.stack = stack] = Does(stack, answers, n, o)
  BY DEF Does
<1>4. [c EXCEPT !.answers = answers, !.stack = stack] = [[c EXCEPT !.answers = answers] EXCEPT !.stack = stack]
  BY Zenon
<1>5. [[c EXCEPT !.answers = answers] EXCEPT !.stack = stack] = Does(stack, answers, n, o)
  BY <1>1, <1>2, <1>3, Zenon
<1> QED
  BY <1>4, <1>5, Zenon DEF s, a, n, o

LEMMA StackFails ==
  ASSUME NEW c \in CallsOf
  PROVE  [c EXCEPT !.stack = <<>>, !.outcome = "failed"] = Does(<<>>, c.answers, c.attempts, "failed")
<1> DEFINE s == c.stack  a == c.answers  n == c.attempts  o == c.outcome
<1>1. c = Does(s, a, n, o)
  BY Shape
<1> HIDE DEF s, a, n, o
<1>2. [Does(s, a, n, o) EXCEPT !.stack = <<>>] = Does(<<>>, a, n, o)
  BY DEF Does
<1>3. [Does(<<>>, a, n, o) EXCEPT !.outcome = "failed"] = Does(<<>>, a, n, "failed")
  BY DEF Does
<1>4. [c EXCEPT !.stack = <<>>, !.outcome = "failed"] = [[c EXCEPT !.stack = <<>>] EXCEPT !.outcome = "failed"]
  BY Zenon
<1>5. [[c EXCEPT !.stack = <<>>] EXCEPT !.outcome = "failed"] = Does(<<>>, a, n, "failed")
  BY <1>1, <1>2, <1>3, Zenon
<1> QED
  BY <1>4, <1>5, Zenon DEF s, a, n, o

LEMMA StackEnds ==
  ASSUME NEW c \in CallsOf, NEW answers
  PROVE  [c EXCEPT !.answers = answers, !.stack = <<>>, !.outcome = "done"] = Does(<<>>, answers, c.attempts, "done")
<1> DEFINE s == c.stack  a == c.answers  n == c.attempts  o == c.outcome
<1>1. c = Does(s, a, n, o)
  BY Shape
<1> HIDE DEF s, a, n, o
<1>2. [Does(s, a, n, o) EXCEPT !.answers = answers] = Does(s, answers, n, o)
  BY DEF Does
<1>3. [Does(s, answers, n, o) EXCEPT !.stack = <<>>] = Does(<<>>, answers, n, o)
  BY DEF Does
<1>4. [Does(<<>>, answers, n, o) EXCEPT !.outcome = "done"] = Does(<<>>, answers, n, "done")
  BY DEF Does
<1>5. [c EXCEPT !.answers = answers, !.stack = <<>>, !.outcome = "done"] = [[[c EXCEPT !.answers = answers] EXCEPT !.stack = <<>>] EXCEPT !.outcome = "done"]
  BY Zenon
<1>6. [[[c EXCEPT !.answers = answers] EXCEPT !.stack = <<>>] EXCEPT !.outcome = "done"] = Does(<<>>, answers, n, "done")
  BY <1>1, <1>2, <1>3, <1>4, Zenon
<1> QED
  BY <1>5, <1>6, Zenon DEF s, a, n, o

\* A worker with invocations is working.
LEMMA Works ==
  ASSUME NEW b, NEW m, NEW c, InOrder(b, m, c), c.stack # <<>>
  PROVE  c \in CallsOf /\ c.outcome = "working"
BY DEF InOrder, Sound

\* Its answer goes to the invocation that waits for it, or ends a slice.
Back(b, c, answers) ==
  LET below == Front(c.stack)  got == c.answers \o answers IN
    IF below # <<>>
    THEN [c EXCEPT !.stack = Append(Front(below),
                               [Last(below) EXCEPT !.at = "back", !.got = Append(@, answers)])]
    ELSE IF Len(got) < Len(b)
    THEN [c EXCEPT !.answers = got, !.stack = <<Invocation(SliceOf(b, Len(got) + 1))>>]
    ELSE [c EXCEPT !.answers = got, !.stack = <<>>, !.outcome = "done"]

\* An answer never leaves the order.
LEMMA MoveBack ==
  ASSUME CallsAssumption, NEW b, BatchOK(b), NEW m, NEW c, InOrder(b, m, c), c.stack # <<>>
  PROVE  InOrder(b, m, Back(b, c, Answers(Last(c.stack).chunk)))
<1> DEFINE a == Answers(Last(c.stack).chunk)  below == Front(c.stack)
           g == Told(Last(below), a)
<1>1. Sound(b, m, c) /\ Paid(b, m, c) /\ c \in CallsOf /\ c.outcome = "working"
  BY Works DEF InOrder
<1>2. CASE below # <<>>
  <2> DEFINE t == Append(Front(below), g)
  <2>1. Sound(b, m, Does(t, c.answers, c.attempts, "working"))
    BY <1>1, <1>2, SoundPop, Zenon
  <2>2. Paid(b, m, Does(t, c.answers, c.attempts, "working"))
    BY <1>1, <1>2, PaidPop, Zenon
  <2>3. Back(b, c, a) = [c EXCEPT !.stack = t]
    BY <1>2, Zenon DEF Back, Told
  <2> HIDE DEF t
  <2>4. [c EXCEPT !.stack = t] = Does(t, c.answers, c.attempts, "working")
    BY <1>1, Stack
  <2>5. Back(b, c, a) = Does(t, c.answers, c.attempts, "working")
    BY <2>3, <2>4, Zenon
  <2> QED
    BY <2>1, <2>2, <2>5, Zenon DEF InOrder
<1>3. CASE below = <<>> /\ Len(More(c)) < Len(b)
  <2> DEFINE t == <<Invocation(SliceOf(b, Len(More(c)) + 1))>>  r == More(c)
  <2>1. Sound(b, m, Does(t, r, c.attempts, "working"))
    BY <1>1, <1>3, SoundNextSlice, Zenon
  <2>2. Paid(b, m, Does(t, r, c.attempts, "working"))
    BY <1>1, <1>3, PaidNextSlice, Zenon
  <2>3. Back(b, c, a) = [c EXCEPT !.answers = r, !.stack = t]
    BY <1>3, Zenon DEF Back, More
  <2> HIDE DEF t, r
  <2>4. [c EXCEPT !.answers = r, !.stack = t] = Does(t, r, c.attempts, "working")
    BY <1>1, StackAnswers
  <2>5. Back(b, c, a) = Does(t, r, c.attempts, "working")
    BY <2>3, <2>4, Zenon
  <2> QED
    BY <2>1, <2>2, <2>5, Zenon DEF InOrder
<1>4. CASE below = <<>> /\ ~(Len(More(c)) < Len(b))
  <2> DEFINE r == More(c)
  <2>1. Sound(b, m, Does(<<>>, r, c.attempts, "done"))
    BY <1>1, <1>4, SoundLastSlice, Zenon
  <2>2. Paid(b, m, Does(<<>>, r, c.attempts, "done"))
    BY <1>1, PaidEnd, Zenon
  <2>3. Back(b, c, a) = [c EXCEPT !.answers = r, !.stack = <<>>, !.outcome = "done"]
    BY <1>4, Zenon DEF Back, More
  <2> HIDE DEF r
  <2>4. [c EXCEPT !.answers = r, !.stack = <<>>, !.outcome = "done"] = Does(<<>>, r, c.attempts, "done")
    BY <1>1, StackEnds
  <2>5. Back(b, c, a) = Does(<<>>, r, c.attempts, "done")
    BY <2>3, <2>4, Zenon
  <2> QED
    BY <2>1, <2>2, <2>5, Zenon DEF InOrder
<1> QED
  BY <1>2, <1>3, <1>4, Zenon

\* Everything stops.
LEMMA MoveThrow ==
  ASSUME CallsAssumption, NEW b, BatchOK(b), NEW m, NEW c, InOrder(b, m, c), c.stack # <<>>
  PROVE  InOrder(b, m, [c EXCEPT !.stack = <<>>, !.outcome = "failed"])
<1> DEFINE d == Does(<<>>, c.answers, c.attempts, "failed")
<1>1. Sound(b, m, c) /\ Paid(b, m, c) /\ c \in CallsOf
  BY Works DEF InOrder
<1>2. Sound(b, m, d)
  BY <1>1, SoundThrow, Zenon
<1>3. Paid(b, m, d)
  BY <1>1, PaidEnd, Zenon
<1>4. [c EXCEPT !.stack = <<>>, !.outcome = "failed"] = d
  BY <1>1, StackFails
<1>5. InOrder(b, m, d)
  BY <1>2, <1>3 DEF InOrder
<1> QED
  BY <1>4, <1>5, Zenon

\* It goes on by itself, with the attempts that the step adds.
LEMMA MoveOn ==
  ASSUME CallsAssumption, NEW b, NEW m, NEW c, InOrder(b, m, c), c.stack # <<>>,
         ~Waiting(Last(c.stack)), NEW g, FrameOK(g), ~Waiting(g), g.got = <<>>,
         g.chunk = Last(c.stack).chunk, NEW more \in Nat, Used(g) = Used(Last(c.stack)) + more
  PROVE  InOrder(b, m, Becomes([c EXCEPT !.attempts = @ + more], g))
<1> DEFINE t == Append(Front(c.stack), g)  n == c.attempts + more
<1>1. c \in CallsOf /\ c.outcome = "working"
  BY Works
<1>2. InOrder(b, m, Does(t, c.answers, n, "working"))
  BY MoveTop
<1>3. Becomes([c EXCEPT !.attempts = @ + more], g) = [c EXCEPT !.attempts = n, !.stack = t]
  BY <1>1 DEF CallsOf, Becomes
<1> HIDE DEF t, n
<1>4. [c EXCEPT !.attempts = n, !.stack = t] = Does(t, c.answers, n, "working")
  BY <1>1, StackAttempts
<1> QED
  BY <1>2, <1>3, <1>4, Zenon

\* It goes on and asks nothing.
LEMMA MoveSame ==
  ASSUME CallsAssumption, NEW b, NEW m, NEW c, InOrder(b, m, c), c.stack # <<>>,
         ~Waiting(Last(c.stack)), NEW g, FrameOK(g), ~Waiting(g), g.got = <<>>,
         g.chunk = Last(c.stack).chunk, Used(g) = Used(Last(c.stack))
  PROVE  InOrder(b, m, Becomes(c, g))
<1> DEFINE t == Append(Front(c.stack), g)
<1>1. c \in CallsOf /\ c.outcome = "working" /\ c.attempts \in Nat
  BY Works DEF CallsOf
<1>0. 0 \in Nat /\ Used(g) = Used(Last(c.stack)) + 0 /\ c.attempts + 0 = c.attempts
  <2>1. Last(c.stack) = c.stack[Len(c.stack)] /\ FrameOK(c.stack[Len(c.stack)])
    BY StackIs DEF InOrder
  <2>2. Used(Last(c.stack)) \in 0 .. Tries /\ Tries \in Nat
    BY <2>1, UsedIs
  <2> QED
    BY <1>1, <2>2
<1>2. InOrder(b, m, Does(t, c.answers, c.attempts + 0, "working"))
  BY <1>0, MoveTop
<1>3. Becomes(c, g) = [c EXCEPT !.stack = t]
  BY <1>1 DEF CallsOf, Becomes
<1> HIDE DEF t
<1>4. [c EXCEPT !.stack = t] = Does(t, c.answers, c.attempts, "working")
  BY <1>1, Stack
<1>5. InOrder(b, m, Does(t, c.answers, c.attempts, "working"))
  BY <1>0, <1>2, Zenon
<1> QED
  BY <1>3, <1>4, <1>5, Zenon

\* It waits for another one of itself.
LEMMA MoveInvokes ==
  ASSUME NEW b, NEW m, NEW c, InOrder(b, m, c), c.stack # <<>>, NEW g, NEW chunk,
         InOrder(b, m, Does(Front(c.stack) \o <<g, Invocation(chunk)>>, c.answers, c.attempts, "working"))
  PROVE  InOrder(b, m, [c EXCEPT !.stack = Front(@) \o <<g, Invocation(chunk)>>])
<1> DEFINE t == Front(c.stack) \o <<g, Invocation(chunk)>>
<1>1. c \in CallsOf /\ c.outcome = "working"
  BY Works
<1>2. [c EXCEPT !.stack = Front(@) \o <<g, Invocation(chunk)>>] = [c EXCEPT !.stack = t]
  BY Zenon
<1>3. InOrder(b, m, Does(t, c.answers, c.attempts, "working"))
  OBVIOUS
<1> HIDE DEF t
<1>4. [c EXCEPT !.stack = t] = Does(t, c.answers, c.attempts, "working")
  BY <1>1, Stack
<1> QED
  BY <1>2, <1>3, <1>4, Zenon
-----------------------------------------------------------------------------
(* The steps of a worker.                                                     *)
CallsInv ==
  /\ batch \in Inputs /\ mode \in Modes
  /\ {aborted, lapsed, lost} \subseteq BOOLEAN
  /\ chain \in 0 .. MaxFaults /\ now \in 0 .. MaxTime /\ cooldownUntil \in 0 .. MaxTime
  /\ call = [w \in Workers |-> call[w]]
  /\ \A w \in Workers : InOrder(batch[w], mode, call[w])
\* Only this worker moves, and what it does next is in order too.
Moves(w) == \E d : call' = [call EXCEPT ![w] = d] /\ InOrder(batch[w], mode, d)

\* The invocation that runs is one of the plan its worker follows.
LEMMA Running ==
  ASSUME CallsAssumption, CallsInv, NEW w \in Workers, NEW at, At(w, at)
  PROVE  /\ BatchOK(batch[w]) /\ InOrder(batch[w], mode, call[w]) /\ call[w].stack # <<>>
         /\ FrameOK(Top(w)) /\ Top(w).at = at /\ Runs(mode, Top(w))
         /\ Top(w) = Last(call[w].stack)
         /\ at \notin {"child", "back"} => ~Waiting(Top(w)) /\ Top(w).got = <<>>
         /\ at = "back" => Resumes(mode, Top(w))
<1>1. InOrder(batch[w], mode, call[w]) /\ call[w].stack # <<>> /\ Top(w).at = at
  BY DEF CallsInv, At
<1>2. FrameOK(Top(w)) /\ Runs(mode, Top(w))
  <2>1. Sound(batch[w], mode, call[w])
    BY <1>1 DEF InOrder
  <2> DEFINE n == Len(call[w].stack)
  <2>2. /\ n \in Nat \ {0} /\ Top(w) = call[w].stack[n]
        /\ \A k \in 1 .. n : FrameOK(call[w].stack[k])
        /\ Runs(mode, call[w].stack[n])
    <3> DEFINE c == call[w]  b == batch[w]
    <3>1. Sound(b, mode, c) /\ c.stack # <<>> /\ Top(w) = Last(c.stack)
      BY <1>1, <2>1 DEF Top
    <3> HIDE DEF c, b
    <3>2. /\ Len(c.stack) \in Nat \ {0} /\ Last(c.stack) = c.stack[Len(c.stack)]
          /\ \A k \in 1 .. Len(c.stack) : FrameOK(c.stack[k])
          /\ Runs(mode, c.stack[Len(c.stack)])
      BY <3>1, StackIs
    <3> QED
      BY <3>1, <3>2, Zenon DEF c
  <2> HIDE DEF n
  <2>3. n \in 1 .. n
    BY <2>2
  <2> QED
    BY <2>2, <2>3
<1>3. BatchOK(batch[w])
  <2>1. batch \in Inputs /\ batch \in [Workers -> Seq(Seq(Chars))]
    BY DEF CallsInv, CallsAssumption
  <2>2. batch[w] \in Seq(Seq(Chars))
    BY <2>1
  <2>3. \A i \in DOMAIN batch[w] : \E j \in DOMAIN batch[w][i] : batch[w][i][j][1] # "space"
    BY <2>1, Zenon DEF CallsAssumption
  <2> QED
    BY <2>2, <2>3 DEF BatchOK
<1> QED
  BY <1>1, <1>2, <1>3 DEF Waiting, Runs, Resumes, Top

\* An attempt is counted once.
LEMMA AskMoves ==
  ASSUME CallsAssumption, CallsInv, NEW w \in Workers, Ask(w)
  PROVE  Moves(w)
<1> DEFINE f == Top(w)  c == call[w]  b == batch[w]
<1>0. PICK at \in {"caught", "cool", "sent"} : AskedTo(w, at) /\ At(w, "ask")
  BY DEF Ask
<1>1. /\ BatchOK(b) /\ InOrder(b, mode, c) /\ c.stack # <<>> /\ FrameOK(f) /\ f.at = "ask"
      /\ ~Waiting(f) /\ f.got = <<>> /\ f = Last(c.stack)
  BY <1>0, Running
<1> DEFINE g == [f EXCEPT !.at = at, !.kind = None, !.empty = {}, !.wake = cooldownUntil]
           d == Becomes([c EXCEPT !.attempts = @ + 1], g)
<1>2. cooldownUntil \in Nat
  BY DEF CallsInv, CallsAssumption
<1>3. call' = [call EXCEPT ![w] = d]
  <2>1. call = [v \in Workers |-> call[v]]
    BY DEF CallsInv
  <2> DEFINE h == Counted(w)
  <2>2. h = [call EXCEPT ![w] = [c EXCEPT !.attempts = @ + 1]]
    BY DEF Counted
  <2>3. call' = [h EXCEPT ![w] = Becomes(h[w], g)]
    BY <1>0, Zenon DEF AskedTo
  <2> DEFINE e == [c EXCEPT !.attempts = @ + 1]
  <2> HIDE DEF c, g, e, h
  <2>4. h = [call EXCEPT ![w] = e]
    BY <2>2 DEF e
  <2>5. h[w] = e
    BY <2>1, <2>4
  <2>6. call' = [call EXCEPT ![w] = Becomes(e, g)]
    BY <2>1, <2>3, <2>4, <2>5
  <2> QED
    BY <2>6 DEF e
<1> HIDE DEF f
<1>4. f \in Frames
  BY <1>1 DEF FrameOK
<1>5. /\ g \in Frames /\ g.at = at /\ g.got = <<>> /\ g.chunk = f.chunk /\ g.empty = {}
      /\ g.attempt = f.attempt
  BY <1>1, <1>2, <1>4 DEF Frames, Points
<1> HIDE DEF g
<1>6. FrameOK(g) /\ ~Waiting(g)
  BY <1>1, <1>5 DEF FrameOK, Waiting
<1>7. Used(g) = Used(f) + 1
  BY <1>1, <1>5, <1>6 DEF Used
<1> HIDE DEF c, b
<1>8. InOrder(b, mode, d)
  <2>1. 1 \in Nat /\ g.chunk = Last(c.stack).chunk /\ Used(g) = Used(Last(c.stack)) + 1 /\ ~Waiting(Last(c.stack))
    BY <1>1, <1>5, <1>7
  <2> QED
    BY <1>1, <1>5, <1>6, <2>1, MoveOn
<1> HIDE DEF d
<1> QED
  BY <1>3, <1>8 DEF Moves, b

\* A step of the running invocation that asks nothing.
LEMMA GoesOn ==
  ASSUME CallsAssumption, CallsInv, NEW w \in Workers, NEW at0, At(w, at0), at0 \notin {"child", "back"},
         NEW g, FrameOK(g), ~Waiting(g), g.got = <<>>, g.chunk = Top(w).chunk, Used(g) = Used(Top(w)),
         call' = [call EXCEPT ![w] = Becomes(@, g)]
  PROVE  Moves(w)
<1> DEFINE f == Top(w)  c == call[w]  b == batch[w]
<1>1. /\ InOrder(b, mode, c) /\ c.stack # <<>> /\ ~Waiting(f) /\ f = Last(c.stack)
  BY Running
<1>2. g.chunk = f.chunk /\ Used(g) = Used(f)
  OBVIOUS
<1>3. call' = [call EXCEPT ![w] = Becomes(c, g)]
  OBVIOUS
<1> HIDE DEF f, c, b
<1>4. InOrder(b, mode, Becomes(c, g))
  BY <1>1, <1>2, MoveSame
<1> QED
  BY <1>3, <1>4 DEF Moves, b

\* The cooldown is over.
LEMMA CooledMoves ==
  ASSUME CallsAssumption, CallsInv, NEW w \in Workers, Cooled(w)
  PROVE  Moves(w)
<1> DEFINE f == Top(w)  g == [f EXCEPT !.at = "sent"]
<1>1. At(w, "cool") /\ call' = [call EXCEPT ![w] = Becomes(@, g)]
  BY DEF Cooled, Goes
<1>2. FrameOK(f) /\ f.at = "cool" /\ f.got = <<>>
  BY <1>1, Running
<1>3. f \in Frames
  BY <1>2 DEF FrameOK
<1> HIDE DEF f
<1>4. /\ g \in Frames /\ g.at = "sent" /\ g.got = <<>> /\ g.chunk = f.chunk /\ g.empty = f.empty
      /\ g.attempt = f.attempt
  BY <1>2, <1>3 DEF Frames, Points
<1> HIDE DEF g
<1>5. FrameOK(g) /\ ~Waiting(g) /\ Used(g) = Used(f) /\ g.got = <<>> /\ g.chunk = f.chunk
  BY <1>2, <1>4 DEF FrameOK, Waiting, Used
<1>6. "cool" \notin {"child", "back"}
  OBVIOUS
<1> QED
  BY <1>1, <1>5, <1>6, GoesOn DEF f

\* Whatever is caught, an invocation that was cut short or refused is in order.
LEMMA CaughtMoves ==
  ASSUME CallsAssumption, CallsInv, NEW w \in Workers, NEW at0, At(w, at0), at0 \in {"cool", "sent"},
         NEW kind \in Kinds \cup {None}, NEW empty \in SUBSET DOMAIN Top(w).chunk, Caught(w, kind, empty)
  PROVE  Moves(w)
<1> DEFINE f == Top(w)  g == [f EXCEPT !.at = "caught", !.kind = kind, !.empty = empty]
<1>1. call' = [call EXCEPT ![w] = Becomes(@, g)]
  BY DEF Caught
<1>2. FrameOK(f) /\ f.at \in {"cool", "sent"} /\ f.got = <<>>
  BY Running
<1>3. f \in Frames /\ empty \subseteq DOMAIN f.chunk /\ DOMAIN f.chunk \subseteq Nat
  <2>1. f.chunk \in Seq(Pieces)
    BY <1>2 DEF FrameOK, Good
  <2> QED
    BY <1>2, <2>1 DEF FrameOK
<1> HIDE DEF f
<1>4. /\ g \in Frames /\ g.at = "caught" /\ g.got = <<>> /\ g.chunk = f.chunk /\ g.empty = empty
      /\ g.attempt = f.attempt
  BY <1>2, <1>3 DEF Frames, Points
<1> HIDE DEF g
<1>5. FrameOK(g) /\ ~Waiting(g) /\ Used(g) = Used(f) /\ g.got = <<>> /\ g.chunk = f.chunk
  BY <1>2, <1>3, <1>4 DEF FrameOK, Waiting, Used
<1>6. at0 \notin {"child", "back"}
  OBVIOUS
<1> QED
  BY <1>1, <1>5, <1>6, GoesOn DEF f

\* An answer is returned.
LEMMA ReturnsMoves ==
  ASSUME CallsAssumption, CallsInv, NEW w \in Workers, NEW at, At(w, at),
         Returns(w, Answers(Top(w).chunk))
  PROVE  Moves(w)
<1> DEFINE c == call[w]  b == batch[w]  a == Answers(Top(w).chunk)
<1>1. BatchOK(b) /\ InOrder(b, mode, c) /\ c.stack # <<>> /\ a = Answers(Last(c.stack).chunk)
  BY Running
<1>2. \A from : Slice(w, from) = SliceOf(b, from)
  BY DEF Slice, SliceOf, Segments, Segs
<1>3. call' = [call EXCEPT ![w] = Back(b, c, a)]
  BY <1>2, Zenon DEF Returns, Back
<1>4. InOrder(b, mode, Back(b, c, a))
  BY <1>1, MoveBack
<1> QED
  BY <1>3, <1>4, Zenon DEF Moves

LEMMA ThrowsIs ==
  ASSUME call = [v \in Workers |-> call[v]], NEW w \in Workers, Throws(w)
  PROVE  call' = [call EXCEPT ![w] = [call[w] EXCEPT !.stack = <<>>, !.outcome = "failed"]]
<1> DEFINE c == call[w]  d == [c EXCEPT !.stack = <<>>, !.outcome = "failed"]
           x == [c EXCEPT !.stack = <<>>]  h == [call EXCEPT ![w] = x]
<1>2. call' = [h EXCEPT ![w] = [h[w] EXCEPT !.outcome = "failed"]]
  BY Zenon DEF Throws
<1>3. d = [x EXCEPT !.outcome = "failed"]
  BY Zenon
<1> HIDE DEF x, d
<1>4. h[w] = x
  OBVIOUS
<1>5. call' = [h EXCEPT ![w] = d]
  BY <1>2, <1>3, <1>4, Zenon
<1>6. call' = [call EXCEPT ![w] = d]
  BY <1>5
<1> QED
  BY <1>6 DEF d

\* An error is thrown through every invocation.
LEMMA ThrowsMoves ==
  ASSUME CallsAssumption, CallsInv, NEW w \in Workers, NEW at, At(w, at), Throws(w)
  PROVE  Moves(w)
<1> DEFINE c == call[w]  b == batch[w]  d == [c EXCEPT !.stack = <<>>, !.outcome = "failed"]
<1>1. BatchOK(b) /\ InOrder(b, mode, c) /\ c.stack # <<>>
  BY Running
<1>2. call' = [call EXCEPT ![w] = d]
  BY ThrowsIs DEF CallsInv
<1>3. InOrder(b, mode, d)
  BY <1>1, MoveThrow
<1> QED
  BY <1>2, <1>3, Zenon DEF Moves

\* The running invocation begins to wait for an answer to a part of its chunk.
LEMMA InvokesMoves ==
  ASSUME CallsAssumption, CallsInv, NEW w \in Workers, At(w, "caught"),
         NEW frame, NEW g, g = [frame EXCEPT !.at = "child"],
         FrameOK(g), Planned(mode, g), g.at = "child", g.got = <<>>, g.chunk = Top(w).chunk,
         Invokes(w, frame, Asked(g, 1))
  PROVE  Moves(w)
<1> DEFINE c == call[w]  b == batch[w]  chunk == Asked(g, 1)
           d == [c EXCEPT !.stack = Front(@) \o <<g, Invocation(chunk)>>]
<1>1. /\ InOrder(b, mode, c) /\ c.stack # <<>> /\ ~Waiting(Last(c.stack))
      /\ g.chunk = Last(c.stack).chunk
  BY Running
<1>2. call' = [call EXCEPT ![w] = d]
  BY Zenon DEF Invokes
<1> HIDE DEF c, b
<1>3. InOrder(b, mode, Does(Front(c.stack) \o <<g, Invocation(chunk)>>, c.answers, c.attempts, "working"))
  BY <1>1, MovePush
<1> HIDE DEF chunk
<1>4. InOrder(b, mode, d)
  BY <1>1, <1>3, MoveInvokes
<1> QED
  BY <1>2, <1>4, Zenon DEF Moves, b

\* The empty segments are asked for again.
LEMMA RecoverMoves ==
  ASSUME CallsAssumption, CallsInv, NEW w \in Workers, Recover(w)
  PROVE  Moves(w)
<1> DEFINE f == Top(w)  h == [f EXCEPT !.plan = "recover"]  g == [h EXCEPT !.at = "child"]
<1>1. At(w, "caught") /\ Recoverable(f) /\ Invokes(w, h, EmptyOnes(f))
  BY DEF Recover
<1>2. FrameOK(f) /\ f.at = "caught" /\ f.got = <<>> /\ f \in Frames
  BY <1>1, Running DEF FrameOK
<1> HIDE DEF f
<1>3. /\ g \in Frames /\ g.at = "child" /\ g.got = <<>> /\ g.chunk = f.chunk /\ g.empty = f.empty
      /\ g.plan = "recover"
  BY <1>2 DEF Frames, Points, Plans
<1> HIDE DEF g
<1>4. FrameOK(g)
  BY <1>2, <1>3 DEF FrameOK
<1>5. Planned(mode, g) /\ Asked(g, 1) = EmptyOnes(f)
  BY <1>1, <1>3 DEF Planned, Asked, Recoverable, EmptyOnes
<1>6. Invokes(w, h, Asked(g, 1)) /\ g = [h EXCEPT !.at = "child"]
  BY <1>1, <1>5, Zenon DEF g
<1> HIDE DEF h
<1>7. g.chunk = Top(w).chunk
  BY <1>3 DEF f
<1> QED
  BY <1>1, <1>3, <1>4, <1>5, <1>6, <1>7, InvokesMoves

\* The chunk is halved.
LEMMA HalvedMoves ==
  ASSUME CallsAssumption, CallsInv, NEW w \in Workers, At(w, "caught"), Len(Top(w).chunk) > 1, Halved(w)
  PROVE  Moves(w)
<1> DEFINE f == Top(w)  rest == After(f.chunk, Middle(f))
           h == [f EXCEPT !.plan = "halves", !.rest = rest]  g == [h EXCEPT !.at = "child"]
<1>1. Invokes(w, h, First(f.chunk, Middle(f)))
  BY Zenon DEF Halved, After, First, Middle
<1>2. FrameOK(f) /\ f.at = "caught" /\ f.got = <<>> /\ f \in Frames
  BY Running DEF FrameOK
<1>3. Len(f.chunk) > 1
  OBVIOUS
<1> HIDE DEF f
<1>4. rest \in Seq(Pieces)
  <2>1. f.chunk \in Seq(Pieces) /\ Middle(f) \in 0 .. Len(f.chunk)
    BY <1>2, <1>3, MiddleIs
  <2> QED
    BY <2>1, Cut
<1> HIDE DEF rest
<1>5. /\ g \in Frames /\ g.at = "child" /\ g.got = <<>> /\ g.chunk = f.chunk /\ g.empty = f.empty
      /\ g.plan = "halves" /\ g.rest = rest
  BY <1>2, <1>4 DEF Frames, Points, Plans
<1> HIDE DEF g
<1>6. FrameOK(g)
  BY <1>2, <1>5 DEF FrameOK
<1>7. Middle(g) = Middle(f)
  BY <1>5 DEF Middle
<1>8. Planned(mode, g)
  BY <1>3, <1>5, <1>7 DEF Planned, rest
<1>9. Asked(g, 1) = First(f.chunk, Middle(f))
  BY <1>5, <1>7 DEF Asked
<1>10. Invokes(w, h, Asked(g, 1)) /\ g = [h EXCEPT !.at = "child"]
  BY <1>1, <1>9, Zenon DEF g
<1> HIDE DEF h
<1>11. g.chunk = Top(w).chunk
  BY <1>5 DEF f
<1> QED
  BY <1>5, <1>6, <1>8, <1>10, <1>11, InvokesMoves

\* The text of the only segment is split.
LEMMA SplitTextMoves ==
  ASSUME CallsAssumption, CallsInv, NEW w \in Workers, SplitText(w)
  PROVE  Moves(w)
<1> DEFINE f == Top(w)  p == f.chunk[1]  rest == <<RightPiece(p)>>
           h == [f EXCEPT !.plan = "split", !.rest = rest]  g == [h EXCEPT !.at = "child"]
<1>1. /\ At(w, "caught") /\ Oversized(f) /\ Len(f.chunk) = 1
      /\ Invokes(w, h, <<LeftPiece(p)>>)
  BY Zenon DEF SplitText, LeftPiece, RightPiece
<1>2. FrameOK(f) /\ f.at = "caught" /\ f.got = <<>> /\ f \in Frames
  BY <1>1, Running DEF FrameOK
<1>3. mode = "translation" /\ Splits(p.text)
  BY <1>1 DEF Oversized
<1>4. p \in Pieces
  <2>1. f.chunk \in Seq(Pieces) /\ Len(f.chunk) = 1
    BY <1>1, <1>2, MiddleIs
  <2> QED
    BY <2>1
<1>5. RightPiece(p) \in Pieces
  <2>1. p.text \in Seq(Chars) /\ p.id \in Seq(Nat)
    BY <1>4 DEF Pieces
  <2>2. RightOf(p.text) \in Seq(Chars)
    BY <1>3, <2>1, SplitKeeps
  <2> QED
    BY <2>1, <2>2 DEF RightPiece, Piece, Pieces
<1> HIDE DEF p
<1>6. rest \in Seq(Pieces)
  BY <1>5
<1> HIDE DEF f, rest
<1>7. /\ g \in Frames /\ g.at = "child" /\ g.got = <<>> /\ g.chunk = f.chunk /\ g.empty = f.empty
      /\ g.plan = "split" /\ g.rest = rest
  BY <1>2, <1>6 DEF Frames, Points, Plans
<1> HIDE DEF g
<1>8. FrameOK(g)
  BY <1>2, <1>7 DEF FrameOK
<1>9. Planned(mode, g) /\ Asked(g, 1) = <<LeftPiece(p)>>
  <2>1. g.chunk[1] = p /\ Len(g.chunk) = 1 /\ g.rest = <<RightPiece(g.chunk[1])>>
    BY <1>1, <1>7 DEF p, rest
  <2> QED
    BY <1>3, <1>7, <2>1 DEF Planned, Asked
<1>10. Invokes(w, h, Asked(g, 1)) /\ g = [h EXCEPT !.at = "child"]
  BY <1>1, <1>9, Zenon DEF g
<1> HIDE DEF h
<1>11. g.chunk = Top(w).chunk
  BY <1>7 DEF f
<1> QED
  BY <1>1, <1>7, <1>8, <1>9, <1>10, <1>11, InvokesMoves

\* A delay begins only while an attempt is left.
LEMMA RetryMoves ==
  ASSUME CallsAssumption, CallsInv, NEW w \in Workers, Retry(w)
  PROVE  Moves(w)
<1>1. At(w, "caught") /\ MayRetry(Top(w))
  BY DEF Retry, Otherwise
<1>2. CASE aborted
  BY <1>1, <1>2, ThrowsMoves DEF Retry
<1>3. CASE ~aborted
  <2> DEFINE f == Top(w)  g == [f EXCEPT !.at = "delay"]
  <2>1. call' = [call EXCEPT ![w] = Becomes(@, g)]
    BY <1>3 DEF Retry, Goes
  <2>2. FrameOK(f) /\ f.at = "caught" /\ f.got = <<>> /\ f \in Frames /\ f.attempt < Budget(f)
    BY <1>1, Running DEF FrameOK, MayRetry
  <2> HIDE DEF f
  <2>3. f.attempt < MaxRetries + 2
    <3>1. MaxRetries \in Nat /\ f.attempt \in Nat
      BY <2>2 DEF CallsAssumption, Frames
    <3>2. Budget(f) = MaxRetries + 2 \/ Budget(f) = MaxRetries \/ Budget(f) = 0
      BY DEF Budget
    <3> QED
      BY <2>2, <3>1, <3>2
  <2>4. /\ g \in Frames /\ g.at = "delay" /\ g.got = <<>> /\ g.chunk = f.chunk /\ g.empty = f.empty
        /\ g.attempt = f.attempt
    BY <2>2 DEF Frames, Points
  <2> HIDE DEF g
  <2>5. FrameOK(g) /\ ~Waiting(g) /\ Used(g) = Used(f) /\ g.got = <<>> /\ g.chunk = f.chunk
    BY <2>2, <2>3, <2>4 DEF FrameOK, Waiting, Used
  <2>6. "caught" \notin {"child", "back"}
    OBVIOUS
  <2> QED
    BY <1>1, <2>1, <2>5, <2>6, GoesOn DEF f
<1> QED
  BY <1>2, <1>3

\* The next attempt begins.
LEMMA WakeMoves ==
  ASSUME CallsAssumption, CallsInv, NEW w \in Workers, Wake(w)
  PROVE  Moves(w)
<1> DEFINE f == Top(w)  g == [f EXCEPT !.at = "ask", !.attempt = @ + 1]
<1>1. At(w, "delay") /\ call' = [call EXCEPT ![w] = Becomes(@, g)]
  BY DEF Wake
<1>2. FrameOK(f) /\ f.at = "delay" /\ f.got = <<>> /\ f \in Frames
  BY <1>1, Running DEF FrameOK
<1> HIDE DEF f
<1>3. f.attempt + 1 \in 0 .. MaxRetries + 2
  <2>1. MaxRetries \in Nat /\ f.attempt \in Nat /\ f.attempt < MaxRetries + 2
    BY <1>2 DEF CallsAssumption, Frames, FrameOK
  <2> QED
    BY <2>1
<1>4. /\ g \in Frames /\ g.at = "ask" /\ g.got = <<>> /\ g.chunk = f.chunk /\ g.empty = f.empty
      /\ g.attempt = f.attempt + 1
  BY <1>2, <1>3 DEF Frames, Points
<1> HIDE DEF g
<1>5. FrameOK(g) /\ ~Waiting(g) /\ Used(g) = Used(f) /\ g.got = <<>> /\ g.chunk = f.chunk
  BY <1>2, <1>4 DEF FrameOK, Waiting, Used
<1>6. "delay" \notin {"child", "back"}
  OBVIOUS
<1> QED
  BY <1>1, <1>5, <1>6, GoesOn DEF f

\* An answer that was waited for is merged, joined, or followed by the second half.
LEMMA ResumeMoves ==
  ASSUME CallsAssumption, CallsInv, NEW w \in Workers, Resume(w)
  PROVE  Moves(w)
<1> DEFINE f == Top(w)  c == call[w]  b == batch[w]
<1>1. At(w, "back")
  BY DEF Resume
<1>2. FrameOK(f) /\ Resumes(mode, f) /\ InOrder(b, mode, c) /\ c.stack # <<>> /\ f = Last(c.stack)
  BY <1>1, Running
<1>3. CASE f.plan = "recover"
  <2>1. Returns(w, Merged(f))
    BY <1>3 DEF Resume
  <2>2. Merged(f) = Answers(f.chunk)
    BY <1>2, <1>3, MergedAnswers
  <2>3. Returns(w, Answers(Top(w).chunk))
    BY <2>1, <2>2, Zenon
  <2> QED
    BY <1>1, <2>3, ReturnsMoves
<1>4. CASE f.plan # "recover" /\ Len(f.got) = 1
  <2> DEFINE g == [f EXCEPT !.at = "child"]
             d == [c EXCEPT !.stack = Front(@) \o <<g, Invocation(f.rest)>>]
  <2>1. Invokes(w, f, f.rest)
    BY <1>4 DEF Resume
  <2>2. call' = [call EXCEPT ![w] = d]
    BY <2>1, Zenon DEF Invokes
  <2> HIDE DEF c, b, f
  <2>3. Resumes(mode, Last(c.stack)) /\ Last(c.stack).plan # "recover" /\ Len(Last(c.stack).got) = 1
    BY <1>2, <1>4, Zenon
  <2>4. InOrder(b, mode, Does(Front(c.stack) \o <<[Last(c.stack) EXCEPT !.at = "child"],
                                                  Invocation(Last(c.stack).rest)>>,
                              c.answers, c.attempts, "working"))
    BY <1>2, <2>3, MoveRest
  <2>5. InOrder(b, mode, Does(Front(c.stack) \o <<g, Invocation(f.rest)>>, c.answers, c.attempts, "working"))
    BY <1>2, <2>4, Zenon
  <2> DEFINE chunk == f.rest
  <2> HIDE DEF g, chunk
  <2>6. InOrder(b, mode, Does(Front(c.stack) \o <<g, Invocation(chunk)>>, c.answers, c.attempts, "working"))
    BY <2>5 DEF chunk
  <2>7. InOrder(b, mode, [c EXCEPT !.stack = Front(@) \o <<g, Invocation(chunk)>>])
    BY <1>2, <2>6, MoveInvokes
  <2>8. InOrder(b, mode, d)
    BY <2>7, Zenon DEF chunk
  <2> QED
    BY <2>2, <2>8, Zenon DEF Moves, b
<1>5. CASE f.plan # "recover" /\ Len(f.got) # 1
  <2>1. Returns(w, Joined(f))
    BY <1>5 DEF Resume
  <2>2. Len(f.got) = 2
    BY <1>2, <1>5 DEF Resumes
  <2>3. Joined(f) = Answers(f.chunk)
    BY <1>2, <1>5, <2>2, JoinedAnswers
  <2>4. Returns(w, Answers(Top(w).chunk))
    BY <2>1, <2>3, Zenon
  <2> QED
    BY <1>1, <2>4, ReturnsMoves
<1> QED
  BY <1>3, <1>4, <1>5, Zenon
\* What every invocation does is in order, and the rest of the state stays in its bounds.
Bounds ==
  /\ {aborted, lapsed, lost} \subseteq BOOLEAN
  /\ chain \in 0 .. MaxFaults /\ now \in 0 .. MaxTime /\ cooldownUntil \in 0 .. MaxTime

LEMMA MovesHold ==
  ASSUME CallsInv, NEW w \in Workers, Moves(w), Fixed, Bounds'
  PROVE  CallsInv'
<1>1. PICK d : call' = [call EXCEPT ![w] = d] /\ InOrder(batch[w], mode, d)
  BY DEF Moves
<1>2. /\ call = [v \in Workers |-> call[v]] /\ batch' = batch /\ mode' = mode
      /\ \A v \in Workers : InOrder(batch[v], mode, call[v])
  BY DEF CallsInv, Fixed
<1>3. call' = [v \in Workers |-> call'[v]] /\ call'[w] = d /\ \A v \in Workers \ {w} : call'[v] = call[v]
  BY <1>1, <1>2
<1>4. ASSUME NEW v \in Workers PROVE InOrder(batch[v], mode, call'[v])
  BY <1>1, <1>2, <1>3
<1>5. \A v \in Workers : InOrder(batch[v], mode, call[v])'
  BY <1>2, <1>4
<1> QED
  BY <1>2, <1>3, <1>5 DEF CallsInv, Bounds

\* Every step of a worker keeps its invocations in order.
LEMMA StepMoves ==
  ASSUME CallsAssumption, CallsInv, NEW w \in Workers, Step(w)
  PROVE  Moves(w) /\ CallsInv'
<1>0. Bounds /\ MaxFaults \in Nat /\ MaxTime \in Nat
  BY DEF CallsInv, Bounds, CallsAssumption
<1>1. Same => Fixed /\ Bounds'
  BY <1>0 DEF Same, Bounds
<1>2. ASSUME Same, Moves(w) PROVE Moves(w) /\ CallsInv'
  BY <1>1, <1>2, MovesHold
<1>3. CASE Ask(w)
  BY <1>2, <1>3, AskMoves DEF Ask
<1>4. CASE Cooled(w)
  BY <1>2, <1>4, CooledMoves DEF Cooled
<1>5. CASE CutShort(w)
  <2>1. PICK at \in {"cool", "sent"} : At(w, at)
    BY <1>5 DEF CutShort
  <2>2. None \in Kinds \cup {None} /\ {} \in SUBSET DOMAIN Top(w).chunk /\ Caught(w, None, {}) /\ Same
    BY <1>5 DEF CutShort
  <2> QED
    BY <1>2, <2>1, <2>2, CaughtMoves
<1>6. ASSUME NEW fault \in BOOLEAN, Answered(w, fault) PROVE Moves(w) /\ CallsInv'
  <2>1. At(w, "sent") /\ Fixed
    BY <1>6 DEF Answered
  <2>2. Bounds'
    BY <1>0, <1>6 DEF Answered, Recorded, Bounds, Broken
  <2>3. Moves(w)
    <3>1. CASE Broken
      <4>1. None \in Kinds \cup {None} /\ {} \in SUBSET DOMAIN Top(w).chunk /\ Caught(w, None, {})
        BY <1>6, <3>1 DEF Answered
      <4> QED
        BY <2>1, <4>1, CaughtMoves
    <3>2. CASE ~Broken
      <4>1. Returns(w, Answers(Top(w).chunk))
        BY <1>6, <3>2 DEF Answered
      <4> QED
        BY <2>1, <4>1, ReturnsMoves
    <3> QED
      BY <3>1, <3>2
  <2> QED
    BY <2>1, <2>2, <2>3, MovesHold
<1>7. ASSUME NEW fault \in BOOLEAN, NEW pause \in BOOLEAN, NEW kind \in Kinds, Refused(w, fault, kind, pause)
      PROVE  Moves(w) /\ CallsInv'
  <2>1. At(w, "sent") /\ Fixed
    BY <1>7 DEF Refused
  <2>2. Bounds'
    BY <1>0, <1>7 DEF Refused, Recorded, Bounds
  <2>3. Moves(w)
    <3>1. PICK empty \in Empties(w, kind) :
            IF Broken THEN Caught(w, None, {}) ELSE Caught(w, kind, empty)
      BY <1>7, Zenon DEF Refused
    <3>2. empty \in SUBSET DOMAIN Top(w).chunk /\ {} \in SUBSET DOMAIN Top(w).chunk
          /\ None \in Kinds \cup {None} /\ kind \in Kinds \cup {None}
      BY DEF Empties
    <3>3. CASE Broken
      BY <2>1, <3>1, <3>2, <3>3, CaughtMoves
    <3>4. CASE ~Broken
      BY <2>1, <3>1, <3>2, <3>4, CaughtMoves
    <3> QED
      BY <3>3, <3>4
  <2> QED
    BY <2>1, <2>2, <2>3, MovesHold
<1>8. CASE Recover(w)
  BY <1>2, <1>8, RecoverMoves DEF Recover
<1>9. CASE HalveOversized(w)
  BY <1>2, <1>9, HalvedMoves DEF HalveOversized
<1>10. CASE SplitText(w)
  BY <1>2, <1>10, SplitTextMoves DEF SplitText
<1>11. CASE Retry(w)
  BY <1>2, <1>11, RetryMoves DEF Retry
<1>12. CASE HalveInvalid(w)
  BY <1>2, <1>12, HalvedMoves DEF HalveInvalid, Otherwise
<1>13. CASE GiveUp(w)
  BY <1>2, <1>13, ThrowsMoves DEF GiveUp, Otherwise
<1>14. CASE Wake(w)
  BY <1>2, <1>14, WakeMoves DEF Wake
<1>15. CASE DelayAborted(w)
  BY <1>2, <1>15, ThrowsMoves DEF DelayAborted
<1>16. CASE Resume(w)
  BY <1>2, <1>16, ResumeMoves DEF Resume
<1> QED
  BY <1>3, <1>4, <1>5, <1>6, <1>7, <1>8, <1>9, <1>10, <1>11, <1>12, <1>13, <1>14, <1>15, <1>16 DEF Step

\* A worker begins with its first slice, or has nothing to do.
LEMMA GivenIsInOrder ==
  ASSUME CallsAssumption, NEW b, BatchOK(b), NEW m, b # <<>>
  PROVE  InOrder(b, m, Does(<<Invocation(SliceOf(b, 1))>>, <<>>, 0, "working"))
<1> DEFINE chunk == SliceOf(b, 1)  h == Invocation(chunk)  t == <<h>>  s == <<>>
           d == Does(t, s, 0, "working")  S == Segs(b)  l == 2 * Load(m, chunk) - 1
<1>1. /\ Len(b) \in Nat \ {0} /\ MaxSegments \in Nat \ {0}
      /\ S \in Seq(Pieces)
  <2>1. b \in Seq(Seq(Chars)) /\ b # <<>>
    BY DEF BatchOK
  <2>2. Len(b) \in Nat \ {0}
    BY <2>1, EmptySeq
  <2> QED
    BY <2>2, SegsAre DEF CallsAssumption
<1>2. /\ Good(chunk)
      /\ Load(m, First(S, EndOf(b, 0))) = Load(m, First(S, 0)) + Load(m, chunk)
  <2>1. 0 \in Nat /\ 0 < Len(b) /\ 0 + 1 = 1
    BY <1>1
  <2>2. /\ Good(SliceOf(b, 0 + 1))
        /\ Load(m, First(Segs(b), EndOf(b, 0))) = Load(m, First(Segs(b), 0)) + Load(m, SliceOf(b, 0 + 1))
    BY <2>1, SliceIs
  <2> QED
    BY <2>1, <2>2, Zenon
<1>3. Load(m, First(S, 0)) = 0
  <2> HIDE DEF S
  <2>1. First(S, 0) = <<>>
    BY <1>1 DEF First
  <2>2. Load(m, <<>>) = 0
    BY LoadNone
  <2> QED
    BY <2>1, <2>2, Zenon
<1> HIDE DEF chunk
<1>4. /\ FrameOK(h) /\ Runs(m, h) /\ h.chunk = chunk /\ h \in Frames /\ h.at = "ask" /\ h.attempt = 0
  BY <1>2, FirstFrame DEF FrameOK
<1>5. Load(m, chunk) \in Nat /\ Load(m, chunk) >= 1
  BY <1>2, GoodLoad
<1> HIDE DEF h
<1>6. t \in Seq(Frames) /\ Len(t) = 1 /\ t # <<>> /\ t[1] = h
  BY <1>4
<1>7. s \in Seq(Pieces) /\ Len(s) = 0
  OBVIOUS
<1> HIDE DEF s
<1>8. d \in CallsOf /\ d.stack = t /\ d.answers = s /\ d.outcome = "working" /\ d.attempts = 0
  BY <1>6, <1>7 DEF Does, CallsOf
<1> HIDE DEF t, d
<1>9. Stacked(m, t)
  BY <1>4, <1>6 DEF Stacked
<1>10. Sound(b, m, d)
  BY <1>1, <1>4, <1>6, <1>7, <1>8, <1>9 DEF Sound, chunk
<1>11. Used(h) = 0 /\ Later(m, h) = 2 * Load(m, chunk) - 2
  BY <1>4 DEF Used, Waiting, Later
<1> DEFINE L == [k \in 1 .. 1 |-> l]
<1>12. Ledger(b, m, d, 1, L, 0)
  <2>1. Len(d.stack) = 1 /\ d.stack[1] = h /\ Len(d.answers) = 0
    BY <1>6, <1>7, <1>8
  <2>2. l \in Int /\ L \in [1 .. 1 -> Int] /\ L[1] = l /\ 1 + Later(m, h) <= l
    <3> DEFINE z == Load(m, chunk)
    <3>1. z \in Nat /\ Later(m, h) = 2 * z - 2 /\ l = 2 * z - 1
      BY <1>5, <1>11
    <3> HIDE DEF z, l
    <3>2. l \in Int /\ 1 + (2 * z - 2) <= l
      BY <3>1
    <3> QED
      BY <3>1, <3>2
  <2>3. l + 0 + 1 <= 2 * Load(m, First(S, EndOf(b, 0)))
    <3> DEFINE z == Load(m, chunk)  e == Load(m, First(S, EndOf(b, 0)))  y == Load(m, First(S, 0))
    <3>1. z \in Nat /\ l = 2 * z - 1 /\ e = y + z /\ y = 0
      BY <1>2, <1>3, <1>5
    <3> HIDE DEF z, l, e, y
    <3>2. l + 0 + 1 <= 2 * e
      BY <3>1
    <3> QED
      BY <3>2 DEF e
  <2>4. d.attempts <= Tries * (1 - 1) + Used(h)
    <3>1. Tries \in Nat
      BY DEF Tries, CallsAssumption
    <3>2. Tries * (1 - 1) + 0 = 0
      BY <3>1
    <3> QED
      BY <1>8, <1>11, <3>2
  <2> HIDE DEF l, S, L
  <2>5. Len(d.answers) = 0 * MaxSegments
    BY <1>1, <2>1
  <2> QED
    BY <2>1, <2>2, <2>3, <2>4, <2>5 DEF Ledger, S
<1>13. Paid(b, m, d)
  BY <1>6, <1>8, <1>12 DEF Paid
<1>14. InOrder(b, m, d)
  BY <1>10, <1>13 DEF InOrder
<1> QED
  BY <1>14 DEF d, t, s, h, chunk

\* A worker without segments has nothing to pay.
LEMMA IdleIsInOrder ==
  ASSUME CallsAssumption, NEW m
  PROVE  InOrder(<<>>, m, Idle)
<1> DEFINE s == <<>>
<1>1. /\ Idle \in CallsOf /\ Idle.stack = s /\ Idle.answers = s /\ Idle.outcome = "done"
      /\ Idle.attempts = 0 /\ Len(s) = 0
  BY DEF Idle, CallsOf
<1>2. Stacked(m, s)
  BY DEF Stacked
<1>3. Sound(s, m, Idle)
  BY <1>1, <1>2 DEF Sound
<1>4. Segs(s) = s
  BY DEF Segs
<1>5. Load(m, s) = 0
  BY LoadNone
<1>6. Limit(s, m) = 0
  <2> DEFINE k == MaxSegments  r == MaxRetries
  <2>1. k \in Nat \ {0} /\ r \in Nat
    BY DEF CallsAssumption
  <2>2. SlicesIn(s) = (0 + k - 1) \div k
    BY <1>1 DEF SlicesIn
  <2> HIDE DEF s, k, r
  <2>3. (0 + k - 1) \div k = 0
    BY <2>1
  <2>4. (r + 3) * (2 * 0 - 0) = 0
    BY <2>1
  <2> QED
    BY <1>4, <1>5, <2>2, <2>3, <2>4, Zenon DEF Limit, Tries, r
<1>7. Paid(s, m, Idle)
  BY <1>1, <1>6 DEF Paid
<1> QED
  BY <1>3, <1>7 DEF InOrder

\* The input of a worker is a batch of texts.
LEMMA BatchIsOK ==
  ASSUME CallsAssumption, batch \in Inputs, NEW w \in Workers
  PROVE  BatchOK(batch[w])
<1>1. batch \in [Workers -> Seq(Seq(Chars))]
  BY DEF CallsAssumption
<1>2. batch[w] \in Seq(Seq(Chars))
  BY <1>1
<1>3. \A i \in DOMAIN batch[w] : \E j \in DOMAIN batch[w][i] : batch[w][i][j][1] # "space"
  BY <1>1, Zenon DEF CallsAssumption
<1> QED
  BY <1>2, <1>3 DEF BatchOK

\* The first invocations.
LEMMA CallsBegin ==
  ASSUME CallsAssumption, Init
  PROVE  CallsInv
<1>1. /\ batch \in Inputs /\ mode \in Modes
      /\ call = [w \in Workers |-> IF batch[w] = <<>> THEN Idle ELSE Given(w)]
  BY DEF Init
<1>2. Bounds
  <2>1. MaxFaults \in Nat /\ MaxTime \in Nat
    BY DEF CallsAssumption
  <2>2. /\ aborted = FALSE /\ lapsed = FALSE /\ lost = FALSE
        /\ chain = 0 /\ now = 0 /\ cooldownUntil = 0
    BY Zenon DEF Init
  <2>3. {aborted, lapsed, lost} \subseteq BOOLEAN
    <3>1. aborted \in BOOLEAN /\ lapsed \in BOOLEAN /\ lost \in BOOLEAN
      BY <2>2, Zenon
    <3> QED
      BY <3>1, Zenon
  <2>4. chain \in 0 .. MaxFaults /\ now \in 0 .. MaxTime /\ cooldownUntil \in 0 .. MaxTime
    BY <2>1, <2>2
  <2> QED
    BY <2>3, <2>4 DEF Bounds
<1>3. ASSUME NEW w \in Workers PROVE InOrder(batch[w], mode, call[w])
  <2>1. CASE batch[w] = <<>>
    <3>1. call[w] = Idle
      BY <1>1, <2>1
    <3> QED
      BY <2>1, <3>1, IdleIsInOrder, Zenon
  <2>2. CASE batch[w] # <<>>
    <3>1. call[w] = Given(w)
      BY <1>1, <2>2
    <3>2. Given(w) = Does(<<Invocation(SliceOf(batch[w], 1))>>, <<>>, 0, "working")
      BY Zenon DEF Given, Does, Slice, SliceOf, Segments, Segs
    <3>3. BatchOK(batch[w])
      BY <1>1, BatchIsOK
    <3>4. InOrder(batch[w], mode, Does(<<Invocation(SliceOf(batch[w], 1))>>, <<>>, 0, "working"))
      BY <2>2, <3>3, GivenIsInOrder
    <3> QED
      BY <3>1, <3>2, <3>4, Zenon
  <2> QED
    BY <2>1, <2>2
<1>4. call = [w \in Workers |-> call[w]]
  BY <1>1
<1> QED
  BY <1>1, <1>2, <1>3, <1>4 DEF CallsInv, Bounds

\* CallsInv is inductive.
LEMMA CallsKeep ==
  ASSUME CallsAssumption, CallsInv, [Next]_vars
  PROVE  CallsInv'
<1>1. ASSUME NEW w \in Workers, Step(w) PROVE CallsInv'
  BY <1>1, StepMoves
<1>2. ASSUME call' = call, Fixed, Bounds' PROVE CallsInv'
  BY <1>2 DEF CallsInv, Fixed, Bounds
<1>3. Bounds /\ MaxFaults \in Nat /\ MaxTime \in Nat
  BY DEF CallsInv, Bounds, CallsAssumption
<1>4. CASE Abort
  BY <1>2, <1>3, <1>4 DEF Abort, Bounds
<1>5. CASE Lapse
  BY <1>2, <1>3, <1>5 DEF Lapse, Bounds
<1>6. CASE Tick
  BY <1>2, <1>3, <1>6 DEF Tick, Bounds
<1>7. CASE UNCHANGED vars
  BY <1>2, <1>3, <1>7 DEF vars, Bounds, Fixed
<1> QED
  BY <1>1, <1>4, <1>5, <1>6, <1>7 DEF Next

LEMMA CallsHold == Spec => []CallsInv
<1>1. Init => CallsInv
  BY CallsAssumption, CallsBegin
<1>2. CallsInv /\ [Next]_vars => CallsInv'
  BY CallsAssumption, CallsKeep
<1> QED
  BY <1>1, <1>2, PTL DEF Spec

\* Every invocation is at a point of processChunk, and it waits for another one of
\* itself exactly while that one is above it.
THEOREM CallsTyped == Spec => []TypeOK
<1>1. CallsInv => TypeOK
  <2> SUFFICES ASSUME CallsInv PROVE TypeOK
    OBVIOUS
  <2>1. ASSUME NEW w \in Workers
        PROVE  /\ call[w].outcome \in {"working", "done", "failed"}
               /\ (call[w].stack = <<>>) = (call[w].outcome # "working")
               /\ \A k \in DOMAIN call[w].stack :
                    /\ call[w].stack[k].at \in Points
                    /\ (call[w].stack[k].at = "child") = (k < Len(call[w].stack))
    <3> DEFINE c == call[w]  b == batch[w]
    <3>1. Sound(b, mode, c)
      BY DEF CallsInv, InOrder
    <3> HIDE DEF c, b
    <3>2. c \in CallsOf /\ (c.stack = <<>>) = (c.outcome # "working") /\ c.stack \in Seq(Frames)
      BY <3>1 DEF Sound, CallsOf
    <3>3. ASSUME NEW k \in DOMAIN c.stack
          PROVE  c.stack[k].at \in Points /\ (c.stack[k].at = "child") = (k < Len(c.stack))
      <4> DEFINE s == c.stack  n == Len(s)
      <4>1. n \in Nat /\ k \in 1 .. n /\ s # <<>> /\ s[k] \in Frames
        BY <3>2
      <4>2. \A j \in 1 .. n - 1 : s[j].at = "child"
        BY <3>1 DEF Sound, Stacked, Waits
      <4>3. s[n].at # "child"
        BY <3>1, <4>1 DEF Sound, Stacked, Runs, Resumes
      <4> HIDE DEF s, n
      <4>4. s[k].at \in Points
        BY <4>1 DEF Frames
      <4>5. CASE k < n
        <5>1. k \in 1 .. n - 1
          BY <4>1, <4>5
        <5> QED
          BY <4>2, <4>4, <4>5, <5>1 DEF s, n
      <4>6. CASE ~(k < n)
        <5>1. k = n
          BY <4>1, <4>6
        <5> QED
          BY <4>3, <4>4, <4>6, <5>1 DEF s, n
      <4> QED
        BY <4>5, <4>6
    <3> QED
      BY <3>2, <3>3 DEF c, CallsOf
  <2> QED
    BY <2>1 DEF CallsInv, TypeOK
<1> QED
  BY <1>1, CallsHold, PTL

\* Whatever was halved, split, recovered or retried on the way, a batch that ends
\* well has one answer per segment, in the order asked, and each covers its whole
\* segment once: for every batch, every text and every number of retries.
THEOREM AnswersStayInOrder == Spec => []AnsweredInOrder
<1>1. CallsInv => AnsweredInOrder
  <2> SUFFICES ASSUME CallsInv, NEW w \in Workers, call[w].outcome = "done"
               PROVE  call[w].answers = Answers(Segments(w))
    BY DEF AnsweredInOrder
  <2> DEFINE c == call[w]  b == batch[w]  S == Segs(b)  s == c.answers
  <2>1. Sound(b, mode, c) /\ BatchOK(b) /\ c.outcome = "done"
    BY BatchIsOK, CallsAssumption DEF CallsInv, InOrder
  <2>2. Segments(w) = S
    BY DEF Segments, Segs
  <2> HIDE DEF c, b
  <2>3. S \in Seq(Pieces) /\ Len(S) = Len(b) /\ Len(b) \in Nat
    BY <2>1, SegsAre
  <2>4. s \in Seq(Pieces) /\ Len(s) = Len(b) /\ \A i \in 1 .. Len(s) : s[i] = Answer(S[i])
    BY <2>1 DEF Sound, CallsOf
  <2> HIDE DEF S, s
  <2>5. /\ Answers(S) \in Seq(Pieces) /\ Len(Answers(S)) = Len(S)
        /\ \A i \in 1 .. Len(S) : Answers(S)[i] = Answer(S[i])
    BY <2>3, AnswersAre
  <2>6. s = Answers(S)
    <3> DEFINE r == Answers(S)
    <3> HIDE DEF r
    <3>1. s \in Seq(Pieces) /\ r \in Seq(Pieces) /\ Len(s) = Len(r) /\ \A i \in 1 .. Len(s) : s[i] = r[i]
      BY <2>3, <2>4, <2>5 DEF r
    <3>2. s = r
      BY <3>1, SeqEqual
    <3> QED
      BY <3>2 DEF r
  <2> QED
    BY <2>2, <2>6, Zenon DEF s, c
<1> QED
  BY <1>1, CallsHold, PTL

\* A batch never costs more than one invocation per node of a binary tree over its
\* indivisible parts, each with its retries: halving, splitting and the recovery of
\* empty answers do not multiply, whatever the providers answer.
THEOREM CallsStayBounded == Spec => []CallsBounded
<1>1. CallsInv => CallsBounded
  <2> SUFFICES ASSUME CallsInv, NEW w \in Workers
               PROVE  call[w].attempts <= (MaxRetries + 3) * (2 * Parts(w) - SlicesOf(w))
    BY DEF CallsBounded
  <2> DEFINE c == call[w]  b == batch[w]
  <2>1. InOrder(b, mode, c) /\ BatchOK(b)
    BY BatchIsOK, CallsAssumption DEF CallsInv
  <2>2. Limit(b, mode) = (MaxRetries + 3) * (2 * Parts(w) - SlicesOf(w))
    BY Zenon DEF Limit, Tries, Parts, SlicesOf, SlicesIn, Segments, Segs
  <2> HIDE DEF c, b
  <2>3. c.attempts <= Limit(b, mode)
    BY <2>1, LedgerBounds, CallsAssumption DEF InOrder, Paid
  <2> QED
    BY <2>2, <2>3, Zenon DEF c
<1> QED
  BY <1>1, CallsHold, PTL
=============================================================================
