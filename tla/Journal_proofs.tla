---------------------------- MODULE Journal_proofs ----------------------------
(***************************************************************************)
(* Theorems about Journal, for every set of records, batches and old files *)
(* and any number of faults, crashes and rewrites. The last part is about  *)
(* OpenAiBatch, whose record of a remote batch also outlives the process.  *)
(***************************************************************************)
EXTENDS Journal, OpenAiBatch, WellFoundedInduction, TLAPS

\* Induction on the natural numbers: a set of them has a least one.
LEMMA Least ==
    ASSUME NEW T, T \subseteq Nat, T # {}
    PROVE  \E n \in T : \A m \in T : n <= m
<1>1. PICK x \in T : \A y \in T : ~(<<y, x>> \in OpToRel(<, Nat))
  BY NatLessThanWellFounded, WFMin
<1>2. \A y \in T : ~(y < x)
  BY <1>1 DEF OpToRel
<1> QED
  BY <1>2
-----------------------------------------------------------------------------
(* Reading and filtering both gather values, one position after another: f[n] *)
(* are the values v of the positions in G up to n.                            *)

Gathers(f, G, v, m) ==
    f = [n \in 0..m |-> IF n = 0 THEN <<>>
                        ELSE IF n \in G THEN Append(f[n - 1], v[n])
                        ELSE f[n - 1]]

LEMMA GathersIs ==
    ASSUME NEW m \in Nat, NEW G, NEW v, NEW f, Gathers(f, G, v, m)
    PROVE  /\ f[0] = <<>>
           /\ \A n \in 1..m : f[n] = IF n \in G THEN Append(f[n - 1], v[n]) ELSE f[n - 1]
<1>1. 0 \in 0..m /\ \A n \in 1..m : n \in 0..m /\ n # 0
  OBVIOUS
<1> QED
  BY <1>1 DEF Gathers

LEMMA GathersExists ==
    ASSUME NEW G, NEW v, NEW k \in Nat
    PROVE  \E f : Gathers(f, G, v, k)
<1> DEFINE T == {m \in Nat : ~ \E f : Gathers(f, G, v, m)}
<1>1. SUFFICES ASSUME T # {} PROVE FALSE
  OBVIOUS
<1>2. PICK m \in T : \A l \in T : m <= l
  <2>1. T \subseteq Nat
    OBVIOUS
  <2> HIDE DEF T
  <2> QED
    BY <1>1, <2>1, Least
<1>3. Gathers([n \in 0..0 |-> <<>>], G, v, 0)
  BY DEF Gathers
<1>4. m # 0 /\ m \in Nat /\ m - 1 \in Nat /\ m - 1 \notin T
  BY <1>2, <1>3
<1>5. PICK f : Gathers(f, G, v, m - 1)
  BY <1>4
<1> DEFINE g == [n \in 0..m |-> IF n < m THEN f[n]
                                ELSE IF m \in G THEN Append(f[m - 1], v[m]) ELSE f[m - 1]]
<1>6. \A n \in 0..m : g[n] = IF n = 0 THEN <<>>
                             ELSE IF n \in G THEN Append(g[n - 1], v[n]) ELSE g[n - 1]
  <2> TAKE n \in 0..m
  <2>1. CASE n = 0
    BY <2>1, <1>4, <1>5, GathersIs
  <2>2. CASE n \in 1..(m - 1)
    <3>1. g[n] = f[n] /\ g[n - 1] = f[n - 1] /\ n # 0
      BY <2>2, <1>4
    <3> HIDE DEF g
    <3> QED
      BY <3>1, <2>2, <1>4, <1>5, GathersIs
  <2>3. CASE n = m
    BY <2>3, <1>4
  <2> QED
    BY <2>1, <2>2, <2>3, <1>4
<1>7. Gathers(g, G, v, m)
  <2>1. g = [n \in 0..m |-> g[n]]
    OBVIOUS
  <2> HIDE DEF g
  <2> QED
    BY <2>1, <1>6 DEF Gathers
<1> QED
  BY <1>7, <1>2

\* What is gathered up to n depends on the positions up to n only.
LEMMA GathersAgree ==
    ASSUME NEW m \in Nat, NEW G, NEW v, NEW f, Gathers(f, G, v, m),
           NEW l \in Nat, NEW H, NEW w, NEW g, Gathers(g, H, w, l),
           NEW n \in Nat, n <= m, n <= l,
           \A i \in 1..n : (i \in G <=> i \in H) /\ (i \in G => v[i] = w[i])
    PROVE  f[n] = g[n]
<1> DEFINE T == {i \in 0..n : f[i] # g[i]}
<1>1. SUFFICES ASSUME T # {} PROVE FALSE
  OBVIOUS
<1>2. PICK i \in T : \A j \in T : i <= j
  <2>1. T \subseteq Nat
    OBVIOUS
  <2> HIDE DEF T
  <2> QED
    BY <1>1, <2>1, Least
<1>3. i # 0
  BY <1>2, GathersIs
<1>4. i \in 1..n /\ i \in 1..m /\ i \in 1..l /\ f[i - 1] = g[i - 1]
  BY <1>2, <1>3
<1>5. f[i] = g[i]
  BY <1>4, GathersIs
<1> QED
  BY <1>2, <1>5

\* Nothing is gathered where nothing is.
LEMMA GathersNothing ==
    ASSUME NEW m \in Nat, NEW G, NEW v, NEW f, Gathers(f, G, v, m),
           NEW k \in 0..m, NEW n \in k..m, \A i \in k + 1..n : i \notin G
    PROVE  f[n] = f[k]
<1> DEFINE T == {i \in k..n : f[i] # f[k]}
<1>1. SUFFICES ASSUME T # {} PROVE FALSE
  OBVIOUS
<1>2. PICK i \in T : \A j \in T : i <= j
  <2>1. T \subseteq Nat
    OBVIOUS
  <2> HIDE DEF T
  <2> QED
    BY <1>1, <2>1, Least
<1>3. i \in k + 1..n /\ i \in 1..m /\ f[i - 1] = f[k]
  BY <1>2
<1>4. f[i] = f[i - 1]
  BY <1>3, GathersIs
<1> QED
  BY <1>2, <1>3, <1>4

\* What is gathered is a sequence of the values of those positions.
LEMMA GathersValues ==
    ASSUME NEW m \in Nat, NEW G, NEW v, NEW f, Gathers(f, G, v, m), NEW V,
           \A i \in 1..m : i \in G => v[i] \in V, NEW n \in 0..m
    PROVE  /\ f[n] \in Seq(V)
           /\ \A i \in 1..n : i \in G => v[i] \in Range(f[n])
<1> DEFINE P(k) == /\ f[k] \in Seq(V)
                   /\ \A i \in 1..k : i \in G => v[i] \in Range(f[k])
           T == {k \in 0..n : ~P(k)}
<1>1. SUFFICES ASSUME T # {} PROVE FALSE
  OBVIOUS
<1>2. PICK k \in T : \A j \in T : k <= j
  <2>1. T \subseteq Nat
    OBVIOUS
  <2> HIDE DEF T
  <2> QED
    BY <1>1, <2>1, Least
<1>0. /\ f[0] = <<>>
      /\ \A i \in 1..m : f[i] = IF i \in G THEN Append(f[i - 1], v[i]) ELSE f[i - 1]
  BY GathersIs
<1>3. P(0)
  BY <1>0
<1>4. k \in 1..n /\ k \in 1..m /\ P(k - 1)
  BY <1>2, <1>3
<1>5. CASE k \notin G
  BY <1>0, <1>2, <1>4, <1>5
<1>6. CASE k \in G
  <2>1. f[k] = Append(f[k - 1], v[k]) /\ v[k] \in V /\ f[k - 1] \in Seq(V)
    BY <1>0, <1>4, <1>6
  <2>2. /\ f[k] \in Seq(V) /\ v[k] \in Range(f[k])
        /\ \A x \in Range(f[k - 1]) : x \in Range(f[k])
    <3> SUFFICES ASSUME NEW s \in Seq(V), NEW x \in V
                 PROVE  /\ Append(s, x) \in Seq(V) /\ x \in Range(Append(s, x))
                        /\ \A y \in Range(s) : y \in Range(Append(s, x))
      BY <2>1
    <3>1. /\ Len(Append(s, x)) = Len(s) + 1 /\ Append(s, x)[Len(s) + 1] = x
          /\ \A i \in 1..Len(s) : Append(s, x)[i] = s[i]
          /\ DOMAIN s = 1..Len(s) /\ DOMAIN Append(s, x) = 1..(Len(s) + 1) /\ Len(s) \in Nat
      OBVIOUS
    <3> QED
      BY <3>1 DEF Range
  <2> QED
    BY <1>2, <1>4, <2>2
<1> QED
  BY <1>5, <1>6

\* What is gathered earlier is the beginning of what is gathered later.
LEMMA GathersPrefix ==
    ASSUME NEW m \in Nat, NEW G, NEW v, NEW f, Gathers(f, G, v, m), NEW V,
           \A i \in 1..m : i \in G => v[i] \in V, NEW n \in 0..m, NEW k \in 0..n
    PROVE  IsPrefix(f[k], f[n])
<1> DEFINE T == {i \in k..n : ~IsPrefix(f[k], f[i])}
<1>1. SUFFICES ASSUME T # {} PROVE FALSE
  OBVIOUS
<1>2. PICK i \in T : \A j \in T : i <= j
  <2>1. T \subseteq Nat
    OBVIOUS
  <2> HIDE DEF T
  <2> QED
    BY <1>1, <2>1, Least
<1>3. f[k] \in Seq(V)
  BY GathersValues
<1>4. i # k
  BY <1>2, <1>3 DEF IsPrefix
<1>5. i \in 1..m /\ i - 1 \in 0..m /\ IsPrefix(f[k], f[i - 1])
  BY <1>2, <1>4
<1>6. f[i - 1] \in Seq(V)
  BY <1>5, GathersValues
<1>0. \A j \in 1..m : f[j] = IF j \in G THEN Append(f[j - 1], v[j]) ELSE f[j - 1]
  BY GathersIs
<1>7. f[i] = f[i - 1] \/ (f[i] = Append(f[i - 1], v[i]) /\ v[i] \in V)
  BY <1>0, <1>5
<1>8. ASSUME NEW s \in Seq(V), NEW t \in Seq(V), NEW x \in V, IsPrefix(s, t)
      PROVE  IsPrefix(s, Append(t, x))
  BY <1>8 DEF IsPrefix
<1>9. IsPrefix(f[k], f[i])
  BY <1>3, <1>5, <1>6, <1>7, <1>8
<1> QED
  BY <1>2, <1>9
-----------------------------------------------------------------------------
(* What a rewrite keeps. *)

\* The function that Kept is defined by.
Keeps(f, s, bs) ==
    f = [n \in 0..Len(s) |-> IF n = 0 THEN <<>>
                             ELSE IF Batch[s[n]] \in bs THEN f[n - 1]
                             ELSE Append(f[n - 1], s[n])]

LEMMA KeptIs ==
    ASSUME NEW s \in Seq(Records), NEW bs
    PROVE  /\ Kept(s, bs) \in Seq(Records)
           /\ \A r \in Range(s) : Batch[r] \notin bs => r \in Range(Kept(s, bs))
<1> DEFINE G == {n \in 1..Len(s) : Batch[s[n]] \notin bs}
           picked == CHOOSE f : Keeps(f, s, bs)
<1>1. Len(s) \in Nat /\ DOMAIN s = 1..Len(s) /\ \A n \in 1..Len(s) : s[n] \in Records
  OBVIOUS
<1>2. \A f : Keeps(f, s, bs) <=> Gathers(f, G, s, Len(s))
  <2> TAKE f
  <2>1. \A n \in 0..Len(s) :
          (IF n = 0 THEN <<>> ELSE IF Batch[s[n]] \in bs THEN f[n - 1] ELSE Append(f[n - 1], s[n]))
          = (IF n = 0 THEN <<>> ELSE IF n \in G THEN Append(f[n - 1], s[n]) ELSE f[n - 1])
    BY <1>1
  <2> HIDE DEF G
  <2> QED
    BY <2>1 DEF Keeps, Gathers
<1> HIDE DEF G
<1>3. Keeps(picked, s, bs)
  BY <1>1, <1>2, GathersExists
<1>4. Kept(s, bs) = picked[Len(s)]
  BY DEF Kept, Keeps
<1> HIDE DEF picked
<1>5. Gathers(picked, G, s, Len(s))
  BY <1>2, <1>3
<1>6. /\ picked[Len(s)] \in Seq(Records)
      /\ \A i \in 1..Len(s) : i \in G => s[i] \in Range(picked[Len(s)])
  BY <1>1, <1>5, GathersValues
<1> QED
  BY <1>1, <1>4, <1>6 DEF G, Range
-----------------------------------------------------------------------------
(* What a reader gets. *)

\* The positions of f at which the text of a record ends, and those records.
Closers(f) == {n \in 1..Len(f) : n > 1 /\ Whole(f, n - 1)}
Firsts(f) == [n \in 1..Len(f) |-> f[n - 1][1]]

\* The function that Upto is defined by.
Reads(u, f) ==
    u = [n \in 0..Len(f) |-> IF n = 0 THEN <<>>
                             ELSE IF n > 1 /\ Whole(f, n - 1) THEN Append(u[n - 1], f[n - 1][1])
                             ELSE u[n - 1]]

LEMMA UptoGathers ==
    ASSUME NEW f \in Seq(Pieces)
    PROVE  Gathers(Upto(f), Closers(f), Firsts(f), Len(f))
<1>1. Len(f) \in Nat
  OBVIOUS
<1>2. \A u : Reads(u, f) <=> Gathers(u, Closers(f), Firsts(f), Len(f))
  <2> TAKE u
  <2>1. \A n \in 0..Len(f) :
          (IF n = 0 THEN <<>>
           ELSE IF n > 1 /\ Whole(f, n - 1) THEN Append(u[n - 1], f[n - 1][1]) ELSE u[n - 1])
          = (IF n = 0 THEN <<>>
             ELSE IF n \in Closers(f) THEN Append(u[n - 1], Firsts(f)[n]) ELSE u[n - 1])
    BY <1>1 DEF Closers, Firsts
  <2> QED
    BY <2>1 DEF Reads, Gathers
<1> DEFINE upto == CHOOSE u : Reads(u, f)
<1>3. Reads(upto, f)
  BY <1>1, <1>2, GathersExists
<1>4. Upto(f) = upto
  BY DEF Upto, Reads
<1> HIDE DEF upto
<1> QED
  BY <1>2, <1>3, <1>4

\* The text of record r is at i.
Text(f, i, r) == r \in Records /\ f[i] = <<r, 1>> /\ f[i + 1] = <<r, 2>>

LEMMA WholeIs ==
    ASSUME NEW f \in Seq(Pieces), NEW i \in Nat \ {0}
    PROVE  Whole(f, i) <=> /\ Begins(f, i) /\ i + 1 <= Len(f)
                           /\ \E r : Text(f, i, r)
                           /\ i + 2 <= Len(f) => f[i + 2] = NL
BY DEF Whole, Text

\* Neither piece of a text is a newline, and the first is not the second.
LEMMA PiecesDiffer ==
    ASSUME NEW f, NEW i, NEW r, Text(f, i, r)
    PROVE  f[i] # NL /\ f[i + 1] # NL /\ f[i] # f[i + 1] /\ f[i][1] = r
<1>1. <<r, 1>> \in Records \X (1..2) /\ <<r, 2>> \in Records \X (1..2) /\ <<r, 1>> # <<r, 2>>
      /\ <<r, 1>>[1] = r
  BY DEF Text
<1> QED
  BY <1>1, ConstantsAssumption DEF Text, ConstantsAssumption

LEMMA UptoIs ==
    ASSUME NEW f \in Seq(Pieces), NEW n \in 0..Len(f)
    PROVE  /\ Upto(f)[0] = <<>>
           /\ Upto(f)[n] \in Seq(Records)
           /\ n > 0 => Upto(f)[n] = IF n > 1 /\ Whole(f, n - 1)
                                    THEN Append(Upto(f)[n - 1], f[n - 1][1])
                                    ELSE Upto(f)[n - 1]
           /\ \A i \in 1..n : \A r : i > 1 /\ Whole(f, i - 1) /\ Text(f, i - 1, r) => r \in Range(Upto(f)[n])
           /\ \A k \in 0..n : IsPrefix(Upto(f)[k], Upto(f)[n])
<1>1. Len(f) \in Nat /\ Gathers(Upto(f), Closers(f), Firsts(f), Len(f))
  BY UptoGathers
<1>2. \A i \in 1..Len(f) : i \in Closers(f) => i > 1 /\ Whole(f, i - 1) /\ Firsts(f)[i] = f[i - 1][1]
  BY DEF Closers, Firsts
<1>3. \A i \in 1..Len(f) : i \in Closers(f) => Firsts(f)[i] \in Records
  <2> SUFFICES ASSUME NEW i \in 1..Len(f), i \in Closers(f) PROVE Firsts(f)[i] \in Records
    OBVIOUS
  <2>1. i - 1 \in Nat \ {0} /\ Whole(f, i - 1) /\ Firsts(f)[i] = f[i - 1][1]
    BY <1>2
  <2>2. PICK r : Text(f, i - 1, r)
    BY <2>1, WholeIs
  <2> QED
    BY <2>1, <2>2, PiecesDiffer DEF Text
<1>4. Upto(f)[n] \in Seq(Records) /\ \A i \in 1..n : i \in Closers(f) => Firsts(f)[i] \in Range(Upto(f)[n])
  BY <1>1, <1>3, GathersValues
<1>5. Upto(f)[0] = <<>> /\ (n > 0 => Upto(f)[n] = IF n \in Closers(f) THEN Append(Upto(f)[n - 1], Firsts(f)[n])
                                                    ELSE Upto(f)[n - 1])
  BY <1>1, GathersIs
<1>6. n > 0 => (n \in Closers(f) <=> n > 1 /\ Whole(f, n - 1)) /\ Firsts(f)[n] = f[n - 1][1]
  BY DEF Closers, Firsts
<1>7. \A k \in 0..n : IsPrefix(Upto(f)[k], Upto(f)[n])
  BY <1>1, <1>3, GathersPrefix
<1>8. ASSUME NEW i \in 1..n, NEW r, i > 1, Whole(f, i - 1), Text(f, i - 1, r)
      PROVE  r \in Range(Upto(f)[n])
  <2>1. i \in Closers(f) /\ i \in 1..Len(f)
    BY <1>8 DEF Closers
  <2>2. Firsts(f)[i] = r
    BY <1>2, <1>8, <2>1, PiecesDiffer
  <2> QED
    BY <1>4, <2>1, <2>2
<1> QED
  BY <1>4, <1>5, <1>6, <1>7, <1>8

\* Two files that hold the same texts up to n.
LEMMA UptoAgree ==
    ASSUME NEW f \in Seq(Pieces), NEW g \in Seq(Pieces), NEW n \in Nat, n <= Len(f), n <= Len(g),
           \A i \in 1..n : f[i] = g[i],
           \A i \in 2..n : Whole(f, i - 1) <=> Whole(g, i - 1)
    PROVE  Upto(f)[n] = Upto(g)[n]
<1>1. /\ Len(f) \in Nat /\ Gathers(Upto(f), Closers(f), Firsts(f), Len(f))
      /\ Len(g) \in Nat /\ Gathers(Upto(g), Closers(g), Firsts(g), Len(g))
  BY UptoGathers
<1>2. \A i \in 1..n : (i \in Closers(f) <=> i \in Closers(g)) /\ (i \in Closers(f) => Firsts(f)[i] = Firsts(g)[i])
  <2> TAKE i \in 1..n
  <2>1. i \in 1..Len(f) /\ i \in 1..Len(g) /\ (i > 1 => i \in 2..n /\ i - 1 \in 1..n)
    OBVIOUS
  <2> QED
    BY <2>1 DEF Closers, Firsts
<1> QED
  BY <1>1, <1>2, GathersAgree

\* Positions that end no text add nothing.
LEMMA UptoNothing ==
    ASSUME NEW f \in Seq(Pieces), NEW k \in 0..Len(f), NEW n \in k..Len(f),
           \A i \in k + 1..n : i > 1 => ~Whole(f, i - 1)
    PROVE  Upto(f)[n] = Upto(f)[k]
<1>1. Len(f) \in Nat /\ Gathers(Upto(f), Closers(f), Firsts(f), Len(f))
  BY UptoGathers
<1>2. \A i \in k + 1..n : i \notin Closers(f)
  BY DEF Closers
<1> QED
  BY <1>1, <1>2, GathersNothing
-----------------------------------------------------------------------------
(* A file that may be cut. *)

\* From b on, nothing is glued to a text: cutting f there makes no new record.
Unglued(f, b) ==
    \A i \in Nat \ {0} : \A r : i + 2 > b /\ i + 2 <= Len(f) /\ Begins(f, i) /\ Text(f, i, r)
                                => f[i + 2] = NL

LEMMA CutReads ==
    ASSUME NEW f \in Seq(Pieces), NEW b \in Nat, Unglued(f, b),
           NEW n \in 0..Len(f), n >= b \/ n = 0 \/ f[n] = NL
    PROVE  LET g == SubSeq(f, 1, n)
           IN  /\ g \in Seq(Pieces) /\ Len(g) = n
               /\ \A i \in 1..n : g[i] = f[i]
               /\ \A k \in 0..n : Upto(g)[k] = Upto(f)[k]
               /\ Readable(g) = Upto(f)[n]
<1> DEFINE g == SubSeq(f, 1, n)
<1>1. g \in Seq(Pieces) /\ Len(g) = n /\ n \in Nat /\ n <= Len(f) /\ \A i \in 1..n : g[i] = f[i]
  OBVIOUS
<1> HIDE DEF g
<1>2. ASSUME NEW i \in 2..n PROVE Whole(f, i - 1) <=> Whole(g, i - 1)
  <2> DEFINE j == i - 1
  <2>1. j \in Nat \ {0} /\ j + 1 = i /\ j + 1 <= n /\ j + 1 <= Len(f)
    BY <1>1
  <2>2. Begins(f, j) <=> Begins(g, j)
    BY <1>1, <2>1 DEF Begins
  <2>3. \A r : Text(f, j, r) <=> Text(g, j, r)
    BY <1>1, <2>1 DEF Text
  <2>4. CASE i + 1 <= n
    BY <1>1, <2>1, <2>2, <2>3, <2>4, WholeIs
  <2>5. CASE i = n
    <3>1. ASSUME NEW r, Text(f, j, r), Begins(f, j), j + 2 <= Len(f)
          PROVE  f[j + 2] = NL
      <4>1. f[n] # NL /\ n # 0
        BY <2>1, <2>5, <3>1, PiecesDiffer
      <4>2. j + 2 > b
        BY <2>1, <2>5, <4>1
      <4> QED
        BY <2>1, <3>1, <4>2 DEF Unglued
    <3> QED
      BY <1>1, <2>1, <2>2, <2>3, <2>5, <3>1, WholeIs
  <2> QED
    BY <1>1, <2>4, <2>5
<1>3. ASSUME NEW k \in 0..n PROVE Upto(g)[k] = Upto(f)[k]
  <2>1. k \in Nat /\ k <= Len(f) /\ k <= Len(g) /\ \A i \in 1..k : f[i] = g[i]
    BY <1>1
  <2>2. \A i \in 2..k : Whole(f, i - 1) <=> Whole(g, i - 1)
    <3> TAKE i \in 2..k
    <3>1. i \in 2..n
      BY <1>1
    <3> QED
      BY <1>2, <3>1
  <2> QED
    BY <1>1, <2>1, <2>2, UptoAgree
<1>4. Readable(g) = Upto(f)[n]
  BY <1>1, <1>3 DEF Readable
<1> QED
  BY <1>1, <1>3, <1>4 DEF g

\* Such a cut leaves the beginning of what is there.
LEMMA CutPrefix ==
    ASSUME NEW f \in Seq(Pieces), NEW n \in 0..Len(f), NEW b \in 0..n
    PROVE  /\ IsPrefix(Upto(f)[n], Readable(f)) /\ Readable(f) \in Seq(Records)
           /\ IsPrefix(Upto(f)[b], Upto(f)[n]) /\ Upto(f)[b] \in Seq(Records)
           /\ Range(Upto(f)[b]) \subseteq Range(Upto(f)[n])
<1>1. /\ Len(f) \in 0..Len(f) /\ n \in 0..Len(f) /\ b \in 0..Len(f)
      /\ n \in 0..Len(f) /\ b \in 0..n
  OBVIOUS
<1>2. IsPrefix(Upto(f)[n], Upto(f)[Len(f)]) /\ Upto(f)[Len(f)] \in Seq(Records)
  BY <1>1, UptoIs
<1>3. /\ IsPrefix(Upto(f)[b], Upto(f)[n]) /\ Upto(f)[b] \in Seq(Records)
      /\ Upto(f)[n] \in Seq(Records)
  BY <1>1, UptoIs
<1>4. ASSUME NEW s \in Seq(Records), NEW t \in Seq(Records), IsPrefix(s, t)
      PROVE  Range(s) \subseteq Range(t)
  <2>1. Len(s) <= Len(t) /\ \A i \in 1..Len(s) : s[i] = t[i]
    <3>1. Len(s) <= Len(t) /\ SubSeq(s, 1, Len(s)) = SubSeq(t, 1, Len(s))
      BY <1>4 DEF IsPrefix
    <3>2. \A i \in 1..Len(s) : SubSeq(s, 1, Len(s))[i] = s[i] /\ SubSeq(t, 1, Len(s))[i] = t[i]
      BY <3>1
    <3> QED
      BY <3>1, <3>2
  <2>2. DOMAIN s = 1..Len(s) /\ DOMAIN t = 1..Len(t) /\ Len(s) \in Nat /\ Len(t) \in Nat
    OBVIOUS
  <2> QED
    BY <2>1, <2>2 DEF Range
<1> QED
  BY <1>2, <1>3, <1>4 DEF Readable

\* One more piece after f: only the text that it completes, or is glued to, changes.
LEMMA PieceReads ==
    ASSUME NEW f \in Seq(Pieces), NEW p \in Pieces,
           \A i \in 2..Len(f) : i = Len(f) /\ Whole(f, i - 1) => p = NL
    PROVE  LET g == Append(f, p)
           IN  /\ g \in Seq(Pieces) /\ Len(g) = Len(f) + 1 /\ g[Len(f) + 1] = p
               /\ \A i \in 1..Len(f) : g[i] = f[i]
               /\ \A n \in 0..Len(f) : Upto(g)[n] = Upto(f)[n]
               /\ Readable(g) = IF Len(f) > 0 /\ Whole(g, Len(f))
                                THEN Append(Readable(f), f[Len(f)][1]) ELSE Readable(f)
<1> DEFINE g == Append(f, p)
<1>1. /\ g \in Seq(Pieces) /\ Len(g) = Len(f) + 1 /\ Len(f) \in Nat /\ g[Len(f) + 1] = p
      /\ \A i \in 1..Len(f) : g[i] = f[i]
  OBVIOUS
<1> HIDE DEF g
<1>2. ASSUME NEW i \in 2..Len(f) PROVE Whole(f, i - 1) <=> Whole(g, i - 1)
  <2> DEFINE j == i - 1
  <2>1. j \in Nat \ {0} /\ j + 1 = i /\ j + 1 <= Len(f) /\ j + 1 <= Len(g)
    BY <1>1
  <2>2. Begins(f, j) <=> Begins(g, j)
    BY <1>1, <2>1 DEF Begins
  <2>3. \A r : Text(f, j, r) <=> Text(g, j, r)
    BY <1>1, <2>1 DEF Text
  <2>4. CASE i + 1 <= Len(f)
    BY <1>1, <2>1, <2>2, <2>3, <2>4, WholeIs
  <2>5. CASE i = Len(f)
    <3>0. j + 2 = Len(f) + 1
      BY <1>1, <2>5
    <3>1. j + 2 = Len(f) + 1 /\ g[j + 2] = p
      BY <1>1, <3>0, Zenon
    <3>2. Whole(f, j) <=> Begins(f, j) /\ \E r : Text(f, j, r)
      BY <1>1, <2>1, <3>1, WholeIs
    <3>3. Whole(g, j) <=> Begins(f, j) /\ (\E r : Text(f, j, r)) /\ p = NL
      BY <1>1, <2>1, <2>2, <2>3, <3>1, WholeIs
    <3>4. Whole(f, j) => p = NL
      BY <2>5
    <3> QED
      BY <3>2, <3>3, <3>4
  <2> QED
    BY <1>1, <2>4, <2>5
<1>3. ASSUME NEW n \in 0..Len(f) PROVE Upto(g)[n] = Upto(f)[n]
  <2>1. n \in Nat /\ n <= Len(f) /\ n <= Len(g) /\ \A i \in 1..n : g[i] = f[i]
    BY <1>1
  <2>2. \A i \in 2..n : Whole(g, i - 1) <=> Whole(f, i - 1)
    <3> TAKE i \in 2..n
    <3>1. i \in 2..Len(f)
      BY <1>1
    <3> QED
      BY <1>2, <3>1
  <2> QED
    BY <1>1, <2>1, <2>2, UptoAgree
<1>4. Upto(g)[Len(f) + 1] = IF Len(f) > 0 /\ Whole(g, Len(f))
                            THEN Append(Upto(g)[Len(f)], g[Len(f)][1]) ELSE Upto(g)[Len(f)]
  <2>1. Len(f) + 1 \in 0..Len(g) /\ Len(f) + 1 > 0 /\ (Len(f) + 1) - 1 = Len(f)
        /\ (Len(f) + 1 > 1 <=> Len(f) > 0)
    BY <1>1
  <2>2. Upto(g)[Len(f) + 1] = IF Len(f) + 1 > 1 /\ Whole(g, (Len(f) + 1) - 1)
                              THEN Append(Upto(g)[(Len(f) + 1) - 1], g[(Len(f) + 1) - 1][1])
                              ELSE Upto(g)[(Len(f) + 1) - 1]
    BY <1>1, <2>1, UptoIs
  <2> QED
    BY <2>1, <2>2
<1>5. Upto(g)[Len(f)] = Upto(f)[Len(f)] /\ (Len(f) > 0 => g[Len(f)] = f[Len(f)])
  BY <1>1, <1>3
<1>6. Readable(g) = IF Len(f) > 0 /\ Whole(g, Len(f))
                    THEN Append(Readable(f), f[Len(f)][1]) ELSE Readable(f)
  BY <1>1, <1>4, <1>5 DEF Readable
<1> QED
  BY <1>1, <1>3, <1>6 DEF g
-----------------------------------------------------------------------------
(* Writing a record, and repairing what is left of one. *)

\* f ends with k pieces of the line of r.
Place(f, r, k) ==
    /\ k \in {0, 3} /\ Len(f) > 0 => f[Len(f)] = NL
    /\ k = 1 => /\ Len(f) > 0 /\ Begins(f, Len(f)) /\ f[Len(f)] = <<r, 1>>
    /\ k = 2 => /\ Len(f) > 1 /\ Begins(f, Len(f) - 1) /\ Text(f, Len(f) - 1, r)
    /\ k > 1 => r \in Range(Readable(f))

LEMMA PiecesAre ==
    ASSUME NEW r \in Records
    PROVE  /\ <<r, 1>> \in Pieces /\ <<r, 2>> \in Pieces /\ NL \in Pieces
           /\ <<r, 1>> # NL /\ <<r, 2>> # NL
           /\ \A s : <<r, 1>> # <<s, 2>>
<1>1. <<r, 1>> \in Records \X (1..2) /\ <<r, 2>> \in Records \X (1..2)
  OBVIOUS
<1>2. <<r, 1>> # NL /\ <<r, 2>> # NL
  BY <1>1, ConstantsAssumption DEF ConstantsAssumption
<1> QED
  BY <1>1, <1>2 DEF Pieces

\* f and one more piece, which completes the texts of done.
Longer(g, f, done) ==
    /\ g \in Seq(Pieces) /\ Len(g) = Len(f) + 1
    /\ \A i \in 1..Len(f) : g[i] = f[i]
    /\ \A n \in 0..Len(f) : Upto(g)[n] = Upto(f)[n]
    /\ Readable(g) = Readable(f) \o done

LEMMA WriteReads ==
    ASSUME NEW f \in Seq(Pieces), NEW r \in Records, NEW k \in 0..2, Place(f, r, k)
    PROVE  LET g == Append(f, Line(r)[k + 1])
           IN  /\ Longer(g, f, IF k = 1 THEN <<r>> ELSE <<>>)
               /\ Place(g, r, k + 1)
               /\ \A b \in Nat : Unglued(f, b) => Unglued(g, b)
<1> DEFINE p == Line(r)[k + 1]
           g == Append(f, p)
           l == Len(f)
<1>0. l \in Nat /\ Readable(f) \in Seq(Records)
  <2>1. l \in Nat /\ l \in 0..l
    OBVIOUS
  <2> QED
    BY <2>1, UptoIs DEF Readable
<1>1. p \in Pieces /\ (k = 0 => p = <<r, 1>>) /\ (k = 1 => p = <<r, 2>>) /\ (k = 2 => p = NL)
  BY PiecesAre DEF Line
\* The text that ends f, if there is one, is followed by the newline.
<1>2. ASSUME NEW i \in Nat \ {0}, i + 1 = l, NEW s, Text(f, i, s), Begins(f, i) PROVE p = NL
  <2>1. f[l] # NL /\ f[l] = <<s, 2>>
    BY <1>2, PiecesDiffer DEF Text
  <2>2. k # 0 /\ k # 1
    BY <1>2, <2>1, PiecesAre DEF Place
  <2> QED
    BY <1>1, <2>2
<1>3. \A i \in 2..l : i = l /\ Whole(f, i - 1) => p = NL
  <2> SUFFICES ASSUME NEW i \in 2..l, i = l, Whole(f, i - 1) PROVE p = NL
    OBVIOUS
  <2>1. i - 1 \in Nat \ {0} /\ (i - 1) + 1 = l
    OBVIOUS
  <2>2. Begins(f, i - 1) /\ \E s : Text(f, i - 1, s)
    BY <2>1, WholeIs
  <2> QED
    BY <1>2, <2>1, <2>2
<1> HIDE DEF p
<1>4. /\ g \in Seq(Pieces) /\ Len(g) = l + 1 /\ g[l + 1] = p
      /\ \A i \in 1..l : g[i] = f[i]
      /\ \A n \in 0..l : Upto(g)[n] = Upto(f)[n]
      /\ Readable(g) = IF l > 0 /\ Whole(g, l) THEN Append(Readable(f), f[l][1]) ELSE Readable(f)
  BY <1>1, <1>3, PieceReads
<1> HIDE DEF g
<1>6. k = 1 => f[l][1] = r /\ f[l] = <<r, 1>> /\ l > 0 /\ Begins(f, l)
  BY DEF Place
<1>10. l > 0 /\ Begins(f, l) => Begins(g, l)
  <2>1. l > 1 => l - 1 \in 1..l
    BY <1>0
  <2>2. l > 1 => g[l - 1] = f[l - 1]
    BY <1>4, <2>1
  <2>3. l > 0 => l = 1 \/ l > 1
    <3>1. \A n \in Nat : n > 0 => n = 1 \/ n > 1
      OBVIOUS
    <3> QED
      BY <1>0, <3>1, Zenon
  <2> QED
    BY <2>2, <2>3, Zenon DEF Begins
<1>5. l > 0 /\ Whole(g, l) <=> k = 1
  <2>1. CASE k = 1
    <3>1. l > 0 /\ Begins(f, l) /\ f[l] = <<r, 1>> /\ p = <<r, 2>>
      BY <1>1, <2>1 DEF Place
    <3>5. g[l] = f[l] /\ g[l + 1] = p
      <4>1. l \in 1..l
        BY <1>0, <3>1
      <4> QED
        BY <1>4, <4>1, Zenon
    <3>2. Text(g, l, r)
      BY <3>1, <3>5, Zenon DEF Text
    <3>3. Begins(g, l)
      BY <1>6, <2>1, <1>10
    <3>4. l \in Nat \ {0} /\ l + 1 <= Len(g) /\ ~(l + 2 <= Len(g))
      BY <1>0, <1>4, <3>1
    <3> QED
      BY <1>4, <2>1, <3>2, <3>3, <3>4, WholeIs
  <2>2. CASE k # 1
    <3> SUFFICES ASSUME l > 0, Whole(g, l) PROVE FALSE
      BY <2>2
    <3>1. l \in Nat \ {0}
      BY <1>0
    <3>2. PICK s : Text(g, l, s)
      BY <1>4, <3>1, WholeIs
    <3>3. p = <<s, 2>> /\ p # NL
      <4>1. g[l + 1] = <<s, 2>>
        BY <3>2 DEF Text
      <4>2. g[l + 1] # NL
        BY <3>2, PiecesDiffer
      <4> QED
        BY <1>4, <4>1, <4>2, Zenon
    <3> QED
      BY <1>1, <2>2, <3>3, PiecesAre
  <2> QED
    BY <2>1, <2>2
<1>7. Readable(g) = Readable(f) \o (IF k = 1 THEN <<r>> ELSE <<>>)
  <2>1. CASE k = 1
    BY <1>0, <1>4, <1>5, <1>6, <2>1
  <2>2. CASE k # 1
    BY <1>0, <1>4, <1>5, <2>2
  <2> QED
    BY <2>1, <2>2
<1>8. Place(g, r, k + 1)
  <2>1. CASE k = 0
    <3>1. l = 0 \/ g[l] = NL
      BY <1>0, <1>4, <2>1 DEF Place
    <3>2. Begins(g, l + 1)
      BY <1>0, <3>1 DEF Begins
    <3> QED
      BY <1>0, <1>1, <1>4, <2>1, <3>2 DEF Place
  <2>2. CASE k = 1
    <3>1. Text(g, l, r) /\ Begins(g, l)
      <4>1. g[l] = <<r, 1>> /\ g[l + 1] = <<r, 2>>
        BY <1>0, <1>1, <1>4, <1>6, <2>2
      <4> QED
        BY <1>10, <1>6, <2>2, <4>1 DEF Text
    <3>2. r \in Range(Readable(g))
      <4>1. Readable(g) = Append(Readable(f), r)
        BY <1>0, <1>4, <1>5, <1>6, <2>2
      <4>2. /\ Len(Readable(f)) + 1 \in DOMAIN Append(Readable(f), r)
            /\ Append(Readable(f), r)[Len(Readable(f)) + 1] = r
        BY <1>0
      <4> QED
        BY <4>1, <4>2 DEF Range
    <3>3. Len(g) - 1 = l /\ Len(g) > 1 /\ k + 1 = 2
      BY <1>0, <1>4, <1>6, <2>2
    <3> QED
      BY <3>1, <3>2, <3>3 DEF Place
  <2>3. CASE k = 2
    <3>1. k + 1 = 3 /\ Len(g) > 0 /\ g[Len(g)] = NL
      BY <1>0, <1>1, <1>4, <2>3
    <3>2. r \in Range(Readable(g))
      BY <1>4, <1>5, <2>3 DEF Place
    <3> QED
      BY <3>1, <3>2 DEF Place
  <2> QED
    BY <2>1, <2>2, <2>3
<1>9. ASSUME NEW b \in Nat, Unglued(f, b) PROVE Unglued(g, b)
  <2> SUFFICES ASSUME NEW i \in Nat \ {0}, NEW s, i + 2 > b, i + 2 <= Len(g),
                      Begins(g, i), Text(g, i, s)
               PROVE  g[i + 2] = NL
    BY DEF Unglued
  <2>1. i + 1 <= l
    BY <1>0, <1>4
  <2>2. Begins(f, i) /\ Text(f, i, s)
    BY <1>0, <1>4, <2>1 DEF Begins, Text
  <2>3. CASE i + 2 <= l
    <3>1. f[i + 2] = NL
      BY <1>9, <2>2, <2>3 DEF Unglued
    <3> QED
      BY <1>0, <1>4, <2>3, <3>1
  <2>4. CASE i + 1 = l
    <3>1. p = NL
      BY <1>2, <2>2, <2>4
    <3>2. i + 2 = l + 1
      BY <1>0, <2>4
    <3> QED
      BY <1>4, <3>1, <3>2, Zenon
  <2> QED
    BY <1>0, <2>1, <2>3, <2>4
<1> QED
  BY <1>4, <1>7, <1>8, <1>9 DEF Longer, g, p

LEMMA LastNewlineIs ==
    ASSUME NEW f \in Seq(Pieces)
    PROVE  /\ LastNewline(f) \in 0..Len(f)
           /\ LastNewline(f) = 0 \/ f[LastNewline(f)] = NL
           /\ \A m \in LastNewline(f) + 1..Len(f) : f[m] # NL
<1> DEFINE T == {n \in 0..Len(f) : \A m \in n + 1..Len(f) : f[m] # NL}
<1>1. Len(f) \in T /\ T \subseteq Nat
  OBVIOUS
<1>2. PICK n \in T : \A m \in T : n <= m
  <2> HIDE DEF T
  <2> QED
    BY <1>1, Least
<1>3. n = 0 \/ f[n] = NL
  <2> SUFFICES ASSUME n # 0, f[n] # NL PROVE FALSE
    OBVIOUS
  <2>1. n - 1 \in 0..Len(f) /\ n - 1 < n
    BY <1>2
  <2>2. \A m \in (n - 1) + 1..Len(f) : m = n \/ m \in n + 1..Len(f)
    BY <1>2
  <2>3. n - 1 \in T
    <3>1. \A m \in (n - 1) + 1..Len(f) : f[m] # NL
      BY <1>2, <2>2
    <3> QED
      BY <2>1, <3>1
  <2>4. n <= n - 1
    <3> HIDE DEF T
    <3> QED
      BY <1>2, <2>3
  <2> QED
    BY <2>1, <2>4
<1>4. n \in 0..Len(f) /\ (n = 0 \/ f[n] = NL) /\ \A m \in n + 1..Len(f) : f[m] # NL
  BY <1>2, <1>3
<1> QED
  BY <1>4 DEF LastNewline

\* g is f repaired: it can be read like f, and whatever of f was fixed at b is
\* fixed in g at c.
Mended(g, f, b, c) ==
    /\ c \in 0..Len(g) /\ c <= b /\ \A i \in 1..c : g[i] = f[i]
    /\ Unglued(g, c) /\ Upto(g)[c] = Upto(f)[b]

LEMMA RepairReads ==
    ASSUME NEW f \in Seq(Pieces), NEW b \in 0..Len(f), Unglued(f, b)
    PROVE  LET g == Repaired(f)
           IN  /\ g \in Seq(Pieces) /\ (Len(g) > 0 => g[Len(g)] = NL)
               /\ Readable(g) = Readable(f)
               /\ \E c \in Nat : Mended(g, f, b, c)
<1> DEFINE l == Len(f)
           cut == LastNewline(f)
           g == Repaired(f)
<1>1. /\ l \in Nat /\ cut \in 0..l /\ (cut = 0 \/ f[cut] = NL)
      /\ \A m \in cut + 1..l : f[m] # NL
  BY LastNewlineIs
<1>2. CASE cut = l
  <2>1. g = f
    BY <1>2 DEF Repaired
  <2>2. Mended(f, f, b, b) /\ b \in Nat
    BY DEF Mended
  <2>3. l > 0 => f[l] = NL
    BY <1>1, <1>2
  <2> QED
    BY <2>1, <2>2, <2>3
<1>3. CASE cut # l /\ Whole(f, cut + 1)
  <2>1. g = Append(f, NL) /\ NL \in Pieces
    BY <1>3 DEF Repaired, Pieces
  <2> HIDE DEF g
  <2>2. /\ g \in Seq(Pieces) /\ Len(g) = l + 1 /\ g[l + 1] = NL
        /\ \A i \in 1..l : g[i] = f[i]
        /\ \A n \in 0..l : Upto(g)[n] = Upto(f)[n]
        /\ Readable(g) = IF l > 0 /\ Whole(g, l) THEN Append(Readable(f), f[l][1]) ELSE Readable(f)
    BY <2>1, PieceReads
  <2>3. ~(l > 0 /\ Whole(g, l))
    <3> SUFFICES ASSUME l > 0, Whole(g, l) PROVE FALSE
      OBVIOUS
    <3>1. l \in Nat \ {0}
      BY <1>1
    <3>2. PICK s : Text(g, l, s)
      BY <2>2, <3>1, WholeIs
    <3> QED
      BY <2>2, <3>2, PiecesDiffer
  <2>4. Unglued(g, b)
    <3> SUFFICES ASSUME NEW i \in Nat \ {0}, NEW s, i + 2 > b, i + 2 <= Len(g),
                        Begins(g, i), Text(g, i, s)
                 PROVE  g[i + 2] = NL
      BY DEF Unglued
    <3>1. CASE i + 2 = l + 1
      BY <2>2, <3>1, Zenon
    <3>2. CASE i + 2 <= l
      <4>1. Begins(f, i) /\ Text(f, i, s)
        BY <1>1, <2>2, <3>2 DEF Begins, Text
      <4>2. f[i + 2] = NL
        BY <3>2, <4>1 DEF Unglued
      <4> QED
        BY <1>1, <2>2, <3>2, <4>2
    <3> QED
      BY <1>1, <2>2, <3>1, <3>2
  <2>5. b \in Nat /\ Mended(g, f, b, b)
    BY <1>1, <2>2, <2>4 DEF Mended
  <2>6. Len(g) > 0 => g[Len(g)] = NL
    BY <2>2
  <2> QED
    BY <2>2, <2>3, <2>5, <2>6 DEF g
<1>4. CASE cut # l /\ ~Whole(f, cut + 1)
  <2>1. g = SubSeq(f, 1, cut)
    BY <1>4 DEF Repaired
  <2> HIDE DEF g
  <2>2. /\ g \in Seq(Pieces) /\ Len(g) = cut
        /\ \A i \in 1..cut : g[i] = f[i]
        /\ \A k \in 0..cut : Upto(g)[k] = Upto(f)[k]
        /\ Readable(g) = Upto(f)[cut]
    <3>1. b \in Nat /\ cut \in 0..Len(f) /\ (cut = 0 \/ f[cut] = NL)
      BY <1>1
    <3> HIDE DEF cut
    <3> QED
      BY <2>1, <3>1, CutReads
  <2>3. ASSUME NEW i \in cut + 1..l, i > 1 PROVE ~Whole(f, i - 1)
    <3> DEFINE j == i - 1
    <3> SUFFICES ASSUME Whole(f, j) PROVE FALSE
      OBVIOUS
    <3>1. j \in Nat \ {0} /\ j + 1 <= l /\ cut <= j
      BY <1>1, <2>3
    <3>2. Begins(f, j) /\ \E s : Text(f, j, s)
      BY <3>1, WholeIs
    <3>3. f[j] # NL
      BY <3>2, PiecesDiffer
    <3>4. j # cut
      BY <1>1, <3>1, <3>3
    <3>5. j # 1 => j - 1 \in cut..l /\ f[j - 1] = NL
      BY <1>1, <3>1, <3>2, <3>4 DEF Begins
    <3>6. j = cut + 1
      BY <1>1, <3>1, <3>4, <3>5
    <3> QED
      BY <1>4, <3>6
  <2>4. ASSUME NEW n \in cut..l PROVE Upto(f)[n] = Upto(f)[cut]
    <3>1. \A i \in cut + 1..n : i > 1 => ~Whole(f, i - 1)
      <4> TAKE i \in cut + 1..n
      <4>1. i \in cut + 1..l
        BY <1>1
      <4> QED
        BY <2>3, <4>1
    <3> HIDE DEF cut
    <3> QED
      BY <1>1, <3>1, UptoNothing
  <2>5. Readable(g) = Readable(f)
    BY <1>1, <2>2, <2>4 DEF Readable
  <2>6. \E c \in Nat : Mended(g, f, b, c)
    <3>1. CASE b <= cut
      <4>1. Unglued(g, b)
        <5> SUFFICES ASSUME NEW i \in Nat \ {0}, NEW s, i + 2 > b, i + 2 <= Len(g),
                            Begins(g, i), Text(g, i, s)
                     PROVE  g[i + 2] = NL
          BY DEF Unglued
        <5>1. i + 2 <= cut /\ cut <= l
          BY <1>1, <2>2
        <5>2. Begins(f, i) /\ Text(f, i, s)
          BY <1>1, <2>2, <5>1 DEF Begins, Text
        <5>3. i + 2 <= Len(f)
          BY <1>1, <5>1
        <5>4. f[i + 2] = NL
          BY <5>2, <5>3 DEF Unglued
        <5> QED
          BY <1>1, <2>2, <5>1, <5>4
      <4>2. Mended(g, f, b, b)
        BY <1>1, <2>2, <3>1, <4>1 DEF Mended
      <4> QED
        BY <4>2
    <3>2. CASE b > cut
      <4>1. Unglued(g, cut)
        BY <1>1, <2>2 DEF Unglued
      <4>2. Upto(f)[b] = Upto(f)[cut]
        BY <1>1, <2>4, <3>2
      <4>3. Mended(g, f, b, cut)
        BY <1>1, <2>2, <3>2, <4>1, <4>2 DEF Mended
      <4> QED
        BY <1>1, <4>3
    <3> QED
      BY <1>1, <3>1, <3>2
  <2>7. Len(g) > 0 => g[Len(g)] = NL
    BY <1>1, <2>2
  <2> QED
    BY <2>2, <2>5, <2>6, <2>7 DEF g
<1> QED
  BY <1>2, <1>3, <1>4
-----------------------------------------------------------------------------
(* The invariant. *)

\* Up to b, the file is as it was synced, and nothing it had to read is behind;
\* or it was rewritten since, and all of it is new.  It may be cut from b on.
Firm(b) ==
    /\ b \in 0..Len(file) /\ Unglued(file, b)
    /\ rewritten => b = 0
    /\ ~rewritten => /\ b <= Len(durable) /\ \A i \in 1..b : file[i] = durable[i]
                     /\ Upto(file)[b] = Readable(durable)

\* Who is in the middle of a line finds in the file what it has written of it.
Places ==
    /\ at # 0 => queue # <<>> /\ Place(file, Head(queue), at - 1)
    /\ rewrite # <<>> => queue = <<>> /\ rewritten /\ Place(file, Head(rewrite), put)
    /\ rewrite = <<>> => put = 0

\* What is owed can be read or is about to be written again, and is on the disk.
Rest == IF put = 2 THEN Tail(rewrite) ELSE rewrite
Acked ==
    /\ ~lossy => owed \subseteq Range(Readable(file)) \cup Range(Rest)
    /\ ~lossy /\ ~rewritten => owed \subseteq Range(Readable(durable))

Queued == \A i \in 1..Len(queue) : queue[i] \in asked

Inv == TypeOK /\ Queued /\ (\E b \in Nat : Firm(b)) /\ Places /\ Acked

LEMMA Ranges ==
    ASSUME NEW V, NEW s \in Seq(V)
    PROVE  /\ Range(s) \subseteq V /\ Range(s) = {s[i] : i \in 1..Len(s)}
           /\ \A x \in V : Range(s \o <<x>>) = Range(s) \cup {x}
           /\ s # <<>> => /\ Head(s) \in V /\ Tail(s) \in Seq(V)
                          /\ Range(s) = {Head(s)} \cup Range(Tail(s))
<1>1. DOMAIN s = 1..Len(s) /\ Len(s) \in Nat /\ \A i \in 1..Len(s) : s[i] \in V
  OBVIOUS
<1>2. ASSUME NEW x \in V PROVE Range(s \o <<x>>) = Range(s) \cup {x}
  <2>1. /\ DOMAIN (s \o <<x>>) = 1..(Len(s) + 1) /\ (s \o <<x>>)[Len(s) + 1] = x
        /\ \A i \in 1..Len(s) : (s \o <<x>>)[i] = s[i]
    OBVIOUS
  <2>2. \A i \in 1..(Len(s) + 1) : i = Len(s) + 1 \/ i \in 1..Len(s)
    BY <1>1
  <2>3. 1..Len(s) \subseteq 1..(Len(s) + 1) /\ Len(s) + 1 \in 1..(Len(s) + 1)
    BY <1>1
  <2> QED
    BY <1>1, <2>1, <2>2, <2>3 DEF Range
<1>3. ASSUME s # <<>>
      PROVE  Head(s) \in V /\ Tail(s) \in Seq(V) /\ Range(s) = {Head(s)} \cup Range(Tail(s))
  <2>1. /\ Tail(s) \in Seq(V) /\ DOMAIN Tail(s) = 1..(Len(s) - 1) /\ Len(s) > 0 /\ Head(s) = s[1]
        /\ \A i \in 1..(Len(s) - 1) : Tail(s)[i] = s[i + 1]
    BY <1>3
  <2>2. \A i \in 1..Len(s) : i = 1 \/ i - 1 \in 1..(Len(s) - 1)
    BY <1>1
  <2>3. \A i \in 1..Len(s) : i # 1 => Tail(s)[i - 1] = s[i]
    BY <2>1, <2>2
  <2>4. 1 \in 1..Len(s) /\ \A i \in 1..(Len(s) - 1) : i + 1 \in 1..Len(s)
    BY <1>1, <2>1
  <2> QED
    <3>1. Range(s) \subseteq {Head(s)} \cup Range(Tail(s))
      <4> SUFFICES ASSUME NEW i \in 1..Len(s) PROVE s[i] \in {Head(s)} \cup Range(Tail(s))
        BY <1>1 DEF Range
      <4>1. i # 1 => i - 1 \in DOMAIN Tail(s) /\ Tail(s)[i - 1] = s[i]
        BY <2>1, <2>2, <2>3
      <4>2. i # 1 => s[i] \in Range(Tail(s))
        BY <4>1, Zenon DEF Range
      <4> QED
        BY <2>1, <4>2
    <3>2. Head(s) \in Range(s)
      BY <1>1, <2>1, <2>4 DEF Range
    <3>3. \A i \in 1..(Len(s) - 1) : Tail(s)[i] \in Range(s)
      BY <1>1, <2>1, <2>4 DEF Range
    <3>4. Range(Tail(s)) \subseteq Range(s)
      BY <2>1, <3>3 DEF Range
    <3>5. Head(s) \in V /\ Tail(s) \in Seq(V)
      BY <1>1, <2>1, <2>4
    <3> QED
      BY <3>1, <3>2, <3>4, <3>5
<1> QED
  BY <1>1, <1>2, <1>3 DEF Range

\* A piece is written after what is fixed.
LEMMA LongerIsFirm ==
    ASSUME NEW b \in Nat, Firm(b), file \in Seq(Pieces), NEW done, Longer(file', file, done),
           \A n \in Nat : Unglued(file, n) => Unglued(file', n), UNCHANGED <<durable, rewritten>>
    PROVE  Firm(b)'
<1>1. Len(file) \in Nat
  OBVIOUS
<1>2. b \in 0..Len(file') /\ Unglued(file', b)
  BY <1>1 DEF Firm, Longer
<1>3. (\A i \in 1..b : file'[i] = file[i]) /\ Upto(file')[b] = Upto(file)[b]
  BY <1>1 DEF Firm, Longer
<1> QED
  BY <1>2, <1>3 DEF Firm

LEMMA InitInv == Init => Inv
<1> SUFFICES ASSUME Init PROVE Inv
  OBVIOUS
<1> USE ConstantsAssumption DEF ConstantsAssumption
<1>1. /\ file \in Seq(Pieces) /\ durable = file /\ rewritten = FALSE
      /\ queue = <<>> /\ at = 0 /\ rewrite = <<>> /\ put = 0 /\ lossy = FALSE
      /\ faults = 0 /\ crashes = 0 /\ filters = 0
      /\ asked = Range(Readable(file)) /\ owed = asked
  BY DEF Init
<1>2. Len(file) \in Nat /\ Len(file) \in 0..Len(file)
  BY <1>1
<1>3. Readable(file) \in Seq(Records)
  BY <1>1, <1>2, UptoIs DEF Readable
<1>4. TypeOK
  <2>1. Range(Readable(file)) \subseteq Records
    BY <1>3, Ranges
  <2>2. <<>> \in Seq(Records)
    OBVIOUS
  <2>3. {file, durable} \subseteq Seq(Pieces) /\ rewrite \in Seq(Records) /\ queue \in Seq(Records)
    BY <1>1, <2>2
  <2>4. put \in 0..2 /\ at \in 0..4 /\ {faults, crashes, filters} \subseteq Nat
    BY <1>1
  <2>5. {rewritten, lossy} \subseteq BOOLEAN
    BY <1>1, Zenon
  <2> QED
    BY <1>1, <2>1, <2>3, <2>4, <2>5 DEF TypeOK
<1>5. Firm(Len(file))
  <2>1. Unglued(file, Len(file))
    BY <1>2 DEF Unglued
  <2> QED
    BY <1>1, <1>2, <2>1 DEF Firm, Readable
<1>6. Places /\ Acked /\ Queued
  BY <1>1 DEF Places, Acked, Queued
<1> QED
  BY <1>2, <1>4, <1>5, <1>6 DEF Inv

\* What a step that leaves the file alone has to see to.
LEMMA SameDisk ==
    ASSUME Inv, UNCHANGED disk PROVE \E b \in Nat : Firm(b)'
BY DEF Inv, Firm, disk

LEMMA RequestInv ==
    ASSUME Inv, NEW r \in Records, Request(r)
    PROVE  Inv'
<1> USE DEF TypeOK
<1>1. /\ asked' = asked \cup {r} /\ queue' = Append(queue, r) /\ rewrite = <<>>
      /\ UNCHANGED <<file, durable, rewritten, at, rewrite, put, faults, crashes, filters, owed, lossy>>
  BY DEF Request, disk, counts
<1>2. TypeOK'
  BY <1>1 DEF Inv
<1>3. Len(queue) \in Nat /\ queue \in Seq(Records)
  BY DEF Inv
<1>4. Queued'
  BY <1>1, <1>3 DEF Inv, Queued
<1>5. queue # <<>> => Head(queue') = Head(queue) /\ queue' # <<>>
  BY <1>1, <1>3
<1>6. Places' /\ Acked'
  BY <1>1, <1>5 DEF Inv, Places, Acked, Rest
<1> QED
  BY <1>1, <1>2, <1>4, <1>6, SameDisk DEF Inv, disk

LEMMA OpenInv ==
    ASSUME Inv, Open
    PROVE  Inv' /\ Readable(file') = Readable(file)
<1>1. /\ queue # <<>> /\ at = 0 /\ file' = Repaired(file) /\ at' = 1
      /\ UNCHANGED <<durable, rewritten, queue, rewrite, put, faults, crashes, filters, asked, owed, lossy>>
  BY DEF Open, counts, history
<1>2. PICK b \in Nat : Firm(b)
  BY DEF Inv
<1>3. /\ file \in Seq(Pieces) /\ Len(file) \in Nat /\ b \in 0..Len(file) /\ Unglued(file, b)
  BY <1>2 DEF Inv, TypeOK, Firm
<1>4. /\ file' \in Seq(Pieces) /\ (Len(file') > 0 => file'[Len(file')] = NL)
      /\ Readable(file') = Readable(file)
      /\ \E c \in Nat : Mended(file', file, b, c)
  BY <1>1, <1>3, RepairReads
<1>5. PICK c \in Nat : Mended(file', file, b, c)
  BY <1>4
<1>6. Firm(c)'
  BY <1>1, <1>2, <1>3, <1>5 DEF Firm, Mended
<1>7. TypeOK' /\ Queued'
  BY <1>1, <1>4 DEF Inv, TypeOK, Queued
<1>8. Place(file', Head(queue), 0)
  BY <1>4 DEF Place
<1>9. Places' /\ Acked'
  BY <1>1, <1>4, <1>8 DEF Inv, Places, Acked, Rest
<1> QED
  BY <1>4, <1>6, <1>7, <1>9 DEF Inv

LEMMA WriteInv ==
    ASSUME Inv, Write
    PROVE  /\ Inv' /\ Head(queue) \in Records /\ queue # <<>>
           /\ Readable(file') = IF at = 2 THEN Append(Readable(file), Head(queue)) ELSE Readable(file)
<1>1. /\ at \in 1..3 /\ at' = at + 1 /\ file' = Append(file, Line(Head(queue))[at])
      /\ UNCHANGED <<durable, rewritten, queue, rewrite, put, faults, crashes, filters, asked, owed, lossy>>
  BY DEF Write, counts, history
<1>2. /\ file \in Seq(Pieces) /\ queue # <<>> /\ Place(file, Head(queue), at - 1) /\ rewrite = <<>>
      /\ put = 0
  BY <1>1 DEF Inv, TypeOK, Places
<1>3. Head(queue) \in Records
  BY <1>2 DEF Inv, TypeOK
<1>4. PICK r \in Records : r = Head(queue)
  BY <1>3
<1>5. PICK k \in 0..2 : k + 1 = at /\ k = at - 1
  <2>1. at - 1 \in 0..2 /\ (at - 1) + 1 = at
    BY <1>1
  <2> QED
    BY <2>1
<1>6. /\ Longer(file', file, IF k = 1 THEN <<r>> ELSE <<>>) /\ Place(file', r, k + 1)
      /\ \A b \in Nat : Unglued(file, b) => Unglued(file', b)
  BY <1>1, <1>2, <1>4, <1>5, WriteReads
<1>7. \E b \in Nat : Firm(b)'
  BY <1>1, <1>2, <1>6, LongerIsFirm DEF Inv
<1>8. Len(file) \in Nat /\ Readable(file) \in Seq(Records)
  <2>1. Len(file) \in Nat /\ Len(file) \in 0..Len(file)
    BY <1>2
  <2> QED
    BY <1>2, <2>1, UptoIs DEF Readable
<1>9. Readable(file') = IF k = 1 THEN Append(Readable(file), r) ELSE Readable(file)
  <2>1. Readable(file') = Readable(file) \o IF k = 1 THEN <<r>> ELSE <<>>
    BY <1>6 DEF Longer
  <2> QED
    BY <1>8, <2>1
<1>10. Range(Readable(file)) \subseteq Range(Readable(file'))
  <2>1. Readable(file') = Readable(file) \/ Readable(file') = Readable(file) \o <<r>>
    BY <1>8, <1>9
  <2>2. Range(Readable(file) \o <<r>>) = Range(Readable(file)) \cup {r}
    BY <1>8, Ranges
  <2> QED
    BY <2>1, <2>2
<1>11. TypeOK' /\ Queued'
  BY <1>1, <1>6 DEF Inv, TypeOK, Queued, Longer
<1>12. Places' /\ Acked'
  <2>1. at' - 1 = k + 1 /\ at' # 0
    BY <1>1, <1>5
  <2> QED
    BY <1>1, <1>2, <1>4, <1>6, <1>10, <2>1 DEF Inv, Places, Acked, Rest
<1>13. k = 1 <=> at = 2
  BY <1>5
<1> QED
  BY <1>2, <1>3, <1>4, <1>7, <1>9, <1>11, <1>12, <1>13 DEF Inv

\* The record of the append that resolves can be read.
LEMMA SyncInv ==
    ASSUME Inv, Sync
    PROVE  Inv' /\ queue # <<>>
<1>1. /\ at = 4 /\ durable' = file /\ rewritten' = FALSE /\ owed' = owed \cup {Head(queue)}
      /\ queue' = Tail(queue) /\ at' = 0
      /\ UNCHANGED <<file, rewrite, put, faults, crashes, filters, asked, lossy>>
  BY DEF Sync, counts
<1>2. /\ file \in Seq(Pieces) /\ queue \in Seq(Records) /\ queue # <<>>
      /\ Place(file, Head(queue), 3) /\ rewrite = <<>> /\ put = 0
  BY <1>1 DEF Inv, TypeOK, Places
<1>3. Len(file) \in Nat /\ Firm(Len(file))'
  <2>1. Len(file) \in Nat
    BY <1>2
  <2>2. Unglued(file, Len(file))
    BY <2>1 DEF Unglued
  <2> QED
    BY <1>1, <2>1, <2>2 DEF Firm, Readable
<1>4. Head(queue) \in Range(Readable(file)) /\ Head(queue) \in Records
  BY <1>2 DEF Place
<1>5. /\ Head(queue) = queue[1] /\ Tail(queue) \in Seq(Records) /\ 1 \in 1..Len(queue)
      /\ \A i \in 1..Len(Tail(queue)) : i + 1 \in 1..Len(queue) /\ Tail(queue)[i] = queue[i + 1]
  BY <1>2
<1>6. Head(queue) \in asked /\ Queued'
  BY <1>1, <1>5 DEF Inv, Queued
<1>7. TypeOK'
  <2>1. {file', durable'} \subseteq Seq(Pieces) /\ queue' \in Seq(Records) /\ at' = 0
    BY <1>1, <1>2, <1>5
  <2>2. {rewritten', lossy'} \subseteq BOOLEAN /\ owed' \subseteq asked'
    BY <1>1, <1>6, Zenon DEF Inv, TypeOK
  <2> QED
    BY <1>1, <2>1, <2>2 DEF Inv, TypeOK
<1>8. Range(Rest) = {} /\ Range(Rest)' = {}
  BY <1>1, <1>2 DEF Rest, Range
<1>9. Acked' /\ Places'
  BY <1>1, <1>2, <1>4, <1>8 DEF Inv, Acked, Places
<1> QED
  BY <1>2, <1>3, <1>6, <1>7, <1>9 DEF Inv

\* An append that fails leaves in the file what it has written.
LEMMA FailInv ==
    ASSUME Inv, Fail
    PROVE  Inv'
<1>1. /\ queue # <<>> /\ faults' = faults + 1 /\ queue' = Tail(queue) /\ at' = 0
      /\ UNCHANGED <<file, durable, rewritten, rewrite, put, crashes, filters, asked, owed, lossy>>
  BY DEF Fail, disk, history
<1>2. /\ Tail(queue) \in Seq(Records)
      /\ \A i \in 1..Len(Tail(queue)) : i + 1 \in 1..Len(queue) /\ Tail(queue)[i] = queue[i + 1]
  BY <1>1 DEF Inv, TypeOK
<1>3. TypeOK' /\ Queued'
  BY <1>1, <1>2 DEF Inv, TypeOK, Queued
<1>4. Places' /\ Acked'
  BY <1>1 DEF Inv, Places, Acked, Rest
<1> QED
  BY <1>1, <1>3, <1>4, SameDisk DEF Inv, disk

\* The rewrite puts back all that is owed.
LEMMA FilterInv ==
    ASSUME Inv, NEW bs, Filter(bs)
    PROVE  Inv' /\ Readable(file') = <<>>
<1>1. /\ queue = <<>> /\ rewrite = <<>> /\ filters' = filters + 1
      /\ rewrite' = Kept(Readable(file), bs) /\ file' = <<>> /\ rewritten' = TRUE
      /\ owed' = {r \in owed : Batch[r] \notin bs}
      /\ UNCHANGED <<durable, queue, at, put, faults, crashes, asked, lossy>>
  BY DEF Filter
<1>2. /\ file \in Seq(Pieces) /\ put = 0 /\ at = 0
      /\ owed \subseteq asked /\ asked \subseteq Records
  BY <1>1 DEF Inv, TypeOK, Places
<1>3. Readable(file) \in Seq(Records)
  <2>1. Len(file) \in 0..Len(file)
    BY <1>2
  <2> QED
    BY <1>2, <2>1, UptoIs DEF Readable
<1>4. /\ rewrite' \in Seq(Records)
      /\ \A r \in Range(Readable(file)) : Batch[r] \notin bs => r \in Range(rewrite')
  BY <1>1, <1>3, KeptIs
<1>5. file' \in Seq(Pieces) /\ Len(file') = 0
  BY <1>1
<1>6. Readable(file') = <<>>
  <2>1. 0 \in 0..Len(file')
    BY <1>5
  <2>2. Upto(file')[0] = <<>>
    BY <1>5, <2>1, UptoIs
  <2> QED
    BY <1>5, <2>2 DEF Readable
<1>7. Firm(0)'
  BY <1>1, <1>5 DEF Firm, Unglued
<1>8. Range(Rest) = {} /\ Rest' = rewrite'
  BY <1>1, <1>2 DEF Rest, Range
<1>9. TypeOK' /\ Queued'
  <2>1. {rewritten', lossy'} \subseteq BOOLEAN
    BY <1>1, Zenon DEF Inv, TypeOK
  <2> QED
    BY <1>1, <1>4, <1>5, <2>1 DEF Inv, TypeOK, Queued
<1>10. Acked'
  BY <1>1, <1>4, <1>8 DEF Inv, Acked
<1>11. Places'
  <2>1. \A r : Place(file', r, 0)
    BY <1>5 DEF Place
  <2> QED
    BY <1>1, <1>2, <2>1 DEF Places
<1> QED
  BY <1>6, <1>7, <1>9, <1>10, <1>11 DEF Inv

LEMMA FilterWriteInv ==
    ASSUME Inv, FilterWrite
    PROVE  /\ Inv' /\ Head(rewrite) \in Records /\ put \in 0..2
           /\ Readable(file') = IF put = 1 THEN Append(Readable(file), Head(rewrite)) ELSE Readable(file)
           /\ Rest' = IF put = 1 THEN Tail(Rest) ELSE Rest
           /\ put = 1 => Rest = rewrite
<1>1. /\ rewrite # <<>> /\ file' = Append(file, Line(Head(rewrite))[put + 1])
      /\ put < 2 => put' = put + 1 /\ rewrite' = rewrite
      /\ ~(put < 2) => put' = 0 /\ rewrite' = Tail(rewrite)
      /\ UNCHANGED <<durable, rewritten, queue, at, faults, crashes, filters, asked, owed, lossy>>
  BY DEF FilterWrite, counts, history
<1>2. /\ file \in Seq(Pieces) /\ queue = <<>> /\ at = 0 /\ rewritten /\ rewrite \in Seq(Records)
      /\ Place(file, Head(rewrite), put) /\ put \in 0..2
  BY <1>1 DEF Inv, TypeOK, Places
<1>3. Head(rewrite) \in Records /\ Tail(rewrite) \in Seq(Records)
      /\ Range(rewrite) = {Head(rewrite)} \cup Range(Tail(rewrite))
  BY <1>1, <1>2, Ranges
<1>4. PICK r \in Records : r = Head(rewrite)
  BY <1>3
<1>5. /\ Longer(file', file, IF put = 1 THEN <<r>> ELSE <<>>) /\ Place(file', r, put + 1)
      /\ \A b \in Nat : Unglued(file, b) => Unglued(file', b)
  BY <1>1, <1>2, <1>4, WriteReads
<1>6. \E b \in Nat : Firm(b)'
  BY <1>1, <1>2, <1>5, LongerIsFirm DEF Inv
<1>7. Len(file) \in Nat /\ Readable(file) \in Seq(Records)
  <2>1. Len(file) \in Nat /\ Len(file) \in 0..Len(file)
    BY <1>2
  <2> QED
    BY <1>2, <2>1, UptoIs DEF Readable
<1>8. Readable(file') = IF put = 1 THEN Append(Readable(file), r) ELSE Readable(file)
  <2>1. Readable(file') = Readable(file) \o IF put = 1 THEN <<r>> ELSE <<>>
    BY <1>5 DEF Longer
  <2> QED
    BY <1>7, <2>1
<1>9. Range(Readable(file')) = Range(Readable(file)) \cup (IF put = 1 THEN {r} ELSE {})
  <2>1. put = 1 => Readable(file') = Readable(file) \o <<r>>
    BY <1>7, <1>8
  <2>2. Range(Readable(file) \o <<r>>) = Range(Readable(file)) \cup {r}
    BY <1>7, Ranges
  <2> QED
    BY <1>8, <2>1, <2>2
<1>10. (put = 0 => put' = 1) /\ (put = 1 => put' = 2) /\ (put = 2 => put' = 0)
       /\ (put # 2 => rewrite' = rewrite) /\ (put = 2 => rewrite' = Tail(rewrite))
  BY <1>1, <1>2
<1>11. Rest' = (IF put = 1 THEN Tail(Rest) ELSE Rest) /\ (put = 1 => Rest = rewrite)
  <2>1. CASE put = 0
    BY <1>10, <2>1 DEF Rest
  <2>2. CASE put = 1
    BY <1>10, <2>2 DEF Rest
  <2>3. CASE put = 2
    BY <1>10, <2>3 DEF Rest
  <2> QED
    BY <1>2, <2>1, <2>2, <2>3
<1>12. TypeOK' /\ Queued'
  <2>1. rewrite' \in Seq(Records) /\ put' \in 0..2
    BY <1>2, <1>3, <1>10
  <2> QED
    BY <1>1, <1>5, <2>1 DEF Inv, TypeOK, Queued, Longer
<1>13. Acked'
  <2>1. owed \subseteq Range(Readable(file)) \cup Range(Rest) =>
        owed' \subseteq Range(Readable(file')) \cup Range(Rest')
    BY <1>1, <1>3, <1>4, <1>9, <1>11
  <2> QED
    BY <1>1, <1>2, <2>1 DEF Inv, Acked
<1>14. Places'
  <2>1. \A s : Place(file', r, 3) => Place(file', s, 0)
    BY DEF Place
  <2>2. rewrite' # <<>> => Place(file', Head(rewrite'), put')
    <3>1. CASE put = 2
      BY <1>5, <1>10, <2>1, <3>1
    <3>2. CASE put = 0 \/ put = 1
      BY <1>4, <1>5, <1>10, <3>2
    <3> QED
      BY <1>2, <3>1, <3>2
  <2>3. rewrite' = <<>> => put' = 0
    BY <1>1, <1>2, <1>10
  <2> QED
    BY <1>1, <1>2, <2>2, <2>3 DEF Places
<1> QED
  BY <1>2, <1>3, <1>4, <1>6, <1>8, <1>11, <1>12, <1>13, <1>14 DEF Inv

\* A rewrite that is cut short is what AckedSurvive excepts.
LEMMA FilterFailInv ==
    ASSUME Inv, FilterFail
    PROVE  Inv'
<1>1. /\ rewrite # <<>> /\ faults' = faults + 1 /\ rewrite' = <<>> /\ put' = 0 /\ lossy' = TRUE
      /\ UNCHANGED <<file, durable, rewritten, queue, at, crashes, filters, asked, owed>>
  BY DEF FilterFail, disk
<1>2. {rewritten', lossy'} \subseteq BOOLEAN /\ <<>> \in Seq(Records)
  <2>1. rewritten' \in BOOLEAN /\ lossy' \in BOOLEAN
    BY <1>1, Zenon DEF Inv, TypeOK
  <2> QED
    BY <2>1
<1>3. TypeOK' /\ Queued'
  BY <1>1, <1>2 DEF Inv, TypeOK, Queued
<1>4. Places' /\ Acked'
  BY <1>1 DEF Inv, Places, Acked
<1> QED
  BY <1>1, <1>3, <1>4, SameDisk DEF Inv, disk

LEMMA KillInv ==
    ASSUME Inv, Kill
    PROVE  Inv'
<1>1. /\ crashes' = crashes + 1 /\ queue' = <<>> /\ at' = 0 /\ rewrite' = <<>> /\ put' = 0
      /\ lossy' = (lossy \/ rewrite # <<>>)
      /\ UNCHANGED <<file, durable, rewritten, faults, filters, asked, owed>>
  BY DEF Kill, Forget, disk
<1>2. {rewritten', lossy'} \subseteq BOOLEAN /\ <<>> \in Seq(Records)
  <2>1. rewritten' \in BOOLEAN /\ lossy' \in BOOLEAN
    BY <1>1, Zenon DEF Inv, TypeOK
  <2> QED
    BY <2>1
<1>3. TypeOK' /\ Queued'
  BY <1>1, <1>2 DEF Inv, TypeOK, Queued
<1>4. Places' /\ Acked'
  BY <1>1 DEF Inv, Places, Acked, Rest
<1> QED
  BY <1>1, <1>3, <1>4, SameDisk DEF Inv, disk

\* What is left of the file can be read as far as it goes, and unless it was
\* rewritten it goes as far as what was synced.
LEMMA PowerLossReads ==
    ASSUME Inv, NEW n \in Lasting
    PROVE  LET g == SubSeq(file, 1, n)
           IN  /\ g \in Seq(Pieces)
               /\ IsPrefix(Readable(g), Readable(file))
               /\ ~rewritten => /\ IsPrefix(Readable(durable), Readable(g))
                                /\ Range(Readable(durable)) \subseteq Range(Readable(g))
<1>1. PICK b \in Nat : Firm(b)
  BY DEF Inv
<1>2. /\ file \in Seq(Pieces) /\ durable \in Seq(Pieces) /\ n \in 0..Len(file)
      /\ b \in 0..Len(file) /\ Unglued(file, b)
      /\ Len(file) \in Nat /\ Len(durable) \in Nat
  BY <1>1 DEF Inv, TypeOK, Firm, Lasting
<1>3. n >= b
  <2> SUFFICES ASSUME n < b PROVE FALSE
    BY <1>2
  <2>1. ~rewritten /\ n # Len(file) /\ n + 1 \in 1..Len(file)
    BY <1>1, <1>2 DEF Firm
  <2>2. n + 1 <= Len(durable) /\ \A i \in 1..(n + 1) : file[i] = durable[i]
    BY <1>1, <1>2, <2>1 DEF Firm
  <2>3. IsPrefix(SubSeq(file, 1, n + 1), durable)
    <3>1. Len(SubSeq(file, 1, n + 1)) = n + 1 /\ SubSeq(file, 1, n + 1) \in Seq(Pieces)
      BY <1>2, <2>1
    <3>2. SubSeq(SubSeq(file, 1, n + 1), 1, n + 1) = SubSeq(durable, 1, n + 1)
      BY <1>2, <2>1, <2>2
    <3> QED
      BY <2>2, <3>1, <3>2 DEF IsPrefix
  <2> QED
    BY <2>1, <2>3 DEF Lasting
<1> DEFINE g == SubSeq(file, 1, n)
<1>4. g \in Seq(Pieces) /\ Readable(g) = Upto(file)[n]
  BY <1>2, <1>3, CutReads
<1>5. b \in 0..n
  BY <1>2, <1>3
<1>6. /\ IsPrefix(Upto(file)[n], Readable(file))
      /\ IsPrefix(Upto(file)[b], Upto(file)[n])
      /\ Range(Upto(file)[b]) \subseteq Range(Upto(file)[n])
  BY <1>2, <1>5, CutPrefix
<1>7. ~rewritten => Upto(file)[b] = Readable(durable)
  BY <1>1 DEF Firm
<1> QED
  BY <1>4, <1>6, <1>7

LEMMA PowerLossInv ==
    ASSUME Inv, PowerLoss
    PROVE  /\ Inv'
           /\ \/ Readable(file') = Readable(durable)
              \/ /\ IsPrefix(Readable(file'), Readable(file))
                 /\ ~rewritten => IsPrefix(Readable(durable), Readable(file'))
<1>1. /\ crashes' = crashes + 1 /\ queue' = <<>> /\ at' = 0 /\ rewrite' = <<>> /\ put' = 0
      /\ lossy' = (lossy \/ rewritten) /\ durable' = file' /\ rewritten' = FALSE
      /\ file' = durable \/ \E n \in Lasting : file' = SubSeq(file, 1, n)
      /\ UNCHANGED <<faults, filters, asked, owed>>
  BY DEF PowerLoss, Forget
<1>2. durable \in Seq(Pieces)
  BY DEF Inv, TypeOK
<1>3. /\ file' \in Seq(Pieces)
      /\ \/ Readable(file') = Readable(durable)
         \/ /\ IsPrefix(Readable(file'), Readable(file))
            /\ ~rewritten => IsPrefix(Readable(durable), Readable(file'))
      /\ ~rewritten => Range(Readable(durable)) \subseteq Range(Readable(file'))
  <2>1. CASE file' = durable
    BY <1>2, <2>1
  <2>2. ASSUME NEW n \in Lasting, file' = SubSeq(file, 1, n)
        PROVE  /\ file' \in Seq(Pieces) /\ IsPrefix(Readable(file'), Readable(file))
               /\ ~rewritten => /\ IsPrefix(Readable(durable), Readable(file'))
                                /\ Range(Readable(durable)) \subseteq Range(Readable(file'))
    BY <2>2, PowerLossReads
  <2> QED
    BY <1>1, <2>1, <2>2
<1>4. \E b \in Nat : Firm(b)'
  <2>1. PICK b \in Nat : b = Len(file')
    BY <1>3
  <2>2. Unglued(file', b)
    BY <2>1 DEF Unglued
  <2>3. Firm(b)'
    BY <1>1, <2>1, <2>2 DEF Firm, Readable
  <2> QED
    BY <2>3
<1>5. TypeOK' /\ Queued'
  <2>1. rewritten' \in BOOLEAN /\ lossy' \in BOOLEAN
    BY <1>1, Zenon DEF Inv, TypeOK
  <2>2. {rewritten', lossy'} \subseteq BOOLEAN /\ <<>> \in Seq(Records)
    BY <2>1
  <2> QED
    BY <1>1, <1>3, <2>2 DEF Inv, TypeOK, Queued
<1>6. Acked'
  BY <1>1, <1>3 DEF Inv, Acked
<1>7. Places'
  BY <1>1 DEF Places
<1> QED
  BY <1>3, <1>4, <1>5, <1>6, <1>7 DEF Inv

\* Inv is inductive.
LEMMA StepInv == Inv /\ [Next]_vars => Inv'
<1>1. Inv /\ UNCHANGED vars => Inv'
  BY DEF Inv, TypeOK, Queued, Firm, Places, Acked, Rest, vars, disk, process, counts, history
<1> QED
  BY <1>1, RequestInv, OpenInv, WriteInv, SyncInv, FailInv, FilterInv, FilterWriteInv, FilterFailInv,
     KillInv, PowerLossInv DEF Next

\* A file of the journal is a sequence of pieces at all times, and a write is
\* under way only for an append that was asked for and not answered (writeLine).
THEOREM TypeCorrect == Spec => []TypeOK
<1>1. Inv => TypeOK
  BY DEF Inv
<1> QED
  BY <1>1, InitInv, StepInv, PTL DEF Spec

\* A record that was acknowledged, and whose batch was not invalidated since, is
\* read again after any number of faults, crashes and power losses, unless one
\* of them cut a rewrite short: repairTail cuts no record and glues none to a
\* torn one, and appendJournal resolves only after the sync.
THEOREM AckedRecordsSurvive == Spec => []AckedSurvive
<1>1. Inv => AckedSurvive
  BY DEF Inv, Acked, AckedSurvive, Rest, Places, Range
<1> QED
  BY <1>1, InitInv, StepInv, PTL DEF Spec
-----------------------------------------------------------------------------
(* The abstract log. *)

LEMMA ReadableTyped == \A f \in Seq(Pieces) : Readable(f) \in Seq(Records)
<1> TAKE f \in Seq(Pieces)
<1>1. Len(f) \in 0..Len(f)
  OBVIOUS
<1> QED
  BY <1>1, UptoIs DEF Readable

\* The log the journal implements has the records a reader gets.
LEMMA InitMaps == Init => L!Init
<1> SUFFICES ASSUME Init PROVE L!Init
  OBVIOUS
<1>1. /\ file \in Seq(Pieces) /\ durable = file /\ rewritten = FALSE
      /\ queue = <<>> /\ at = 0 /\ rewrite = <<>> /\ put = 0
  BY ConstantsAssumption DEF Init, ConstantsAssumption
<1> QED
  BY <1>1, ReadableTyped DEF L!Init

\* An append: its record lands with the second piece of its text.
LEMMA AppendMaps ==
    ASSUME Inv, (\E r \in Records : Request(r)) \/ Open \/ Write \/ Sync \/ Fail
    PROVE  [L!Next]_(L!vars)
<1>1. ASSUME NEW r \in Records, Request(r) PROVE L!Request(r)
  <2>1. Rest = <<>>
    BY <1>1 DEF Request, Inv, Places, Rest
  <2> QED
    BY <1>1, <2>1 DEF Request, L!Request, disk, Rest
<1>2. ASSUME Open PROVE UNCHANGED L!vars
  <2>1. Readable(file') = Readable(file)
    BY <1>2, OpenInv
  <2> QED
    BY <1>2, <2>1 DEF Open, L!vars
<1>3. ASSUME Write PROVE L!Land \/ UNCHANGED L!vars
  <2>1. /\ queue # <<>> /\ at \in 1..3 /\ at' = at + 1
        /\ Readable(file') = IF at = 2 THEN Append(Readable(file), Head(queue)) ELSE Readable(file)
        /\ UNCHANGED <<durable, rewritten, queue, rewrite, put>>
    BY <1>3, WriteInv DEF Write
  <2>2. CASE at = 2
    BY <2>1, <2>2 DEF L!Land
  <2>3. CASE at # 2
    <3>1. at' \in {3, 4} <=> at \in {3, 4}
      BY <2>1, <2>3
    <3> QED
      BY <2>1, <2>3, <3>1 DEF L!vars
  <2> QED
    BY <2>2, <2>3
<1>4. ASSUME Sync PROVE L!Acknowledge
  BY <1>4 DEF Sync, L!Acknowledge
<1>5. ASSUME Fail PROVE L!Reject
  BY <1>5 DEF Fail, L!Reject, disk
<1> QED
  BY <1>1, <1>2, <1>3, <1>4, <1>5 DEF L!Next

\* A rewrite puts a record back with the second piece of its text.
LEMMA FilterMaps ==
    ASSUME Inv, (\E bs \in {{b} : b \in Batches} \cup {Batches} : Filter(bs)) \/ FilterWrite \/ FilterFail
    PROVE  [L!Next]_(L!vars)
<1>1. ASSUME NEW bs \in {{b} : b \in Batches} \cup {Batches}, Filter(bs)
      PROVE  bs \in SUBSET Batches /\ L!Drop(bs)
  <2>1. Readable(file') = <<>>
    BY <1>1, FilterInv
  <2>2. Kept(Readable(file), bs) = L!Kept(Readable(file), bs)
    BY DEF Kept, L!Kept
  <2>3. put = 0 /\ rewrite = <<>>
    BY <1>1 DEF Filter, Inv, Places
  <2> QED
    BY <1>1, <2>1, <2>2, <2>3 DEF Filter, L!Drop
<1>2. ASSUME FilterWrite PROVE L!PutBack \/ UNCHANGED L!vars
  <2>1. /\ rewrite # <<>>
        /\ Readable(file') = IF put = 1 THEN Append(Readable(file), Head(rewrite)) ELSE Readable(file)
        /\ Rest' = IF put = 1 THEN Tail(Rest) ELSE Rest
        /\ put = 1 => Rest = rewrite
        /\ UNCHANGED <<durable, rewritten, queue, at>>
    BY <1>2, FilterWriteInv DEF FilterWrite
  <2>2. CASE put = 1
    BY <2>1, <2>2 DEF L!PutBack, Rest
  <2>3. CASE put # 1
    BY <2>1, <2>3 DEF L!vars, Rest
  <2> QED
    BY <2>2, <2>3
<1>3. ASSUME FilterFail PROVE L!Abandon \/ UNCHANGED L!vars
  BY <1>3 DEF FilterFail, L!Abandon, L!vars, disk
<1> QED
  BY <1>1, <1>2, <1>3 DEF L!Next

\* A crash.
LEMMA CrashMaps ==
    ASSUME Inv, Kill \/ PowerLoss
    PROVE  [L!Next]_(L!vars)
<1>1. ASSUME Kill PROVE L!Kill
  BY <1>1 DEF Kill, Forget, L!Kill, disk
<1>2. ASSUME PowerLoss PROVE L!PowerLoss
  <2>1. /\ \/ Readable(file') = Readable(durable)
           \/ /\ IsPrefix(Readable(file'), Readable(file))
              /\ ~rewritten => IsPrefix(Readable(durable), Readable(file'))
        /\ Inv'
    BY <1>2, PowerLossInv
  <2>2. Readable(file) \in Seq(Records) /\ Readable(file') \in Seq(Records)
    BY <2>1, ReadableTyped DEF Inv, TypeOK
  <2>3. ASSUME NEW s \in Seq(Records), NEW t \in Seq(Records), IsPrefix(s, t)
        PROVE  s \in Prefixes(t)
    <3>1. s = SubSeq(t, 1, Len(s)) /\ Len(s) \in 0..Len(t)
      BY <2>3 DEF IsPrefix
    <3> QED
      BY <3>1 DEF Prefixes
  <2>4. IsPrefix(Readable(file'), Readable(file)) => Readable(file') \in Prefixes(Readable(file))
    BY <2>2, <2>3
  <2>5. \A s, t : IsPrefix(s, t) <=> L!IsPrefix(s, t)
    BY DEF IsPrefix, L!IsPrefix
  <2>6. \A s : Prefixes(s) = L!Prefixes(s)
    BY DEF Prefixes, L!Prefixes
  <2> QED
    BY <1>2, <2>1, <2>4, <2>5, <2>6 DEF PowerLoss, Forget, L!PowerLoss
<1> QED
  BY <1>1, <1>2 DEF L!Next

\* The journal implements the abstract log, step by step: readers see exactly
\* the whole records, in the order of the appends, an append that fails costs no
\* other one, and a crash forgets nothing that was acknowledged (repairTail,
\* writeLine and appendJournal, src/server/storage/ndjson-journal.ts).
THEOREM JournalIsALog == Spec => ImplementsLog
<1>1. Inv /\ UNCHANGED vars => UNCHANGED L!vars
  BY DEF vars, disk, process, counts, history, L!vars
<1>2. Inv /\ [Next]_vars => [L!Next]_(L!vars)
  BY <1>1, AppendMaps, FilterMaps, CrashMaps DEF Next
<1> QED
  BY <1>2, InitInv, StepInv, InitMaps, PTL DEF Spec, ImplementsLog, L!Spec
----------------------------------------------------------------------------
(* The record of a batch at OpenAI, for every number of retries, runs and     *)
(* batches, with or without error files.                                      *)
Fates == {"running"} \cup Ends

\* The record on disk says where the call is, and the one in memory agrees with it.
BatchRecorded ==
  /\ remote \in Seq(Fates)
  /\ pc = "upload" => record = None
  /\ pc \in {"create", "created"} => record = 0
  /\ pc = "created" => Len(remote) > 0
  /\ pc \in {"poll", "delay", "download"} => mine = record /\ record \in 1 .. Len(remote)

\* Of the batches whose id was saved, only the one on record can still give an answer.
OthersAreOver == \A b \in kept : remote[b] \in {"running", "good"} => record = b

\* BatchOK and PaidOnceIfKept are not inductive alone: a call reads the record it saved.
BatchInv == BatchOK /\ BatchRecorded /\ OthersAreOver

\* Nothing was uploaded yet.
LEMMA BatchBegins == ASSUME BatchInit PROVE BatchInv
<1> USE BatchAssumption DEF BatchAssumption, BatchInit
<1>1. attempt \in 0 .. MaxRetries + 2 /\ runs \in 0 .. MaxRuns
  OBVIOUS
<1>2. {output, aborted, answered} \subseteq BOOLEAN
  OBVIOUS
<1>3. BatchOK
  BY <1>1, <1>2 DEF BatchOK, Created
<1>4. BatchRecorded /\ OthersAreOver
  BY DEF BatchRecorded, OthersAreOver
<1> QED
  BY <1>3, <1>4 DEF BatchInv

\* What the outside does, and what moves the call without touching a batch or a file.
LEMMA BatchStays ==
  ASSUME BatchInv, UNCHANGED <<remote, record, kept>>,
         \/ Begin \/ Look \/ Refused \/ PollAgain \/ AnswerLost
         \/ Retry \/ Stop \/ Abort \/ Crash
         \/ Download
  PROVE  BatchInv'
<1> USE BatchAssumption DEF BatchAssumption
<1>1. BatchOK'
  <2> USE DEF BatchInv, BatchOK, Created, Settle, Throws, Job, Files,
     Refusals
  <2>1. CASE Begin
    <3>1. attempt' \in 0 .. MaxRetries + 2 /\ runs' \in 0 .. MaxRuns
      BY <2>1 DEF Begin
    <3>2. {output', aborted', answered'} \subseteq BOOLEAN
      BY <2>1 DEF Begin
    <3> QED
      BY <2>1, <3>1, <3>2 DEF Begin
  <2>2. CASE Look
    BY <2>2 DEF Look
  <2>3. CASE Refused \/ PollAgain \/ AnswerLost
    BY <2>3 DEF Refused, PollAgain, AnswerLost
  <2>4. CASE Retry
    <3>1. Budget \in Nat /\ Budget <= MaxRetries + 2
      BY DEF Budget
    <3> QED
      BY <2>4, <3>1 DEF Retry
  <2>5. CASE Stop \/ Abort \/ Crash \/ Download
    BY <2>5 DEF Stop, Abort, Crash, Download
  <2> QED
    BY <2>1, <2>2, <2>3, <2>4, <2>5
<1>2. BatchRecorded'
  BY DEF BatchInv, BatchOK, BatchRecorded, Created, Begin, Look, Refused,
     PollAgain, AnswerLost, Retry,
         Stop, Abort, Crash, Download, Settle, Throws, Job, Files, Refusals, Fates
<1>3. OthersAreOver'
  BY DEF BatchInv, OthersAreOver
<1> QED
  BY <1>1, <1>2, <1>3 DEF BatchInv

\* The file is written before and after the batch is created.
LEMMA UploadHolds == ASSUME BatchInv, Upload PROVE BatchInv'
<1> USE BatchAssumption DEF BatchAssumption
<1>1. BatchOK' /\ BatchRecorded'
  BY DEF BatchInv, BatchOK, BatchRecorded, Created, Upload, Job, Refusals, Fates
<1>2. OthersAreOver'
  BY DEF BatchInv, BatchOK, BatchRecorded, OthersAreOver, Created, Upload
<1> QED
  BY <1>1, <1>2 DEF BatchInv

\* OpenAI has one batch more, and no file says so yet.
LEMMA CreateHolds == ASSUME BatchInv, Create PROVE BatchInv'
<1> USE BatchAssumption DEF BatchAssumption
<1>1. /\ remote' \in Seq(Fates) /\ Len(remote') = Len(remote) + 1
      /\ \A b \in 1 .. Len(remote) : remote'[b] = remote[b]
  BY DEF BatchInv, BatchRecorded, Create, Fates
<1>2. BatchOK' /\ BatchRecorded'
  BY <1>1 DEF BatchInv, BatchOK, BatchRecorded, Created, Create, Job, Files,
     Refusals
<1>3. OthersAreOver'
  BY <1>1 DEF BatchInv, BatchOK, BatchRecorded, OthersAreOver, Created, Create, Files
<1> QED
  BY <1>2, <1>3 DEF BatchInv

\* The new batch takes the place of the input on record.
LEMMA SaveIdHolds == ASSUME BatchInv, SaveId PROVE BatchInv'
<1> USE BatchAssumption DEF BatchAssumption
<1>1. BatchOK' /\ BatchRecorded'
  BY DEF BatchInv, BatchOK, BatchRecorded, Created, SaveId, Job, Refusals, Fates
\* An input without a batch was on record: every batch saved before is over.
<1>2. \A b \in kept : remote[b] \notin {"running", "good"}
  BY DEF BatchInv, BatchOK, BatchRecorded, OthersAreOver, Created, SaveId
<1>3. OthersAreOver'
  BY <1>2 DEF OthersAreOver, SaveId
<1> QED
  BY <1>1, <1>3 DEF BatchInv

\* The record is given up only when its batch has no answer to give.
LEMMA PollHolds == ASSUME BatchInv, Poll \/ DownloadGarbled PROVE BatchInv'
<1> USE BatchAssumption DEF BatchAssumption
<1>1. BatchOK' /\ BatchRecorded'
  BY DEF BatchInv, BatchOK, BatchRecorded, Created, Poll, DownloadGarbled,
     Job, Files, Throws, Refusals, Fates
<1>2. OthersAreOver'
  BY DEF BatchInv, BatchOK, BatchRecorded, OthersAreOver, Created, Poll,
     DownloadGarbled, Files
<1> QED
  BY <1>1, <1>2 DEF BatchInv

\* A batch that was over stays over.
LEMMA FinishHolds == ASSUME BatchInv, Finish PROVE BatchInv'
<1> USE BatchAssumption DEF BatchAssumption
<1>1. PICK b \in Created, end \in Ends :
        remote[b] = "running" /\ remote' = [remote EXCEPT ![b] = end]
  BY DEF Finish
<1>2. remote' \in Seq(Fates) /\ Len(remote') = Len(remote) /\ DOMAIN remote' = DOMAIN remote
  BY <1>1 DEF BatchInv, BatchRecorded, Created, Fates
<1>3. BatchOK' /\ BatchRecorded'
  BY <1>2 DEF BatchInv, BatchOK, BatchRecorded, Created, Finish, Job, Files,
     Refusals
<1>4. OthersAreOver'
  BY <1>1 DEF BatchInv, BatchOK, BatchRecorded, OthersAreOver, Created, Finish, Files
<1> QED
  BY <1>3, <1>4 DEF BatchInv

\* BatchInv is inductive.
LEMMA BatchKeeps ==
  ASSUME BatchInv, [BatchNext]_batchVars
  PROVE  BatchInv'
<1>1. CASE Begin \/ Look \/ Refused \/ PollAgain \/ AnswerLost
           \/ Retry \/ Stop \/ Abort \/ Crash
           \/ Download
  <2> UNCHANGED <<remote, record, kept>>
    BY <1>1 DEF Begin, Look, Refused, PollAgain, AnswerLost, Retry,
       Stop, Abort, Crash, Download, Files
  <2> QED
    BY <1>1, BatchStays
<1>2. CASE UNCHANGED batchVars
  BY <1>2 DEF batchVars, BatchInv, BatchOK, BatchRecorded, OthersAreOver, Created
<1> QED
  BY <1>1, <1>2, UploadHolds, CreateHolds, SaveIdHolds, PollHolds, FinishHolds DEF BatchNext, Call

\* Every reachable state is well typed: the call and its record refer to batches there are.
THEOREM BatchTyped ==
  BatchSpec => []BatchOK
<1>1. BatchInv => BatchOK
  BY DEF BatchInv
<1>2. BatchInit => BatchInv
  BY BatchBegins
<1>3. BatchInv /\ [BatchNext]_batchVars => BatchInv'
  BY BatchKeeps
<1> QED
  BY <1>1, <1>2, <1>3, PTL DEF BatchSpec

\* A request is answered by one batch at most, as far as their ids were saved: an id on record
\* is waited for by every later run, and given up only when its batch has failed.
THEOREM BatchPaidOnce ==
  BatchSpec => []PaidOnceIfKept
<1>1. BatchInv => PaidOnceIfKept
  BY DEF BatchInv, OthersAreOver, PaidOnceIfKept
<1>2. BatchInit => BatchInv
  BY BatchBegins
<1>3. BatchInv /\ [BatchNext]_batchVars => BatchInv'
  BY BatchKeeps
<1> QED
  BY <1>1, <1>2, <1>3, PTL DEF BatchSpec
=============================================================================
