-------------------------- MODULE Preflights_proofs --------------------------
(* Theorems about Preflights, for any number of names, chapters, workers and   *)
(* runs, with or without failing writes.                                       *)
EXTENDS Preflights, WellFoundedInduction, TLAPS

\* An abort that ends a question ends the run with it, and nothing but the next
\* run, which forgets it, leaves the idle phase: the workers of the pool that are
\* still at work when another one threw leave it alone.
CutIsOver == cut => phase = "idle"

\* The steps of the style profile and of the registry.
LEMMA QuestionsKeep ==
    ASSUME CutIsOver,
           \/ StyleKnown \/ StyleAnswered \/ StyleRetried \/ StyleMissing \/ StyleCutOff
           \/ RegistryBegin \/ NamesAnswered \/ NamesRetried \/ NamesHalved \/ NamesFailed
           \/ NamesCutOff \/ RegistryLost \/ RegistryEnd
    PROVE  CutIsOver'
<1>1. CASE StyleCutOff \/ NamesCutOff
  BY <1>1 DEF StyleCutOff, NamesCutOff, CutOff, CutIsOver
<1>2. CASE StyleRetried \/ NamesRetried
  BY <1>2 DEF StyleRetried, NamesRetried, AskAgain, CutIsOver
<1>3. CASE StyleKnown \/ StyleAnswered \/ StyleMissing
  <2>1. phase = "style" /\ UNCHANGED cut
    BY <1>3 DEF StyleKnown, StyleAnswered, StyleMissing
  <2> QED
    BY <2>1 DEF CutIsOver
<1>4. CASE RegistryBegin \/ NamesAnswered \/ NamesHalved \/ NamesFailed \/ RegistryLost \/ RegistryEnd
  <2>1. phase \in {"registry", "names"} /\ UNCHANGED cut
    BY <1>4 DEF RegistryBegin, NamesAnswered, NamesHalved, NamesFailed, RegistryLost, RegistryEnd
  <2> QED
    BY <2>1 DEF CutIsOver
<1> QED
  BY <1>1, <1>2, <1>3, <1>4

\* The steps of a worker on the cards, those of one that outlives its pool included.
LEMMA WorkerKeeps ==
    ASSUME CutIsOver, NEW w \in Pool, Worker(w)
    PROVE  CutIsOver'
<1>1. CASE Take(w) \/ CardUnwritten(w)
  <2>1. \/ UNCHANGED <<phase, cut>>
        \/ phase' = "idle"
    BY <1>1 DEF Take, CardUnwritten, Throw
  <2> QED
    BY <2>1 DEF CutIsOver
<1>2. CASE CardCutOff(w)
  BY <1>2 DEF CardCutOff, Throw, CutIsOver
<1>3. CASE CardAnswered(w) \/ CardRetried(w) \/ CardFailed(w) \/ CardWritten(w)
  <2>1. UNCHANGED phase
    BY <1>3 DEF CardAnswered, CardRetried, CardFailed, CardWritten
  <2>2. UNCHANGED cut
    BY <1>3 DEF CardAnswered, CardRetried, CardFailed, CardWritten
  <2> QED
    BY <2>1, <2>2 DEF CutIsOver
<1> QED
  BY <1>1, <1>2, <1>3 DEF Worker

\* The rest of a run, and what comes from outside it.
LEMMA RestKeeps ==
    ASSUME CutIsOver,
           Begin \/ CardsBegin \/ PoolLost \/ PoolEnd \/ Over \/ Abort \/ Crash
    PROVE  CutIsOver'
<1>1. CASE Begin \/ Over \/ Crash
  <2>1. cut' = FALSE \/ phase' = "idle"
    BY <1>1 DEF Begin, Over, Crash
  <2> QED
    BY <2>1 DEF CutIsOver
<1>2. CASE CardsBegin \/ PoolLost \/ PoolEnd
  <2>1. phase \in {"cards", "pool"} /\ UNCHANGED cut
    BY <1>2 DEF CardsBegin, PoolLost, PoolEnd
  <2> QED
    BY <2>1 DEF CutIsOver
<1>3. CASE Abort
  BY <1>3 DEF Abort, CutIsOver
<1> QED
  BY <1>1, <1>2, <1>3

\* A run whose questions an abort ended translates nothing: no handler of a failure
\* in the three advisory steps swallows the abort (book-pipeline.ts), however many
\* workers are in the middle of a question or a write when it comes.
THEOREM PausesAreNoFailures == Spec => []PauseIsNoFailure
<1>1. Init => CutIsOver
  BY DEF Init, CutIsOver
<1>2. CutIsOver /\ [Next]_vars => CutIsOver'
  <2> SUFFICES ASSUME CutIsOver, [Next]_vars PROVE CutIsOver'
    OBVIOUS
  <2>1. CASE Step
    BY <2>1, QuestionsKeep, WorkerKeeps, RestKeeps DEF Step
  <2>2. CASE Begin \/ Over \/ Abort \/ Crash
    BY <2>2, RestKeeps
  <2>3. CASE UNCHANGED vars
    BY <2>3 DEF vars, CutIsOver
  <2> QED
    BY <2>1, <2>2, <2>3 DEF Next
<1>3. CutIsOver => PauseIsNoFailure
  BY DEF CutIsOver, PauseIsNoFailure
<1> QED
  BY <1>1, <1>2, <1>3, PTL DEF Spec
-------------------------------------------------------------------------------
(* Names: what is asked about, in parts.                                       *)

\* What has at least one member among the numbers has a least one.
LEMMA Least ==
    ASSUME NEW T, T \subseteq Nat, T # {}
    PROVE  \E n \in T : \A m \in T : n <= m
<1>1. PICK x \in T : \A y \in T : ~(<<y, x>> \in OpToRel(<, Nat))
  BY NatLessThanWellFounded, WFMin
<1>2. \A y \in T : ~(y < x)
  BY <1>1 DEF OpToRel
<1> QED
  BY <1>2

\* The function that Unanswered is defined by, for the answers d, up to name m.
Opens(f, d, m) ==
    f = [n \in 0 .. m |->
           IF n = 0 THEN <<>>
           ELSE IF d[n] = None THEN Append(f[n - 1], n) ELSE f[n - 1]]

LEMMA OpensExists ==
    ASSUME NEW d, NEW k \in Nat
    PROVE  \E f : Opens(f, d, k)
<1> DEFINE T == {m \in Nat : ~ \E f : Opens(f, d, m)}
<1>1. SUFFICES ASSUME T # {} PROVE FALSE
  OBVIOUS
<1>2. PICK m \in T : \A l \in T : m <= l
  <2>1. T \subseteq Nat
    OBVIOUS
  <2> HIDE DEF T
  <2> QED
    BY <1>1, <2>1, Least
<1>3. Opens([n \in 0 .. 0 |-> <<>>], d, 0)
  BY DEF Opens
<1>4. m # 0 /\ m \in Nat /\ m - 1 \in Nat /\ m - 1 \notin T
  BY <1>2, <1>3
<1>5. PICK f : Opens(f, d, m - 1)
  BY <1>4
<1> DEFINE g == [n \in 0 .. m |->
                   IF n < m THEN f[n]
                   ELSE IF d[m] = None THEN Append(f[m - 1], m) ELSE f[m - 1]]
<1>6. \A n \in 0 .. m : g[n] = IF n = 0 THEN <<>>
                               ELSE IF d[n] = None THEN Append(g[n - 1], n) ELSE g[n - 1]
  <2> TAKE n \in 0 .. m
  <2>1. CASE n = 0
    BY <2>1, <1>4, <1>5 DEF Opens
  <2>2. CASE n \in 1 .. (m - 1)
    <3>1. g[n] = f[n] /\ g[n - 1] = f[n - 1] /\ n \in 0 .. (m - 1) /\ n # 0
      BY <2>2, <1>4
    <3> HIDE DEF g
    <3> QED
      BY <3>1, <1>5 DEF Opens
  <2>3. CASE n = m
    BY <2>3, <1>4
  <2> QED
    BY <2>1, <2>2, <2>3, <1>4
<1>7. Opens(g, d, m)
  <2>1. g = [n \in 0 .. m |-> g[n]]
    OBVIOUS
  <2> HIDE DEF g
  <2> QED
    BY <2>1, <1>6 DEF Opens
<1> QED
  BY <1>7, <1>2

Rising(s) == \A p, q \in 1 .. Len(s) : p < q => s[p] < s[q]
InSeq(n, s) == \E p \in 1 .. Len(s) : s[p] = n
\* r is the list, in order, of the names up to m that d has no answer for.
ListsOpen(r, d, m) ==
    /\ r \in Seq(1 .. m) /\ Rising(r)
    /\ \A n \in 1 .. m : InSeq(n, r) <=> d[n] = None

LEMMA OpensLists ==
    ASSUME NEW d, NEW k \in Nat, NEW f, Opens(f, d, k)
    PROVE  ListsOpen(f[k], d, k)
<1> DEFINE T == {m \in 0 .. k : ~ ListsOpen(f[m], d, m)}
<1>1. SUFFICES ASSUME T # {} PROVE FALSE
  OBVIOUS
<1>2. PICK m \in T : \A l \in T : m <= l
  <2>1. T \subseteq Nat
    OBVIOUS
  <2> HIDE DEF T
  <2> QED
    BY <1>1, <2>1, Least
<1>3. ListsOpen(f[0], d, 0)
  <2>1. f[0] = <<>>
    BY DEF Opens
  <2> QED
    BY <2>1 DEF ListsOpen, Rising, InSeq
<1>4. m \in 1 .. k /\ ~ ListsOpen(f[m], d, m)
  BY <1>2, <1>3
<1> DEFINE r == f[m - 1]
<1>5. ListsOpen(r, d, m - 1)
  BY <1>2, <1>4
<1>6. f[m] = IF d[m] = None THEN Append(r, m) ELSE r
  <2>1. m \in 0 .. k /\ m # 0
    BY <1>4
  <2> QED
    BY <2>1 DEF Opens
<1> HIDE DEF r, T
<1>7. /\ m \in Nat \ {0} /\ Len(r) \in Nat /\ r \in Seq(1 .. m)
      /\ \A p \in 1 .. Len(r) : r[p] \in 1 .. m /\ r[p] < m
  <2>1. m \in Nat \ {0} /\ r \in Seq(1 .. (m - 1))
    BY <1>4, <1>5 DEF ListsOpen
  <2>2. 1 .. (m - 1) \subseteq 1 .. m /\ \A n \in 1 .. (m - 1) : n < m
    BY <2>1
  <2>3. \A p \in 1 .. Len(r) : r[p] \in 1 .. (m - 1)
    BY <2>1
  <2>4. r \in Seq(1 .. m)
    BY <2>1, <2>2
  <2> QED
    BY <2>1, <2>2, <2>3, <2>4
<1>8. \A n \in 1 .. m : n = m \/ n \in 1 .. (m - 1)
  BY <1>7
<1>9. CASE d[m] # None
  <2>1. ~ InSeq(m, r)
    BY <1>7 DEF InSeq
  <2> QED
    BY <2>1, <1>4, <1>5, <1>6, <1>7, <1>8, <1>9 DEF ListsOpen
<1>10. CASE d[m] = None
  <2> DEFINE t == Append(r, m)
  <2>1. /\ t \in Seq(1 .. m) /\ Len(t) = Len(r) + 1 /\ t[Len(r) + 1] = m
        /\ \A p \in 1 .. Len(r) : t[p] = r[p] /\ p \in 1 .. Len(t)
        /\ \A p \in 1 .. Len(t) : p = Len(r) + 1 \/ p \in 1 .. Len(r)
    BY <1>7
  <2> HIDE DEF t
  <2>2. Rising(t)
    <3> SUFFICES ASSUME NEW p \in 1 .. Len(t), NEW q \in 1 .. Len(t), p < q
                 PROVE  t[p] < t[q]
      BY DEF Rising
    <3>1. p \in 1 .. Len(r)
      BY <2>1, <1>7
    <3>2. CASE q = Len(r) + 1
      BY <3>1, <3>2, <2>1, <1>7
    <3>3. CASE q \in 1 .. Len(r)
      BY <3>1, <3>3, <2>1, <1>5 DEF ListsOpen, Rising
    <3> QED
      BY <3>2, <3>3, <2>1
  <2>3. \A n \in 1 .. m : InSeq(n, t) <=> d[n] = None
    <3> SUFFICES ASSUME NEW n \in 1 .. m PROVE InSeq(n, t) <=> d[n] = None
      OBVIOUS
    <3>1. CASE n = m
      <4>1. Len(r) + 1 \in 1 .. Len(t)
        BY <2>1, <1>7
      <4> QED
        BY <3>1, <4>1, <2>1, <1>10 DEF InSeq
    <3>2. CASE n \in 1 .. (m - 1)
      <4>1. InSeq(n, r) <=> d[n] = None
        BY <3>2, <1>5 DEF ListsOpen
      <4>2. n # m
        BY <3>2, <1>7
      <4>3. InSeq(n, t) <=> InSeq(n, r)
        BY <4>2, <2>1 DEF InSeq
      <4> QED
        BY <4>1, <4>3
    <3> QED
      BY <3>1, <3>2, <1>8
  <2>4. f[m] = t
    BY <1>6, <1>10 DEF t
  <2> QED
    BY <2>1, <2>2, <2>3, <2>4, <1>4 DEF ListsOpen
<1> QED
  BY <1>9, <1>10

\* What is asked about is what has no answer, each name once.
LEMMA UnansweredIsOpen == ListsOpen(Unanswered, disk.names, N)
<1> DEFINE open == CHOOSE f : Opens(f, disk.names, N)
<1>1. Opens(open, disk.names, N)
  BY PreflightsAssumption, OpensExists DEF PreflightsAssumption
<1>2. Unanswered = open[N]
  BY DEF Unanswered, Opens
<1> HIDE DEF open
<1> QED
  BY <1>1, <1>2, OpensLists, PreflightsAssumption DEF PreflightsAssumption

\* Quotients.
LEMMA Quotient ==
    ASSUME NEW a \in Nat, NEW c \in Nat \ {0}
    PROVE  /\ a \div c \in Nat /\ (a \div c) * c <= a
           /\ \A q \in Nat : q * c <= a => q <= a \div c
           /\ a < (a \div c) * c + c
OBVIOUS

Parts == [names : Seq(Names), depth : Nat]
\* No name is in two parts, or twice in one.
Apart(s) ==
    /\ \A i \in 1 .. Len(s) : Rising(s[i].names)
    /\ \A i, j \in 1 .. Len(s) : i # j => Asked(s[i]) \cap Asked(s[j]) = {}
Covered(s) == UNION {Asked(s[i]) : i \in 1 .. Len(s)}
\* What a piece of a sequence has.
LEMMA Piece ==
    ASSUME NEW S, NEW s \in Seq(S), NEW a \in Nat \ {0}, NEW b \in Nat, b <= Len(s)
    PROVE  /\ SubSeq(s, a, b) \in Seq(S)
           /\ \A p \in 1 .. Len(SubSeq(s, a, b)) :
                SubSeq(s, a, b)[p] = s[a + p - 1] /\ a + p - 1 \in a .. b
           /\ \A p \in a .. b :
                p - a + 1 \in 1 .. Len(SubSeq(s, a, b)) /\ SubSeq(s, a, b)[p - a + 1] = s[p]
<1>1. CASE a <= b
  <2>1. /\ Len(SubSeq(s, a, b)) = b - a + 1
        /\ \A p \in 1 .. b - a + 1 : SubSeq(s, a, b)[p] = s[a + p - 1] /\ a + p - 1 \in 1 .. Len(s)
    BY <1>1
  <2>2. SubSeq(s, a, b) \in Seq(S)
    BY <1>1
  <2> QED
    BY <2>1, <2>2, <1>1
<1>2. CASE ~(a <= b)
  BY <1>2
<1> QED
  BY <1>1, <1>2

\* A chunk holds the names at the places a to b.
Holds(part, s, a, b) ==
    /\ part \in Parts /\ (Rising(s) => Rising(part.names))
    /\ \A n : n \in Asked(part) <=> \E p \in a .. b : s[p] = n

LEMMA PieceHolds ==
    ASSUME NEW s \in Seq(Names), NEW a \in Nat \ {0}, NEW b \in Nat, b <= Len(s), NEW d \in Nat
    PROVE  Holds([names |-> SubSeq(s, a, b), depth |-> d], s, a, b)
<1> DEFINE r == SubSeq(s, a, b)
           part == [names |-> r, depth |-> d]
<1>1. /\ r \in Seq(Names)
      /\ \A p \in 1 .. Len(r) : r[p] = s[a + p - 1] /\ a + p - 1 \in a .. b
      /\ \A p \in a .. b : p - a + 1 \in 1 .. Len(r) /\ r[p - a + 1] = s[p]
  BY Piece
<1> HIDE DEF r
<1>2. part \in Parts /\ part.names = r
  BY <1>1 DEF Parts
<1>3. \A n : n \in Asked(part) <=> \E p \in 1 .. Len(r) : r[p] = n
  <2>1. DOMAIN r = 1 .. Len(r)
    BY <1>1
  <2> QED
    BY <2>1, <1>2 DEF Asked
<1>4. \A n : n \in Asked(part) <=> \E p \in a .. b : s[p] = n
  BY <1>1, <1>3
<1>5. ASSUME Rising(s) PROVE Rising(r)
  <2> SUFFICES ASSUME NEW p \in 1 .. Len(r), NEW q \in 1 .. Len(r), p < q PROVE r[p] < r[q]
    BY DEF Rising
  <2>1. /\ a + p - 1 \in 1 .. Len(s) /\ a + q - 1 \in 1 .. Len(s) /\ a + p - 1 < a + q - 1
        /\ r[p] = s[a + p - 1] /\ r[q] = s[a + q - 1]
    <3>1. a + p - 1 \in a .. b /\ a + q - 1 \in a .. b
      BY <1>1
    <3>2. a .. b \subseteq 1 .. Len(s) /\ Len(s) \in Nat /\ Len(r) \in Nat
      BY <1>1
    <3> QED
      BY <3>1, <3>2, <1>1
  <2> QED
    BY <2>1, <1>5 DEF Rising
<1>6. Holds(part, s, a, b)
  BY <1>2, <1>4, <1>5 DEF Holds
<1> QED
  BY <1>6 DEF r

\* The place where chunk i ends.
End(s, i) == Min({i * ChunkSize, Len(s)})

LEMMA ChunksHold ==
    ASSUME NEW s \in Seq(Names), NEW i \in 1 .. Len(Chunks(s))
    PROVE  /\ Holds(Chunks(s)[i], s, (i - 1) * ChunkSize + 1, End(s, i))
           /\ End(s, i) \in Nat /\ End(s, i) <= Len(s) /\ End(s, i) <= i * ChunkSize
           /\ End(s, i) = Len(s) \/ End(s, i) = i * ChunkSize
<1>0. ChunkSize \in Nat \ {0}
  BY PreflightsAssumption DEF PreflightsAssumption
<1>1. Len(s) \in Nat /\ (Len(s) + ChunkSize - 1) \div ChunkSize \in Nat
  BY <1>0, Quotient
<1>2. /\ i \in 1 .. (Len(s) + ChunkSize - 1) \div ChunkSize
      /\ Chunks(s)[i] = [names |-> SubSeq(s, (i - 1) * ChunkSize + 1, End(s, i)), depth |-> 0]
  BY <1>1 DEF Chunks, End
<1>3. i * ChunkSize \in Nat /\ (i - 1) * ChunkSize + 1 \in Nat \ {0}
  BY <1>0, <1>1, <1>2
<1>4. /\ End(s, i) \in {i * ChunkSize, Len(s)}
      /\ End(s, i) <= i * ChunkSize /\ End(s, i) <= Len(s)
  BY <1>1, <1>3 DEF End, Min
<1>5. Holds(Chunks(s)[i], s, (i - 1) * ChunkSize + 1, End(s, i))
  BY <1>1, <1>2, <1>3, <1>4, PieceHolds
<1> QED
  BY <1>1, <1>3, <1>4, <1>5

\* The chunks of a list hold each of its names, and none of them twice.
LEMMA ChunksCover ==
    ASSUME NEW s \in Seq(Names), Rising(s)
    PROVE  /\ Chunks(s) \in Seq(Parts) /\ Apart(Chunks(s))
           /\ \A n : n \in Covered(Chunks(s)) <=> InSeq(n, s)
<1> DEFINE c == Chunks(s)
<1>0. ChunkSize \in Nat \ {0} /\ Len(s) \in Nat
  BY PreflightsAssumption DEF PreflightsAssumption
<1>1. /\ Len(c) = (Len(s) + ChunkSize - 1) \div ChunkSize /\ Len(c) \in Nat
      /\ DOMAIN c = 1 .. Len(c) /\ c = [i \in 1 .. Len(c) |-> c[i]]
  BY <1>0, Quotient DEF Chunks
<1>2. \A i \in 1 .. Len(c) :
        /\ Holds(c[i], s, (i - 1) * ChunkSize + 1, End(s, i))
        /\ End(s, i) \in Nat /\ End(s, i) <= Len(s) /\ End(s, i) <= i * ChunkSize
        /\ End(s, i) = Len(s) \/ End(s, i) = i * ChunkSize
  BY ChunksHold
<1> HIDE DEF c
<1>3. c \in Seq(Parts)
  BY <1>1, <1>2 DEF Holds
<1>4. \A p, q \in 1 .. Len(s) : p # q => s[p] # s[q]
  <2>1. \A p \in 1 .. Len(s) : s[p] \in Nat
    BY PreflightsAssumption DEF PreflightsAssumption, Names
  <2> QED
    BY <2>1, <1>0 DEF Rising
<1>5. Apart(c)
  <2>1. ASSUME NEW i \in 1 .. Len(c), NEW j \in 1 .. Len(c), i < j
        PROVE  Asked(c[i]) \cap Asked(c[j]) = {}
    <3> SUFFICES ASSUME NEW n \in Asked(c[i]), n \in Asked(c[j]) PROVE FALSE
      OBVIOUS
    <3>1. PICK p \in (i - 1) * ChunkSize + 1 .. End(s, i) : s[p] = n
      BY <1>2 DEF Holds
    <3>2. PICK q \in (j - 1) * ChunkSize + 1 .. End(s, j) : s[q] = n
      BY <1>2 DEF Holds
    <3>3. i * ChunkSize \in Nat /\ (j - 1) * ChunkSize \in Nat /\ (i - 1) * ChunkSize \in Nat
      <4>1. i \in Nat /\ j - 1 \in Nat /\ i - 1 \in Nat
        BY <1>1, <2>1
      <4> QED
        BY <4>1, <1>0
    <3>4. i * ChunkSize <= (j - 1) * ChunkSize
      <4>1. i <= j - 1 /\ i \in Nat /\ j - 1 \in Nat
        BY <2>1, <1>1
      <4> QED
        BY <4>1, <1>0
    <3>5. p \in 1 .. Len(s) /\ q \in 1 .. Len(s) /\ p < q
      <4>1. /\ End(s, i) \in Nat /\ End(s, i) <= Len(s) /\ End(s, i) <= i * ChunkSize
            /\ End(s, j) \in Nat /\ End(s, j) <= Len(s)
        BY <1>2
      <4> HIDE DEF End
      <4>2. p <= i * ChunkSize /\ q >= (j - 1) * ChunkSize + 1 /\ p \in Nat /\ q \in Nat
        BY <3>1, <3>2, <3>3, <4>1
      <4>3. p >= 1 /\ p <= Len(s) /\ q >= 1 /\ q <= Len(s)
        BY <3>1, <3>2, <3>3, <4>1, <1>0
      <4> QED
        BY <4>2, <4>3, <3>3, <3>4, <1>0
    <3> QED
      BY <3>1, <3>2, <3>5, <1>4
  <2>2. \A i, j \in 1 .. Len(c) : i # j => i < j \/ j < i
    BY <1>1
  <2>3. \A i, j \in 1 .. Len(c) : i # j => Asked(c[i]) \cap Asked(c[j]) = {}
    BY <2>1, <2>2
  <2> QED
    BY <2>3, <1>2 DEF Apart, Holds
<1>6. ASSUME NEW n, InSeq(n, s)
      PROVE  n \in Covered(c)
  <2>1. PICK p \in 1 .. Len(s) : s[p] = n
    BY <1>6 DEF InSeq
  <2> DEFINE k == (p - 1) \div ChunkSize
  <2>2. k \in Nat /\ k * ChunkSize <= p - 1 /\ p - 1 < k * ChunkSize + ChunkSize
    BY <1>0, Quotient
  <2> HIDE DEF k
  <2>3. k * ChunkSize \in Nat /\ (k + 1) * ChunkSize = k * ChunkSize + ChunkSize
    BY <2>2, <1>0
  <2>4. k + 1 \in 1 .. Len(c)
    <3>1. (k + 1) * ChunkSize <= Len(s) + ChunkSize - 1 /\ Len(s) + ChunkSize - 1 \in Nat
      BY <2>2, <2>3, <1>0
    <3>2. k + 1 <= Len(c)
      <4>1. \A q \in Nat : q * ChunkSize <= Len(s) + ChunkSize - 1 => q <= Len(c)
        BY <3>1, <1>0, <1>1, Quotient
      <4> QED
        BY <4>1, <3>1, <2>2
    <3> QED
      BY <3>2, <2>2, <1>1
  <2>5. PICK i \in 1 .. Len(c) : i = k + 1
    BY <2>4
  <2>6. /\ Holds(c[i], s, (i - 1) * ChunkSize + 1, End(s, i))
        /\ End(s, i) \in Nat /\ (End(s, i) = Len(s) \/ End(s, i) = i * ChunkSize)
    BY <1>2
  <2>7. p \in (i - 1) * ChunkSize + 1 .. End(s, i)
    <3>1. i - 1 = k /\ i * ChunkSize = k * ChunkSize + ChunkSize
      BY <2>2, <2>3, <2>5
    <3>2. (i - 1) * ChunkSize = k * ChunkSize
      BY <3>1
    <3> HIDE DEF End
    <3> QED
      BY <3>1, <3>2, <2>2, <2>3, <2>6, <1>0
  <2> QED
    BY <2>1, <2>6, <2>7 DEF Covered, Holds
<1>7. ASSUME NEW n, n \in Covered(c)
      PROVE  InSeq(n, s)
  <2>1. PICK i \in 1 .. Len(c) : n \in Asked(c[i])
    BY <1>7 DEF Covered
  <2>2. PICK p \in (i - 1) * ChunkSize + 1 .. End(s, i) : s[p] = n
    BY <1>2, <2>1 DEF Holds
  <2>3. (i - 1) * ChunkSize \in Nat
    <3>1. i - 1 \in Nat
      BY <1>1
    <3> QED
      BY <3>1, <1>0
  <2>4. p \in 1 .. Len(s)
    <3>1. End(s, i) \in Nat /\ End(s, i) <= Len(s)
      BY <1>2
    <3> QED
      BY <3>1, <2>2, <2>3, <1>0
  <2> QED
    BY <2>2, <2>4 DEF InSeq
<1> QED
  BY <1>3, <1>5, <1>6, <1>7 DEF c
\* The parts after the first one.
LEMMA RestOfParts ==
    ASSUME NEW s \in Seq(Parts), s # <<>>, Apart(s)
    PROVE  /\ Head(s) \in Parts /\ Tail(s) \in Seq(Parts)
           /\ Apart(Tail(s)) /\ Rising(Head(s).names)
           /\ Covered(s) = Asked(Head(s)) \cup Covered(Tail(s))
           /\ Asked(Head(s)) \cap Covered(Tail(s)) = {}
<1>1. /\ Head(s) \in Parts /\ Tail(s) \in Seq(Parts) /\ Head(s) = s[1] /\ 1 \in 1 .. Len(s)
      /\ \A i \in 1 .. Len(Tail(s)) : i + 1 \in 1 .. Len(s) /\ i + 1 # 1 /\ Tail(s)[i] = s[i + 1]
      /\ \A i \in 1 .. Len(s) : i = 1 \/ (i - 1 \in 1 .. Len(Tail(s)) /\ s[i] = Tail(s)[i - 1])
  OBVIOUS
<1> DEFINE t == Tail(s)
<1>2. t = Tail(s)
  OBVIOUS
<1> HIDE DEF t
<1>3. \A i, j \in 1 .. Len(t) : i # j => i + 1 # j + 1
  BY <1>1, <1>2
<1>4. Apart(t)
  <2>1. \A i \in 1 .. Len(t) : Rising(t[i].names)
    BY <1>1, <1>2 DEF Apart
  <2>2. ASSUME NEW i \in 1 .. Len(t), NEW j \in 1 .. Len(t), i # j
        PROVE  Asked(t[i]) \cap Asked(t[j]) = {}
    <3>1. /\ i + 1 \in 1 .. Len(s) /\ t[i] = s[i + 1]
          /\ j + 1 \in 1 .. Len(s) /\ t[j] = s[j + 1] /\ i + 1 # j + 1
      BY <1>1, <1>2, <1>3, <2>2
    <3> QED
      BY <3>1 DEF Apart
  <2> QED
    BY <2>1, <2>2 DEF Apart
<1>5. ASSUME NEW n PROVE n \in Covered(s) <=> n \in Asked(Head(s)) \/ n \in Covered(t)
  <2>1. n \in Covered(s) => n \in Asked(Head(s)) \/ n \in Covered(t)
    BY <1>1, <1>2 DEF Covered
  <2>2. n \in Asked(Head(s)) => n \in Covered(s)
    BY <1>1 DEF Covered
  <2>3. n \in Covered(t) => n \in Covered(s)
    BY <1>1, <1>2 DEF Covered
  <2> QED
    BY <2>1, <2>2, <2>3
<1>6. Asked(Head(s)) \cap Covered(t) = {}
  <2> SUFFICES ASSUME NEW n \in Asked(Head(s)), n \in Covered(t) PROVE FALSE
    OBVIOUS
  <2>1. PICK i \in 1 .. Len(t) : n \in Asked(t[i])
    BY DEF Covered
  <2> QED
    BY <2>1, <1>1, <1>2 DEF Apart
<1>7. Rising(Head(s).names)
  BY <1>1 DEF Apart
<1> QED
  BY <1>1, <1>2, <1>4, <1>5, <1>6, <1>7

\* The two halves of a part hold its names.
LEMMA HalvesHold ==
    ASSUME NEW part \in Parts, Rising(part.names)
    PROVE  /\ Halves(part) \in Seq(Parts) /\ Len(Halves(part)) = 2
           /\ Rising(Halves(part)[1].names) /\ Rising(Halves(part)[2].names)
           /\ Asked(Halves(part)[1]) \cap Asked(Halves(part)[2]) = {}
           /\ Asked(part) = Asked(Halves(part)[1]) \cup Asked(Halves(part)[2])
<1> DEFINE s == part.names
           m == (Len(s) + 1) \div 2
           a == [names |-> SubSeq(s, 1, m), depth |-> part.depth + 1]
           b == [names |-> SubSeq(s, m + 1, Len(s)), depth |-> part.depth + 1]
<1>1. s \in Seq(Names) /\ part.depth \in Nat /\ part.depth + 1 \in Nat
  BY DEF Parts
<1>2. m \in Nat /\ m <= Len(s) /\ Len(s) \in Nat
  <2>1. Len(s) \in Nat
    BY <1>1
  <2>2. \A l \in Nat : (l + 1) \div 2 \in Nat /\ (l + 1) \div 2 <= l
    OBVIOUS
  <2> QED
    BY <2>1, <2>2
<1> HIDE DEF m, s
<1>3. Holds(a, s, 1, m)
  BY <1>1, <1>2, PieceHolds
<1>4. Holds(b, s, m + 1, Len(s))
  <2>1. m + 1 \in Nat \ {0} /\ Len(s) <= Len(s)
    BY <1>2
  <2> QED
    BY <2>1, <1>1, <1>2, PieceHolds
<1>5. Halves(part) = <<a, b>>
  BY DEF Halves, s, m
<1>6. \A n : n \in Asked(part) <=> \E p \in 1 .. Len(s) : s[p] = n
  <2>1. DOMAIN s = 1 .. Len(s)
    BY <1>1
  <2> QED
    BY <2>1 DEF Asked, s
<1>7. \A p, q \in 1 .. Len(s) : p # q => s[p] # s[q]
  <2>1. \A p \in 1 .. Len(s) : s[p] \in Nat
    BY <1>1, PreflightsAssumption DEF PreflightsAssumption, Names
  <2> QED
    BY <2>1, <1>2 DEF Rising, s
<1>a. Rising(s)
  BY DEF s
<1> HIDE DEF a, b
<1>8. Asked(part) = Asked(a) \cup Asked(b)
  <2>1. \A p \in 1 .. Len(s) : p \in 1 .. m \/ p \in m + 1 .. Len(s)
    BY <1>2
  <2>2. 1 .. m \subseteq 1 .. Len(s) /\ m + 1 .. Len(s) \subseteq 1 .. Len(s)
    BY <1>2
  <2>3. \A n : n \in Asked(part) <=> n \in Asked(a) \/ n \in Asked(b)
    BY <2>1, <2>2, <1>3, <1>4, <1>6 DEF Holds
  <2> QED
    BY <2>3
<1>9. Asked(a) \cap Asked(b) = {}
  <2>1. \A p \in 1 .. m, q \in m + 1 .. Len(s) : p \in 1 .. Len(s) /\ q \in 1 .. Len(s) /\ p # q
    BY <1>2
  <2> QED
    BY <2>1, <1>3, <1>4, <1>7 DEF Holds
<1>10. a \in Parts /\ b \in Parts /\ Rising(a.names) /\ Rising(b.names)
  BY <1>3, <1>4, <1>a DEF Holds
<1> QED
  BY <1>5, <1>8, <1>9, <1>10

LEMMA Joined ==
    ASSUME NEW S, NEW s \in Seq(S), NEW t \in Seq(S)
    PROVE  /\ s \o t \in Seq(S) /\ Len(s \o t) = Len(s) + Len(t)
           /\ Len(s) \in Nat /\ Len(t) \in Nat
           /\ \A i \in 1 .. Len(s) : (s \o t)[i] = s[i]
           /\ \A i \in 1 .. Len(s) + Len(t) : i > Len(s) => (s \o t)[i] = t[i - Len(s)]
OBVIOUS

LEMMA HalvedParts ==
    ASSUME NEW s \in Seq(Parts), s # <<>>, Apart(s)
    PROVE  /\ Halves(Head(s)) \o Tail(s) \in Seq(Parts)
           /\ Apart(Halves(Head(s)) \o Tail(s))
           /\ Covered(Halves(Head(s)) \o Tail(s)) = Covered(s)
<1> DEFINE h == Halves(Head(s))
           t == Tail(s)
           u == h \o t
<1>1. /\ h \in Seq(Parts) /\ Len(h) = 2 /\ Rising(h[1].names) /\ Rising(h[2].names)
      /\ Asked(h[1]) \cap Asked(h[2]) = {}
      /\ Asked(Head(s)) = Asked(h[1]) \cup Asked(h[2])
  BY RestOfParts, HalvesHold
<1>2. /\ t \in Seq(Parts) /\ Apart(t)
      /\ Covered(s) = Asked(Head(s)) \cup Covered(t) /\ Asked(Head(s)) \cap Covered(t) = {}
  BY RestOfParts
<1> HIDE DEF h, t
<1>3. /\ u \in Seq(Parts) /\ u[1] = h[1] /\ u[2] = h[2] /\ 1 \in 1 .. Len(u) /\ 2 \in 1 .. Len(u)
      /\ \A i \in 1 .. Len(u) : i = 1 \/ i = 2 \/ (i - 2 \in 1 .. Len(t) /\ u[i] = t[i - 2])
      /\ \A i \in 1 .. Len(t) : i + 2 \in 1 .. Len(u) /\ u[i + 2] = t[i]
      /\ Len(u) \in Nat
  <2>0. h \in Seq(Parts) /\ t \in Seq(Parts) /\ Len(h) = 2
    BY <1>1, <1>2
  <2>1. /\ u \in Seq(Parts) /\ Len(u) = Len(h) + Len(t) /\ Len(t) \in Nat
        /\ \A i \in 1 .. Len(h) : u[i] = h[i]
        /\ \A i \in 1 .. Len(h) + Len(t) : i > Len(h) => u[i] = t[i - Len(h)]
    BY <2>0, Joined
  <2> HIDE DEF u
  <2> QED
    BY <2>0, <2>1
<1> HIDE DEF u
<1>4. \A i \in 1 .. Len(t) : Asked(t[i]) \subseteq Covered(t)
  BY DEF Covered
<1>5. Apart(u)
  <2>1. \A i \in 1 .. Len(u) : Rising(u[i].names)
    BY <1>1, <1>2, <1>3 DEF Apart
  <2>2. \A i, j \in 1 .. Len(u) : i # j => Asked(u[i]) \cap Asked(u[j]) = {}
    <3> SUFFICES ASSUME NEW i \in 1 .. Len(u), NEW j \in 1 .. Len(u), i # j
                 PROVE  Asked(u[i]) \cap Asked(u[j]) = {}
      OBVIOUS
    <3>1. CASE i \in {1, 2} /\ j \in {1, 2}
      BY <3>1, <1>1, <1>3
    <3>2. CASE i \in {1, 2} /\ j \notin {1, 2}
      BY <3>2, <1>1, <1>2, <1>3, <1>4
    <3>3. CASE i \notin {1, 2} /\ j \in {1, 2}
      BY <3>3, <1>1, <1>2, <1>3, <1>4
    <3>4. CASE i \notin {1, 2} /\ j \notin {1, 2}
      <4>1. i - 2 # j - 2
        BY <1>3
      <4> QED
        BY <3>4, <4>1, <1>2, <1>3 DEF Apart
    <3> QED
      BY <3>1, <3>2, <3>3, <3>4
  <2> QED
    BY <2>1, <2>2 DEF Apart
<1>6. ASSUME NEW n PROVE n \in Covered(u) <=> n \in Covered(s)
  <2>1. n \in Covered(u) => n \in Asked(h[1]) \/ n \in Asked(h[2]) \/ n \in Covered(t)
    BY <1>3 DEF Covered
  <2>2. n \in Asked(h[1]) \/ n \in Asked(h[2]) => n \in Covered(u)
    BY <1>3 DEF Covered
  <2>3. n \in Covered(t) => n \in Covered(u)
    BY <1>3 DEF Covered
  <2> QED
    BY <2>1, <2>2, <2>3, <1>1, <1>2
<1> QED
  BY <1>3, <1>5, <1>6 DEF u, h, t

-------------------------------------------------------------------------------
(* What every variable holds.                                                  *)

Caches == [style : Answers, names : [Names -> Answers], cards : [Cards -> Answers]]
Jobs == [at : {"next", "asking", "writing", "done"}, card : Cards \cup {None},
         tries : Nat, write : [Cards -> Answers]]
Reports == [style : BOOLEAN, names : SUBSET Names, registry : BOOLEAN,
            cards : SUBSET Cards, pool : BOOLEAN]
Shapes ==
    /\ run \in 0 .. MaxRuns
    /\ mem \in Caches /\ disk \in Caches /\ context \in Caches /\ used \in Caches
    /\ todo \in Seq(Parts) /\ queue \subseteq Cards
    /\ work \in [Pool -> Jobs] /\ report \in Reports
    /\ \A w \in Pool : work[w].at \in {"asking", "writing"} => work[w].card \in Cards

LEMMA Blanks ==
    /\ Blank \in Caches /\ Silent \in Reports /\ Done \in Jobs /\ NextOne \in Jobs
    /\ Done.at = "done" /\ NextOne.at = "next"
    /\ Blank.style = None /\ Blank.names \in [Names -> Answers] /\ Blank.cards \in [Cards -> Answers]
    /\ <<>> \in Seq(Parts)
BY DEF Blank, Caches, Silent, Reports, Done, Jobs, NextOne, Answers
\* A cache with one of its fields changed.
LEMMA Changed ==
    ASSUME NEW c \in Caches
    PROVE  /\ c.style \in Answers /\ c.names \in [Names -> Answers] /\ c.cards \in [Cards -> Answers]
           /\ \A a \in Answers : /\ [c EXCEPT !.style = a] \in Caches
                                 /\ [c EXCEPT !.style = a].style = a
                                 /\ [c EXCEPT !.style = a].names = c.names
                                 /\ [c EXCEPT !.style = a].cards = c.cards
           /\ \A f \in [Names -> Answers] : /\ [c EXCEPT !.names = f] \in Caches
                                            /\ [c EXCEPT !.names = f].style = c.style
                                            /\ [c EXCEPT !.names = f].names = f
                                            /\ [c EXCEPT !.names = f].cards = c.cards
           /\ \A f \in [Cards -> Answers] : /\ [c EXCEPT !.cards = f] \in Caches
                                            /\ [c EXCEPT !.cards = f].style = c.style
                                            /\ [c EXCEPT !.cards = f].names = c.names
                                            /\ [c EXCEPT !.cards = f].cards = f
BY DEF Caches

\* An answer of this run is an answer.
LEMMA RunAnswers == run \in 0 .. MaxRuns => run \in Answers /\ run # None /\ 0 \in Answers /\ 0 # None
BY PreflightsAssumption DEF PreflightsAssumption, Answers

\* What the run has to do without, and was it said?
Running == {"registry", "names", "cards", "pool"}
StyleTold ==
    /\ phase \in Running => (mem.style = None => report.style)
    /\ phase = "translate" => (context.style = None => report.style)
NamesTold ==
    /\ phase = "names" =>
         \A n \in Names : mem.names[n] = None => n \in report.names \/ n \in Covered(todo)
    /\ phase \in {"cards", "pool"} =>
         \A n \in Names : mem.names[n] = None => n \in report.names \/ report.registry
    /\ phase = "translate" =>
         \A n \in Names : context.names[n] = None => n \in report.names \/ report.registry
Asks(c) == \E w \in Pool : work[w].at = "asking" /\ work[w].card = c
CardsTold ==
    /\ phase = "pool" =>
         \A c \in Cards : mem.cards[c] = None => c \in report.cards \/ c \in queue \/ Asks(c)
    /\ phase = "pool" /\ queue # {} => \A w \in Pool : Busy(w)
    /\ phase = "translate" =>
         \A c \in Cards : context.cards[c] = None => c \in report.cards \/ report.pool

\* As long as no write failed, the files have what the last translation was given, and
\* nothing that they have is asked for.
Kept ==
    ~faulted =>
      /\ used.style # None => disk.style = used.style
      /\ \A n \in Names : used.names[n] # None => disk.names[n] = used.names[n]
      /\ phase \in Running \cup {"style"} => mem.style = disk.style
      /\ phase \in {"names", "cards", "pool"} => mem.names = disk.names
      /\ phase = "translate" => context.style = disk.style /\ context.names = disk.names
      /\ phase = "names" => \A n \in Covered(todo) : disk.names[n] = None
Inv == Shapes /\ Apart(todo) /\ StyleTold /\ NamesTold /\ CardsTold /\ Kept

LEMMA NoParts == Apart(<<>>) /\ Covered(<<>>) = {}
BY DEF Apart, Covered

LEMMA InitInv == Init => Inv
<1> SUFFICES ASSUME Init PROVE Inv
  OBVIOUS
<1>1. Shapes
  <2>1. 0 \in 0 .. MaxRuns
    BY PreflightsAssumption DEF PreflightsAssumption
  <2>2. work \in [Pool -> Jobs] /\ \A w \in Pool : work[w].at = "done"
    BY Blanks DEF Init
  <2> QED
    BY <2>1, <2>2, Blanks DEF Init, Shapes
<1>2. Apart(todo)
  BY NoParts DEF Init
<1>3. StyleTold /\ NamesTold /\ CardsTold
  BY DEF Init, StyleTold, NamesTold, CardsTold, Running
<1>4. Kept
  BY DEF Init, Kept, Running, Blank
<1> QED
  BY <1>1, <1>2, <1>3, <1>4 DEF Inv

\* A run that is over has nothing to tell.
LEMMA IdleHolds ==
    ASSUME Inv, Shapes', Apart(todo)', phase' = "idle", UNCHANGED <<disk, used>>, faulted => faulted'
    PROVE  Inv'
<1>1. StyleTold' /\ NamesTold' /\ CardsTold'
  BY DEF StyleTold, NamesTold, CardsTold, Running
<1>2. Kept'
  BY DEF Inv, Kept, Running
<1> QED
  BY <1>1, <1>2 DEF Inv

LEMMA CutOffHolds ==
    ASSUME Inv, CutOff
    PROVE  Inv'
<1>1. /\ phase' = "idle" /\ mem' = Blank /\ todo' = <<>> /\ report' = Silent
      /\ UNCHANGED <<disk, queue, work, run, aborted, context, used, faulted>>
  BY DEF CutOff, Pooled, Asking
<1>2. Shapes'
  BY <1>1, Blanks DEF Inv, Shapes
<1> QED
  BY <1>1, <1>2, NoParts, IdleHolds

\* A question that is asked again, and an abort, change nothing that counts.
LEMMA SameHolds ==
    ASSUME Inv, UNCHANGED <<phase, run, todo, mem, disk, queue, work>>,
           UNCHANGED <<context, report, used, faulted>>
    PROVE  Inv'
<1>1. Shapes' /\ Apart(todo)'
  BY DEF Inv, Shapes, Apart
<1>2. StyleTold' /\ NamesTold'
  BY DEF Inv, StyleTold, NamesTold
<1>3. CardsTold'
  BY DEF Inv, CardsTold, Asks, Busy
<1>4. Kept'
  BY DEF Inv, Kept
<1> QED
  BY <1>1, <1>2, <1>3, <1>4 DEF Inv

\* The style of the book: it is known, got, or reported.
LEMMA StyleHolds ==
    ASSUME Inv, StyleKnown \/ StyleAnswered \/ StyleMissing
    PROVE  Inv'
<1>0. /\ phase = "style" /\ phase' = "registry"
      /\ UNCHANGED <<todo, queue, work, run, context, used>>
  BY DEF StyleKnown, StyleAnswered, StyleMissing, Pooled, Asking
<1>1. /\ mem \in Caches /\ disk \in Caches /\ report \in Reports /\ run \in Answers /\ run # None
      /\ (~faulted => mem.style = disk.style)
  BY RunAnswers, <1>0 DEF Inv, Shapes, Kept
<1>2. ASSUME mem' \in Caches, disk' \in Caches, report' \in Reports,
             mem'.style = None => report'.style, faulted => faulted',
             ~faulted' => /\ mem'.style = disk'.style /\ disk'.names = disk.names
                          /\ disk.style # None => disk'.style = disk.style
      PROVE  Inv'
  <2>1. Shapes' /\ Apart(todo)'
    BY <1>0, <1>2 DEF Inv, Shapes, Apart
  <2>2. StyleTold' /\ NamesTold' /\ CardsTold'
    BY <1>0, <1>2 DEF StyleTold, NamesTold, CardsTold
  <2>3. Kept'
    BY <1>0, <1>2 DEF Inv, Kept
  <2> QED
    BY <2>1, <2>2, <2>3 DEF Inv
<1>3. CASE StyleKnown
  <2>1. mem.style # None /\ UNCHANGED <<mem, disk, report, faulted>>
    BY <1>3 DEF StyleKnown, Asking
  <2> QED
    BY <2>1, <1>1, <1>2
<1>4. CASE StyleAnswered
  <2>1. /\ mem.style = None /\ mem' = [mem EXCEPT !.style = run]
        /\ disk' = [disk EXCEPT !.style = run] /\ UNCHANGED <<report, faulted>>
    BY <1>4 DEF StyleAnswered, Asking
  <2>2. /\ mem' \in Caches /\ disk' \in Caches /\ mem'.style = run /\ disk'.style = run
        /\ disk'.names = disk.names
    BY <2>1, <1>1, Changed
  <2> QED
    BY <2>1, <2>2, <1>1, <1>2
<1>5. CASE StyleMissing
  <2>1. /\ report' = [report EXCEPT !.style = TRUE] /\ mem' = [mem EXCEPT !.style = None]
        /\ (mem.style = None /\ faulted' = faulted) \/ faulted' = TRUE
        /\ UNCHANGED disk
    BY <1>5 DEF StyleMissing
  <2>2. report' \in Reports /\ report'.style
    BY <2>1, <1>1 DEF Reports
  <2>3. None \in Answers
    BY DEF Answers
  <2>4. mem' \in Caches /\ mem'.style = None
    BY <2>1, <2>3, <1>1 DEF Caches
  <2> QED
    BY <2>1, <2>2, <2>4, <1>1, <1>2
<1> QED
  BY <1>3, <1>4, <1>5
\* What a step of the registry has to show: the parts still to be asked cover what has no
\* answer and was not reported, and as long as no write failed they have no answer.
LEMMA NamesStep ==
    ASSUME Inv, phase = "names", phase' = "names",
           UNCHANGED <<run, queue, work, context, used>>,
           mem' \in Caches, disk' \in Caches, todo' \in Seq(Parts), report' \in Reports,
           Apart(todo)', mem'.style = mem.style, disk'.style = disk.style,
           report'.style = report.style, faulted => faulted',
           \A n \in Names : mem'.names[n] = None => n \in report'.names \/ n \in Covered(todo'),
           ~faulted' => /\ mem'.names = disk'.names
                        /\ \A n \in Names : disk.names[n] # None => disk'.names[n] = disk.names[n]
                        /\ \A n \in Covered(todo') : disk'.names[n] = None
    PROVE  Inv'
<1>1. Shapes'
  BY DEF Inv, Shapes
<1>2. StyleTold' /\ NamesTold' /\ CardsTold'
  BY DEF Inv, StyleTold, NamesTold, CardsTold, Running
<1>3. Kept'
  BY DEF Inv, Shapes, Caches, Kept, Running
<1> QED
  BY <1>1, <1>2, <1>3 DEF Inv

\* The parts of a registry under way.
LEMMA PartsAtHand ==
    ASSUME Inv, todo # <<>>
    PROVE  /\ Tail(todo) \in Seq(Parts) /\ Apart(Tail(todo))
           /\ Covered(todo) = Asked(Head(todo)) \cup Covered(Tail(todo))
           /\ Asked(Head(todo)) \cap Covered(Tail(todo)) = {}
           /\ Asked(Head(todo)) \subseteq Names
<1>1. todo \in Seq(Parts) /\ Apart(todo)
  BY DEF Inv, Shapes
<1>2. Head(todo) \in Parts
  BY <1>1, RestOfParts
<1>3. Asked(Head(todo)) \subseteq Names
  BY <1>2 DEF Asked, Parts
<1> QED
  BY <1>1, <1>3, RestOfParts

LEMMA AnsweredHolds ==
    ASSUME Inv, NamesAnswered
    PROVE  Inv'
<1>0. /\ phase = "names" /\ phase' = "names" /\ todo # <<>> /\ todo' = Tail(todo)
      /\ UNCHANGED <<run, queue, work, context, used, report, faulted>>
  BY DEF NamesAnswered, Pooled, Asking
<1>1. PICK named \in {Asked(Head(todo)), {Min(Asked(Head(todo)))}} :
        LET answers == [n \in Names |-> IF n \notin Asked(Head(todo)) THEN mem.names[n]
                                        ELSE IF n \in named THEN run ELSE 0]
        IN  mem' = [mem EXCEPT !.names = answers] /\ disk' = [disk EXCEPT !.names = answers]
  BY DEF NamesAnswered
<1> DEFINE f == [n \in Names |-> IF n \notin Asked(Head(todo)) THEN mem.names[n]
                                 ELSE IF n \in named THEN run ELSE 0]
<1>2. mem' = [mem EXCEPT !.names = f] /\ disk' = [disk EXCEPT !.names = f]
  BY <1>1
<1>3. /\ mem \in Caches /\ disk \in Caches /\ report \in Reports /\ mem.names \in [Names -> Answers]
      /\ run \in Answers /\ run # None /\ 0 \in Answers /\ 0 # None
  BY RunAnswers, Changed DEF Inv, Shapes
<1>4. /\ f \in [Names -> Answers]
      /\ \A n \in Asked(Head(todo)) \cap Names : f[n] # None
      /\ \A n \in Names \ Asked(Head(todo)) : f[n] = mem.names[n]
  BY <1>3
<1> HIDE DEF f
<1>5. /\ Tail(todo) \in Seq(Parts) /\ Apart(Tail(todo))
      /\ Covered(todo) = Asked(Head(todo)) \cup Covered(Tail(todo))
      /\ Asked(Head(todo)) \cap Covered(Tail(todo)) = {} /\ Asked(Head(todo)) \subseteq Names
  BY <1>0, PartsAtHand
<1>6. /\ mem' \in Caches /\ mem'.style = mem.style /\ mem'.names = f
      /\ disk' \in Caches /\ disk'.style = disk.style /\ disk'.names = f
  BY <1>2, <1>3, <1>4, Changed
<1>7. \A n \in Names : f[n] = None => mem.names[n] = None /\ n \notin Asked(Head(todo))
  BY <1>4
<1>8. Apart(todo)' /\ todo' \in Seq(Parts)
  <2>1. PICK t : t = Tail(todo)
    OBVIOUS
  <2>2. Apart(t) /\ todo' = t
    BY <2>1, <1>5, <1>0
  <2> QED
    BY <2>2, <1>5, <1>0 DEF Apart
<1>9. \A n \in Names : mem'.names[n] = None => n \in report'.names \/ n \in Covered(todo')
  <2>1. \A n \in Names : mem.names[n] = None => n \in report.names \/ n \in Covered(todo)
    BY <1>0 DEF Inv, NamesTold
  <2> QED
    BY <2>1, <1>0, <1>5, <1>6, <1>7
<1>10. ASSUME ~faulted'
       PROVE  /\ mem'.names = disk'.names
              /\ \A n \in Names : disk.names[n] # None => disk'.names[n] = disk.names[n]
              /\ \A n \in Covered(todo') : disk'.names[n] = None
  <2>1. mem.names = disk.names /\ \A n \in Covered(todo) : disk.names[n] = None
    BY <1>10, <1>0 DEF Inv, Kept
  <2>2. Covered(todo) \subseteq Names
    <3>1. todo \in Seq(Parts)
      BY DEF Inv, Shapes
    <3>2. \A i \in 1 .. Len(todo) : todo[i] \in Parts
      BY <3>1
    <3> QED
      BY <3>2 DEF Covered, Asked, Parts
  <2> QED
    BY <2>1, <2>2, <1>0, <1>4, <1>5, <1>6
<1> QED
  BY <1>0, <1>3, <1>6, <1>8, <1>9, <1>10, NamesStep

\* A part that fails: its names may have got answers that could not be written.
LEMMA FailsKnown ==
    ASSUME Inv, phase = "names", todo # <<>>, Fails
    PROVE  /\ mem' \in Caches /\ mem'.style = mem.style /\ (faulted => faulted')
           /\ \A n \in Names : mem'.names[n] = None => mem.names[n] = None
           /\ ~faulted' => mem' = mem
<1>1. /\ mem \in Caches /\ mem.names \in [Names -> Answers]
      /\ run \in Answers /\ run # None
  BY RunAnswers, Changed DEF Inv, Shapes
<1>2. CASE UNCHANGED <<mem, faulted>>
  BY <1>1, <1>2
<1>3. CASE /\ faulted' = TRUE
           /\ mem' = [mem EXCEPT !.names = [n \in Names |-> IF n \in Asked(Head(todo)) THEN run ELSE @[n]]]
  <2> DEFINE f == [n \in Names |-> IF n \in Asked(Head(todo)) THEN run ELSE mem.names[n]]
  <2>1. f \in [Names -> Answers] /\ \A n \in Names : f[n] = None => mem.names[n] = None
    BY <1>1
  <2>2. mem' = [mem EXCEPT !.names = f]
    BY <1>3
  <2> HIDE DEF f
  <2> QED
    BY <2>1, <2>2, <1>1, <1>3, Changed
<1> QED
  BY <1>2, <1>3 DEF Fails

LEMMA HalvedHolds ==
    ASSUME Inv, NamesHalved
    PROVE  Inv'
<1>0. /\ phase = "names" /\ phase' = "names" /\ todo # <<>> /\ todo' = Halves(Head(todo)) \o Tail(todo)
      /\ Fails /\ UNCHANGED <<run, disk, queue, work, context, used, report>>
  BY DEF NamesHalved, Pooled
<1>1. todo \in Seq(Parts) /\ Apart(todo) /\ disk \in Caches /\ report \in Reports
  BY DEF Inv, Shapes
<1>2. PICK t : t = Halves(Head(todo)) \o Tail(todo)
  OBVIOUS
<1>3. t \in Seq(Parts) /\ Apart(t) /\ Covered(t) = Covered(todo) /\ todo' = t
  BY <1>0, <1>1, <1>2, HalvedParts
<1>4. Apart(todo)'
  BY <1>3 DEF Apart
<1>5. /\ mem' \in Caches /\ mem'.style = mem.style /\ (faulted => faulted')
      /\ \A n \in Names : mem'.names[n] = None => mem.names[n] = None
      /\ ~faulted' => mem' = mem
  BY <1>0, FailsKnown
<1>6. \A n \in Names : mem'.names[n] = None => n \in report'.names \/ n \in Covered(todo')
  BY <1>0, <1>3, <1>5 DEF Inv, NamesTold
<1>7. ~faulted' => /\ mem'.names = disk'.names
                   /\ \A n \in Names : disk.names[n] # None => disk'.names[n] = disk.names[n]
                   /\ \A n \in Covered(todo') : disk'.names[n] = None
  BY <1>0, <1>3, <1>5 DEF Inv, Kept
<1> QED
  BY <1>0, <1>1, <1>3, <1>4, <1>5, <1>6, <1>7, NamesStep

LEMMA FailedHolds ==
    ASSUME Inv, NamesFailed
    PROVE  Inv'
<1>0. /\ phase = "names" /\ phase' = "names" /\ todo # <<>> /\ todo' = Tail(todo) /\ Fails
      /\ report' = [report EXCEPT !.names = @ \cup Asked(Head(todo))]
      /\ UNCHANGED <<run, disk, queue, work, context, used>>
  BY DEF NamesFailed, Pooled
<1>1. disk \in Caches /\ report \in Reports
  BY DEF Inv, Shapes
<1>2. /\ Tail(todo) \in Seq(Parts) /\ Apart(Tail(todo))
      /\ Covered(todo) = Asked(Head(todo)) \cup Covered(Tail(todo)) /\ Asked(Head(todo)) \subseteq Names
  BY <1>0, PartsAtHand
<1>3. /\ report' \in Reports /\ report'.style = report.style
      /\ report'.names = report.names \cup Asked(Head(todo))
  BY <1>0, <1>1, <1>2 DEF Reports
<1>4. Apart(todo)' /\ todo' \in Seq(Parts)
  <2>1. PICK t : t = Tail(todo)
    OBVIOUS
  <2>2. Apart(t) /\ todo' = t
    BY <2>1, <1>2, <1>0
  <2> QED
    BY <2>2, <1>2, <1>0 DEF Apart
<1>5. /\ mem' \in Caches /\ mem'.style = mem.style /\ (faulted => faulted')
      /\ \A n \in Names : mem'.names[n] = None => mem.names[n] = None
      /\ ~faulted' => mem' = mem
  BY <1>0, FailsKnown
<1>6. \A n \in Names : mem'.names[n] = None => n \in report'.names \/ n \in Covered(todo')
  BY <1>0, <1>2, <1>3, <1>5 DEF Inv, NamesTold
<1>7. ~faulted' => /\ mem'.names = disk'.names
                   /\ \A n \in Names : disk.names[n] # None => disk'.names[n] = disk.names[n]
                   /\ \A n \in Covered(todo') : disk'.names[n] = None
  BY <1>0, <1>2, <1>5 DEF Inv, Kept
<1> QED
  BY <1>0, <1>1, <1>3, <1>4, <1>5, <1>6, <1>7, NamesStep

\* The registry begins with every name that has no answer in one of its parts.
LEMMA RegistryBeginHolds ==
    ASSUME Inv, RegistryBegin
    PROVE  Inv'
<1>0. /\ phase = "registry" /\ phase' = "names" /\ mem' = [mem EXCEPT !.names = disk.names]
      /\ todo' = Chunks(Unanswered)
      /\ UNCHANGED <<run, disk, queue, work, context, used, report, faulted>>
  BY DEF RegistryBegin, Pooled, Asking
<1>1. /\ Unanswered \in Seq(Names) /\ Rising(Unanswered)
      /\ \A n \in Names : InSeq(n, Unanswered) <=> disk.names[n] = None
  BY UnansweredIsOpen DEF ListsOpen, Names
<1>2. PICK t : t = Chunks(Unanswered)
  OBVIOUS
<1>3. /\ todo' = t /\ t \in Seq(Parts) /\ Apart(t)
      /\ \A n : n \in Covered(t) <=> InSeq(n, Unanswered)
  BY <1>0, <1>1, <1>2, ChunksCover
<1>4. \A n \in Covered(t) : n \in Names
  BY <1>1, <1>3 DEF InSeq
<1>5. mem' \in Caches /\ mem'.style = mem.style /\ mem'.names = disk.names
  BY <1>0, Changed DEF Inv, Shapes
<1>6. Shapes' /\ Apart(todo)'
  BY <1>0, <1>3, <1>5 DEF Inv, Shapes, Apart
<1>7. StyleTold' /\ CardsTold'
  BY <1>0, <1>5 DEF Inv, StyleTold, CardsTold, Running
<1>8. NamesTold'
  BY <1>0, <1>1, <1>3, <1>5 DEF NamesTold
<1>9. Kept'
  BY <1>0, <1>1, <1>3, <1>4, <1>5 DEF Inv, Kept, Running
<1> QED
  BY <1>6, <1>7, <1>8, <1>9 DEF Inv

\* The registry ends when all its parts were asked, or as a whole.
LEMMA RegistryOverHolds ==
    ASSUME Inv, RegistryEnd \/ RegistryLost
    PROVE  Inv'
<1>0. phase \in {"registry", "names"} /\ phase' = "cards" /\ UNCHANGED <<run, disk, queue, work, context, used>>
  BY DEF RegistryEnd, RegistryLost, Pooled, Asking
<1>1. CASE RegistryEnd
  <2>1. phase = "names" /\ todo = <<>> /\ UNCHANGED <<todo, mem, report, faulted>>
    BY <1>1 DEF RegistryEnd, Asking
  <2>2. Shapes' /\ Apart(todo)'
    BY <1>0, <2>1 DEF Inv, Shapes, Apart
  <2>3. StyleTold' /\ NamesTold' /\ CardsTold'
    BY <1>0, <2>1, NoParts DEF Inv, StyleTold, NamesTold, CardsTold, Running
  <2>4. Kept'
    BY <1>0, <2>1 DEF Inv, Kept, Running
  <2> QED
    BY <2>2, <2>3, <2>4 DEF Inv
<1>2. CASE RegistryLost
  <2>1. /\ todo' = <<>> /\ mem' = [mem EXCEPT !.names = Blank.names] /\ faulted' = TRUE
        /\ report' = [report EXCEPT !.registry = TRUE]
    BY <1>2 DEF RegistryLost
  <2>2. mem' \in Caches /\ mem'.style = mem.style
    BY <2>1, Blanks, Changed DEF Inv, Shapes
  <2>3. report' \in Reports /\ report'.style = report.style /\ report'.registry
    BY <2>1 DEF Inv, Shapes, Reports
  <2>4. Shapes'
    BY <1>0, <2>1, <2>2, <2>3, Blanks DEF Inv, Shapes
  <2>5. Apart(todo)'
    BY <2>1 DEF Apart
  <2>6. StyleTold' /\ NamesTold' /\ CardsTold'
    BY <1>0, <2>2, <2>3 DEF Inv, StyleTold, NamesTold, CardsTold, Running
  <2>7. Kept'
    BY <2>1 DEF Kept
  <2> QED
    BY <2>4, <2>5, <2>6, <2>7 DEF Inv
<1> QED
  BY <1>1, <1>2
\* The cards. Everything but the style and the names, which stay as they are.
LEMMA CardsBeginHolds ==
    ASSUME Inv, CardsBegin
    PROVE  Inv'
<1>0. /\ phase = "cards" /\ phase' = "pool" /\ mem' = [mem EXCEPT !.cards = disk.cards]
      /\ queue' = {c \in Cards : disk.cards[c] = None} /\ work' = [w \in Pool |-> NextOne]
      /\ UNCHANGED <<run, todo, disk, context, used, report, faulted>>
  BY DEF CardsBegin, Cache
<1>1. /\ mem' \in Caches /\ mem'.style = mem.style /\ mem'.names = mem.names /\ mem'.cards = disk.cards
  BY <1>0, Changed DEF Inv, Shapes
<1>2. work' \in [Pool -> Jobs] /\ \A w \in Pool : work'[w].at = "next"
  BY <1>0, Blanks
<1>3. Shapes' /\ Apart(todo)'
  BY <1>0, <1>1, <1>2 DEF Inv, Shapes, Apart
<1>4. StyleTold' /\ NamesTold'
  BY <1>0, <1>1 DEF Inv, StyleTold, NamesTold, Running
<1>5. CardsTold'
  BY <1>0, <1>1, <1>2 DEF CardsTold, Busy
<1>6. Kept'
  BY <1>0, <1>1 DEF Inv, Kept, Running
<1> QED
  BY <1>3, <1>4, <1>5, <1>6 DEF Inv

\* A cache without its cards, or with those of memory, is what translation is given.
LEMMA TranslateHolds ==
    ASSUME Inv, PoolLost \/ PoolEnd
    PROVE  Inv'
<1>0. /\ phase \in {"cards", "pool"} /\ phase' = "translate"
      /\ UNCHANGED <<run, todo, mem, disk, queue, used>>
  BY DEF PoolLost, PoolEnd, Translate, Cache
<1>1. mem \in Caches /\ report \in Reports /\ work \in [Pool -> Jobs]
  BY DEF Inv, Shapes
<1>2. PICK cards \in [Cards -> Answers] :
        /\ context' = [mem EXCEPT !.cards = cards]
        /\ PoolLost \/ (PoolEnd /\ cards = mem.cards)
  BY <1>1, Changed, Blanks DEF PoolLost, PoolEnd, Translate
<1>3. /\ context' \in Caches /\ context'.style = mem.style /\ context'.names = mem.names
      /\ context'.cards = cards
  BY <1>1, <1>2, Changed
<1>4. /\ report' \in Reports /\ report'.style = report.style /\ report'.names = report.names
      /\ report'.registry = report.registry
      /\ \A c \in Cards : cards[c] = None => c \in report'.cards \/ report'.pool
      /\ (faulted => faulted')
  <2>1. CASE PoolLost
    <3>1. report' = [report EXCEPT !.pool = TRUE] /\ faulted' = TRUE
      BY <2>1 DEF PoolLost
    <3> QED
      BY <3>1, <1>1 DEF Reports
  <2>2. CASE PoolEnd /\ cards = mem.cards
    <3>1. /\ phase = "pool" /\ Idle /\ UNCHANGED <<report, faulted>>
      BY <2>2 DEF PoolEnd
    <3>2. queue = {}
      <4>1. 1 \in Pool
        BY PreflightsAssumption DEF PreflightsAssumption, Pool
      <4> QED
        BY <3>1, <4>1 DEF Inv, CardsTold, Idle
    <3>3. \A c \in Cards : ~Asks(c)
      BY <3>1 DEF Asks, Idle, Busy
    <3>4. \A c \in Cards : mem.cards[c] = None => c \in report.cards
      BY <3>1, <3>2, <3>3 DEF Inv, CardsTold
    <3> QED
      BY <2>2, <3>1, <3>4, <1>1
  <2> QED
    BY <1>2, <2>1, <2>2
<1>5. work' \in [Pool -> Jobs] /\ \A w \in Pool : work'[w] = work[w] \/ work'[w] = Done
  <2>1. CASE PoolLost
    <3>1. UNCHANGED work \/ \E w \in Pool : work' = [work EXCEPT ![w] = Done]
      BY <2>1 DEF PoolLost, Moves
    <3> QED
      BY <3>1, <1>1, Blanks
  <2>2. CASE PoolEnd
    BY <2>2, <1>1 DEF PoolEnd
  <2> QED
    BY <1>2, <2>1, <2>2
<1>6. Shapes' /\ Apart(todo)'
  <2>1. \A w \in Pool : work'[w].at \in {"asking", "writing"} => work'[w].card \in Cards
    BY <1>5, Blanks DEF Inv, Shapes
  <2> QED
    BY <2>1, <1>0, <1>3, <1>4, <1>5 DEF Inv, Shapes, Apart
<1>7. StyleTold' /\ NamesTold' /\ CardsTold'
  BY <1>0, <1>3, <1>4 DEF Inv, StyleTold, NamesTold, CardsTold, Running
<1>8. Kept'
  BY <1>0, <1>3, <1>4 DEF Inv, Kept, Running
<1> QED
  BY <1>6, <1>7, <1>8 DEF Inv

\* A worker moves to state j.
LEMMA Moved ==
    ASSUME Shapes, NEW w \in Pool, NEW j \in Jobs, Moves(w, j),
           j.at \in {"asking", "writing"} => j.card \in Cards
    PROVE  /\ work' \in [Pool -> Jobs] /\ work'[w] = j
           /\ \A v \in Pool : v # w => work'[v] = work[v]
           /\ \A v \in Pool : work'[v].at \in {"asking", "writing"} => work'[v].card \in Cards
BY DEF Shapes, Moves

\* What a step of a worker has to show.
LEMMA WorkerStep ==
    ASSUME Inv, UNCHANGED <<run, todo, used, context>>, phase' = phase,
           mem' \in Caches, disk' \in Caches, report' \in Reports, queue' \subseteq Cards,
           work' \in [Pool -> Jobs],
           \A v \in Pool : work'[v].at \in {"asking", "writing"} => work'[v].card \in Cards,
           mem'.style = mem.style, mem'.names = mem.names,
           disk'.style = disk.style, disk'.names = disk.names,
           report'.style = report.style, report'.names = report.names,
           report'.registry = report.registry, report'.pool = report.pool,
           report.cards \subseteq report'.cards, faulted => faulted',
           phase = "pool" =>
             /\ \A c \in Cards : mem'.cards[c] = None => c \in report'.cards \/ c \in queue' \/ Asks(c)'
             /\ queue' # {} => \A v \in Pool : work'[v].at # "done"
    PROVE  Inv'
<1>1. Shapes' /\ Apart(todo)'
  BY DEF Inv, Shapes, Apart
<1>2. StyleTold' /\ NamesTold'
  BY DEF Inv, StyleTold, NamesTold, Running
<1>3. CardsTold'
  BY DEF Inv, CardsTold, Busy
<1>4. Kept'
  BY DEF Inv, Kept, Running
<1> QED
  BY <1>1, <1>2, <1>3, <1>4 DEF Inv

\* A worker that throws out of its pool ends the run; one that outlived it only stops.
LEMMA ThrowHolds ==
    ASSUME Inv, NEW w \in Pool, Throw(w), queue' \subseteq Cards,
           UNCHANGED <<run, todo, used, context, mem, disk, report>>, faulted => faulted'
    PROVE  Inv'
<1>1. /\ work' \in [Pool -> Jobs]
      /\ \A v \in Pool : work'[v].at \in {"asking", "writing"} => work'[v].card \in Cards
  BY Blanks, Moved DEF Inv, Throw
<1>2. CASE phase = "pool"
  <2>1. phase' = "idle"
    BY <1>2 DEF Throw
  <2>2. Shapes' /\ Apart(todo)'
    BY <1>1 DEF Inv, Shapes, Apart
  <2> QED
    BY <2>1, <2>2, IdleHolds
<1>3. CASE phase # "pool"
  <2>1. phase' = phase
    BY <1>3 DEF Throw
  <2>2. mem \in Caches /\ disk \in Caches /\ report \in Reports
    BY DEF Inv, Shapes
  <2> QED
    BY <1>1, <1>3, <2>1, <2>2, WorkerStep
<1> QED
  BY <1>2, <1>3
\* A card that another worker asks for is still asked for.
LEMMA StillAsked ==
    ASSUME Shapes, NEW w \in Pool, NEW c \in Cards,
           \A v \in Pool : v # w => work'[v] = work[v], work[w].at = "asking" => work[w].card # c
    PROVE  Asks(c) => Asks(c)'
BY DEF Asks

\* The first card of the queue.
LEMMA FirstCard ==
    ASSUME Shapes, queue # {}
    PROVE  Min(queue) \in queue
<1>1. queue \subseteq Nat
  BY PreflightsAssumption DEF Shapes, Cards, PreflightsAssumption
<1>2. \E n \in queue : \A m \in queue : n <= m
  BY <1>1, Least
<1> QED
  BY <1>2 DEF Min

\* A worker takes a card, or stops when there is none; a pool whose queue still has one
\* has no worker that stopped.
LEMMA TakeHolds ==
    ASSUME Inv, NEW w \in Pool, Take(w)
    PROVE  Inv'
<1>0. work[w].at = "next" /\ UNCHANGED <<run, todo, used, context, mem, disk, report, faulted>>
  BY DEF Take, Cache
<1>1. /\ Shapes /\ mem \in Caches /\ disk \in Caches /\ report \in Reports /\ queue \subseteq Cards
      /\ phase = "pool" =>
           /\ \A c \in Cards : mem.cards[c] = None => c \in report.cards \/ c \in queue \/ Asks(c)
           /\ queue # {} => \A v \in Pool : work[v].at # "done"
  BY DEF Inv, Shapes, CardsTold, Busy
<1>2. CASE queue = {}
  <2>1. Moves(w, Done) /\ queue' = {} /\ phase' = phase
    BY <1>2 DEF Take
  <2>2. /\ work' \in [Pool -> Jobs] /\ \A v \in Pool : v # w => work'[v] = work[v]
        /\ \A v \in Pool : work'[v].at \in {"asking", "writing"} => work'[v].card \in Cards
    BY <2>1, <1>1, Blanks, Moved
  <2>3. \A c \in Cards : Asks(c) => Asks(c)'
    BY <2>2, <1>0, <1>1, StillAsked
  <2>4. phase = "pool" =>
          /\ \A c \in Cards : mem'.cards[c] = None => c \in report'.cards \/ c \in queue' \/ Asks(c)'
          /\ queue' # {} => \A v \in Pool : work'[v].at # "done"
    BY <2>1, <2>3, <1>0, <1>1, <1>2
  <2>5. queue' \subseteq Cards
    BY <2>1
  <2> QED
    BY <1>0, <1>1, <2>1, <2>2, <2>4, <2>5, WorkerStep
<1>3. CASE queue # {} /\ aborted
  <2>1. queue' = queue \ {Min(queue)} /\ Throw(w)
    BY <1>3 DEF Take
  <2> QED
    BY <1>0, <1>1, <2>1, ThrowHolds
<1>4. CASE queue # {} /\ ~aborted
  <2> DEFINE j == [NextOne EXCEPT !.at = "asking", !.card = Min(queue)]
  <2>1. queue' = queue \ {Min(queue)} /\ Moves(w, j) /\ phase' = phase
    BY <1>4 DEF Take
  <2>2. Min(queue) \in queue /\ Min(queue) \in Cards
    BY <1>1, <1>4, FirstCard
  <2>3. j \in Jobs /\ j.at = "asking" /\ j.card = Min(queue)
    BY <2>2, Blanks DEF Jobs
  <2> HIDE DEF j
  <2>4. /\ work' \in [Pool -> Jobs] /\ work'[w] = j /\ \A v \in Pool : v # w => work'[v] = work[v]
        /\ \A v \in Pool : work'[v].at \in {"asking", "writing"} => work'[v].card \in Cards
    BY <2>1, <2>2, <2>3, <1>1, Moved
  <2>5. \A c \in Cards : Asks(c) => Asks(c)'
    BY <2>4, <1>0, <1>1, StillAsked
  <2>6. \A c \in Cards : c = Min(queue) => Asks(c)'
    BY <2>3, <2>4 DEF Asks
  <2>7. phase = "pool" =>
          /\ \A c \in Cards : mem'.cards[c] = None => c \in report'.cards \/ c \in queue' \/ Asks(c)'
          /\ queue' # {} => \A v \in Pool : work'[v].at # "done"
    BY <2>1, <2>3, <2>4, <2>5, <2>6, <1>0, <1>1, <1>4
  <2>8. queue' \subseteq Cards
    BY <2>1, <1>1
  <2> QED
    BY <1>0, <1>1, <2>1, <2>4, <2>7, <2>8, WorkerStep
<1> QED
  BY <1>2, <1>3, <1>4

\* A worker that goes on with the pool: the card it asked for, if it does not ask for it
\* any more, is in memory or reported.
LEMMA WorkerGoesOn ==
    ASSUME Inv, NEW w \in Pool, NEW j \in Jobs, Moves(w, j), j.at # "done",
           j.at \in {"asking", "writing"} => j.card \in Cards,
           UNCHANGED <<run, todo, used, context, queue>>, phase' = phase,
           mem' \in Caches, disk' \in Caches, report' \in Reports,
           mem'.style = mem.style, mem'.names = mem.names,
           disk'.style = disk.style, disk'.names = disk.names,
           report'.style = report.style, report'.names = report.names,
           report'.registry = report.registry, report'.pool = report.pool,
           report.cards \subseteq report'.cards, faulted => faulted',
           \A c \in Cards : mem'.cards[c] = None => mem.cards[c] = None,
           phase = "pool" /\ work[w].at = "asking" =>
             \/ j.at = "asking" /\ j.card = work[w].card
             \/ mem'.cards[work[w].card] # None
             \/ work[w].card \in report'.cards
    PROVE  Inv'
<1>1. /\ Shapes /\ queue \subseteq Cards
      /\ phase = "pool" =>
           /\ \A c \in Cards : mem.cards[c] = None => c \in report.cards \/ c \in queue \/ Asks(c)
           /\ queue # {} => \A v \in Pool : work[v].at # "done"
  BY DEF Inv, Shapes, CardsTold, Busy
<1>2. /\ work' \in [Pool -> Jobs] /\ work'[w] = j /\ \A v \in Pool : v # w => work'[v] = work[v]
      /\ \A v \in Pool : work'[v].at \in {"asking", "writing"} => work'[v].card \in Cards
  BY <1>1, Moved
<1>3. ASSUME phase = "pool", NEW c \in Cards, mem'.cards[c] = None
      PROVE  c \in report'.cards \/ c \in queue' \/ Asks(c)'
  <2>1. c \in report.cards \/ c \in queue \/ Asks(c)
    BY <1>1, <1>3
  <2>2. CASE work[w].at = "asking" /\ work[w].card = c
    <3>1. (j.at = "asking" /\ j.card = c) \/ c \in report'.cards
      BY <1>3, <2>2
    <3> QED
      BY <3>1, <1>2 DEF Asks
  <2>3. CASE ~(work[w].at = "asking" /\ work[w].card = c)
    <3>1. Asks(c) => Asks(c)'
      BY <2>3, <1>1, <1>2, StillAsked
    <3> QED
      BY <2>1, <3>1
  <2> QED
    BY <2>2, <2>3
<1>4. phase = "pool" /\ queue' # {} => \A v \in Pool : work'[v].at # "done"
  BY <1>1, <1>2
<1>5. queue' \subseteq Cards
  BY <1>1
<1> QED
  BY <1>2, <1>3, <1>4, <1>5, WorkerStep

\* A card is reported as missing while its pool is at work.
LEMMA WithoutReports ==
    ASSUME report \in Reports, NEW c \in Cards, Without(c)
    PROVE  /\ report' \in Reports /\ report'.style = report.style /\ report'.names = report.names
           /\ report'.registry = report.registry /\ report'.pool = report.pool
           /\ report.cards \subseteq report'.cards /\ (phase = "pool" => c \in report'.cards)
BY DEF Reports, Without

LEMMA WorkerHolds ==
    ASSUME Inv, NEW w \in Pool, Worker(w)
    PROVE  Inv'
<1>1. /\ Shapes /\ mem \in Caches /\ disk \in Caches /\ report \in Reports /\ queue \subseteq Cards
      /\ work[w] \in Jobs /\ (work[w].at \in {"asking", "writing"} => work[w].card \in Cards)
  BY DEF Inv, Shapes
<1>2. CASE Take(w)
  BY <1>2, TakeHolds
<1>3. CASE CardAnswered(w)
  <2> DEFINE c == work[w].card
             f == [mem.cards EXCEPT ![c] = run]
             j == [work[w] EXCEPT !.at = "writing", !.write = f]
  <2>1. /\ work[w].at = "asking" /\ mem' = [mem EXCEPT !.cards = f] /\ Moves(w, [work[w] EXCEPT !.at = "writing", !.write = mem'.cards])
        /\ UNCHANGED <<run, todo, used, context, queue, disk, report, faulted>> /\ phase' = phase
    BY <1>3 DEF CardAnswered, Cache
  <2>2. run \in Answers /\ run # None /\ mem.cards \in [Cards -> Answers] /\ c \in Cards
    BY <1>1, <2>1, RunAnswers, Changed DEF Shapes
  <2>3. f \in [Cards -> Answers] /\ f[c] # None /\ \A d \in Cards : f[d] = None => mem.cards[d] = None
    BY <2>2
  <2>4. mem' \in Caches /\ mem'.style = mem.style /\ mem'.names = mem.names /\ mem'.cards = f
    BY <1>1, <2>1, <2>3, Changed
  <2>5. j \in Jobs /\ j.at = "writing" /\ j.card = c /\ Moves(w, j)
    BY <1>1, <2>1, <2>3, <2>4 DEF Jobs
  <2> HIDE DEF j, f
  <2> QED
    BY <1>1, <2>1, <2>2, <2>3, <2>4, <2>5, WorkerGoesOn
<1>4. CASE CardRetried(w)
  <2> DEFINE j == [work[w] EXCEPT !.tries = @ + 1]
  <2>1. /\ work[w].at = "asking" /\ Moves(w, j) /\ UNCHANGED <<phase, mem, disk, queue, context, report, faulted>>
        /\ UNCHANGED <<run, todo, used>>
    BY <1>4 DEF CardRetried, Cache
  <2>2. j \in Jobs /\ j.at = "asking" /\ j.card = work[w].card
    BY <1>1, <2>1 DEF Jobs
  <2> HIDE DEF j
  <2> QED
    BY <1>1, <2>1, <2>2, WorkerGoesOn
<1>5. CASE CardFailed(w)
  <2>1. /\ work[w].at = "asking" /\ Without(work[w].card) /\ Moves(w, NextOne)
        /\ UNCHANGED <<phase, mem, disk, queue, context, faulted>> /\ UNCHANGED <<run, todo, used>>
    BY <1>5 DEF CardFailed, Cache
  <2> QED
    BY <1>1, <2>1, Blanks, WithoutReports, WorkerGoesOn
<1>6. CASE CardCutOff(w)
  <2>1. Throw(w) /\ UNCHANGED <<run, todo, used, context, mem, disk, report, queue, faulted>>
    BY <1>6 DEF CardCutOff, Cache
  <2> QED
    BY <1>1, <2>1, ThrowHolds
<1>7. CASE CardWritten(w)
  <2>1. /\ work[w].at = "writing" /\ disk' = [disk EXCEPT !.cards = work[w].write] /\ Moves(w, NextOne)
        /\ UNCHANGED <<phase, mem, queue, context, report, faulted>> /\ UNCHANGED <<run, todo, used>>
    BY <1>7 DEF CardWritten, Cache
  <2>2. work[w].write \in [Cards -> Answers]
    BY <1>1 DEF Jobs
  <2>3. disk' \in Caches /\ disk'.style = disk.style /\ disk'.names = disk.names
    BY <1>1, <2>1, <2>2, Changed
  <2> QED
    BY <1>1, <2>1, <2>3, Blanks, WorkerGoesOn
<1>8. CASE CardUnwritten(w)
  <2>1. /\ work[w].at = "writing" /\ faulted' = TRUE
        /\ UNCHANGED <<mem, disk, queue, context>> /\ UNCHANGED <<run, todo, used>>
    BY <1>8 DEF CardUnwritten, Cache
  <2>2. CASE aborted
    <3>1. Throw(w) /\ UNCHANGED report
      BY <1>8, <2>2 DEF CardUnwritten
    <3> QED
      BY <1>1, <2>1, <3>1, ThrowHolds
  <2>3. CASE ~aborted
    <3>1. Without(work[w].card) /\ Moves(w, NextOne) /\ UNCHANGED phase
      BY <1>8, <2>3 DEF CardUnwritten
    <3> QED
      BY <1>1, <2>1, <3>1, Blanks, WithoutReports, WorkerGoesOn
  <2> QED
    BY <2>2, <2>3
<1> QED
  BY <1>2, <1>3, <1>4, <1>5, <1>6, <1>7, <1>8 DEF Worker

-------------------------------------------------------------------------------
(* The rest of the run.                                                        *)

LEMMA BeginHolds ==
    ASSUME Inv, Begin
    PROVE  Inv'
<1>0. /\ phase' = "style" /\ run' = run + 1 /\ run < MaxRuns /\ todo' = <<>> /\ queue' = {}
      /\ mem' = [Blank EXCEPT !.style = disk.style] /\ context' = Blank /\ report' = Silent
      /\ UNCHANGED <<work, disk, used, faulted>>
  BY DEF Begin
<1>1. mem' \in Caches /\ mem'.style = disk.style
  BY <1>0, Blanks, Changed DEF Inv, Shapes
<1>2. Shapes'
  <2>1. run' \in 0 .. MaxRuns
    BY <1>0, PreflightsAssumption DEF PreflightsAssumption, Inv, Shapes
  <2> QED
    BY <2>1, <1>0, <1>1, Blanks DEF Inv, Shapes
<1>3. Apart(todo)'
  BY <1>0 DEF Apart
<1>4. StyleTold' /\ NamesTold' /\ CardsTold'
  BY <1>0 DEF StyleTold, NamesTold, CardsTold, Running
<1>5. Kept'
  BY <1>0, <1>1 DEF Inv, Kept, Running
<1> QED
  BY <1>2, <1>3, <1>4, <1>5 DEF Inv

\* The run that ends gave its translation what the files have.
LEMMA OverHolds ==
    ASSUME Inv, Over
    PROVE  Inv'
<1>0. /\ phase = "translate" /\ phase' = "idle" /\ used' = [context EXCEPT !.cards = Blank.cards]
      /\ mem' = Blank /\ context' = Blank /\ report' = Silent
      /\ UNCHANGED <<run, todo, disk, faulted, queue, work>>
  BY DEF Over, Pooled
<1>1. used' \in Caches /\ used'.style = context.style /\ used'.names = context.names
  BY <1>0, Blanks, Changed DEF Inv, Shapes
<1>2. Shapes' /\ Apart(todo)'
  BY <1>0, <1>1, Blanks DEF Inv, Shapes, Apart
<1>3. StyleTold' /\ NamesTold' /\ CardsTold'
  BY <1>0 DEF StyleTold, NamesTold, CardsTold, Running
<1>4. Kept'
  BY <1>0, <1>1 DEF Inv, Kept, Running
<1> QED
  BY <1>2, <1>3, <1>4 DEF Inv

LEMMA CrashHolds ==
    ASSUME Inv, Crash
    PROVE  Inv'
<1>0. /\ phase' = "idle" /\ work' = [w \in Pool |-> Done] /\ todo' = <<>>
      /\ mem' = Blank /\ queue' = {} /\ context' = Blank /\ report' = Silent
      /\ UNCHANGED <<run, disk, used, faulted>>
  BY DEF Crash
<1>1. work' \in [Pool -> Jobs] /\ \A w \in Pool : work'[w].at = "done"
  BY <1>0, Blanks
<1>2. Shapes'
  BY <1>0, <1>1, Blanks DEF Inv, Shapes
<1>3. Apart(todo)'
  BY <1>0 DEF Apart
<1> QED
  BY <1>0, <1>2, <1>3, IdleHolds

LEMMA StepHolds ==
    ASSUME Inv, [Next]_vars
    PROVE  Inv'
<1>1. CASE StyleKnown \/ StyleAnswered \/ StyleMissing
  BY <1>1, StyleHolds
<1>2. CASE StyleRetried \/ NamesRetried
  <2>1. UNCHANGED <<phase, run, todo, mem, disk, queue, work>> /\ UNCHANGED <<context, report, used, faulted>>
    BY <1>2 DEF StyleRetried, NamesRetried, AskAgain, Pooled, Asking
  <2> QED
    BY <2>1, SameHolds
<1>3. CASE StyleCutOff \/ NamesCutOff
  BY <1>3, CutOffHolds DEF StyleCutOff, NamesCutOff
<1>4. CASE RegistryBegin \/ RegistryEnd \/ RegistryLost
  BY <1>4, RegistryBeginHolds, RegistryOverHolds
<1>5. CASE NamesAnswered \/ NamesHalved \/ NamesFailed
  BY <1>5, AnsweredHolds, HalvedHolds, FailedHolds
<1>6. CASE CardsBegin \/ PoolLost \/ PoolEnd
  BY <1>6, CardsBeginHolds, TranslateHolds
<1>7. CASE \E w \in Pool : Worker(w)
  BY <1>7, WorkerHolds
<1>8. CASE Begin \/ Over \/ Crash
  BY <1>8, BeginHolds, OverHolds, CrashHolds
<1>9. CASE Abort \/ UNCHANGED vars
  <2>1. UNCHANGED <<phase, run, todo, mem, disk, queue, work>> /\ UNCHANGED <<context, report, used, faulted>>
    BY <1>9 DEF Abort, Pooled, vars
  <2> QED
    BY <2>1, SameHolds
<1> QED
  BY <1>1, <1>2, <1>3, <1>4, <1>5, <1>6, <1>7, <1>8, <1>9 DEF Next, Step

LEMMA Invariant == Spec => []Inv
<1>1. Inv /\ [Next]_vars => Inv'
  BY StepHolds
<1> QED
  BY <1>1, InitInv, PTL DEF Spec

\* Whatever fails while a run prepares its translation, the translation is told what it
\* goes without: a style, a name or a card that is missing is in the report, whichever
\* chunk was halved, whichever half, chapter or write failed, with any number of workers
\* on the cards and of names to a chunk (consistency-service.ts, failedChunks).
THEOREM MissingIsTold == Spec => []NothingSilent
<1>1. Inv => NothingSilent
  BY DEF Inv, StyleTold, NamesTold, CardsTold, NothingSilent
<1> QED
  BY <1>1, Invariant, PTL

\* A resumed run translates with every answer the last translation had, as long as no
\* write failed: what has an answer in the file is in no question, for any size of the
\* chunks and however often they are halved, cut off or lost in a crash
\* (consistency-service.ts, "re-asking re-rolls it").
THEOREM NamesAreDecidedOnce == Spec => []DecidedOnce
<1>1. Inv => DecidedOnce
  BY DEF Inv, Kept, DecidedOnce
<1> QED
  BY <1>1, Invariant, PTL
=================================================================================
