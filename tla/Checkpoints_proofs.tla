-------------------------- MODULE Checkpoints_proofs --------------------------
(* Theorems about Checkpoints, for any number of batches, workers, texts,      *)
(* contexts and runs.                                                          *)
EXTENDS Checkpoints, FiniteSetTheorems, WellFoundedInduction, TLAPS

-------------------------------------------------------------------------------
(* Sequences, and the last record of a batch.                                  *)

IsSeq(s) == \E S : s \in Seq(S)

LEMMA SeqFacts ==
    ASSUME NEW s, IsSeq(s)
    PROVE  Len(s) \in Nat /\ DOMAIN s = 1..Len(s)
BY DEF IsSeq

\* A short sequence is its elements.
LEMMA ShortSeq ==
    ASSUME NEW s, IsSeq(s)
    PROVE  /\ Len(s) = 0 => s = <<>>
           /\ Len(s) = 1 => s = <<s[1]>>
           /\ Len(s) = 2 => s = <<s[1], s[2]>>
           /\ Len(s) = 3 => s = <<s[1], s[2], s[3]>>
<1>1. PICK S : s \in Seq(S)
  BY DEF IsSeq
<1>2. Len(s) = 0 => s = <<>>
  BY <1>1
<1>3. Len(s) = 1 => s = <<s[1]>>
  BY <1>1
<1>4. Len(s) = 2 => s = <<s[1], s[2]>>
  BY <1>1
<1>5. Len(s) = 3 => s = <<s[1], s[2], s[3]>>
  BY <1>1
<1> QED
  BY <1>2, <1>3, <1>4, <1>5

LEMMA NoRecords == IsSeq(<<>>) /\ Len(<<>>) = 0 /\ ToSet(<<>>) = {}
<1>1. <<>> \in Seq({})
  OBVIOUS
<1> QED
  BY <1>1 DEF IsSeq, ToSet

LEMMA Appended ==
    ASSUME NEW s, IsSeq(s), NEW k
    PROVE  /\ IsSeq(Append(s, k)) /\ Len(Append(s, k)) = Len(s) + 1
           /\ DOMAIN Append(s, k) = 1..(Len(s) + 1)
           /\ \A n \in 1..Len(s) : Append(s, k)[n] = s[n]
           /\ Append(s, k)[Len(s) + 1] = k
           /\ ToSet(Append(s, k)) = ToSet(s) \cup {k}
<1>1. PICK S : s \in Seq(S)
  BY DEF IsSeq
<1>2. s \in Seq(S \cup {k}) /\ k \in S \cup {k} /\ Len(s) \in Nat /\ DOMAIN s = 1..Len(s)
  BY <1>1
<1> DEFINE t == Append(s, k)
<1>3. /\ t \in Seq(S \cup {k}) /\ Len(t) = Len(s) + 1 /\ DOMAIN t = 1..(Len(s) + 1)
      /\ \A n \in 1..Len(s) : t[n] = s[n]
      /\ t[Len(s) + 1] = k
  BY <1>2
<1> HIDE DEF t
<1>4. \A n \in 1..(Len(s) + 1) : n \in 1..Len(s) \/ n = Len(s) + 1
  BY <1>2
<1>5. 1..Len(s) \subseteq 1..(Len(s) + 1) /\ Len(s) + 1 \in 1..(Len(s) + 1)
  BY <1>2
<1>6. ToSet(t) = ToSet(s) \cup {k}
  BY <1>2, <1>3, <1>4, <1>5 DEF ToSet
<1> QED
  BY <1>3, <1>6 DEF IsSeq, t

\* What has at least one member among the numbers has a least one.
LEMMA Least ==
    ASSUME NEW T, T \subseteq Nat, T # {}
    PROVE  \E n \in T : \A m \in T : n <= m
<1>1. PICK x \in T : \A y \in T : ~(<<y, x>> \in OpToRel(<, Nat))
  BY NatLessThanWellFounded, WFMin
<1>2. \A y \in T : ~(y < x)
  BY <1>1 DEF OpToRel
<1> QED
  BY <1>2

LEMMA LastAtIs ==
    ASSUME NEW s, IsSeq(s), NEW P, P \subseteq DOMAIN s
    PROVE  /\ LastAt(s, P) \subseteq {s[n] : n \in P}
           /\ \A k, l \in LastAt(s, P) : k = l
           /\ P # {} => LastAt(s, P) # {}
<1>0. Len(s) \in Nat /\ P \subseteq 1..Len(s)
  BY SeqFacts
<1>1. LastAt(s, P) \subseteq {s[n] : n \in P}
  BY DEF LastAt
<1>2. \A k, l \in LastAt(s, P) : k = l
  <2> SUFFICES ASSUME NEW m \in P, NEW n \in P, \A p \in P : p <= m, \A p \in P : p <= n
               PROVE  s[m] = s[n]
    BY DEF LastAt
  <2>1. m <= n /\ n <= m /\ m \in Nat /\ n \in Nat
    BY <1>0
  <2>2. m = n
    BY <2>1
  <2> QED
    BY <2>2
<1>3. ASSUME P # {} PROVE LastAt(s, P) # {}
  <2> DEFINE T == {Len(s) - n : n \in P}
  <2>1. T \subseteq Nat /\ T # {}
    BY <1>0, <1>3
  <2> HIDE DEF T
  <2>2. PICK t \in T : \A m \in T : t <= m
    BY <2>1, Least
  <2>3. PICK n \in P : t = Len(s) - n
    BY DEF T
  <2>4. \A p \in P : p <= n
    <3> TAKE p \in P
    <3>1. Len(s) - p \in T
      BY DEF T
    <3>2. Len(s) - n <= Len(s) - p
      BY <3>1, <2>2, <2>3
    <3> QED
      BY <3>2, <1>0
  <2> QED
    BY <2>4 DEF LastAt
<1> QED
  BY <1>1, <1>2, <1>3

\* The records of a batch.
Of(records, b) == {k \in ToSet(records) : k.batch = b}

LEMMA LastOfIs ==
    ASSUME NEW s, IsSeq(s), NEW b
    PROVE  /\ LastOf(s, b) \subseteq Of(s, b)
           /\ \A k, l \in LastOf(s, b) : k = l
           /\ Of(s, b) # {} => LastOf(s, b) # {}
<1> DEFINE P == {n \in DOMAIN s : s[n].batch = b}
<1>1. /\ LastAt(s, P) \subseteq {s[n] : n \in P}
      /\ \A k, l \in LastAt(s, P) : k = l
      /\ P # {} => LastAt(s, P) # {}
  BY LastAtIs
<1>2. {s[n] : n \in P} = Of(s, b)
  BY DEF Of, ToSet
<1>3. LastOf(s, b) = LastAt(s, P)
  BY DEF LastOf
<1>4. Of(s, b) # {} => P # {}
  BY <1>2
<1> HIDE DEF P
<1> QED
  BY <1>1, <1>2, <1>3, <1>4

LEMMA LastOfAppended ==
    ASSUME NEW s, IsSeq(s), NEW k, NEW b
    PROVE  /\ LastOf(Append(s, k), b) = IF k.batch = b THEN {k} ELSE LastOf(s, b)
           /\ Of(Append(s, k), b) = IF k.batch = b THEN Of(s, b) \cup {k} ELSE Of(s, b)
<1> DEFINE t == Append(s, k)
           P == {n \in DOMAIN s : s[n].batch = b}
           Q == {n \in DOMAIN t : t[n].batch = b}
<1>1. /\ Len(s) \in Nat /\ DOMAIN s = 1..Len(s) /\ DOMAIN t = 1..(Len(s) + 1)
      /\ \A n \in 1..Len(s) : t[n] = s[n]
      /\ t[Len(s) + 1] = k /\ ToSet(t) = ToSet(s) \cup {k}
  BY SeqFacts, Appended
<1>2. Of(t, b) = IF k.batch = b THEN Of(s, b) \cup {k} ELSE Of(s, b)
  BY <1>1 DEF Of
<1> HIDE DEF t
<1>3. /\ Q = IF k.batch = b THEN P \cup {Len(s) + 1} ELSE P
      /\ P \subseteq 1..Len(s)
  BY <1>1
<1>4. \A n \in P : t[n] = s[n] /\ n \in Nat /\ n <= Len(s)
  BY <1>1
<1> HIDE DEF P, Q
<1>5. CASE k.batch = b
  <2>1. {m \in Q : \A p \in Q : p <= m} = {Len(s) + 1}
    <3>1. \A p \in Q : p <= Len(s) + 1
      BY <1>1, <1>3, <1>4
    <3>2. \A m \in Q : Len(s) + 1 <= m => m = Len(s) + 1
      BY <1>1, <1>3, <1>4
    <3>3. Len(s) + 1 \in Q
      BY <1>3, <1>5
    <3> QED
      BY <3>1, <3>2, <3>3
  <2>2. LastAt(t, Q) = {t[Len(s) + 1]}
    BY <2>1 DEF LastAt
  <2> QED
    BY <1>1, <1>2, <1>5, <2>2 DEF LastOf, Q, t
<1>6. CASE k.batch # b
  <2>1. LastAt(t, Q) = LastAt(s, P)
    BY <1>3, <1>4, <1>6 DEF LastAt
  <2> QED
    BY <1>1, <1>2, <1>6, <2>1 DEF LastOf, P, Q, t
<1> QED
  BY <1>5, <1>6

\* The first n records.
Upto(s, n) == [m \in 1..n |-> s[m]]

LEMMA UptoIs ==
    ASSUME NEW s, IsSeq(s)
    PROVE  /\ Upto(s, 0) = <<>> /\ Upto(s, Len(s)) = s
           /\ \A n \in 1..Len(s) : /\ IsSeq(Upto(s, n - 1))
                                   /\ Upto(s, n) = Append(Upto(s, n - 1), s[n])
<1>1. PICK S : s \in Seq(S)
  BY DEF IsSeq
<1>2. Len(s) \in Nat /\ \A m \in 1..Len(s) : s[m] \in S
  BY <1>1
<1>3. Upto(s, 0) = <<>>
  BY DEF Upto
<1>4. Upto(s, Len(s)) = s
  BY <1>1 DEF Upto
<1>5. ASSUME NEW n \in 1..Len(s)
      PROVE  /\ IsSeq(Upto(s, n - 1))
             /\ Upto(s, n) = Append(Upto(s, n - 1), s[n])
  <2> DEFINE u == Upto(s, n - 1)
  <2>1. n - 1 \in Nat /\ 1..(n - 1) \subseteq 1..Len(s)
    BY <1>2
  <2>2. u \in Seq(S) /\ Len(u) = n - 1 /\ \A m \in 1..(n - 1) : u[m] = s[m]
    BY <1>2, <2>1 DEF Upto
  <2>3. Append(u, s[n]) = [m \in 1..n |-> s[m]]
    <3> HIDE DEF u
    <3>1. Append(u, s[n]) \in Seq(S) /\ Len(Append(u, s[n])) = n
      BY <2>2, <1>2
    <3>2. \A m \in 1..n : Append(u, s[n])[m] = s[m]
      BY <2>2, <2>1, <1>2
    <3>3. Append(u, s[n]) = [m \in 1..n |-> Append(u, s[n])[m]]
      BY <3>1
    <3> QED
      BY <3>2, <3>3
  <2> QED
    BY <2>2, <2>3 DEF Upto, IsSeq
<1> QED
  BY <1>3, <1>4, <1>5

\* The function that Kept is defined by, up to record m.
Keeps(f, s, some, m) ==
    f = [n \in 0..m |->
           IF n = 0 THEN <<>>
           ELSE IF s[n].batch \in some THEN f[n - 1]
           ELSE Append(f[n - 1], s[n])]

LEMMA KeepsExists ==
    ASSUME NEW s, NEW some, NEW k \in Nat
    PROVE  \E f : Keeps(f, s, some, k)
<1> DEFINE T == {m \in Nat : ~ \E f : Keeps(f, s, some, m)}
<1>1. SUFFICES ASSUME T # {} PROVE FALSE
  OBVIOUS
<1>2. PICK m \in T : \A l \in T : m <= l
  <2>1. T \subseteq Nat
    OBVIOUS
  <2> HIDE DEF T
  <2> QED
    BY <1>1, <2>1, Least
<1>3. Keeps([n \in 0..0 |-> <<>>], s, some, 0)
  BY DEF Keeps
<1>4. m # 0 /\ m \in Nat /\ m - 1 \in Nat /\ m - 1 \notin T
  BY <1>2, <1>3
<1>5. PICK f : Keeps(f, s, some, m - 1)
  BY <1>4
<1> DEFINE g == [n \in 0..m |->
                   IF n < m THEN f[n]
                   ELSE IF s[m].batch \in some THEN f[m - 1] ELSE Append(f[m - 1], s[m])]
<1>6. \A n \in 0..m : g[n] = IF n = 0 THEN <<>>
                             ELSE IF s[n].batch \in some THEN g[n - 1]
                             ELSE Append(g[n - 1], s[n])
  <2> TAKE n \in 0..m
  <2>1. CASE n = 0
    BY <2>1, <1>4, <1>5 DEF Keeps
  <2>2. CASE n \in 1..(m - 1)
    <3>1. g[n] = f[n] /\ g[n - 1] = f[n - 1] /\ n \in 0..(m - 1) /\ n # 0
      BY <2>2, <1>4
    <3> HIDE DEF g
    <3> QED
      BY <3>1, <1>5 DEF Keeps
  <2>3. CASE n = m
    BY <2>3, <1>4
  <2> QED
    BY <2>1, <2>2, <2>3, <1>4
<1>7. Keeps(g, s, some, m)
  <2>1. g = [n \in 0..m |-> g[n]]
    OBVIOUS
  <2> HIDE DEF g
  <2> QED
    BY <2>1, <1>6 DEF Keeps
<1> QED
  BY <1>7, <1>2

\* r has of the records s those of the batches that are not filtered out.
Filtered(r, s, some) ==
    /\ IsSeq(r)
    /\ \A b : IF b \in some THEN Of(r, b) = {}
              ELSE Of(r, b) = Of(s, b) /\ LastOf(r, b) = LastOf(s, b)

LEMMA NoneFiltered == ASSUME NEW some PROVE Filtered(<<>>, <<>>, some)
BY NoRecords DEF Filtered, Of

LEMMA OneFiltered ==
    ASSUME NEW r, NEW s, NEW some, NEW k, IsSeq(s), Filtered(r, s, some)
    PROVE  Filtered(IF k.batch \in some THEN r ELSE Append(r, k), Append(s, k), some)
<1>1. CASE k.batch \in some
  <2>1. \A b : b \notin some => b # k.batch
    BY <1>1
  <2> QED
    BY <1>1, <2>1, LastOfAppended DEF Filtered
<1>2. CASE k.batch \notin some
  <2>1. IsSeq(Append(r, k))
    BY Appended DEF Filtered
  <2>2. \A b : /\ LastOf(Append(r, k), b) = IF k.batch = b THEN {k} ELSE LastOf(r, b)
               /\ Of(Append(r, k), b) = IF k.batch = b THEN Of(r, b) \cup {k} ELSE Of(r, b)
    BY LastOfAppended DEF Filtered
  <2>3. \A b : /\ LastOf(Append(s, k), b) = IF k.batch = b THEN {k} ELSE LastOf(s, b)
               /\ Of(Append(s, k), b) = IF k.batch = b THEN Of(s, b) \cup {k} ELSE Of(s, b)
    BY LastOfAppended
  <2> QED
    BY <1>2, <2>1, <2>2, <2>3 DEF Filtered
<1> QED
  BY <1>1, <1>2

LEMMA KeepsFilters ==
    ASSUME NEW s, IsSeq(s), NEW some, NEW f, Keeps(f, s, some, Len(s))
    PROVE  Filtered(f[Len(s)], s, some)
<1> DEFINE T == {m \in 0..Len(s) : ~ Filtered(f[m], Upto(s, m), some)}
<1>0. Len(s) \in Nat
  BY SeqFacts
<1>1. SUFFICES ASSUME T # {} PROVE FALSE
  <2>1. Filtered(f[Len(s)], Upto(s, Len(s)), some)
    BY <1>0, <1>1
  <2> QED
    BY <2>1, UptoIs
<1>2. PICK m \in T : \A l \in T : m <= l
  <2>1. T \subseteq Nat
    BY <1>0
  <2> HIDE DEF T
  <2> QED
    BY <1>1, <2>1, Least
<1>3. Filtered(f[0], Upto(s, 0), some)
  <2>1. f[0] = <<>>
    BY <1>0 DEF Keeps
  <2> QED
    BY <2>1, UptoIs, NoneFiltered
<1>4. m \in 1..Len(s) /\ ~ Filtered(f[m], Upto(s, m), some)
  BY <1>0, <1>2, <1>3
<1>5. Filtered(f[m - 1], Upto(s, m - 1), some)
  BY <1>2, <1>4
<1>6. f[m] = IF s[m].batch \in some THEN f[m - 1] ELSE Append(f[m - 1], s[m])
  <2>1. m \in 0..Len(s) /\ m # 0
    BY <1>4
  <2> QED
    BY <2>1 DEF Keeps
<1> HIDE DEF T
<1>7. Filtered(IF s[m].batch \in some THEN f[m - 1] ELSE Append(f[m - 1], s[m]), Append(Upto(s, m - 1), s[m]), some)
  BY <1>4, <1>5, UptoIs, OneFiltered
<1> QED
  BY <1>4, <1>6, <1>7, UptoIs

\* What filterJournal does to a journal.
LEMMA KeptFilters ==
    ASSUME NEW s, IsSeq(s), NEW some
    PROVE  Filtered(Kept(s, some), s, some)
<1> DEFINE kept == CHOOSE f : Keeps(f, s, some, Len(s))
<1>1. Keeps(kept, s, some, Len(s))
  BY SeqFacts, KeepsExists
<1>2. Kept(s, some) = kept[Len(s)]
  BY DEF Kept, Keeps
<1> HIDE DEF kept
<1> QED
  BY <1>1, <1>2, KeepsFilters

-------------------------------------------------------------------------------
(* What every variable holds. The chain of a record or an item is a sequence   *)
(* of records, and theirs again: nothing is said of what is in it here.        *)

IsRecord(k) ==
    k \in [batch : 1..MaxSize, text : Texts, context : {k.context}, chain : {k.chain}, repair : BOOLEAN]
IsJournals(J) ==
    /\ J = [s \in Stages |-> J[s]]
    /\ \A s \in Stages : IsSeq(J[s]) /\ \A k \in ToSet(J[s]) : IsRecord(k)
IsItem(i) ==
    /\ i \in [run : Nat, batch : 1..MaxSize, text : Texts, context : {i.context},
              recover : BOOLEAN, seen : {i.seen}, chain : {i.chain}, asked : BOOLEAN, aborted : BOOLEAN]
    /\ IsJournals(i.seen) /\ IsSeq(i.chain) /\ Len(i.chain) <= 4
IsRun(r) ==
    /\ r \in [id : Nat, recover : BOOLEAN, context : {r.context}, seen : {r.seen},
              next : Nat \ {0}, aborted : BOOLEAN]
    /\ IsJournals(r.seen)
JobTyped ==
    /\ size \in 1..MaxSize /\ quality \in Qualities /\ src \in [1..MaxSize -> Texts]
    /\ fingerprint \in [1..MaxSize -> Texts] \cup {None} /\ status \in Statuses /\ runs \in Nat
ItemsTyped == IsFiniteSet(items) /\ \A i \in items : IsItem(i)
OutTyped == /\ out = [b \in 1..MaxSize |-> out[b]]
            /\ \A b \in 1..MaxSize : IsSeq(out[b]) /\ Len(out[b]) <= 4
CountsTyped == calls \in [1..MaxSize -> [Stages -> Nat]] /\ losses \in [1..MaxSize -> Nat]
Types ==
    JobTyped /\ IsJournals(journal) /\ IsRun(run) /\ ItemsTyped /\ OutTyped /\ CountsTyped

LEMMA EmptyIs ==
    /\ IsJournals(Empty) /\ IsRun(NoRun) /\ \A s \in Stages : Empty[s] = <<>> /\ ToSet(Empty[s]) = {}
    /\ NoRun.id = 0 /\ NoRun.next = 1 /\ NoRun.seen = Empty /\ NoRun.recover = FALSE
<1>1. Empty = [s \in Stages |-> Empty[s]] /\ \A s \in Stages : Empty[s] = <<>>
  BY DEF Empty
<1>2. IsJournals(Empty)
  BY <1>1, NoRecords DEF IsJournals
<1>3. NoRun.seen = Empty
  BY DEF NoRun, Empty
<1> QED
  BY <1>1, <1>2, <1>3, NoRecords DEF NoRun, IsRun

\* The item that answers a stage.
Follows(j, i) ==
    /\ IsItem(j) /\ j.run = i.run /\ j.batch = i.batch /\ j.text = i.text
    /\ j.recover = i.recover /\ j.context = i.context /\ j.seen = i.seen

LEMMA ItemSteps ==
    ASSUME NEW i, IsItem(i)
    PROVE  /\ LET j == [i EXCEPT !.asked = TRUE]
              IN  Follows(j, i) /\ j.chain = i.chain /\ j.asked
           /\ \A a \in BOOLEAN : LET j == [i EXCEPT !.aborted = @ \/ a]
                                 IN  Follows(j, i) /\ j.chain = i.chain /\ j.asked = i.asked
           /\ \A k : Len(i.chain) <= 3 =>
                LET j == [i EXCEPT !.chain = Append(@, k)]
                IN  Follows(j, i) /\ j.chain = Append(i.chain, k) /\ j.asked = i.asked
           /\ \A k : Len(i.chain) <= 3 =>
                LET j == [i EXCEPT !.asked = FALSE, !.chain = Append(@, k)]
                IN  Follows(j, i) /\ j.chain = Append(i.chain, k) /\ ~j.asked
<1>1. /\ i \in [run : Nat, batch : 1..MaxSize, text : Texts, context : {i.context},
                recover : BOOLEAN, seen : {i.seen}, chain : {i.chain}, asked : BOOLEAN, aborted : BOOLEAN]
      /\ IsJournals(i.seen) /\ IsSeq(i.chain) /\ Len(i.chain) <= 4
  BY DEF IsItem
<1>2. LET j == [i EXCEPT !.asked = TRUE]
      IN  Follows(j, i) /\ j.chain = i.chain /\ j.asked
  BY <1>1 DEF Follows, IsItem
<1>3. ASSUME NEW a \in BOOLEAN
      PROVE  LET j == [i EXCEPT !.aborted = @ \/ a]
             IN  Follows(j, i) /\ j.chain = i.chain /\ j.asked = i.asked
  BY <1>1 DEF Follows, IsItem
<1>4. ASSUME NEW k, Len(i.chain) <= 3
      PROVE  IsSeq(Append(i.chain, k)) /\ Len(Append(i.chain, k)) <= 4
  BY <1>1, <1>4, Appended, SeqFacts
<1>5. ASSUME NEW k, Len(i.chain) <= 3
      PROVE  LET j == [i EXCEPT !.chain = Append(@, k)]
             IN  Follows(j, i) /\ j.chain = Append(i.chain, k) /\ j.asked = i.asked
  <2>1. PICK c : c = Append(i.chain, k)
    OBVIOUS
  <2>2. IsSeq(c) /\ Len(c) <= 4
    BY <1>4, <1>5, <2>1
  <2> QED
    BY <1>1, <2>1, <2>2 DEF Follows, IsItem
<1>6. ASSUME NEW k, Len(i.chain) <= 3
      PROVE  LET j == [i EXCEPT !.asked = FALSE, !.chain = Append(@, k)]
             IN  Follows(j, i) /\ j.chain = Append(i.chain, k) /\ ~j.asked
  <2>1. PICK c : c = Append(i.chain, k)
    OBVIOUS
  <2>2. IsSeq(c) /\ Len(c) <= 4
    BY <1>4, <1>6, <2>1
  <2> QED
    BY <1>1, <2>1, <2>2 DEF Follows, IsItem
<1> QED
  BY <1>2, <1>3, <1>5, <1>6

\* The record of an answer, and a record found by its key.
LEMMA RecordOfKey ==
    ASSUME NEW i, IsItem(i)
    PROVE  /\ \A found \in BOOLEAN :
                LET k == [Key(i) EXCEPT !.repair = found]
                IN  IsRecord(k) /\ k.batch = i.batch /\ k.text = i.text /\ k.repair = found
           /\ \A k : IsRecord(k) /\ KeyOf(k) = Key(i) => k.batch = i.batch /\ k.text = i.text
<1>1. i.batch \in 1..MaxSize /\ i.text \in Texts
  BY DEF IsItem
<1>2. ASSUME NEW found \in BOOLEAN
      PROVE  LET k == [Key(i) EXCEPT !.repair = found]
             IN  IsRecord(k) /\ k.batch = i.batch /\ k.text = i.text /\ k.repair = found
  BY <1>1 DEF Key, IsRecord
<1>3. ASSUME NEW k, IsRecord(k), KeyOf(k) = Key(i)
      PROVE  k.batch = i.batch /\ k.text = i.text
  <2>1. KeyOf(k).batch = k.batch /\ KeyOf(k).text = k.text
    BY <1>3 DEF KeyOf, IsRecord
  <2>2. Key(i).batch = i.batch /\ Key(i).text = i.text
    BY DEF Key
  <2> QED
    BY <1>3, <2>1, <2>2
<1> QED
  BY <1>2, <1>3

\* Stages.
LEMMA StageIs ==
    ASSUME NEW i, IsItem(i), Due(i)
    PROVE  /\ Len(i.chain) \in Nat /\ Len(i.chain) <= 3
           /\ StageOf(i) = Len(i.chain) + 1 /\ StageOf(i) \in Stages
<1>1. Len(i.chain) \in Nat
  BY SeqFacts DEF IsItem
<1>2. StageOf(i) <= 2 \/ StageOf(i) = 3 \/ StageOf(i) = 4
  BY DEF Due
<1>3. \A n \in Nat : n + 1 <= 2 \/ n + 1 = 3 \/ n + 1 = 4 => n <= 3 /\ n + 1 \in 1..4
  OBVIOUS
<1>4. Len(i.chain) <= 3 /\ Len(i.chain) + 1 \in 1..4
  BY <1>1, <1>2, <1>3 DEF StageOf
<1> QED
  BY <1>1, <1>4 DEF StageOf, Stages

\* What a run reuses: what has the same key, or the batch's last record.
LEMMA SavedIs ==
    ASSUME NEW i, IsItem(i), Due(i)
    PROVE  LET s == i.seen[StageOf(i)]
               l == LastOf(s, i.batch)
           IN  /\ \A k \in Saved(i) :
                    /\ k \in Of(s, i.batch) /\ IsRecord(k)
                    /\ k.text = i.text \/ (i.recover /\ k \in l)
               /\ Saved(i) = {} /\ i.recover => \A k \in l : ~Compatible(k, i.text)
<1> DEFINE s == i.seen[StageOf(i)]
           P == {n \in DOMAIN s : KeyOf(s[n]) = Key(i)}
           keyed == LastAt(s, P)
<1>1. IsSeq(s) /\ \A k \in ToSet(s) : IsRecord(k)
  BY StageIs DEF IsItem, IsJournals
<1>2. Saved(i) = IF keyed # {} THEN keyed
                 ELSE IF i.recover THEN {k \in LastOf(s, i.batch) : Compatible(k, i.text)} ELSE {}
  BY DEF Saved
<1>3. \A k \in keyed : k \in ToSet(s) /\ KeyOf(k) = Key(i)
  <2>1. keyed \subseteq {s[n] : n \in P}
    BY <1>1, LastAtIs
  <2> QED
    BY <2>1 DEF ToSet
<1> HIDE DEF s, keyed
<1>4. \A k \in keyed : IsRecord(k) /\ k \in Of(s, i.batch) /\ k.text = i.text
  BY <1>1, <1>3, RecordOfKey DEF Of
<1>5. LastOf(s, i.batch) \subseteq Of(s, i.batch)
  BY <1>1, LastOfIs
<1>6. \A k \in Of(s, i.batch) : IsRecord(k)
  BY <1>1 DEF Of
<1>7. \A k \in Saved(i) : /\ k \in Of(s, i.batch) /\ IsRecord(k)
                          /\ k.text = i.text \/ (i.recover /\ k \in LastOf(s, i.batch))
  BY <1>2, <1>4, <1>5, <1>6
<1>8. Saved(i) = {} /\ i.recover => \A k \in LastOf(s, i.batch) : ~Compatible(k, i.text)
  BY <1>2
<1> QED
  BY <1>7, <1>8 DEF s

-------------------------------------------------------------------------------
(* The steps of an item.                                                       *)

LEMMA ReuseIs ==
    ASSUME Types, NEW i \in items, Reuse(i)
    PROVE  \E k, j :
             /\ k \in Saved(i) /\ Due(i) /\ ~i.asked
             /\ Follows(j, i) /\ j.chain = Append(i.chain, k) /\ ~j.asked
             /\ items' = (items \ {i}) \cup {j}
             /\ UNCHANGED <<size, quality, src, fingerprint, status, journal, run, out>>
             /\ UNCHANGED <<runs, calls, losses, late, mixed, returned, drifted>>
<1>1. PICK k \in Saved(i) : Becomes(i, [i EXCEPT !.chain = Append(@, k)])
  BY DEF Reuse
<1>2. IsItem(i) /\ Due(i) /\ ~i.asked
  BY DEF Reuse, Types, ItemsTyped
<1>3. Len(i.chain) <= 3
  BY <1>2, StageIs
<1> DEFINE j == [i EXCEPT !.chain = Append(@, k)]
<1>4. Follows(j, i) /\ j.chain = Append(i.chain, k) /\ ~j.asked
  BY <1>2, <1>3, ItemSteps
<1>5. items' = (items \ {i}) \cup {j}
  BY <1>1 DEF Becomes
<1>6. /\ UNCHANGED <<size, quality, src, fingerprint, status, journal, run, out>>
      /\ UNCHANGED <<runs, calls, losses, late, mixed, returned, drifted>>
  BY DEF Reuse, job, counts, history
<1> HIDE DEF j
<1> QED
  BY <1>2, <1>4, <1>5, <1>6

LEMMA AskIs ==
    ASSUME Types, NEW i \in items, Ask(i)
    PROVE  \E j :
             /\ Saved(i) = {} /\ Due(i) /\ ~i.asked
             /\ Follows(j, i) /\ j.chain = i.chain /\ j.asked
             /\ items' = (items \ {i}) \cup {j}
             /\ calls' = [calls EXCEPT ![i.batch][StageOf(i)] = @ + 1]
             /\ UNCHANGED <<size, quality, src, fingerprint, status, journal, run, out>>
             /\ UNCHANGED <<runs, losses, late, mixed, returned, drifted>>
<1>1. IsItem(i) /\ Due(i) /\ ~i.asked /\ Saved(i) = {}
  BY DEF Ask, Types, ItemsTyped
<1> DEFINE j == [i EXCEPT !.asked = TRUE]
<1>2. Follows(j, i) /\ j.chain = i.chain /\ j.asked
  BY <1>1, ItemSteps
<1>3. items' = (items \ {i}) \cup {j}
  BY DEF Ask, Becomes
<1>4. /\ UNCHANGED <<size, quality, src, fingerprint, status, journal, run, out>>
      /\ UNCHANGED <<runs, losses, late, mixed, returned, drifted>>
      /\ calls' = [calls EXCEPT ![i.batch][StageOf(i)] = @ + 1]
  BY DEF Ask, job, counts
<1> HIDE DEF j
<1> QED
  BY <1>1, <1>2, <1>3, <1>4

LEMMA AnswerIs ==
    ASSUME Types, NEW i \in items, Due(i), Answer(i)
    PROVE  \E k, j :
             /\ i.asked /\ IsRecord(k) /\ k.batch = i.batch /\ k.text = i.text
             /\ k.repair => StageOf(i) = 3
             /\ k = [Key(i) EXCEPT !.repair = k.repair] /\ k.repair \in BOOLEAN
             /\ Follows(j, i) /\ j.chain = Append(i.chain, k) /\ ~j.asked
             /\ items' = (items \ {i}) \cup {j}
             /\ journal' = [journal EXCEPT ![StageOf(i)] = Append(@, k)]
             /\ late' = (late \/ i.text # src[i.batch])
             /\ UNCHANGED <<size, quality, src, fingerprint, status, run, out>>
             /\ UNCHANGED <<runs, calls, losses, mixed, returned, drifted>>
<1>1. PICK found \in IF StageOf(i) = 3 THEN BOOLEAN ELSE {FALSE} :
        LET k == [Key(i) EXCEPT !.repair = found]
        IN  /\ Journaled(StageOf(i), k)
            /\ Becomes(i, [i EXCEPT !.asked = FALSE, !.chain = Append(@, k)])
  BY DEF Answer
<1>2. IsItem(i) /\ i.asked
  BY DEF Answer, Types, ItemsTyped
<1>3. Len(i.chain) <= 3
  BY <1>2, StageIs
<1> DEFINE k == [Key(i) EXCEPT !.repair = found]
           j == [i EXCEPT !.asked = FALSE, !.chain = Append(@, k)]
<1>4. found \in BOOLEAN /\ (found => StageOf(i) = 3)
  BY <1>1
<1>5. IsRecord(k) /\ k.batch = i.batch /\ k.text = i.text /\ k.repair = found
  BY <1>2, <1>4, RecordOfKey
<1>6. journal' = [journal EXCEPT ![StageOf(i)] = Append(@, k)]
  BY <1>1 DEF Journaled
<1>7. items' = (items \ {i}) \cup {j}
  BY <1>1 DEF Becomes
<1>10. k = [Key(i) EXCEPT !.repair = k.repair]
  BY <1>5
<1> HIDE DEF k
<1>8. Follows(j, i) /\ j.chain = Append(i.chain, k) /\ ~j.asked
  BY <1>2, <1>3, ItemSteps
<1>9. /\ UNCHANGED <<size, quality, src, fingerprint, status, run, out>>
      /\ UNCHANGED <<runs, calls, losses, mixed, returned, drifted>>
      /\ late' = (late \/ i.text # src[i.batch])
  BY DEF Answer, job, counts
<1> HIDE DEF j
<1> QED
  BY <1>2, <1>4, <1>5, <1>6, <1>7, <1>8, <1>9, <1>10

-------------------------------------------------------------------------------
(* Every variable keeps its type.                                              *)

LEMMA ItemsMoved ==
    ASSUME ItemsTyped, NEW i \in items, NEW j, IsItem(j), items' = (items \ {i}) \cup {j}
    PROVE  ItemsTyped'
<1>1. IsFiniteSet(items \ {i})
  BY FS_RemoveElement DEF ItemsTyped
<1>2. IsFiniteSet((items \ {i}) \cup {j})
  BY <1>1, FS_AddElement
<1> QED
  BY <1>2 DEF ItemsTyped

LEMMA ItemGone ==
    ASSUME ItemsTyped, NEW i \in items, items' = items \ {i}
    PROVE  ItemsTyped'
<1>1. IsFiniteSet(items \ {i})
  BY FS_RemoveElement DEF ItemsTyped
<1> QED
  BY <1>1 DEF ItemsTyped

\* A journal with one more record.
LEMMA JournalGrows ==
    ASSUME NEW J, IsJournals(J), NEW z \in Stages, NEW k, IsRecord(k)
    PROVE  LET G == [J EXCEPT ![z] = Append(@, k)]
           IN  /\ IsJournals(G) /\ \A s \in Stages : s # z => G[s] = J[s]
               /\ G[z] = Append(J[z], k) /\ ToSet(G[z]) = ToSet(J[z]) \cup {k}
<1> DEFINE G == [J EXCEPT ![z] = Append(@, k)]
<1>1. PICK r : r = Append(J[z], k)
  OBVIOUS
<1>2. IsSeq(r) /\ ToSet(r) = ToSet(J[z]) \cup {k}
  BY <1>1, Appended DEF IsJournals
<1>3. DOMAIN J = Stages
  BY DEF IsJournals
<1>4. G = [s \in Stages |-> G[s]] /\ \A s \in Stages : G[s] = IF s = z THEN r ELSE J[s]
  BY <1>1, <1>3
<1> HIDE DEF G
<1>5. IsJournals(G)
  BY <1>2, <1>4 DEF IsJournals
<1> QED
  BY <1>1, <1>2, <1>4, <1>5 DEF G

\* Journals after a filter.
LEMMA JournalsFiltered ==
    ASSUME Types, NEW from, NEW some, Filter(from, some)
    PROVE  /\ IsJournals(journal')
           /\ \A s \in Stages : journal'[s] = IF s < from THEN journal[s] ELSE Kept(journal[s], some)
           /\ \A s \in Stages : ~(s < from) => Filtered(journal'[s], journal[s], some)
           /\ \A s \in Stages : ToSet(journal'[s]) \subseteq ToSet(journal[s])
<1>1. /\ \A s \in Stages : journal'[s] = IF s < from THEN journal[s] ELSE Kept(journal[s], some)
      /\ journal' = [s \in Stages |-> journal'[s]]
  BY DEF Filter
<1>2. \A s \in Stages : IsSeq(journal[s]) /\ \A k \in ToSet(journal[s]) : IsRecord(k)
  BY DEF Types, IsJournals
<1>3. \A s \in Stages : Filtered(Kept(journal[s], some), journal[s], some)
  BY <1>2, KeptFilters
<1>4. \A s \in Stages : ~(s < from) => Filtered(journal'[s], journal[s], some)
  BY <1>1, <1>3
<1>5. \A s \in Stages : IsSeq(journal'[s])
  BY <1>1, <1>2, <1>4 DEF Filtered
<1>6. ASSUME NEW s \in Stages PROVE ToSet(journal'[s]) \subseteq ToSet(journal[s])
  <2>1. CASE s < from
    BY <2>1, <1>1
  <2>2. CASE ~(s < from)
    <3>1. \A b : Of(journal'[s], b) \subseteq Of(journal[s], b)
      BY <1>4, <2>2 DEF Filtered
    <3>2. \A k \in ToSet(journal'[s]) : k \in Of(journal'[s], k.batch)
      BY DEF Of
    <3>3. \A k \in ToSet(journal'[s]) : k \in Of(journal[s], k.batch)
      BY <3>1, <3>2
    <3> QED
      BY <3>3 DEF Of
  <2> QED
    BY <2>1, <2>2
<1>7. IsJournals(journal')
  BY <1>1, <1>2, <1>5, <1>6 DEF IsJournals
<1> QED
  BY <1>1, <1>4, <1>6, <1>7

LEMMA CutOffIs ==
    ASSUME Types, NEW cut, cut \subseteq items, CutOff(cut)
    PROVE  /\ losses' \in [1..MaxSize -> Nat]
           /\ \A b \in 1..MaxSize : /\ Cardinality({i \in cut : i.batch = b}) \in Nat
                                    /\ losses'[b] = losses[b] + Cardinality({i \in cut : i.batch = b})
                                    /\ losses[b] \in Nat
<1>1. \A b : {i \in cut : i.batch = b} \subseteq items
  OBVIOUS
<1>2. \A b : Cardinality({i \in cut : i.batch = b}) \in Nat
  BY <1>1, FS_Subset, FS_CardinalityType DEF Types, ItemsTyped
<1>3. \A b \in 1..MaxSize : losses[b] \in Nat
  BY DEF Types, CountsTyped
<1> DEFINE more(b) == Cardinality({i \in cut : i.batch = b})
<1>4. losses' = [b \in 1..MaxSize |-> losses[b] + more(b)]
  BY DEF CutOff
<1>5. \A b : more(b) \in Nat
  BY <1>2
<1> HIDE DEF more
<1>6. /\ losses' \in [1..MaxSize -> Nat]
      /\ \A b \in 1..MaxSize : more(b) \in Nat /\ losses'[b] = losses[b] + more(b) /\ losses[b] \in Nat
  BY <1>3, <1>4, <1>5
<1> QED
  BY <1>6 DEF more

LEMMA OutSet ==
    ASSUME Types, NEW i, IsItem(i), out' = [out EXCEPT ![i.batch] = i.chain]
    PROVE  OutTyped' /\ out'[i.batch] = i.chain /\ \A b \in 1..MaxSize : b # i.batch => out'[b] = out[b]
<1>1. i.batch \in 1..MaxSize /\ IsSeq(i.chain) /\ Len(i.chain) <= 4
  BY DEF IsItem
<1>2. DOMAIN out = 1..MaxSize
  BY DEF Types, OutTyped
<1>3. /\ out' = [b \in 1..MaxSize |-> out'[b]]
      /\ \A b \in 1..MaxSize : out'[b] = IF b = i.batch THEN i.chain ELSE out[b]
  BY <1>1, <1>2
<1> QED
  BY <1>1, <1>3 DEF Types, OutTyped

LEMMA OutCleared ==
    ASSUME out' = [b \in 1..MaxSize |-> <<>>]
    PROVE  OutTyped' /\ \A b \in 1..MaxSize : out'[b] = <<>>
BY NoRecords DEF OutTyped

LEMMA CallsFiltered ==
    ASSUME Types, NEW from, NEW some, Filter(from, some)
    PROVE  /\ calls' \in [1..MaxSize -> [Stages -> Nat]]
           /\ \A b \in 1..MaxSize, s \in Stages :
                calls'[b][s] = IF s >= from /\ b \in some THEN 0 ELSE calls[b][s]
BY DEF Filter, Types, CountsTyped

LEMMA CallsCount ==
    ASSUME Types, NEW b \in 1..MaxSize, NEW z \in Stages, calls' = [calls EXCEPT ![b][z] = @ + 1]
    PROVE  /\ calls' \in [1..MaxSize -> [Stages -> Nat]]
           /\ \A a \in 1..MaxSize, s \in Stages :
                calls'[a][s] = IF a = b /\ s = z THEN calls[a][s] + 1 ELSE calls[a][s]
BY DEF Types, CountsTyped

LEMMA CallsRecounted ==
    ASSUME Types, Recounted
    PROVE  /\ calls' \in [1..MaxSize -> [Stages -> Nat]]
           /\ \A b \in 1..MaxSize, s \in Stages :
                calls'[b][s] = IF src'[b] = src[b] THEN calls[b][s] ELSE 0
BY DEF Recounted, Types, CountsTyped

LEMMA UnpaidIs == Unpaid \in [1..MaxSize -> [Stages -> Nat]] /\ \A b \in 1..MaxSize, s \in Stages : Unpaid[b][s] = 0
BY DEF Unpaid

\* A batch that a worker takes.
NewItem ==
    [run |-> run.id, batch |-> run.next, text |-> src[run.next],
     context |-> run.context, recover |-> run.recover, seen |-> run.seen,
     chain |-> <<>>, asked |-> FALSE, aborted |-> FALSE]

LEMMA ClaimIs ==
    ASSUME Types, Claim
    PROVE  /\ status = "running" /\ run.next \in Batches /\ IsItem(NewItem)
           /\ items' = items \cup {NewItem}
           /\ IsRun(run') /\ run'.next = run.next + 1 /\ run'.id = run.id /\ run'.seen = run.seen
           /\ run'.recover = run.recover /\ run'.context = run.context
           /\ UNCHANGED <<size, quality, src, fingerprint, status, journal, out>>
           /\ UNCHANGED <<runs, calls, losses, late, mixed, returned, drifted>>
<1>1. /\ status = "running" /\ run.next <= size /\ items' = items \cup {NewItem}
      /\ run' = [run EXCEPT !.next = @ + 1]
      /\ UNCHANGED <<size, quality, src, fingerprint, status, journal, out>>
      /\ UNCHANGED <<runs, calls, losses, late, mixed, returned, drifted>>
  BY DEF Claim, NewItem, job, counts, history
<1>2. IsRun(run) /\ size \in 1..MaxSize /\ src \in [1..MaxSize -> Texts] /\ MaxSize \in Nat
  BY ConstantsAssumption DEF Types, JobTyped, ConstantsAssumption
<1>3. /\ IsRun(run') /\ run'.next = run.next + 1 /\ run'.id = run.id /\ run'.seen = run.seen
      /\ run'.recover = run.recover /\ run'.context = run.context
  BY <1>1, <1>2 DEF IsRun
<1>4. run.next \in Batches /\ run.next \in 1..MaxSize
  BY <1>1, <1>2 DEF IsRun, Batches
<1>5. IsItem(NewItem)
  <2>1. src[run.next] \in Texts
    BY <1>2, <1>4
  <2>2. IsSeq(<<>>) /\ Len(<<>>) <= 4
    BY NoRecords
  <2> QED
    BY <1>2, <1>4, <2>1, <2>2 DEF IsRun, IsItem, NewItem
<1> QED
  BY <1>1, <1>3, <1>4, <1>5

\* Which run an item is of, and what the two have in common.
RunsApart ==
    /\ run.id <= runs /\ run.next <= size + 1
    /\ (status = "running" => run.id # 0) /\ (status # "running" => run = NoRun)
    /\ \A i \in items : i.run # 0 /\ i.run <= runs /\ i.batch <= size /\ (i.asked => Due(i))
    /\ \A i, j \in items : i.run = j.run /\ i.batch = j.batch => i = j
    /\ \A i \in items : i.run = run.id =>
         /\ i.text = src[i.batch] /\ i.seen = run.seen /\ i.recover = run.recover /\ i.context = run.context
         /\ i.batch < run.next
SourceKnown ==
    /\ status \in {"running", "paused", "failed", "completed"} => fingerprint = src
    /\ fingerprint = None =>
         status = "created" /\ items = {} /\ \A s \in Stages : ToSet(journal[s]) = {}
Order == RunsApart /\ SourceKnown

LEMMA ItemsHold ==
    ASSUME Types, Order, NEW i \in items, Item(i)
    PROVE  Types'
<1>0. IsItem(i) /\ (i.asked => Due(i))
  BY DEF Types, ItemsTyped, Order, RunsApart
<1>1. CASE Reuse(i)
  <2>1. PICK k, j : /\ Follows(j, i) /\ items' = (items \ {i}) \cup {j}
                    /\ UNCHANGED <<size, quality, src, fingerprint, status, journal, run, out>>
                    /\ UNCHANGED <<runs, calls, losses>>
    BY <1>1, ReuseIs
  <2>2. ItemsTyped'
    BY <2>1, ItemsMoved DEF Types, Follows
  <2> QED
    BY <2>1, <2>2 DEF Types, JobTyped, OutTyped, CountsTyped
<1>2. CASE Ask(i)
  <2>1. PICK j : /\ Due(i) /\ Follows(j, i) /\ items' = (items \ {i}) \cup {j}
                 /\ calls' = [calls EXCEPT ![i.batch][StageOf(i)] = @ + 1]
                 /\ UNCHANGED <<size, quality, src, fingerprint, status, journal, run, out>>
                 /\ UNCHANGED <<runs, losses>>
    BY <1>2, AskIs
  <2>2. ItemsTyped'
    BY <2>1, ItemsMoved DEF Types, Follows
  <2>3. i.batch \in 1..MaxSize /\ StageOf(i) \in Stages
    BY <1>0, <2>1, StageIs DEF IsItem
  <2>4. calls' \in [1..MaxSize -> [Stages -> Nat]]
    BY <2>1, <2>3, CallsCount
  <2> QED
    BY <2>1, <2>2, <2>4 DEF Types, JobTyped, OutTyped, CountsTyped
<1>3. CASE Answer(i)
  <2>0. Due(i)
    BY <1>0, <1>3 DEF Answer
  <2>1. PICK k, j : /\ IsRecord(k) /\ Follows(j, i) /\ items' = (items \ {i}) \cup {j}
                    /\ journal' = [journal EXCEPT ![StageOf(i)] = Append(@, k)]
                    /\ UNCHANGED <<size, quality, src, fingerprint, status, run, out>>
                    /\ UNCHANGED <<runs, calls, losses>>
    BY <1>3, <2>0, AnswerIs
  <2>2. ItemsTyped'
    BY <2>1, ItemsMoved DEF Types, Follows
  <2>3. StageOf(i) \in Stages
    BY <1>0, <2>0, StageIs
  <2>4. IsJournals(journal')
    BY <2>1, <2>3, JournalGrows DEF Types
  <2> QED
    BY <2>1, <2>2, <2>4 DEF Types, JobTyped, OutTyped, CountsTyped
<1>4. CASE RepairFails(i)
  <2>1. /\ items' = items \ {i} /\ (out' = [out EXCEPT ![i.batch] = i.chain] \/ out' = out)
        /\ losses' = [losses EXCEPT ![i.batch] = @ + 1]
        /\ UNCHANGED <<size, quality, src, fingerprint, status, journal, run, runs, calls>>
    BY <1>4 DEF RepairFails, job, counts
  <2>2. ItemsTyped' /\ OutTyped'
    BY <1>0, <2>1, ItemGone, OutSet DEF Types, OutTyped
  <2>3. losses' \in [1..MaxSize -> Nat]
    BY <1>0, <2>1 DEF Types, CountsTyped, IsItem
  <2> QED
    BY <2>1, <2>2, <2>3 DEF Types, JobTyped, CountsTyped
<1>5. CASE BatchDone(i)
  <2>1. /\ items' = items \ {i} /\ (out' = [out EXCEPT ![i.batch] = i.chain] \/ out' = out)
        /\ UNCHANGED <<size, quality, src, fingerprint, status, journal, run, runs, calls, losses>>
    BY <1>5 DEF BatchDone, job, counts, history
  <2>2. ItemsTyped' /\ OutTyped'
    BY <1>0, <2>1, ItemGone, OutSet DEF Types, OutTyped
  <2> QED
    BY <2>1, <2>2 DEF Types, JobTyped, CountsTyped
<1>6. CASE Fails(i)
  <2>1. /\ items' = items \ {i} /\ UNCHANGED <<size, quality, src, fingerprint, journal, runs, calls>>
    BY <1>6 DEF Fails, counts
  <2>2. ItemsTyped'
    BY <2>1, ItemGone DEF Types
  <2>3. CASE Current(i)
    <3>1. /\ status' \in Statuses /\ run' = NoRun /\ out' = [b \in 1..MaxSize |-> <<>>] /\ CutOff(Ours)
      BY <1>6, <2>3 DEF Fails, Ends, Statuses
    <3>2. losses' \in [1..MaxSize -> Nat]
      BY <3>1, CutOffIs DEF Ours
    <3> QED
      BY <2>1, <2>2, <3>1, <3>2, EmptyIs, OutCleared DEF Types, JobTyped, CountsTyped
  <2>4. CASE ~Current(i)
    <3>1. UNCHANGED <<status, run, out, losses>>
      BY <1>6, <2>4 DEF Fails
    <3> QED
      BY <2>1, <2>2, <3>1 DEF Types, JobTyped, OutTyped, CountsTyped
  <2> QED
    BY <2>3, <2>4
<1> QED
  BY <1>1, <1>2, <1>3, <1>4, <1>5, <1>6 DEF Item

\* A pause changes every item in one place.
Paused(i) == [i EXCEPT !.aborted = @ \/ i.run = run.id]

LEMMA PausedAre ==
    ASSUME NEW S, IsFiniteSet(S)
    PROVE  LET T == {Paused(i) : i \in S}
           IN  IsFiniteSet(T) /\ Cardinality(T) <= Cardinality(S)
<1> DEFINE T == {Paused(i) : i \in S}
           f == [i \in S |-> Paused(i)]
<1>1. f \in Surjection(S, T)
  BY DEF Surjection
<1> QED
  BY <1>1, FS_Surjection

LEMMA PauseIs ==
    ASSUME Types, Pause
    PROVE  /\ status = "running" /\ items' = {Paused(i) : i \in items}
           /\ \A i \in items : /\ Follows(Paused(i), i)
                               /\ Paused(i).chain = i.chain /\ Paused(i).asked = i.asked
           /\ IsRun(run') /\ run'.next = run.next /\ run'.id = run.id /\ run'.seen = run.seen
           /\ run'.recover = run.recover /\ run'.context = run.context
           /\ UNCHANGED <<size, quality, src, fingerprint, status, journal, out>>
           /\ UNCHANGED <<runs, calls, losses, late, mixed, returned, drifted>>
<1>1. /\ status = "running" /\ run' = [run EXCEPT !.aborted = TRUE]
      /\ items' = {Paused(i) : i \in items}
      /\ UNCHANGED <<size, quality, src, fingerprint, status, journal, out>>
      /\ UNCHANGED <<runs, calls, losses, late, mixed, returned, drifted>>
  BY DEF Pause, Paused, job, counts, history
<1>2. ASSUME NEW i \in items
      PROVE  Follows(Paused(i), i) /\ Paused(i).chain = i.chain /\ Paused(i).asked = i.asked
  <2>1. IsItem(i) /\ (i.run = run.id) \in BOOLEAN
    BY DEF Types, ItemsTyped
  <2>2. \A a \in BOOLEAN : LET k == [i EXCEPT !.aborted = @ \/ a]
                          IN  Follows(k, i) /\ k.chain = i.chain /\ k.asked = i.asked
    BY <2>1, ItemSteps
  <2> DEFINE a == i.run = run.id
             k == [i EXCEPT !.aborted = @ \/ a]
  <2>3. Follows(k, i) /\ k.chain = i.chain /\ k.asked = i.asked
    BY <2>1, <2>2
  <2> QED
    BY <2>3 DEF Paused
<1>3. /\ IsRun(run') /\ run'.next = run.next /\ run'.id = run.id /\ run'.seen = run.seen
      /\ run'.recover = run.recover /\ run'.context = run.context
  BY <1>1 DEF Types, IsRun
<1> QED
  BY <1>1, <1>2, <1>3

LEMMA RunsHold ==
    ASSUME Types, Order, Start \/ Pause \/ Crash \/ Claim \/ Stops \/ Complete
    PROVE  Types'
<1>1. CASE Start
  <2>1. PICK c \in Contexts : run' = [id |-> runs', recover |-> SameSource,
                  context |-> c, seen |-> journal, next |-> 1, aborted |-> FALSE]
    BY <1>1 DEF Start
  <2>2. /\ runs' = runs + 1 /\ fingerprint' = src /\ out' = [b \in 1..MaxSize |-> <<>>]
        /\ status' = "running" /\ UNCHANGED <<size, quality, src, journal, items, calls, losses>>
    BY <1>1 DEF Start, history
  <2>3. IsRun(run')
    <3>1. runs' \in Nat /\ SameSource \in BOOLEAN
      BY <2>2 DEF Types, JobTyped, SameSource
    <3>2. PICK r : r = SameSource
      OBVIOUS
    <3> QED
      BY <2>1, <3>1, <3>2 DEF Types, IsRun
  <2> QED
    BY <2>2, <2>3, OutCleared DEF Types, JobTyped, ItemsTyped, CountsTyped, Statuses
<1>2. CASE Pause
  <2>1. IsFiniteSet(items')
    BY <1>2, PauseIs, PausedAre DEF Types, ItemsTyped
  <2>2. ItemsTyped'
    BY <1>2, <2>1, PauseIs DEF ItemsTyped, Follows
  <2> QED
    BY <1>2, <2>2, PauseIs DEF Types, JobTyped, OutTyped, CountsTyped
<1>3. CASE Crash
  <2>1. /\ status' \in Statuses /\ items' = {} /\ CutOff(items)
        /\ UNCHANGED <<size, quality, src, fingerprint, journal, runs, calls>>
        /\ (run' = NoRun /\ out' = [b \in 1..MaxSize |-> <<>>]) \/ UNCHANGED <<run, out>>
    BY <1>3 DEF Crash, Ends, Types, JobTyped, Statuses, counts
  <2>2. losses' \in [1..MaxSize -> Nat]
    BY <2>1, CutOffIs
  <2>3. ItemsTyped'
    BY <2>1, FS_EmptySet DEF ItemsTyped
  <2>4. IsRun(run') /\ OutTyped'
    BY <2>1, EmptyIs, OutCleared DEF Types, OutTyped
  <2> QED
    BY <2>1, <2>2, <2>3, <2>4 DEF Types, JobTyped, CountsTyped
<1>4. CASE Claim
  <2>1. ItemsTyped'
    <3>1. IsFiniteSet(items \cup {NewItem})
      BY FS_AddElement DEF Types, ItemsTyped
    <3> QED
      BY <1>4, <3>1, ClaimIs DEF Types, ItemsTyped
  <2> QED
    BY <1>4, <2>1, ClaimIs DEF Types, JobTyped, OutTyped, CountsTyped
<1>5. CASE Stops
  <2>1. /\ status' = "paused" /\ run' = NoRun /\ out' = [b \in 1..MaxSize |-> <<>>]
        /\ UNCHANGED <<size, quality, src, fingerprint, journal, items, runs, calls, losses>>
    BY <1>5 DEF Stops, Ends, counts
  <2> QED
    BY <2>1, EmptyIs, OutCleared DEF Types, JobTyped, ItemsTyped, CountsTyped, Statuses
<1>6. CASE Complete
  <2>1. /\ status' = "completed" /\ run' = NoRun
        /\ UNCHANGED <<size, quality, src, fingerprint, journal, items, out, runs, calls, losses>>
    BY <1>6 DEF Complete, counts, history
  <2> QED
    BY <2>1, EmptyIs DEF Types, JobTyped, ItemsTyped, OutTyped, CountsTyped, Statuses
<1> QED
  BY <1>1, <1>2, <1>3, <1>4, <1>5, <1>6

LEMMA RestHolds ==
    ASSUME Types, Order, Upload \/ Refresh \/ Invalidate \/ Analyze
    PROVE  Types'
<1>1. CASE Upload
  <2>1. /\ src' \in [1..MaxSize -> Texts] /\ status' = "created"
        /\ UNCHANGED <<size, quality, fingerprint, run, items, out, runs, losses>>
        /\ (UNCHANGED journal /\ Recounted) \/ Filter(1, 1..MaxSize)
    BY <1>1 DEF Upload, work
  <2>2. IsJournals(journal') /\ calls' \in [1..MaxSize -> [Stages -> Nat]]
    BY <2>1, JournalsFiltered, CallsFiltered, CallsRecounted DEF Types
  <2> QED
    BY <2>1, <2>2 DEF Types, JobTyped, ItemsTyped, OutTyped, CountsTyped, Statuses
<1>2. CASE Refresh
  <2>1. /\ src' \in [1..MaxSize -> Texts] /\ status' = "created" /\ Recounted
        /\ UNCHANGED <<size, quality, fingerprint, journal, run, items, out, runs, losses>>
    BY <1>2 DEF Refresh, work
  <2> QED
    BY <2>1, CallsRecounted DEF Types, JobTyped, ItemsTyped, OutTyped, CountsTyped, Statuses
<1>3. CASE Invalidate
  <2>1. /\ status' \in Statuses /\ \E from \in 1..3, some \in SUBSET Batches : Filter(from, some)
        /\ UNCHANGED <<size, quality, src, fingerprint, run, items, out, runs, losses>>
    BY <1>3 DEF Invalidate, work, Statuses
  <2>2. IsJournals(journal') /\ calls' \in [1..MaxSize -> [Stages -> Nat]]
    BY <2>1, JournalsFiltered, CallsFiltered
  <2> QED
    BY <2>1, <2>2 DEF Types, JobTyped, ItemsTyped, OutTyped, CountsTyped
<1>4. CASE Analyze
  <2>1. /\ status' \in Statuses /\ fingerprint' = IF fingerprint = None THEN src ELSE fingerprint
        /\ UNCHANGED <<size, quality, src, journal, run, items, out, runs, calls, losses>>
    BY <1>4 DEF Analyze, AnalyzedSource, work, counts, history, Statuses
  <2> QED
    BY <2>1 DEF Types, JobTyped, ItemsTyped, OutTyped, CountsTyped
<1> QED
  BY <1>1, <1>2, <1>3, <1>4

-------------------------------------------------------------------------------
(* Which run the items are of, and which source the fingerprint is of.         *)

LEMMA DueAsBefore ==
    ASSUME UNCHANGED quality
    PROVE  \A i : Due(i)' <=> Due(i)
BY DEF Due, StageOf

\* An item that goes on.
LEMMA OrderMoved ==
    ASSUME Types, Order, NEW i \in items, NEW j, Follows(j, i), j.asked => Due(j),
           items' = (items \ {i}) \cup {j},
           UNCHANGED <<size, quality, src, fingerprint, status, run, runs>>
    PROVE  Order'
<1>1. fingerprint # None /\ \A k : Due(k)' <=> Due(k)
  BY DueAsBefore DEF Order, SourceKnown
<1>2. \A k \in items' : k \in items \/ k = j
  OBVIOUS
<1>3. \A k \in items' : \E l \in items :
        /\ k.run = l.run /\ k.batch = l.batch /\ k.text = l.text /\ k.seen = l.seen
        /\ k.recover = l.recover /\ k.context = l.context /\ (k # l => k = j /\ l = i)
  BY <1>2 DEF Follows
<1>4. SourceKnown'
  BY <1>1 DEF Order, SourceKnown
<1>5. \A k \in items' : k.run # 0 /\ k.run <= runs /\ k.batch <= size /\ (k.asked => Due(k))
  BY <1>2 DEF Order, RunsApart, Follows
<1>6. \A k, l \in items' : k.run = l.run /\ k.batch = l.batch => k = l
  <2>1. \A k \in items' : k # j => k \in items /\ k # i
    BY <1>2
  <2> QED
    BY <2>1 DEF Order, RunsApart, Follows
<1>7. \A k \in items' : k.run = run.id =>
         /\ k.text = src[k.batch] /\ k.seen = run.seen /\ k.recover = run.recover /\ k.context = run.context
         /\ k.batch < run.next
  BY <1>3 DEF Order, RunsApart
<1>8. RunsApart'
  <2>1. \A k \in items' : k.asked => Due(k)'
    BY <1>1, <1>5
  <2> QED
    BY <1>5, <1>6, <1>7, <2>1 DEF Order, RunsApart
<1> QED
  BY <1>4, <1>8 DEF Order

\* Items that are gone, and a run that has perhaps ended.
LEMMA OrderGone ==
    ASSUME Types, Order, items # {}, items' \subseteq items,
           UNCHANGED <<size, quality, src, fingerprint, runs>>,
           \/ UNCHANGED <<status, run>>
           \/ run' = NoRun /\ status' # "running" /\ (status = "running" \/ UNCHANGED status)
    PROVE  Order'
<1>1. fingerprint # None /\ \A k : Due(k)' <=> Due(k)
  BY DueAsBefore DEF Order, SourceKnown
<1>2. SourceKnown'
  BY <1>1 DEF Order, SourceKnown, Types, JobTyped, Statuses
<1>3. \A i \in items' : i.run # 0 /\ i.run <= runs /\ i.batch <= size /\ (i.asked => Due(i)')
  BY <1>1 DEF Order, RunsApart
<1>4. run'.id <= runs /\ run'.next <= size + 1
  BY EmptyIs DEF Order, RunsApart, Types, JobTyped
<1>5. \A i \in items' : i.run = run'.id =>
         /\ i.text = src[i.batch] /\ i.seen = run'.seen /\ i.recover = run'.recover /\ i.context = run'.context
         /\ i.batch < run'.next
  BY EmptyIs DEF Order, RunsApart
<1>6. (status' = "running" => run'.id # 0) /\ (status' # "running" => run' = NoRun)
  BY DEF Order, RunsApart
<1>7. \A i, j \in items' : i.run = j.run /\ i.batch = j.batch => i = j
  BY DEF Order, RunsApart
<1>8. RunsApart'
  BY <1>3, <1>4, <1>5, <1>6, <1>7 DEF RunsApart
<1> QED
  BY <1>2, <1>8 DEF Order

LEMMA ItemsOrdered ==
    ASSUME Types, Order, NEW i \in items, Item(i)
    PROVE  Order'
<1>0. IsItem(i) /\ (i.asked => Due(i))
  BY DEF Types, ItemsTyped, Order, RunsApart
<1>1. CASE Reuse(i)
  BY <1>1, ReuseIs, OrderMoved
<1>2. CASE Ask(i)
  <2>1. PICK j : /\ Due(i) /\ Follows(j, i) /\ j.chain = i.chain
                 /\ items' = (items \ {i}) \cup {j}
                 /\ UNCHANGED <<size, quality, src, fingerprint, status, run, runs>>
    BY <1>2, AskIs
  <2>2. Due(j)
    BY <2>1 DEF Due, StageOf
  <2> QED
    BY <2>1, <2>2, OrderMoved
<1>3. CASE Answer(i)
  <2>1. Due(i)
    BY <1>0, <1>3 DEF Answer
  <2> QED
    BY <1>3, <2>1, AnswerIs, OrderMoved
<1>4. CASE RepairFails(i) \/ BatchDone(i)
  <2>1. items' = items \ {i} /\ UNCHANGED <<size, quality, src, fingerprint, status, run, runs>>
    BY <1>4 DEF RepairFails, BatchDone, job, counts
  <2> QED
    BY <2>1, OrderGone
<1>5. CASE Fails(i)
  <2>1. /\ items' = items \ {i} /\ UNCHANGED <<size, quality, src, fingerprint, runs>>
        /\ \/ status = "running" /\ status' # "running" /\ run' = NoRun
           \/ UNCHANGED <<status, run>>
    BY <1>5 DEF Fails, Ends, Current, counts
  <2> QED
    BY <2>1, OrderGone
<1> QED
  BY <1>1, <1>2, <1>3, <1>4, <1>5 DEF Item

LEMMA RunsOrdered ==
    ASSUME Types, Order, Start \/ Pause \/ Crash \/ Claim \/ Stops \/ Complete
    PROVE  Order'
<1>1. CASE Start
  <2>1. /\ run'.id = runs' /\ run'.next = 1 /\ runs' = runs + 1 /\ fingerprint' = src
        /\ status' = "running" /\ UNCHANGED <<size, quality, src, journal, items>>
    BY <1>1 DEF Start, history
  <2>2. src # None
    BY ConstantsAssumption DEF Types, JobTyped, ConstantsAssumption
  <2>3. SourceKnown'
    BY <2>1, <2>2 DEF SourceKnown
  <2>4. runs \in Nat /\ size \in Nat /\ size >= 1
    BY DEF Types, JobTyped
  <2>5. \A i \in items : i.run # 0 /\ i.run <= runs /\ i.run \in Nat /\ i.batch <= size /\ (i.asked => Due(i))
    BY DEF Order, RunsApart, Types, ItemsTyped, IsItem
  <2>6. \A i \in items : i.run # run'.id /\ i.run <= runs' /\ (i.asked => Due(i)')
    BY <2>1, <2>4, <2>5, DueAsBefore
  <2>7. run'.id <= runs' /\ run'.id # 0 /\ run'.next <= size + 1
    BY <2>1, <2>4
  <2>8. RunsApart'
    BY <2>1, <2>5, <2>6, <2>7 DEF Order, RunsApart
  <2> QED
    BY <2>3, <2>8 DEF Order
<1>2. CASE Pause
  <2>1. /\ items' = {Paused(i) : i \in items}
        /\ \A i \in items : Follows(Paused(i), i) /\ Paused(i).chain = i.chain /\ Paused(i).asked = i.asked
        /\ run'.next = run.next /\ run'.id = run.id /\ run'.seen = run.seen /\ run'.recover = run.recover /\ run'.context = run.context
        /\ UNCHANGED <<size, quality, src, fingerprint, status, journal, runs>> /\ status = "running"
    BY <1>2, PauseIs
  <2>2. /\ \A i \in items : Due(Paused(i)) <=> Due(i)
        /\ \A k : Due(k)' <=> Due(k)
    <3>1. \A i, j : j.chain = i.chain => (Due(j) <=> Due(i))
      BY DEF Due, StageOf
    <3> QED
      BY <2>1, <3>1, DueAsBefore
  <2>3. \A k \in items' : \E i \in items :
          /\ k = Paused(i) /\ k.run = i.run /\ k.batch = i.batch /\ k.text = i.text /\ k.seen = i.seen
          /\ k.recover = i.recover /\ k.context = i.context /\ k.asked = i.asked /\ (Due(k)' <=> Due(i))
    BY <2>1, <2>2 DEF Follows
  <2>4. RunsApart'
    BY <2>1, <2>3 DEF Order, RunsApart
  <2>5. SourceKnown'
    BY <2>1 DEF Order, SourceKnown
  <2> QED
    BY <2>4, <2>5 DEF Order
<1>3. CASE Crash
  <2>1. /\ items' = {} /\ UNCHANGED <<size, quality, src, fingerprint, journal, runs>>
        /\ \/ status = "running" /\ status' # "running" /\ run' = NoRun
           \/ status # "running" /\ UNCHANGED <<status, run>>
    BY <1>3 DEF Crash, Ends, counts
  <2>2. items # {} \/ status = "running"
    BY <1>3 DEF Crash
  <2>3. fingerprint # None
    BY <2>2 DEF Order, SourceKnown
  <2>4. RunsApart'
    BY <2>1, EmptyIs DEF Order, RunsApart, Types, JobTyped
  <2>5. SourceKnown'
    BY <2>1, <2>3 DEF Order, SourceKnown, Types, JobTyped, Statuses
  <2> QED
    BY <2>4, <2>5 DEF Order
<1>4. CASE Claim
  <2>1. /\ status = "running" /\ run.next \in Batches /\ IsItem(NewItem) /\ items' = items \cup {NewItem}
        /\ IsRun(run') /\ run'.next = run.next + 1 /\ run'.id = run.id /\ run'.seen = run.seen
        /\ run'.recover = run.recover /\ run'.context = run.context
        /\ UNCHANGED <<size, quality, src, fingerprint, status, journal, runs>>
    BY <1>4, ClaimIs
  <2>2. /\ NewItem.run = run.id /\ NewItem.batch = run.next /\ NewItem.text = src[run.next]
        /\ NewItem.seen = run.seen /\ NewItem.recover = run.recover /\ NewItem.context = run.context /\ NewItem.asked = FALSE
    BY DEF NewItem
  <2>3. run.next \in Nat /\ run.next <= size /\ size \in Nat /\ run.id # 0 /\ run.id <= runs
    BY <2>1 DEF Batches, Types, JobTyped, Order, RunsApart
  <2>4. /\ \A i \in items : i.run # 0 /\ i.run <= runs /\ i.batch <= size /\ (i.asked => Due(i)')
        /\ \A i \in items : i.run = run.id =>
             /\ i.text = src[i.batch] /\ i.seen = run.seen /\ i.recover = run.recover /\ i.context = run.context
             /\ i.batch < run.next /\ i.batch \in Nat
    BY <2>1, DueAsBefore DEF Order, RunsApart, Types, ItemsTyped, IsItem
  <2>5. \A i, j \in items' : i.run = j.run /\ i.batch = j.batch => i = j
    <3>1. \A i \in items : ~(i.run = NewItem.run /\ i.batch = NewItem.batch)
      BY <2>2, <2>3, <2>4
    <3>2. \A i, j \in items : i.run = j.run /\ i.batch = j.batch => i = j
      BY DEF Order, RunsApart
    <3> QED
      BY <2>1, <3>1, <3>2
  <2>6. run.next + 1 <= size + 1 /\ run.next < run.next + 1
        /\ \A i \in items : i.run = run.id => i.batch < run.next + 1
    BY <2>3, <2>4
  <2>7. RunsApart'
    <3> HIDE DEF NewItem
    <3> QED
      BY <2>1, <2>2, <2>3, <2>4, <2>5, <2>6 DEF RunsApart
  <2>8. SourceKnown'
    BY <2>1 DEF Order, SourceKnown
  <2> QED
    BY <2>7, <2>8 DEF Order
<1>5. CASE Stops \/ Complete
  <2>1. /\ status = "running" /\ status' \in {"paused", "completed"} /\ run' = NoRun
        /\ UNCHANGED <<size, quality, src, fingerprint, journal, items, runs>>
    BY <1>5 DEF Stops, Complete, Ends, counts
  <2>2. \A k : Due(k)' <=> Due(k)
    BY <2>1, DueAsBefore
  <2>3. RunsApart'
    BY <2>1, <2>2, EmptyIs DEF Order, RunsApart, Types, JobTyped
  <2>4. SourceKnown'
    BY <2>1 DEF Order, SourceKnown
  <2> QED
    BY <2>3, <2>4 DEF Order
<1> QED
  BY <1>1, <1>2, <1>3, <1>4, <1>5

LEMMA RestOrdered ==
    ASSUME Types, Order, Upload \/ Refresh \/ Invalidate \/ Analyze
    PROVE  Order'
<1>1. /\ run = NoRun /\ UNCHANGED <<size, quality, run, items, runs>>
      /\ status' # "running"
  BY DEF Upload, Refresh, Invalidate, Analyze, AtRest, Order, RunsApart, work, counts
<1>2. \A s \in Stages : ToSet(journal[s]) = {} => ToSet(journal'[s]) = {}
  <2>1. journal' = journal \/ \E from, some : Filter(from, some)
    BY DEF Upload, Refresh, Invalidate, Analyze
  <2> QED
    BY <2>1, JournalsFiltered
<1>3. RunsApart'
  BY <1>1, DueAsBefore, EmptyIs DEF Order, RunsApart
<1>4. SourceKnown'
  <2>1. CASE Upload \/ Refresh
    BY <1>1, <1>2, <2>1 DEF Upload, Refresh, Order, SourceKnown
  <2>2. CASE Invalidate
    BY <1>1, <1>2, <2>2 DEF Invalidate, Order, SourceKnown
  <2>3. CASE Analyze
    <3>1. src # None
      BY ConstantsAssumption DEF Types, JobTyped, ConstantsAssumption
    <3> QED
      BY <1>1, <2>3, <3>1 DEF Analyze, AnalyzedSource, Order, SourceKnown
  <2> QED
    BY <2>1, <2>2, <2>3
<1> QED
  BY <1>3, <1>4 DEF Order

-------------------------------------------------------------------------------
(* Typed /\ Order is an invariant.                                             *)

Frame == Types /\ Order

LEMMA FrameBegins == Init => Frame
<1> SUFFICES ASSUME Init PROVE Frame
  OBVIOUS
<1>1. MaxSize \in Nat /\ None \notin [1..MaxSize -> Texts]
  BY ConstantsAssumption DEF ConstantsAssumption
<1>2. JobTyped
  BY DEF Init, JobTyped, Statuses
<1>3. OutTyped
  BY NoRecords DEF Init, OutTyped
<1>4. CountsTyped
  BY UnpaidIs DEF Init, CountsTyped
<1>5. Types
  BY <1>2, <1>3, <1>4, EmptyIs, FS_EmptySet DEF Init, Types, ItemsTyped
<1>6. RunsApart
  <2>1. size \in Nat
    BY <1>1, <1>2 DEF JobTyped
  <2> QED
    BY <2>1, EmptyIs DEF Init, RunsApart
<1>7. SourceKnown
  BY EmptyIs DEF Init, SourceKnown
<1> QED
  BY <1>5, <1>6, <1>7 DEF Frame, Order

LEMMA FrameHolds == Frame /\ [Next]_vars => Frame'
<1> SUFFICES ASSUME Frame, [Next]_vars PROVE Frame'
  OBVIOUS
<1>1. CASE \E i \in items : Item(i)
  BY <1>1, ItemsHold, ItemsOrdered DEF Frame
<1>2. CASE Start \/ Pause \/ Crash \/ Claim \/ Stops \/ Complete
  BY <1>2, RunsHold, RunsOrdered DEF Frame
<1>3. CASE Upload \/ Refresh \/ Invalidate \/ Analyze
  BY <1>3, RestHolds, RestOrdered DEF Frame
<1>4. CASE UNCHANGED vars
  <2>1. /\ UNCHANGED <<size, quality, src, fingerprint, status, journal, run, items, out>>
        /\ UNCHANGED <<runs, calls, losses>>
    BY <1>4 DEF vars, job, work, counts, history
  <2>2. Types'
    BY <2>1 DEF Frame, Types, JobTyped, ItemsTyped, OutTyped, CountsTyped
  <2>3. Order'
    BY <2>1, DueAsBefore DEF Frame, Order, RunsApart, SourceKnown
  <2> QED
    BY <2>2, <2>3 DEF Frame
<1> QED
  BY <1>1, <1>2, <1>3, <1>4 DEF Next, Running

-------------------------------------------------------------------------------
(* What the running job's text is made of is in the journals.                  *)

Written(chain, J) == \A n \in DOMAIN chain : chain[n] \in ToSet(J[n])

ChainsWritten == \A i \in items : i.run = run.id => Written(i.chain, journal)
SeenWritten == status = "running" => \A s \in Stages : ToSet(run.seen[s]) \subseteq ToSet(journal[s])
OutWritten == status \in {"running", "completed"} => \A b \in 1..MaxSize : Written(out[b], journal)
AllWritten == ChainsWritten /\ SeenWritten /\ OutWritten

LEMMA ChainIs ==
    ASSUME NEW i, IsItem(i)
    PROVE  DOMAIN i.chain \subseteq Stages /\ Len(i.chain) \in Nat /\ DOMAIN i.chain = 1..Len(i.chain)
<1>1. Len(i.chain) \in Nat /\ Len(i.chain) <= 4 /\ DOMAIN i.chain = 1..Len(i.chain)
  BY SeqFacts DEF IsItem
<1>2. \A l \in Nat : l <= 4 => 1..l \subseteq 1..4
  OBVIOUS
<1> QED
  BY <1>1, <1>2 DEF Stages

LEMMA NoneWritten == ASSUME NEW J PROVE Written(<<>>, J)
BY DEF Written

\* A chain that goes on with a written record.
LEMMA WrittenOn ==
    ASSUME NEW i, IsItem(i), NEW J, Written(i.chain, J), NEW k, k \in ToSet(J[StageOf(i)])
    PROVE  Written(Append(i.chain, k), J)
<1>1. IsSeq(i.chain) /\ Len(i.chain) \in Nat /\ DOMAIN i.chain = 1..Len(i.chain)
  BY ChainIs DEF IsItem
<1>2. /\ DOMAIN Append(i.chain, k) = 1..(Len(i.chain) + 1)
      /\ \A n \in 1..Len(i.chain) : Append(i.chain, k)[n] = i.chain[n]
      /\ Append(i.chain, k)[Len(i.chain) + 1] = k
  BY <1>1, Appended
<1>3. \A l \in Nat : \A n \in 1..(l + 1) : n \in 1..l \/ n = l + 1
  OBVIOUS
<1>4. \A n \in DOMAIN Append(i.chain, k) : n \in 1..Len(i.chain) \/ n = Len(i.chain) + 1
  BY <1>1, <1>2, <1>3
<1> QED
  BY <1>1, <1>2, <1>4 DEF Written, StageOf

LEMMA ItemsWritten ==
    ASSUME Frame, AllWritten, NEW i \in items, Item(i)
    PROVE  AllWritten'
<1>0. /\ IsItem(i) /\ (i.asked => Due(i)) /\ i.run # 0 /\ Types
      /\ (status # "running" => run.id = 0) /\ (i.run = run.id => i.seen = run.seen)
  BY EmptyIs DEF Frame, Types, ItemsTyped, Order, RunsApart
<1>1. CASE Reuse(i)
  <2>1. PICK k, j : /\ k \in Saved(i) /\ Due(i) /\ Follows(j, i) /\ j.chain = Append(i.chain, k)
                    /\ items' = (items \ {i}) \cup {j}
                    /\ UNCHANGED <<status, journal, run, out>>
    BY <1>0, <1>1, ReuseIs
  <2>2. ASSUME i.run = run.id PROVE Written(j.chain, journal)
    <3>1. k \in ToSet(run.seen[StageOf(i)])
      BY <1>0, <2>1, <2>2, SavedIs DEF Of
    <3>2. k \in ToSet(journal[StageOf(i)])
      BY <1>0, <2>1, <2>2, <3>1, StageIs DEF AllWritten, SeenWritten
    <3> QED
      BY <1>0, <2>1, <2>2, <3>2, WrittenOn DEF AllWritten, ChainsWritten
  <2> QED
    BY <2>1, <2>2 DEF AllWritten, ChainsWritten, SeenWritten, OutWritten, Follows
<1>2. CASE Ask(i)
  <2>1. PICK j : /\ Follows(j, i) /\ j.chain = i.chain
                 /\ items' = (items \ {i}) \cup {j}
                 /\ UNCHANGED <<status, journal, run, out>>
    BY <1>0, <1>2, AskIs
  <2> QED
    BY <2>1 DEF AllWritten, ChainsWritten, SeenWritten, OutWritten, Follows
<1>3. CASE Answer(i)
  <2>0. Due(i)
    BY <1>0, <1>3 DEF Answer
  <2>1. PICK k, j : /\ IsRecord(k) /\ Follows(j, i) /\ j.chain = Append(i.chain, k)
                    /\ items' = (items \ {i}) \cup {j}
                    /\ journal' = [journal EXCEPT ![StageOf(i)] = Append(@, k)]
                    /\ UNCHANGED <<status, run, out>>
    BY <1>0, <1>3, <2>0, AnswerIs
  <2>2. /\ \A s \in Stages : ToSet(journal[s]) \subseteq ToSet(journal'[s])
        /\ k \in ToSet(journal'[StageOf(i)])
    <3>1. StageOf(i) \in Stages /\ IsJournals(journal)
      BY <1>0, <2>0, StageIs DEF Types
    <3>2. journal' = [journal EXCEPT ![StageOf(i)] = Append(@, k)]
      BY <2>1
    <3>3. /\ \A s \in Stages : s # StageOf(i) => journal'[s] = journal[s]
          /\ ToSet(journal'[StageOf(i)]) = ToSet(journal[StageOf(i)]) \cup {k}
      BY <2>1, <3>1, <3>2, JournalGrows
    <3> QED
      BY <3>1, <3>3
  <2>3. \A c : Written(c, journal) /\ DOMAIN c \subseteq Stages => Written(c, journal')
    BY <2>2 DEF Written
  <2>4. \A l \in items : IsItem(l) /\ (l.run = run.id => Written(l.chain, journal'))
    BY <1>0, <2>3, ChainIs DEF Types, ItemsTyped, AllWritten, ChainsWritten
  <2>5. i.run = run.id => Written(j.chain, journal')
    BY <2>1, <2>2, <2>4, WrittenOn
  <2>6. ChainsWritten'
    BY <2>1, <2>4, <2>5 DEF ChainsWritten, Follows
  <2>7. \A b \in 1..MaxSize : DOMAIN out[b] \subseteq Stages
    <3>1. \A b \in 1..MaxSize : Len(out[b]) \in Nat /\ Len(out[b]) <= 4 /\ DOMAIN out[b] = 1..Len(out[b])
      BY <1>0, SeqFacts DEF Types, OutTyped
    <3>2. \A l \in Nat : l <= 4 => 1..l \subseteq 1..4
      OBVIOUS
    <3> QED
      BY <3>1, <3>2 DEF Stages
  <2>8. OutWritten'
    BY <2>1, <2>3, <2>7 DEF AllWritten, OutWritten
  <2>9. SeenWritten'
    BY <2>1, <2>2 DEF AllWritten, SeenWritten
  <2> QED
    BY <2>6, <2>8, <2>9 DEF AllWritten
<1>4. CASE RepairFails(i) \/ BatchDone(i)
  <2>1. /\ items' \subseteq items /\ UNCHANGED <<status, journal, run>>
        /\ out' = IF Current(i) THEN [out EXCEPT ![i.batch] = i.chain] ELSE out
    BY <1>4 DEF RepairFails, BatchDone, job
  <2>2. \A b \in 1..MaxSize : out'[b] = out[b] \/ (Current(i) /\ out'[b] = i.chain)
    BY <1>0, <2>1, OutSet
  <2> QED
    BY <2>1, <2>2 DEF AllWritten, ChainsWritten, SeenWritten, OutWritten, Current
<1>5. CASE Fails(i)
  <2>1. /\ items' \subseteq items /\ UNCHANGED journal
        /\ \/ status' \in {"paused", "failed"} /\ run' = NoRun
           \/ UNCHANGED <<status, run, out>>
    BY <1>5 DEF Fails, Ends
  <2>2. \A l \in items : l.run # NoRun.id
    BY EmptyIs DEF Frame, Order, RunsApart
  <2> QED
    BY <2>1, <2>2 DEF AllWritten, ChainsWritten, SeenWritten, OutWritten
<1> QED
  BY <1>1, <1>2, <1>3, <1>4, <1>5 DEF Item

LEMMA OthersWritten ==
    ASSUME Frame, AllWritten,
           \/ Upload \/ Refresh \/ Invalidate \/ Analyze
           \/ Start \/ Pause \/ Crash \/ Claim \/ Stops \/ Complete
    PROVE  AllWritten'
<1>0. /\ \A i \in items : IsItem(i) /\ i.run # 0 /\ i.run <= runs
      /\ (status # "running" => run.id = 0) /\ NoRun.id = 0 /\ run.id \in Nat /\ runs \in Nat /\ Types
  BY EmptyIs DEF Frame, Types, JobTyped, ItemsTyped, Order, RunsApart, IsRun
<1>1. CASE Upload \/ Refresh \/ Invalidate \/ Analyze
  <2>1. UNCHANGED <<run, items>> /\ status # "running" /\ status' \in {"created", "ready"}
    BY <1>1 DEF Upload, Refresh, Invalidate, Analyze, work, AtRest
  <2> QED
    BY <1>0, <2>1 DEF AllWritten, ChainsWritten, SeenWritten, OutWritten
<1>2. CASE Start
  <2>1. /\ run'.id = runs' /\ runs' = runs + 1 /\ run'.seen = journal
        /\ out' = [b \in 1..MaxSize |-> <<>>] /\ UNCHANGED <<journal, items>>
    BY <1>2 DEF Start
  <2>2. \A i \in items : i.run # run'.id /\ i.run \in Nat
    <3>1. \A i \in items : i.run \in Nat
      BY <1>0 DEF IsItem
    <3> QED
      BY <1>0, <2>1, <3>1
  <2> QED
    BY <2>1, <2>2, OutCleared, NoneWritten DEF AllWritten, ChainsWritten, SeenWritten, OutWritten
<1>3. CASE Pause
  <2>1. /\ items' = {Paused(i) : i \in items}
        /\ \A i \in items : Follows(Paused(i), i) /\ Paused(i).chain = i.chain
        /\ run'.id = run.id /\ run'.seen = run.seen
        /\ UNCHANGED <<status, journal, out>>
    BY <1>0, <1>3, PauseIs
  <2>2. \A k \in items' : \E i \in items : k.run = i.run /\ k.chain = i.chain
    BY <2>1 DEF Follows
  <2> QED
    BY <2>1, <2>2 DEF AllWritten, ChainsWritten, SeenWritten, OutWritten
<1>4. CASE Crash
  <2>1. /\ items' = {} /\ UNCHANGED journal
        /\ \/ status' = "paused"
           \/ status # "running" /\ UNCHANGED <<status, run, out>>
    BY <1>4 DEF Crash
  <2> QED
    BY <2>1 DEF AllWritten, ChainsWritten, SeenWritten, OutWritten
<1>5. CASE Claim
  <2>1. /\ items' = items \cup {NewItem} /\ run'.id = run.id /\ run'.seen = run.seen
        /\ UNCHANGED <<status, journal, out>>
    BY <1>0, <1>5, ClaimIs
  <2>2. Written(NewItem.chain, journal)
    BY NoneWritten DEF NewItem
  <2> HIDE DEF NewItem
  <2> QED
    BY <2>1, <2>2 DEF AllWritten, ChainsWritten, SeenWritten, OutWritten
<1>6. CASE Stops \/ Complete
  <2>1. /\ status = "running" /\ run' = NoRun /\ UNCHANGED <<journal, items>>
        /\ \/ status' = "paused"
           \/ status' = "completed" /\ UNCHANGED out
    BY <1>6 DEF Stops, Complete, Ends
  <2> QED
    BY <1>0, <2>1 DEF AllWritten, ChainsWritten, SeenWritten, OutWritten
<1> QED
  BY <1>1, <1>2, <1>3, <1>4, <1>5, <1>6

LEMMA WrittenHolds == Frame /\ AllWritten /\ [Next]_vars => AllWritten'
<1> SUFFICES ASSUME Frame, AllWritten, [Next]_vars PROVE AllWritten'
  OBVIOUS
<1>1. CASE \E i \in items : Item(i)
  BY <1>1, ItemsWritten
<1>2. CASE UNCHANGED vars
  BY <1>2 DEF vars, job, work, AllWritten, ChainsWritten, SeenWritten, OutWritten
<1>3. CASE Next /\ ~ \E i \in items : Item(i)
  BY <1>3, OthersWritten DEF Next, Running
<1> QED
  BY <1>1, <1>2, <1>3

\* However the runs went, everything that a completed book is made of is in the
\* journals, so that nothing of it is asked for again (appendJournal in
\* runQualityPipeline before the answer is used).
THEOREM PublishedIsSaved == Spec => []PublishedIsJournaled
<1>1. Init => Frame /\ AllWritten
  <2>1. ASSUME Init PROVE AllWritten
    BY <2>1 DEF Init, AllWritten, ChainsWritten, SeenWritten, OutWritten
  <2> QED
    BY <2>1, FrameBegins
<1>2. Frame /\ AllWritten /\ [Next]_vars => (Frame /\ AllWritten)'
  BY FrameHolds, WrittenHolds
<1>3. Frame /\ AllWritten => PublishedIsJournaled
  <2> SUFFICES ASSUME Frame, AllWritten, status = "completed", NEW b \in Batches
               PROVE  \A n \in DOMAIN out[b] : out[b][n] \in ToSet(journal[n])
    BY DEF PublishedIsJournaled
  <2>1. b \in 1..MaxSize
    <3>1. size \in 1..MaxSize /\ MaxSize \in Nat
      BY ConstantsAssumption DEF Frame, Types, JobTyped, ConstantsAssumption
    <3> QED
      BY <3>1 DEF Batches
  <2> QED
    BY <2>1 DEF AllWritten, OutWritten, Written
<1> QED
  BY <1>1, <1>2, <1>3, PTL DEF Spec

-------------------------------------------------------------------------------
(* Every stage of a batch is paid for once, and once more for every time work  *)
(* on the batch was cut off.                                                   *)

\* Item i has the call of stage s still to make, if it is made at all.
Before(i, s) == StageOf(i) < s \/ (StageOf(i) = s /\ ~i.asked)

\* The batches in flight of runs that have ended, and those that may still ask.
Strays(b) == {i \in items : i.batch = b /\ i.run # run.id}
Behind(b, s) == {i \in Strays(b) : Before(i, s)}

\* All calls, with those that strays may still make, are of work that was cut off.
Covered(b, s) == calls[b][s] + Cardinality(Behind(b, s)) <= losses[b]

\* The last record of the batch is for its present text.
Usable(records, b) == \E k \in LastOf(records, b) : k.text = src[b]

\* The run has made its call of stage s, or needed none; it is making it.
Passed(b, s) == b < run.next /\ \A i \in Ours : i.batch = b => ~Before(i, s)
Asking(b, s) == \E i \in Ours : i.batch = b /\ i.asked /\ StageOf(i) = s

\* The one call that no loss pays for is not made again.
Reusable(b, s) ==
    IF status = "running"
    THEN /\ Passed(b, s) \/ Usable(run.seen[s], b)
         /\ Asking(b, s) \/ Usable(journal[s], b)
    ELSE Usable(journal[s], b)

PaidFor(b, s) ==
    /\ calls[b][s] + Cardinality(Behind(b, s)) <= 1 + losses[b]
    /\ Cardinality(Strays(b)) <= losses[b]
    /\ Covered(b, s) \/ Reusable(b, s)

AllPaid == \A b \in Batches, s \in Stages : PaidFor(b, s)

LEMMA BatchIs ==
    ASSUME Types
    PROVE  Batches \subseteq 1..MaxSize /\ \A b \in Batches : b \in Nat /\ b <= size
<1>1. size \in 1..MaxSize /\ MaxSize \in Nat
  BY ConstantsAssumption DEF Types, JobTyped, ConstantsAssumption
<1> QED
  BY <1>1 DEF Batches

\* The numbers that PaidFor compares.
Counted ==
    \A b \in Batches, s \in Stages :
       /\ IsFiniteSet(Strays(b)) /\ IsFiniteSet(Behind(b, s))
       /\ Cardinality(Strays(b)) \in Nat /\ Cardinality(Behind(b, s)) \in Nat
       /\ Cardinality(Behind(b, s)) <= Cardinality(Strays(b))
       /\ calls[b][s] \in Nat /\ losses[b] \in Nat

LEMMA CountsAre == Types => Counted
<1> SUFFICES ASSUME Types, NEW b \in Batches, NEW s \in Stages
             PROVE  /\ IsFiniteSet(Strays(b)) /\ IsFiniteSet(Behind(b, s))
                    /\ Cardinality(Strays(b)) \in Nat /\ Cardinality(Behind(b, s)) \in Nat
                    /\ Cardinality(Behind(b, s)) <= Cardinality(Strays(b))
                    /\ calls[b][s] \in Nat /\ losses[b] \in Nat
  BY DEF Counted
<1>1. Strays(b) \subseteq items /\ Behind(b, s) \subseteq Strays(b) /\ IsFiniteSet(items)
  BY DEF Strays, Behind, Types, ItemsTyped
<1>2. IsFiniteSet(Strays(b))
  BY <1>1, FS_Subset
<1>3. IsFiniteSet(Behind(b, s)) /\ Cardinality(Behind(b, s)) <= Cardinality(Strays(b))
  BY <1>1, <1>2, FS_Subset
<1>4. Cardinality(Strays(b)) \in Nat /\ Cardinality(Behind(b, s)) \in Nat
  BY <1>2, <1>3, FS_CardinalityType
<1>5. calls[b][s] \in Nat /\ losses[b] \in Nat
  BY BatchIs DEF Types, CountsTyped
<1> QED
  BY <1>2, <1>3, <1>4, <1>5

\* A step after which no more calls are to be expected, that leaves reusable
\* what was.
LEMMA QuietPaid ==
    ASSUME Frame, Frame', UNCHANGED size, NEW b \in Batches, NEW s \in Stages, PaidFor(b, s),
           calls'[b][s] + Cardinality(Behind(b, s)') <= calls[b][s] + Cardinality(Behind(b, s)),
           Cardinality(Strays(b)') <= Cardinality(Strays(b)),
           losses[b] <= losses'[b],
           Reusable(b, s) => Reusable(b, s)'
    PROVE  PaidFor(b, s)'
<1>1. /\ Cardinality(Strays(b)) \in Nat /\ Cardinality(Behind(b, s)) \in Nat
      /\ calls[b][s] \in Nat /\ losses[b] \in Nat
  BY CountsAre DEF Frame, Counted
<1>2. b \in Batches'
  BY DEF Batches
<1>3. /\ Cardinality(Strays(b)') \in Nat /\ Cardinality(Behind(b, s)') \in Nat
      /\ calls'[b][s] \in Nat /\ losses'[b] \in Nat
  <2>1. Types' => Counted'
    BY CountsAre, PTL
  <2> QED
    BY <1>2, <2>1 DEF Frame, Counted
<1> QED
  BY <1>1, <1>3 DEF PaidFor, Covered

\* An item of a set is replaced, or is gone.
LEMMA Replaced ==
    ASSUME NEW X, IsFiniteSet(X), NEW Y, NEW i, NEW j,
           Y \subseteq (X \ {i}) \cup {j}, j \in Y => i \in X \/ j \in X
    PROVE  Cardinality(Y) <= Cardinality(X)
<1>1. CASE j \notin Y \/ j \in X
  <2>1. Y \subseteq X
    BY <1>1
  <2> QED
    BY <2>1, FS_Subset
<1>2. CASE i \in X
  <2>1. IsFiniteSet(X \ {i}) /\ Cardinality(X \ {i}) = Cardinality(X) - 1 /\ Cardinality(X) \in Nat
    BY <1>2, FS_RemoveElement, FS_CardinalityType
  <2>2. /\ IsFiniteSet((X \ {i}) \cup {j})
        /\ Cardinality((X \ {i}) \cup {j}) \in {Cardinality(X \ {i}), Cardinality(X \ {i}) + 1}
    BY <2>1, FS_AddElement
  <2>3. Cardinality(Y) <= Cardinality((X \ {i}) \cup {j})
    BY <2>2, FS_Subset
  <2>4. IsFiniteSet(Y) /\ Cardinality(Y) \in Nat
    BY <2>2, FS_Subset, FS_CardinalityType
  <2> QED
    BY <2>1, <2>2, <2>3, <2>4
<1> QED
  BY <1>1, <1>2

\* Item i goes on as j.
LEMMA StraysMoved ==
    ASSUME Types, NEW i \in items, NEW j, Follows(j, i), items' = (items \ {i}) \cup {j}, run' = run,
           NEW b \in Batches, NEW s \in Stages, Before(j, s) => Before(i, s)
    PROVE  /\ Cardinality(Strays(b)') <= Cardinality(Strays(b))
           /\ Cardinality(Behind(b, s)') <= Cardinality(Behind(b, s))
           /\ i \in Behind(b, s) /\ ~Before(j, s) =>
                Cardinality(Behind(b, s)') <= Cardinality(Behind(b, s)) - 1
<1>1. IsFiniteSet(Strays(b)) /\ IsFiniteSet(Behind(b, s))
  BY CountsAre DEF Counted
<1>2. \A k : Before(k, s)' <=> Before(k, s)
  BY DEF Before, StageOf
<1>3. Strays(b)' \subseteq (Strays(b) \ {i}) \cup {j} /\ (j \in Strays(b)' => i \in Strays(b) \/ j \in Strays(b))
  BY DEF Strays, Follows
<1>4. Behind(b, s)' \subseteq (Behind(b, s) \ {i}) \cup {j}
  BY <1>2 DEF Behind, Strays, Follows
<1>5. j \in Behind(b, s)' => i \in Behind(b, s) \/ j \in Behind(b, s)
  BY <1>2 DEF Behind, Strays, Follows
<1>6. ASSUME i \in Behind(b, s), ~Before(j, s)
      PROVE  Cardinality(Behind(b, s)') <= Cardinality(Behind(b, s)) - 1
  <2>1. Behind(b, s)' \subseteq Behind(b, s) \ {i}
    BY <1>2, <1>4, <1>6 DEF Behind
  <2>2. IsFiniteSet(Behind(b, s) \ {i}) /\ Cardinality(Behind(b, s) \ {i}) = Cardinality(Behind(b, s)) - 1
    BY <1>1, <1>6, FS_RemoveElement
  <2> QED
    BY <2>1, <2>2, FS_Subset
<1> QED
  BY <1>1, <1>3, <1>4, <1>5, <1>6, Replaced

LEMMA MovePaid ==
    ASSUME Frame, Frame', NEW i \in items, NEW j, Follows(j, i), items' = (items \ {i}) \cup {j},
           UNCHANGED <<size, src, fingerprint, status, run, losses>>,
           NEW b \in Batches, NEW s \in Stages, PaidFor(b, s),
           calls'[b][s] = calls[b][s],
           Before(j, s) => Before(i, s),
           Usable(journal[s], b) => Usable(journal[s], b)',
           i.batch = b /\ i.asked /\ StageOf(i) = s =>
             (j.asked /\ StageOf(j) = s) \/ Usable(journal[s], b)'
    PROVE  PaidFor(b, s)'
<1>1. /\ Cardinality(Strays(b)) \in Nat /\ Cardinality(Behind(b, s)) \in Nat
      /\ calls[b][s] \in Nat /\ losses[b] \in Nat
      /\ IsFiniteSet(Strays(b)) /\ IsFiniteSet(Behind(b, s))
  BY CountsAre DEF Frame, Counted
<1>2. /\ Cardinality(Strays(b)') <= Cardinality(Strays(b))
      /\ Cardinality(Behind(b, s)') <= Cardinality(Behind(b, s))
  BY StraysMoved DEF Frame
<1>3. \A k : (Before(k, s)' <=> Before(k, s)) /\ StageOf(k)' = StageOf(k)
  BY DEF Before, StageOf
<1>4. \A k \in Ours' : k \in Ours \/ (k = j /\ i \in Ours /\ j.batch = i.batch)
  BY DEF Ours, Follows
<1>5. Passed(b, s) => Passed(b, s)'
  BY <1>3, <1>4 DEF Passed
<1>6. Asking(b, s) => Asking(b, s)' \/ Usable(journal[s], b)'
  <2> SUFFICES ASSUME NEW l \in Ours, l.batch = b, l.asked, StageOf(l) = s, ~Usable(journal[s], b)'
               PROVE  \E k \in Ours' : k.batch = b /\ k.asked /\ StageOf(k)' = s
    BY DEF Asking
  <2>1. CASE l = i
    BY <1>3, <2>1 DEF Ours, Follows
  <2>2. CASE l # i
    BY <1>3, <2>2 DEF Ours
  <2> QED
    BY <2>1, <2>2
<1>7. Usable(run.seen[s], b)' <=> Usable(run.seen[s], b)
  BY DEF Usable, LastOf, LastAt
<1>8. Reusable(b, s) => Reusable(b, s)'
  BY <1>5, <1>6, <1>7 DEF Reusable
<1>9. calls'[b][s] + Cardinality(Behind(b, s)') <= calls[b][s] + Cardinality(Behind(b, s))
  <2>1. Cardinality(Behind(b, s)') \in Nat
    <3>1. Types' => Counted'
      BY CountsAre, PTL
    <3>2. b \in Batches'
      BY DEF Batches
    <3> QED
      BY <3>1, <3>2 DEF Frame, Counted
  <2> QED
    BY <1>1, <1>2, <2>1
<1> QED
  BY <1>1, <1>2, <1>8, <1>9, QuietPaid

\* A run that cannot trust positional ids works on answers that it would get itself.
Owned ==
    status = "running" /\ ~run.recover =>
      /\ \A s \in Stages : \A k \in ToSet(run.seen[s]) :
            k.text = src[k.batch] => k \in Own(k.batch, run.context)[s]
      /\ \A i \in Ours : \A n \in DOMAIN i.chain :
            i.chain[n] \in Own(i.batch, run.context)[n]

\* What such a run asks is what a record of its own answers.
LEMMA OwnKey ==
    ASSUME NEW i, IsItem(i), Due(i), i.text = src[i.batch],
           \A n \in DOMAIN i.chain : i.chain[n] \in Own(i.batch, i.context)[n]
    PROVE  /\ \A k \in Own(i.batch, i.context)[StageOf(i)] : KeyOf(k) = Key(i)
           /\ \A r \in BOOLEAN : (r => StageOf(i) = 3) =>
                [Key(i) EXCEPT !.repair = r] \in Own(i.batch, i.context)[StageOf(i)]
<1> DEFINE record(chain, found) == [batch |-> i.batch, text |-> src[i.batch], context |-> i.context,
                                    chain |-> chain, repair |-> found]
           draft  == record(<<>>, FALSE)
           edit   == record(<<draft>>, FALSE)
           passed == record(<<draft, edit>>, FALSE)
           failed == record(<<draft, edit>>, TRUE)
           repair == record(<<draft, edit, failed>>, FALSE)
           own == Own(i.batch, i.context)
<1>1. /\ own[1] = {draft} /\ own[2] = {edit} /\ own[3] = {passed, failed}
      /\ own[4] = {repair}
  BY DEF Own
<1>2. IsSeq(i.chain) /\ Len(i.chain) \in Nat /\ DOMAIN i.chain = 1..Len(i.chain)
  BY SeqFacts DEF IsItem
<1>3. Len(i.chain) <= 3 /\ StageOf(i) = Len(i.chain) + 1
  BY StageIs
<1>4. \A n \in DOMAIN i.chain : i.chain[n] \in own[n]
  OBVIOUS
<1>5. ASSUME NEW c, i.chain = c, NEW q, NEW r
      PROVE  [Key(i) EXCEPT !.repair = r] = record(c, r) /\ KeyOf(record(c, q)) = Key(i)
  <2>1. [Key(i) EXCEPT !.repair = r] = record(c, r)
    BY <1>5 DEF Key
  <2>2. Key(i) = record(c, FALSE)
    BY <1>5 DEF Key
  <2>3. PICK f : f = FALSE
    OBVIOUS
  <2>4. [record(c, q) EXCEPT !.repair = f] = record(c, f)
    OBVIOUS
  <2> HIDE DEF record
  <2>5. KeyOf(record(c, q)) = [record(c, q) EXCEPT !.repair = f]
    BY <2>3 DEF KeyOf
  <2> QED
    BY <2>1, <2>2, <2>3, <2>4, <2>5
<1>6. failed.repair = TRUE /\ passed.repair = FALSE
  OBVIOUS
<1>7. \A r \in BOOLEAN : r = TRUE \/ r = FALSE
  OBVIOUS
<1>13. \A n \in Nat : n <= 3 => n = 0 \/ n = 1 \/ n = 2 \/ n = 3
  OBVIOUS
<1>14. Len(i.chain) = 0 \/ Len(i.chain) = 1 \/ Len(i.chain) = 2 \/ Len(i.chain) = 3
  BY <1>2, <1>3, <1>13
<1> HIDE DEF own
<1> SUFFICES /\ \A k \in own[StageOf(i)] : KeyOf(k) = Key(i)
             /\ \A r \in BOOLEAN : (r => StageOf(i) = 3) => [Key(i) EXCEPT !.repair = r] \in own[StageOf(i)]
  BY DEF own
<1>8. CASE Len(i.chain) = 0
  <2>1. i.chain = <<>> /\ StageOf(i) = 1
    BY <1>2, <1>3, <1>8, ShortSeq
  <2>2. [Key(i) EXCEPT !.repair = FALSE] = draft /\ KeyOf(draft) = Key(i)
    BY <1>5, <2>1
  <2> HIDE DEF draft, edit, passed, failed, repair, record
  <2>8. \A r \in BOOLEAN : (r => StageOf(i) = 3) => r = FALSE
    BY <1>7, <2>1
  <2> QED
    BY <1>1, <2>1, <2>2, <2>8
<1>9. CASE Len(i.chain) = 1
  <2>1. i.chain[1] = draft
    <3> HIDE DEF draft, edit, passed, failed, repair, record
    <3> QED
      BY <1>1, <1>2, <1>4, <1>9
  <2>2. i.chain = <<draft>> /\ StageOf(i) = 2
    BY <1>2, <1>3, <1>9, <2>1, ShortSeq
  <2>3. [Key(i) EXCEPT !.repair = FALSE] = edit /\ KeyOf(edit) = Key(i)
    BY <1>5, <2>2
  <2> HIDE DEF draft, edit, passed, failed, repair, record
  <2>8. \A r \in BOOLEAN : (r => StageOf(i) = 3) => r = FALSE
    BY <1>7, <2>2
  <2> QED
    BY <1>1, <2>2, <2>3, <2>8
<1>10. CASE Len(i.chain) = 2
  <2>1. i.chain[1] = draft /\ i.chain[2] = edit
    <3> HIDE DEF draft, edit, passed, failed, repair, record
    <3> QED
      BY <1>1, <1>2, <1>4, <1>10
  <2>2. i.chain = <<draft, edit>> /\ StageOf(i) = 3
    BY <1>2, <1>3, <1>10, <2>1, ShortSeq
  <2>3. /\ [Key(i) EXCEPT !.repair = FALSE] = passed /\ KeyOf(passed) = Key(i)
        /\ [Key(i) EXCEPT !.repair = TRUE] = failed /\ KeyOf(failed) = Key(i)
    BY <1>5, <2>2
  <2> HIDE DEF draft, edit, passed, failed, repair, record
  <2> QED
    BY <1>1, <1>7, <2>2, <2>3
<1>11. CASE Len(i.chain) = 3
  <2>1. StageOf(i) = 4 /\ i.chain[3].repair
    BY <1>3, <1>11 DEF Due
  <2>2. i.chain[1] = draft /\ i.chain[2] = edit /\ i.chain[3] \in {passed, failed}
    <3> HIDE DEF draft, edit, passed, failed, repair, record
    <3>1. 1 \in DOMAIN i.chain /\ 2 \in DOMAIN i.chain /\ 3 \in DOMAIN i.chain
      BY <1>2, <1>11
    <3> QED
      BY <1>1, <1>4, <3>1
  <2>3. i.chain[3] = failed
    <3> HIDE DEF draft, edit, passed, failed, repair, record
    <3> QED
      BY <1>6, <2>1, <2>2
  <2>4. i.chain = <<draft, edit, failed>>
    <3> HIDE DEF draft, edit, passed, failed, repair, record
    <3> QED
      BY <1>2, <1>11, <2>2, <2>3, ShortSeq
  <2>5. [Key(i) EXCEPT !.repair = FALSE] = repair /\ KeyOf(repair) = Key(i)
    BY <1>5, <2>4
  <2> HIDE DEF draft, edit, passed, failed, repair, record
  <2>8. \A r \in BOOLEAN : (r => StageOf(i) = 3) => r = FALSE
    BY <1>7, <2>1
  <2> QED
    BY <1>1, <2>1, <2>5, <2>8
<1> QED
  BY <1>8, <1>9, <1>10, <1>11, <1>14

\* It finds the record that is there for the present text.
LEMMA OwnSaved ==
    ASSUME Frame, Owned, NEW i \in Ours, Due(i), Usable(run.seen[StageOf(i)], i.batch)
    PROVE  Saved(i) # {}
<1> DEFINE R == i.seen[StageOf(i)]
           P == {n \in DOMAIN R : KeyOf(R[n]) = Key(i)}
<1>1. /\ IsItem(i) /\ i.text = src[i.batch] /\ i.seen = run.seen /\ i.recover = run.recover
      /\ i.context = run.context /\ status = "running" /\ StageOf(i) \in Stages
  BY StageIs, EmptyIs DEF Ours, Frame, Types, ItemsTyped, Order, RunsApart
<1>2. PICK k \in LastOf(R, i.batch) : k.text = i.text
  BY <1>1 DEF Usable
<1>3. IsSeq(R) /\ k \in ToSet(R) /\ k.batch = i.batch
  BY <1>1, <1>2, LastOfIs DEF IsItem, IsJournals, Of
<1>4. CASE i.recover
  BY <1>1, <1>2, <1>4, SavedIs DEF Compatible
<1>5. CASE ~i.recover
  <2>1. k \in Own(i.batch, i.context)[StageOf(i)]
    BY <1>1, <1>2, <1>3, <1>5 DEF Owned
  <2>2. KeyOf(k) = Key(i)
    BY <1>1, <1>5, <2>1, OwnKey DEF Owned
  <2>3. \E n \in DOMAIN R : R[n] = k
    BY <1>3 DEF ToSet
  <2>4. P # {}
    BY <2>2, <2>3
  <2>5. LastAt(R, P) # {}
    BY <1>3, <2>4, LastAtIs
  <2> QED
    BY <2>5 DEF Saved
<1> QED
  BY <1>1, <1>4, <1>5 DEF IsItem

\* After a call of the item: it is a stray's, or all calls so far were covered.
LEMMA AskPaid ==
    ASSUME Frame, Frame', Owned, NEW i \in items, Ask(i), NEW b \in Batches, NEW s \in Stages,
           PaidFor(b, s), b = i.batch, s = StageOf(i)
    PROVE  PaidFor(b, s)'
<1>0. IsItem(i) /\ Types /\ Types'
  BY DEF Frame, Types, ItemsTyped
<1>1. PICK j : /\ Saved(i) = {} /\ Due(i) /\ ~i.asked
               /\ Follows(j, i) /\ j.chain = i.chain /\ j.asked
               /\ items' = (items \ {i}) \cup {j}
               /\ calls' = [calls EXCEPT ![b][s] = @ + 1]
               /\ UNCHANGED <<size, quality, src, fingerprint, status, journal, run, out>>
               /\ UNCHANGED <<runs, losses, late, mixed, returned, drifted>>
  BY <1>0, AskIs
<1>2. StageOf(j) = s /\ Before(i, s) /\ ~Before(j, s)
  <2>1. StageOf(i) \in Nat
    BY <1>0, <1>1, StageIs DEF Stages
  <2> QED
    BY <1>1, <2>1 DEF Before, StageOf
<1>3. calls'[b][s] = calls[b][s] + 1
  BY <1>0, <1>1, BatchIs, CallsCount
<1>4. /\ Cardinality(Strays(b)) \in Nat /\ Cardinality(Behind(b, s)) \in Nat
      /\ calls[b][s] \in Nat /\ losses[b] \in Nat
  BY <1>0, CountsAre DEF Counted
<1>5. Cardinality(Strays(b)') \in Nat /\ Cardinality(Behind(b, s)') \in Nat
  <2>1. Types' => Counted'
    BY CountsAre, PTL
  <2>2. b \in Batches'
    BY <1>1 DEF Batches
  <2> QED
    BY <1>0, <2>1, <2>2 DEF Counted
<1>6. \A k : (Before(k, s)' <=> Before(k, s)) /\ StageOf(k)' = StageOf(k)
  BY DEF Before, StageOf
<1>7. CASE i.run # run.id
  <2>1. i \in Behind(b, s)
    BY <1>2, <1>7 DEF Behind, Strays
  <2>2. /\ Cardinality(Strays(b)') <= Cardinality(Strays(b))
        /\ Cardinality(Behind(b, s)') <= Cardinality(Behind(b, s)) - 1
    BY <1>0, <1>1, <1>2, <2>1, StraysMoved
  <2>3. Ours' = Ours
    BY <1>1, <1>7 DEF Ours, Follows
  <2>4. Passed(b, s)' <=> Passed(b, s)
    BY <1>1, <1>6, <2>3 DEF Passed
  <2>5. Asking(b, s)' <=> Asking(b, s)
    BY <1>6, <2>3 DEF Asking
  <2>6. \A R : Usable(R, b)' <=> Usable(R, b)
    BY <1>1 DEF Usable, LastOf, LastAt
  <2>7. Reusable(b, s) => Reusable(b, s)'
    BY <1>1, <2>4, <2>5, <2>6 DEF Reusable
  <2>8. calls'[b][s] + Cardinality(Behind(b, s)') <= calls[b][s] + Cardinality(Behind(b, s))
    BY <1>3, <1>4, <1>5, <2>2
  <2>9. losses[b] <= losses'[b]
    BY <1>1, <1>4
  <2> QED
    BY <1>1, <2>2, <2>7, <2>8, <2>9, QuietPaid
<1>8. CASE i.run = run.id
  <2>1. i \in Ours
    BY <1>8 DEF Ours
  <2>2. /\ status = "running" /\ i.text = src[b] /\ i.seen = run.seen /\ i.recover = run.recover /\ i.context = run.context
        /\ b < run.next
        /\ \A k \in items : k.run = run.id /\ k.batch = b => k = i
    BY <1>8, EmptyIs DEF Frame, Order, RunsApart
  <2>3. ~Passed(b, s)
    BY <1>2, <2>1 DEF Passed
  <2>4. ~Usable(run.seen[s], b)
    BY <1>0, <1>1, <2>1, <2>2, OwnSaved
  <2>5. Covered(b, s)
    BY <2>2, <2>3, <2>4 DEF PaidFor, Reusable
  <2>6. Strays(b)' = Strays(b)
    BY <1>1, <1>8 DEF Strays, Follows
  <2>7. Behind(b, s)' = Behind(b, s)
    BY <1>6, <2>6 DEF Behind
  <2>8. Ours' = (Ours \ {i}) \cup {j}
    BY <1>1, <1>8 DEF Ours, Follows
  <2>9. Passed(b, s)'
    <3>1. \A k \in Ours' : k.batch = b => k = j
      BY <2>2, <2>8 DEF Ours
    <3> QED
      BY <1>1, <1>2, <1>6, <2>2, <3>1 DEF Passed
  <2>10. Asking(b, s)'
    BY <1>1, <1>2, <1>6, <2>8 DEF Asking, Follows
  <2>11. Reusable(b, s)'
    BY <1>1, <2>2, <2>9, <2>10 DEF Reusable
  <2>12. Cardinality(Strays(b)') = Cardinality(Strays(b)) /\ Cardinality(Behind(b, s)') = Cardinality(Behind(b, s))
    BY <2>6, <2>7
  <2>13. /\ calls'[b][s] + Cardinality(Behind(b, s)') <= 1 + losses'[b]
         /\ Cardinality(Strays(b)') <= losses'[b]
    BY <1>1, <1>3, <1>4, <2>5, <2>12 DEF Covered, PaidFor
  <2> QED
    BY <2>11, <2>13 DEF PaidFor
<1> QED
  BY <1>7, <1>8

\* Only an item that is going on is before a stage it has not reached.
LEMMA BeforeLess ==
    ASSUME NEW i, IsItem(i), NEW j, IsItem(j), NEW s \in Stages, Before(j, s),
           StageOf(i) < StageOf(j) \/ (StageOf(j) = StageOf(i) /\ (i.asked => j.asked))
    PROVE  Before(i, s)
<1>1. StageOf(i) \in Nat /\ StageOf(j) \in Nat /\ s \in Nat
  BY ChainIs DEF StageOf, Stages
<1>2. i.asked \in BOOLEAN /\ j.asked \in BOOLEAN
  BY DEF IsItem
<1> QED
  BY <1>1, <1>2 DEF Before

LEMMA StageUp ==
    ASSUME NEW i, IsItem(i), NEW j, NEW k, j.chain = Append(i.chain, k)
    PROVE  StageOf(j) = StageOf(i) + 1 /\ StageOf(i) < StageOf(j)
<1>1. Len(i.chain) \in Nat /\ IsSeq(i.chain)
  BY ChainIs DEF IsItem
<1>2. Len(j.chain) = Len(i.chain) + 1
  BY <1>1, Appended
<1> QED
  BY <1>1, <1>2 DEF StageOf

\* An item that is gone, with what it was asked.
LEMMA GonePaid ==
    ASSUME Frame, Frame', NEW i \in items, items' = items \ {i},
           UNCHANGED <<size, src, fingerprint, status, run, journal, calls>>,
           NEW b \in Batches, NEW s \in Stages, PaidFor(b, s), losses[b] <= losses'[b],
           i.run = run.id /\ i.asked => i.batch # b
    PROVE  PaidFor(b, s)'
<1>1. Strays(b)' \subseteq Strays(b) /\ Behind(b, s)' \subseteq Behind(b, s)
  BY DEF Strays, Behind, Before, StageOf
<1>2. /\ Cardinality(Strays(b)) \in Nat /\ Cardinality(Behind(b, s)) \in Nat
      /\ calls[b][s] \in Nat /\ losses[b] \in Nat
      /\ IsFiniteSet(Strays(b)) /\ IsFiniteSet(Behind(b, s))
  BY CountsAre DEF Frame, Counted
<1>3. Cardinality(Strays(b)') <= Cardinality(Strays(b)) /\ Cardinality(Behind(b, s)') <= Cardinality(Behind(b, s))
  BY <1>1, <1>2, FS_Subset
<1>4. Cardinality(Behind(b, s)') \in Nat
  BY <1>1, <1>2, FS_Subset, FS_CardinalityType
<1>5. \A k : (Before(k, s)' <=> Before(k, s)) /\ StageOf(k)' = StageOf(k)
  BY DEF Before, StageOf
<1>6. Ours' \subseteq Ours /\ \A k \in Ours : k.batch = b /\ k.asked => k \in Ours'
  BY DEF Ours
<1>7. (Passed(b, s) => Passed(b, s)') /\ (Asking(b, s) => Asking(b, s)')
  BY <1>5, <1>6 DEF Passed, Asking
<1>8. \A R : Usable(R, b)' <=> Usable(R, b)
  BY DEF Usable, LastOf, LastAt
<1>9. Reusable(b, s) => Reusable(b, s)'
  BY <1>7, <1>8 DEF Reusable
<1>10. calls'[b][s] + Cardinality(Behind(b, s)') <= calls[b][s] + Cardinality(Behind(b, s))
  BY <1>2, <1>3, <1>4
<1> QED
  BY <1>3, <1>9, <1>10, QuietPaid

LEMMA CountedNext ==
    ASSUME Frame', UNCHANGED size, NEW b \in Batches, NEW s \in Stages
    PROVE  /\ Cardinality(Strays(b)') \in Nat /\ Cardinality(Behind(b, s)') \in Nat
           /\ Cardinality(Behind(b, s)') <= Cardinality(Strays(b)')
           /\ calls'[b][s] \in Nat /\ losses'[b] \in Nat
<1>1. Types' => Counted'
  BY CountsAre, PTL
<1>2. b \in Batches'
  BY DEF Batches
<1> QED
  BY <1>1, <1>2 DEF Frame, Counted

\* Work on the batch was cut off once, with no call made.
LEMMA LossPaid ==
    ASSUME Frame, Frame', UNCHANGED size, NEW b \in Batches, NEW s \in Stages, PaidFor(b, s),
           calls'[b][s] = calls[b][s], losses'[b] > losses[b],
           Cardinality(Strays(b)') <= losses'[b],
           Cardinality(Behind(b, s)') <= Cardinality(Behind(b, s))
    PROVE  PaidFor(b, s)'
<1>1. /\ Cardinality(Behind(b, s)) \in Nat /\ calls[b][s] \in Nat /\ losses[b] \in Nat
  BY CountsAre DEF Frame, Counted
<1>2. Cardinality(Behind(b, s)') \in Nat /\ losses'[b] \in Nat
  BY CountedNext
<1>3. /\ calls'[b][s] + Cardinality(Behind(b, s)') <= losses'[b]
      /\ calls'[b][s] + Cardinality(Behind(b, s)') <= 1 + losses'[b]
  BY <1>1, <1>2 DEF PaidFor
<1> QED
  BY <1>3 DEF PaidFor, Covered

\* The run's batch in flight, if it has one of batch b.
Mine(b) == {k \in Ours : k.batch = b}

LEMMA MineIs ==
    ASSUME Frame, NEW b, NEW c \in Mine(b)
    PROVE  /\ Mine(b) = {c} /\ Cardinality(Mine(b)) = 1 /\ IsItem(c)
           /\ c \in items /\ c.run = run.id /\ c.batch = b
<1>1. \A k \in Mine(b) : k = c
  BY DEF Mine, Ours, Frame, Order, RunsApart
<1>2. Mine(b) = {c}
  BY <1>1
<1>3. Cardinality({c}) = 1
  BY FS_Singleton
<1> QED
  BY <1>2, <1>3 DEF Mine, Ours, Frame, Types, ItemsTyped

\* The run ends, and some of its batches in flight are strays from now on.
LEMMA EndPaid ==
    ASSUME Frame, Frame', status = "running", run' = NoRun, items' \subseteq items,
           status' \notin {"running", "created"}, UNCHANGED <<size, src, fingerprint, journal, calls>>,
           NEW b \in Batches, NEW s \in Stages, PaidFor(b, s),
           losses'[b] = losses[b] + Cardinality(Mine(b))
    PROVE  PaidFor(b, s)'
<1>1. /\ Cardinality(Strays(b)) \in Nat /\ Cardinality(Behind(b, s)) \in Nat
      /\ calls[b][s] \in Nat /\ losses[b] \in Nat
      /\ IsFiniteSet(Strays(b)) /\ IsFiniteSet(Behind(b, s))
  BY CountsAre DEF Frame, Counted
<1>2. Cardinality(Strays(b)') \in Nat /\ Cardinality(Behind(b, s)') \in Nat /\ losses'[b] \in Nat
  BY CountedNext
<1>3. /\ Strays(b)' \subseteq Strays(b) \cup Mine(b)
      /\ Behind(b, s)' \subseteq Behind(b, s) \cup {k \in Mine(b) : Before(k, s)}
  BY DEF Strays, Behind, Mine, Ours, Before, StageOf
<1>4. Usable(journal[s], b) => Reusable(b, s)'
  <2>1. Usable(journal[s], b)' <=> Usable(journal[s], b)
    BY DEF Usable, LastOf, LastAt
  <2> QED
    BY <2>1 DEF Reusable
<1>5. CASE Mine(b) = {}
  <2>1. losses'[b] = losses[b]
    BY <1>1, <1>5, FS_EmptySet
  <2>2. Cardinality(Strays(b)') <= Cardinality(Strays(b)) /\ Cardinality(Behind(b, s)') <= Cardinality(Behind(b, s))
    BY <1>1, <1>3, <1>5, FS_Subset
  <2>3. ~Asking(b, s)
    BY <1>5 DEF Asking, Mine
  <2>4. Reusable(b, s) => Reusable(b, s)'
    BY <1>4, <2>3 DEF Reusable
  <2>5. calls'[b][s] + Cardinality(Behind(b, s)') <= calls[b][s] + Cardinality(Behind(b, s))
    BY <1>1, <1>2, <2>2
  <2>6. losses[b] <= losses'[b]
    BY <1>1, <2>1
  <2> QED
    BY <2>2, <2>4, <2>5, <2>6, QuietPaid
<1>6. ASSUME NEW c \in Mine(b) PROVE PaidFor(b, s)'
  <2>1. /\ Mine(b) = {c} /\ Cardinality(Mine(b)) = 1 /\ IsItem(c)
        /\ c \in items /\ c.run = run.id /\ c.batch = b
    BY MineIs
  <2>2. losses'[b] = losses[b] + 1
    BY <2>1
  <2>3. /\ IsFiniteSet(Strays(b) \cup {c}) /\ Cardinality(Strays(b) \cup {c}) <= Cardinality(Strays(b)) + 1
        /\ IsFiniteSet(Behind(b, s) \cup {c}) /\ Cardinality(Behind(b, s) \cup {c}) <= Cardinality(Behind(b, s)) + 1
    <3>1. Cardinality(Strays(b) \cup {c}) \in {Cardinality(Strays(b)), Cardinality(Strays(b)) + 1}
      BY <1>1, FS_AddElement
    <3>2. Cardinality(Behind(b, s) \cup {c}) \in {Cardinality(Behind(b, s)), Cardinality(Behind(b, s)) + 1}
      BY <1>1, FS_AddElement
    <3>3. IsFiniteSet(Strays(b) \cup {c}) /\ IsFiniteSet(Behind(b, s) \cup {c})
      BY <1>1, FS_AddElement
    <3> QED
      BY <1>1, <3>1, <3>2, <3>3
  <2>4. Cardinality(Strays(b)') <= Cardinality(Strays(b)) + 1
    <3>1. Strays(b)' \subseteq Strays(b) \cup {c}
      BY <1>3, <2>1
    <3>2. Cardinality(Strays(b)') <= Cardinality(Strays(b) \cup {c}) /\ Cardinality(Strays(b) \cup {c}) \in Nat
      BY <2>3, <3>1, FS_Subset, FS_CardinalityType
    <3> QED
      BY <1>1, <1>2, <2>3, <3>2
  <2>5. Cardinality(Strays(b)') <= losses'[b]
    BY <1>1, <1>2, <2>2, <2>4 DEF PaidFor
  <2>6. CASE ~Before(c, s)
    <3>1. Behind(b, s)' \subseteq Behind(b, s)
      BY <1>3, <2>1, <2>6
    <3>2. Cardinality(Behind(b, s)') <= Cardinality(Behind(b, s))
      BY <1>1, <3>1, FS_Subset
    <3>3. losses'[b] > losses[b]
      BY <1>1, <2>2
    <3> QED
      BY <2>5, <3>2, <3>3, LossPaid
  <2>7. CASE Before(c, s)
    <3>1. Behind(b, s)' \subseteq Behind(b, s) \cup {c}
      BY <1>3, <2>1
    <3>2. Cardinality(Behind(b, s)') <= Cardinality(Behind(b, s) \cup {c}) /\ Cardinality(Behind(b, s) \cup {c}) \in Nat
      BY <2>3, <3>1, FS_Subset, FS_CardinalityType
    <3>3. Cardinality(Behind(b, s)') <= Cardinality(Behind(b, s)) + 1
      BY <1>1, <1>2, <2>3, <3>2
    <3>4. Covered(b, s) => Covered(b, s)'
      BY <1>1, <1>2, <2>2, <3>3 DEF Covered
    <3>5. ~Passed(b, s)
      BY <2>1, <2>7 DEF Passed, Ours
    <3>6. ~Asking(b, s)
      <4>1. \A k \in Ours : k.batch = b => k = c
        BY <2>1 DEF Mine
      <4>2. StageOf(c) \in Nat
        BY <2>1, ChainIs DEF StageOf
      <4>3. ~(c.asked /\ StageOf(c) = s)
        BY <2>7, <4>2 DEF Before, Stages
      <4> QED
        BY <4>1, <4>3 DEF Asking
    <3>7. ~Covered(b, s) => Reusable(b, s)'
      BY <1>4, <3>6 DEF PaidFor, Reusable
    <3>8. calls'[b][s] + Cardinality(Behind(b, s)') <= 1 + losses'[b]
      BY <1>1, <1>2, <2>2, <3>3 DEF PaidFor
    <3> QED
      BY <2>5, <3>4, <3>7, <3>8 DEF PaidFor
  <2> QED
    BY <2>6, <2>7
<1> QED
  BY <1>5, <1>6

\* The process dies: no batch in flight is left.
LEMMA CrashPaid ==
    ASSUME Frame, Frame', Crash, NEW b \in Batches, NEW s \in Stages, PaidFor(b, s)
    PROVE  PaidFor(b, s)'
<1>0. UNCHANGED <<size, src, fingerprint, journal, calls>> /\ items' = {} /\ CutOff(items)
  BY DEF Crash
<1>1. /\ Cardinality(Strays(b)) \in Nat /\ Cardinality(Behind(b, s)) \in Nat
      /\ calls[b][s] \in Nat /\ losses[b] \in Nat
  BY CountsAre DEF Frame, Counted
<1> DEFINE cut == {i \in items : i.batch = b}
<1>2. Cardinality(cut) \in Nat /\ losses'[b] = losses[b] + Cardinality(cut)
  <2>1. b \in 1..MaxSize
    BY BatchIs DEF Frame
  <2> QED
    BY <1>0, <2>1, CutOffIs DEF Frame
<1>3. Cardinality(Strays(b)') = 0 /\ Cardinality(Behind(b, s)') = 0
  <2>1. Strays(b)' = {} /\ Behind(b, s)' = {}
    BY <1>0 DEF Strays, Behind
  <2> QED
    BY <2>1, FS_EmptySet
<1>4. CASE cut = {}
  <2>1. losses'[b] = losses[b]
    <3>1. Cardinality(cut) = 0
      BY <1>4, FS_EmptySet
    <3> HIDE DEF cut
    <3> QED
      BY <1>1, <1>2, <3>1
  <2>2. ~Asking(b, s)
    BY <1>4 DEF Asking, Ours
  <2>3. Usable(journal[s], b)' <=> Usable(journal[s], b)
    BY <1>0 DEF Usable, LastOf, LastAt
  <2>4. Reusable(b, s) => Reusable(b, s)'
    <3>1. CASE status = "running"
      BY <1>0, <2>2, <2>3, <3>1 DEF Reusable, Crash, Frame, Order, SourceKnown
    <3>2. CASE status # "running"
      BY <1>0, <2>3, <3>2 DEF Reusable, Crash
    <3> QED
      BY <3>1, <3>2
  <2>5. /\ calls'[b][s] + Cardinality(Behind(b, s)') <= calls[b][s] + Cardinality(Behind(b, s))
        /\ losses[b] <= losses'[b] /\ Cardinality(Strays(b)') <= Cardinality(Strays(b))
    BY <1>0, <1>1, <1>3, <2>1
  <2> QED
    BY <1>0, <2>4, <2>5, QuietPaid
<1>5. CASE cut # {}
  <2>1. IsFiniteSet(cut)
    BY FS_Subset DEF Frame, Types, ItemsTyped
  <2>2. Cardinality(cut) # 0
    BY <1>5, <2>1, FS_EmptySet
  <2> HIDE DEF cut
  <2>3. losses'[b] > losses[b] /\ losses'[b] \in Nat
    BY <1>1, <1>2, <2>2
  <2>4. /\ Cardinality(Behind(b, s)') <= Cardinality(Behind(b, s)) /\ Cardinality(Strays(b)') <= losses'[b]
    BY <1>1, <1>3, <2>3
  <2> QED
    BY <1>0, <2>3, <2>4, LossPaid
<1> QED
  BY <1>4, <1>5

\* An answer for the text the source has is a record that can be used again.
LEMMA AnswerUsable ==
    ASSUME Frame, NEW i \in items, IsItem(i), NEW k, IsRecord(k), k.batch = i.batch, k.text = src[k.batch],
           StageOf(i) \in Stages, journal' = [journal EXCEPT ![StageOf(i)] = Append(@, k)], src' = src,
           NEW b, NEW s \in Stages
    PROVE  /\ Usable(journal[s], b) => Usable(journal[s], b)'
           /\ i.batch = b /\ StageOf(i) = s => Usable(journal[s], b)'
<1>1. /\ \A z \in Stages : z # StageOf(i) => journal'[z] = journal[z]
      /\ journal'[StageOf(i)] = Append(journal[StageOf(i)], k)
      /\ IsSeq(journal[StageOf(i)])
  BY JournalGrows DEF Frame, Types, IsJournals
<1>2. LastOf(journal'[StageOf(i)], b) = IF k.batch = b THEN {k} ELSE LastOf(journal[StageOf(i)], b)
  <2>1. PICK r : r = journal[StageOf(i)]
    OBVIOUS
  <2>2. IsSeq(r) /\ journal'[StageOf(i)] = Append(r, k)
    BY <1>1, <2>1
  <2>3. LastOf(Append(r, k), b) = IF k.batch = b THEN {k} ELSE LastOf(r, b)
    BY <2>2, LastOfAppended
  <2> QED
    BY <2>1, <2>2, <2>3
<1>6. CASE s = StageOf(i)
  <2>1. k.batch = b => Usable(journal[s], b)'
    BY <1>2, <1>6 DEF Usable, LastOf, LastAt
  <2>2. k.batch # b /\ Usable(journal[s], b) => Usable(journal[s], b)'
    BY <1>2, <1>6 DEF Usable, LastOf, LastAt
  <2> QED
    BY <2>1, <2>2
<1>7. CASE s # StageOf(i)
  <2>1. Usable(journal[s], b)' <=> Usable(journal[s], b)
    BY <1>1, <1>7 DEF Usable, LastOf, LastAt
  <2> QED
    BY <1>7, <2>1
<1> QED
  BY <1>6, <1>7

LEMMA ItemsPaid ==
    ASSUME Frame, Frame', Owned, NEW i \in items, Item(i), AllPaid, ~late'
    PROVE  AllPaid'
<1>0. /\ IsItem(i) /\ (i.asked => Due(i)) /\ i.run # 0 /\ Types
      /\ (status # "running" => run.id = 0)
      /\ (i.run = run.id => i.text = src[i.batch])
  BY EmptyIs DEF Frame, Types, ItemsTyped, Order, RunsApart
<1>1. UNCHANGED size
  BY DEF Item, Reuse, Ask, Answer, RepairFails, BatchDone, Fails, job
<1> SUFFICES ASSUME NEW b \in Batches, NEW s \in Stages PROVE PaidFor(b, s)'
  BY <1>1 DEF AllPaid, Batches
<1>2. PaidFor(b, s) /\ b \in 1..MaxSize
  BY <1>0, BatchIs DEF AllPaid
<1>3. CASE Reuse(i)
  <2>1. PICK k, j : /\ ~i.asked /\ Follows(j, i) /\ j.chain = Append(i.chain, k) /\ ~j.asked
                    /\ items' = (items \ {i}) \cup {j}
                    /\ UNCHANGED <<size, src, fingerprint, status, run, losses, calls, journal>>
    BY <1>0, <1>3, ReuseIs
  <2>2. Before(j, s) => Before(i, s)
    BY <1>0, <2>1, StageUp, BeforeLess DEF Follows
  <2>3. Usable(journal[s], b)' <=> Usable(journal[s], b)
    BY <2>1 DEF Usable, LastOf, LastAt
  <2> QED
    BY <1>2, <2>1, <2>2, <2>3, MovePaid
<1>4. CASE Ask(i)
  <2>1. CASE b = i.batch /\ s = StageOf(i)
    BY <1>2, <1>4, <2>1, AskPaid
  <2>2. CASE ~(b = i.batch /\ s = StageOf(i))
    <3>1. PICK j : /\ Due(i) /\ ~i.asked /\ Follows(j, i) /\ j.chain = i.chain /\ j.asked
                   /\ items' = (items \ {i}) \cup {j}
                   /\ calls' = [calls EXCEPT ![i.batch][StageOf(i)] = @ + 1]
                   /\ UNCHANGED <<size, src, fingerprint, status, run, losses, journal>>
      BY <1>0, <1>4, AskIs
    <3>2. Before(j, s) => Before(i, s)
      <4>1. StageOf(j) = StageOf(i)
        BY <3>1 DEF StageOf
      <4> QED
        BY <1>0, <3>1, <4>1, BeforeLess DEF Follows
    <3>3. Usable(journal[s], b)' <=> Usable(journal[s], b)
      BY <3>1 DEF Usable, LastOf, LastAt
    <3>4. i.batch \in 1..MaxSize /\ StageOf(i) \in Stages
      BY <1>0, <3>1, StageIs DEF IsItem
    <3>5. calls'[b][s] = calls[b][s]
      BY <1>0, <1>2, <2>2, <3>1, <3>4, CallsCount
    <3> QED
      BY <1>2, <3>1, <3>2, <3>3, <3>5, MovePaid
  <2> QED
    BY <2>1, <2>2
<1>5. CASE Answer(i)
  <2>0. Due(i) /\ StageOf(i) \in Stages
    BY <1>0, <1>5, StageIs DEF Answer
  <2>1. PICK k, j : /\ i.asked /\ IsRecord(k) /\ k.batch = i.batch /\ k.text = i.text
                    /\ Follows(j, i) /\ j.chain = Append(i.chain, k) /\ ~j.asked
                    /\ items' = (items \ {i}) \cup {j}
                    /\ journal' = [journal EXCEPT ![StageOf(i)] = Append(@, k)]
                    /\ late' = (late \/ i.text # src[i.batch])
                    /\ UNCHANGED <<size, src, fingerprint, status, run, losses, calls>>
    BY <1>0, <1>5, <2>0, AnswerIs
  <2>2. Before(j, s) => Before(i, s)
    BY <1>0, <2>1, StageUp, BeforeLess DEF Follows
  <2>3. k.text = src[k.batch]
    BY <2>1
  <2>4. /\ Usable(journal[s], b) => Usable(journal[s], b)'
        /\ i.batch = b /\ StageOf(i) = s => Usable(journal[s], b)'
    BY <1>0, <2>0, <2>1, <2>3, AnswerUsable
  <2> QED
    BY <1>2, <2>1, <2>2, <2>4, MovePaid
<1>6. CASE RepairFails(i)
  <2>1. /\ items' = items \ {i} /\ losses' = [losses EXCEPT ![i.batch] = @ + 1]
        /\ UNCHANGED <<size, src, fingerprint, status, run, journal, calls>>
    BY <1>6 DEF RepairFails, job
  <2>2. losses[b] \in Nat /\ losses'[b] = IF b = i.batch THEN losses[b] + 1 ELSE losses[b]
    BY <1>0, <1>2, <2>1 DEF Types, CountsTyped
  <2>3. CASE i.batch = b
    <3>1. Strays(b)' \subseteq Strays(b) /\ Behind(b, s)' \subseteq Behind(b, s)
      BY <2>1 DEF Strays, Behind, Before, StageOf
    <3>2. /\ IsFiniteSet(Strays(b)) /\ IsFiniteSet(Behind(b, s)) /\ Cardinality(Strays(b)) \in Nat
      BY <1>0, CountsAre DEF Counted
    <3>3. Cardinality(Strays(b)') <= Cardinality(Strays(b)) /\ Cardinality(Behind(b, s)') <= Cardinality(Behind(b, s))
      BY <3>1, <3>2, FS_Subset
    <3>4. Cardinality(Strays(b)') \in Nat
      BY <2>1, CountedNext
    <3>5. Cardinality(Strays(b)') <= losses'[b] /\ losses'[b] > losses[b]
      BY <1>2, <2>2, <2>3, <3>2, <3>3, <3>4 DEF PaidFor
    <3> QED
      BY <1>2, <2>1, <3>3, <3>5, LossPaid
  <2>4. CASE i.batch # b
    <3>1. losses[b] <= losses'[b]
      BY <2>2, <2>4
    <3> QED
      BY <1>2, <2>1, <2>4, <3>1, GonePaid
  <2> QED
    BY <2>3, <2>4
<1>7. CASE BatchDone(i)
  <2>1. /\ items' = items \ {i} /\ ~i.asked
        /\ UNCHANGED <<size, src, fingerprint, status, run, journal, calls, losses>>
    BY <1>0, <1>7 DEF BatchDone, job, history
  <2>2. losses[b] <= losses'[b]
    BY <1>0, <1>2, <2>1 DEF Types, CountsTyped
  <2> QED
    BY <1>2, <2>1, <2>2, GonePaid
<1>8. CASE Fails(i) /\ Current(i)
  <2>1. /\ status = "running" /\ run' = NoRun /\ items' \subseteq items /\ status' \notin {"running", "created"}
        /\ UNCHANGED <<size, src, fingerprint, journal, calls>> /\ CutOff(Ours)
    BY <1>8 DEF Fails, Current, Ends
  <2>2. losses'[b] = losses[b] + Cardinality(Mine(b))
    BY <1>0, <1>2, <2>1, CutOffIs DEF Ours, Mine
  <2> QED
    BY <1>2, <2>1, <2>2, EndPaid
<1>9. CASE Fails(i) /\ ~Current(i)
  <2>1. /\ items' = items \ {i} /\ i.run # run.id
        /\ UNCHANGED <<size, src, fingerprint, status, run, journal, calls, losses>>
    BY <1>0, <1>9 DEF Fails, Current
  <2>2. losses[b] <= losses'[b]
    BY <1>0, <1>2, <2>1 DEF Types, CountsTyped
  <2> QED
    BY <1>2, <2>1, <2>2, GonePaid
<1> QED
  BY <1>3, <1>4, <1>5, <1>6, <1>7, <1>8, <1>9 DEF Item

LEMMA RunsPaid ==
    ASSUME Frame, Frame', AllPaid, Start \/ Pause \/ Crash \/ Claim \/ Stops \/ Complete
    PROVE  AllPaid'
<1>0. /\ Types /\ (status # "running" => run.id = 0) /\ UNCHANGED size /\ runs \in Nat
      /\ \A i \in items : i.run # 0 /\ i.run \in Nat /\ i.run <= runs
  <2>1. UNCHANGED size
    BY DEF Start, Pause, Crash, Claim, Stops, Complete, job
  <2> QED
    BY <2>1, EmptyIs DEF Frame, Types, JobTyped, ItemsTyped, IsItem, Order, RunsApart
<1> SUFFICES ASSUME NEW b \in Batches, NEW s \in Stages PROVE PaidFor(b, s)'
  BY <1>0 DEF AllPaid, Batches
<1>1. PaidFor(b, s) /\ b \in 1..MaxSize
  BY <1>0, BatchIs DEF AllPaid
<1>2. /\ Cardinality(Strays(b)) \in Nat /\ Cardinality(Behind(b, s)) \in Nat
      /\ calls[b][s] \in Nat /\ losses[b] \in Nat
      /\ IsFiniteSet(Strays(b)) /\ IsFiniteSet(Behind(b, s))
  BY <1>0, CountsAre DEF Counted
<1>3. Cardinality(Behind(b, s)') \in Nat
  BY <1>0, CountedNext
<1>4. \A k : (Before(k, s)' <=> Before(k, s)) /\ StageOf(k)' = StageOf(k)
  BY DEF Before, StageOf
<1>5. CASE Start
  <2>1. /\ run'.id = runs' /\ runs' = runs + 1 /\ run'.recover = SameSource /\ run'.seen = journal
        /\ status # "running" /\ status # "created" /\ status' = "running"
        /\ UNCHANGED <<size, src, journal, items, calls, losses>>
    BY <1>5 DEF Start, AtRest
  <2>2. Strays(b)' = Strays(b)
    <3>1. \A i \in items : i.run # run'.id /\ i.run # run.id
      BY <1>0, <2>1
    <3> QED
      BY <2>1, <3>1 DEF Strays
  <2>3. Behind(b, s)' = Behind(b, s)
    BY <1>4, <2>2 DEF Behind
  <2>4. \A R : Usable(R, b)' <=> Usable(R, b)
    BY <2>1 DEF Usable, LastOf, LastAt
  <2>5. Reusable(b, s) => Reusable(b, s)'
    <3> SUFFICES ASSUME Reusable(b, s) PROVE Reusable(b, s)'
      OBVIOUS
    <3>1. Usable(journal[s], b)
      BY <2>1 DEF Reusable
    <3> QED
      BY <2>1, <2>4, <3>1 DEF Reusable
  <2>6. Cardinality(Strays(b)') = Cardinality(Strays(b)) /\ Cardinality(Behind(b, s)') = Cardinality(Behind(b, s))
    BY <2>2, <2>3
  <2> QED
    BY <1>1, <1>2, <2>1, <2>5, <2>6, QuietPaid
<1>6. CASE Pause
  <2>1. /\ status = "running" /\ items' = {Paused(i) : i \in items}
        /\ \A i \in items : Follows(Paused(i), i) /\ Paused(i).chain = i.chain /\ Paused(i).asked = i.asked
        /\ run'.next = run.next /\ run'.id = run.id /\ run'.seen = run.seen /\ run'.recover = run.recover /\ run'.context = run.context
        /\ UNCHANGED <<size, src, fingerprint, status, journal, calls, losses>>
    BY <1>0, <1>6, PauseIs
  <2>2. \A i \in items : Before(Paused(i), s) <=> Before(i, s)
    BY <2>1 DEF Before, StageOf
  <2>3. Strays(b)' \subseteq {Paused(i) : i \in Strays(b)}
    BY <2>1 DEF Strays, Follows
  <2>4. Behind(b, s)' \subseteq {Paused(i) : i \in Behind(b, s)}
    BY <1>4, <2>1, <2>2 DEF Behind, Strays, Follows
  <2>5. Cardinality(Strays(b)') <= Cardinality(Strays(b))
    <3> DEFINE T == {Paused(i) : i \in Strays(b)}
    <3>1. IsFiniteSet(T) /\ Cardinality(T) <= Cardinality(Strays(b))
      BY <1>2, PausedAre
    <3>2. Strays(b)' \subseteq T
      BY <2>3
    <3> HIDE DEF T
    <3>3. Cardinality(Strays(b)') <= Cardinality(T) /\ IsFiniteSet(Strays(b)')
      BY <3>1, <3>2, FS_Subset
    <3>4. Cardinality(Strays(b)') \in Nat /\ Cardinality(T) \in Nat
      BY <3>1, <3>3, FS_CardinalityType
    <3> QED
      BY <1>2, <3>1, <3>3, <3>4
  <2>6. Cardinality(Behind(b, s)') <= Cardinality(Behind(b, s))
    <3> DEFINE T == {Paused(i) : i \in Behind(b, s)}
    <3>1. IsFiniteSet(T) /\ Cardinality(T) <= Cardinality(Behind(b, s))
      BY <1>2, PausedAre
    <3>2. Behind(b, s)' \subseteq T
      BY <2>4
    <3> HIDE DEF T
    <3>3. Cardinality(Behind(b, s)') <= Cardinality(T)
      BY <3>1, <3>2, FS_Subset
    <3>4. Cardinality(T) \in Nat
      BY <3>1, FS_CardinalityType
    <3> QED
      BY <1>2, <1>3, <3>1, <3>3, <3>4
  <2>7. /\ \A k \in Ours' : \E i \in Ours : k.batch = i.batch /\ (Before(k, s) <=> Before(i, s))
        /\ \A i \in Ours : \E k \in Ours' : k.batch = i.batch /\ k.asked = i.asked /\ StageOf(k) = StageOf(i)
    BY <2>1, <2>2 DEF Ours, Follows, StageOf
  <2>8. (Passed(b, s) => Passed(b, s)') /\ (Asking(b, s) => Asking(b, s)')
    BY <1>4, <2>1, <2>7 DEF Passed, Asking
  <2>9. \A R : Usable(R, b)' <=> Usable(R, b)
    BY <2>1 DEF Usable, LastOf, LastAt
  <2>10. Reusable(b, s) => Reusable(b, s)'
    BY <2>1, <2>8, <2>9 DEF Reusable
  <2>11. calls'[b][s] + Cardinality(Behind(b, s)') <= calls[b][s] + Cardinality(Behind(b, s)) /\ losses[b] <= losses'[b]
    BY <1>2, <1>3, <2>1, <2>6
  <2> QED
    BY <1>0, <1>1, <2>5, <2>10, <2>11, QuietPaid
<1>7. CASE Claim
  <2>1. /\ status = "running" /\ items' = items \cup {NewItem} /\ run.next \in Batches
        /\ run'.next = run.next + 1 /\ run'.id = run.id /\ run'.seen = run.seen /\ run'.recover = run.recover /\ run'.context = run.context
        /\ UNCHANGED <<size, src, fingerprint, status, journal, calls, losses>>
    BY <1>0, <1>7, ClaimIs
  <2>2. NewItem.run = run.id /\ NewItem.batch = run.next
    BY DEF NewItem
  <2> HIDE DEF NewItem
  <2>3. Strays(b)' = Strays(b) /\ Behind(b, s)' = Behind(b, s)
    BY <1>4, <2>1, <2>2 DEF Strays, Behind
  <2>4. Passed(b, s) => Passed(b, s)'
    <3>1. b \in Nat /\ run.next \in Nat
      BY <1>0, <2>1, BatchIs
    <3>2. b < run.next => b < run.next + 1 /\ b # run.next
      BY <3>1
    <3>3. \A k \in Ours' : k \in Ours \/ k = NewItem
      BY <2>1 DEF Ours
    <3> QED
      BY <1>4, <2>1, <2>2, <3>2, <3>3 DEF Passed
  <2>5. Asking(b, s) => Asking(b, s)'
    BY <1>4, <2>1 DEF Asking, Ours
  <2>6. \A R : Usable(R, b)' <=> Usable(R, b)
    BY <2>1 DEF Usable, LastOf, LastAt
  <2>7. Reusable(b, s) => Reusable(b, s)'
    BY <2>1, <2>4, <2>5, <2>6 DEF Reusable
  <2>8. Cardinality(Strays(b)') = Cardinality(Strays(b)) /\ Cardinality(Behind(b, s)') = Cardinality(Behind(b, s))
    BY <2>3
  <2> QED
    BY <1>1, <1>2, <2>1, <2>7, <2>8, QuietPaid
<1>8. CASE Stops \/ Complete
  <2>1. /\ status = "running" /\ run' = NoRun /\ Ours = {} /\ status' \notin {"running", "created"}
        /\ UNCHANGED <<size, src, fingerprint, journal, items, calls, losses>>
    BY <1>8 DEF Stops, Complete, Ends, history
  <2>2. losses'[b] = losses[b] + Cardinality(Mine(b))
    <3>1. Mine(b) = {}
      BY <2>1 DEF Mine
    <3>2. Cardinality(Mine(b)) = 0
      BY <3>1, FS_EmptySet
    <3> QED
      BY <1>2, <2>1, <3>2
  <2> QED
    BY <1>1, <2>1, <2>2, EndPaid
<1>9. CASE Crash
  BY <1>1, <1>9, CrashPaid
<1> QED
  BY <1>5, <1>6, <1>7, <1>8, <1>9

\* Of what is invalidated no call counts any more, and only strays can still ask.
LEMMA UncalledPaid ==
    ASSUME Frame, Frame', UNCHANGED <<size, run, items, losses>>, NEW b \in Batches, NEW s \in Stages,
           PaidFor(b, s), calls'[b][s] = 0
    PROVE  PaidFor(b, s)'
<1>1. Strays(b)' = Strays(b)
  BY DEF Strays
<1>2. /\ Cardinality(Strays(b)') \in Nat /\ Cardinality(Behind(b, s)') \in Nat
      /\ Cardinality(Behind(b, s)') <= Cardinality(Strays(b)') /\ losses'[b] \in Nat
  BY CountedNext
<1>3. Cardinality(Strays(b)') <= losses'[b]
  BY <1>1 DEF PaidFor
<1>4. /\ calls'[b][s] + Cardinality(Behind(b, s)') <= losses'[b]
      /\ calls'[b][s] + Cardinality(Behind(b, s)') <= 1 + losses'[b]
  BY <1>2, <1>3
<1> QED
  BY <1>3, <1>4 DEF PaidFor, Covered

LEMMA RestPaid ==
    ASSUME Frame, Frame', AllPaid, Upload \/ Refresh \/ Invalidate \/ Analyze
    PROVE  AllPaid'
<1>0. /\ Types /\ UNCHANGED <<size, run, items, losses>>
      /\ status # "running" /\ status' # "running"
  BY DEF Frame, Upload, Refresh, Invalidate, Analyze, AtRest, work, history
<1> SUFFICES ASSUME NEW b \in Batches, NEW s \in Stages PROVE PaidFor(b, s)'
  BY <1>0 DEF AllPaid, Batches
<1>1. PaidFor(b, s) /\ b \in 1..MaxSize
  BY <1>0, BatchIs DEF AllPaid
<1>2. /\ Cardinality(Strays(b)) \in Nat /\ Cardinality(Behind(b, s)) \in Nat
      /\ calls[b][s] \in Nat /\ losses[b] \in Nat
  BY <1>0, CountsAre DEF Counted
<1>3. Strays(b)' = Strays(b) /\ Behind(b, s)' = Behind(b, s)
  BY <1>0 DEF Strays, Behind, Before, StageOf
<1>4. ASSUME calls'[b][s] = calls[b][s], Reusable(b, s) => Reusable(b, s)' PROVE PaidFor(b, s)'
  <2>1. Cardinality(Strays(b)') = Cardinality(Strays(b)) /\ Cardinality(Behind(b, s)') = Cardinality(Behind(b, s))
    BY <1>3
  <2> QED
    BY <1>0, <1>1, <1>2, <1>4, <2>1, QuietPaid
<1>5. ASSUME UNCHANGED journal, Recounted PROVE PaidFor(b, s)'
  <2>1. calls'[b][s] = IF src'[b] = src[b] THEN calls[b][s] ELSE 0
    BY <1>0, <1>1, <1>5, CallsRecounted
  <2>2. CASE src'[b] = src[b]
    <3>1. Usable(journal[s], b)' <=> Usable(journal[s], b)
      BY <1>5, <2>2 DEF Usable, LastOf, LastAt
    <3> QED
      BY <1>0, <1>4, <2>1, <2>2, <3>1 DEF Reusable
  <2>3. CASE src'[b] # src[b]
    BY <1>0, <1>1, <2>1, <2>3, UncalledPaid
  <2> QED
    BY <2>2, <2>3
<1>6. CASE Upload
  <2>1. CASE status = "created"
    BY <1>5, <1>6, <2>1 DEF Upload
  <2>2. CASE status # "created"
    <3>1. Filter(1, 1..MaxSize)
      BY <1>6, <2>2 DEF Upload
    <3>2. calls'[b][s] = 0
      <4>1. calls'[b][s] = IF s >= 1 /\ b \in 1..MaxSize THEN 0 ELSE calls[b][s]
        BY <1>0, <1>1, <3>1, CallsFiltered
      <4> QED
        BY <1>1, <4>1 DEF Stages
    <3> QED
      BY <1>0, <1>1, <3>2, UncalledPaid
  <2> QED
    BY <2>1, <2>2
<1>7. CASE Refresh
  BY <1>5, <1>7 DEF Refresh
<1>8. CASE Invalidate
  <2>1. PICK from \in 1..3, some \in SUBSET Batches : Filter(from, some)
    BY <1>8 DEF Invalidate
  <2>2. UNCHANGED <<src, fingerprint>> /\ status' = IF fingerprint = None THEN "created" ELSE "ready"
    BY <1>8 DEF Invalidate
  <2>3. calls'[b][s] = IF s >= from /\ b \in some THEN 0 ELSE calls[b][s]
    BY <1>0, <1>1, <2>1, CallsFiltered
  <2>4. CASE s >= from /\ b \in some
    BY <1>0, <1>1, <2>3, <2>4, UncalledPaid
  <2>5. CASE ~(s >= from /\ b \in some)
    <3>1. LastOf(journal'[s], b) = LastOf(journal[s], b)
      <4>1. CASE s < from
        BY <1>0, <2>1, <4>1, JournalsFiltered
      <4>2. CASE ~(s < from)
        <5>1. b \notin some
          BY <2>5, <4>2 DEF Stages
        <5>2. Filtered(journal'[s], journal[s], some)
          BY <1>0, <2>1, <4>2, JournalsFiltered
        <5> QED
          BY <5>1, <5>2 DEF Filtered
      <4> QED
        BY <4>1, <4>2
    <3>2. Usable(journal[s], b)' <=> Usable(journal[s], b)
      BY <2>2, <3>1 DEF Usable, LastOf, LastAt
    <3>3. Reusable(b, s) => Reusable(b, s)'
      BY <1>0, <3>2 DEF Reusable
    <3> QED
      BY <1>4, <2>3, <2>5, <3>3
  <2> QED
    BY <2>4, <2>5
<1>9. CASE Analyze
  <2>1. /\ UNCHANGED <<src, journal, calls>> /\ status' = "ready"
        /\ fingerprint' = IF fingerprint = None THEN src ELSE fingerprint
    BY <1>9 DEF Analyze, AnalyzedSource, history
  <2>2. Usable(journal[s], b)' <=> Usable(journal[s], b)
    BY <2>1 DEF Usable, LastOf, LastAt
  <2>3. Reusable(b, s) => Reusable(b, s)'
    BY <1>0, <2>2 DEF Reusable
  <2> QED
    BY <1>4, <2>1, <2>3
<1> QED
  BY <1>6, <1>7, <1>8, <1>9

\* The record that an own answer is, or one that is found by its key, is own again.
LEMMA OwnedHolds ==
    ASSUME Frame, Frame', [Next]_vars, ~drifted => Owned, ~drifted'
    PROVE  Owned'
<1>0. Types /\ Types'
  BY DEF Frame
<1>1. CASE \E i \in items : Item(i)
  <2> PICK i \in items : Item(i)
    BY <1>1
  <2>0. IsItem(i) /\ (i.asked => Due(i)) /\ Owned
    <3>1. UNCHANGED drifted
      BY DEF Item, Reuse, Ask, Answer, RepairFails, BatchDone, Fails, history
    <3> QED
      BY <3>1 DEF Frame, Types, ItemsTyped, Order, RunsApart
  <2>1. ASSUME NEW j, NEW k, Due(i), Follows(j, i), items' = (items \ {i}) \cup {j},
               UNCHANGED <<src, status, run>>,
               j.chain = i.chain \/ j.chain = Append(i.chain, k),
               i \in Ours /\ ~run.recover /\ j.chain # i.chain =>
                 k \in Own(i.batch, run.context)[StageOf(i)]
        PROVE  Owned'
    <3> SUFFICES ASSUME status = "running", ~run.recover,
                        NEW l \in Ours', NEW n \in DOMAIN l.chain
                 PROVE  l.chain[n] \in Own(l.batch, run.context)[n]
      BY <2>0, <2>1 DEF Owned, Own
    <3>1. CASE l # j
      BY <2>0, <2>1, <3>1 DEF Owned, Ours
    <3>2. CASE l = j
      <4>1. i \in Ours /\ l.batch = i.batch
        BY <2>1, <3>2 DEF Ours, Follows
      <4>2. \A m \in DOMAIN i.chain : i.chain[m] \in Own(i.batch, run.context)[m]
        BY <2>0, <4>1 DEF Owned
      <4>3. CASE j.chain = i.chain
        BY <3>2, <4>1, <4>2, <4>3
      <4>4. CASE j.chain # i.chain
        <5>1. IsSeq(i.chain) /\ l.chain = Append(i.chain, k) /\ StageOf(i) = Len(i.chain) + 1
          BY <2>0, <2>1, <3>2, <4>4, StageIs DEF IsItem
        <5>2. CASE n \in DOMAIN i.chain
          BY <4>1, <4>2, <5>1, <5>2, Appended
        <5>3. CASE n \notin DOMAIN i.chain
          <6>1. n = StageOf(i) /\ l.chain[n] = k
            BY <5>1, <5>3, Appended, SeqFacts
          <6> QED
            BY <2>1, <4>1, <4>4, <6>1
        <5> QED
          BY <5>2, <5>3
      <4> QED
        BY <4>3, <4>4
    <3> QED
      BY <3>1, <3>2
  <2>2. ASSUME i \in Ours
        PROVE  /\ i.text = src[i.batch] /\ i.seen = run.seen /\ i.recover = run.recover
               /\ i.context = run.context /\ status = "running"
    BY <2>2, EmptyIs DEF Ours, Frame, Order, RunsApart, Types, ItemsTyped, IsItem
  <2>3. CASE Reuse(i)
    <3>1. PICK k, j : /\ k \in Saved(i) /\ Due(i)
                      /\ Follows(j, i) /\ j.chain = Append(i.chain, k)
                      /\ items' = (items \ {i}) \cup {j} /\ UNCHANGED <<src, status, run>>
      BY <1>0, <2>3, ReuseIs
    <3>2. ASSUME i \in Ours, ~run.recover
          PROVE  k \in Own(i.batch, run.context)[StageOf(i)]
      <4>1. k \in ToSet(run.seen[StageOf(i)]) /\ k.batch = i.batch /\ k.text = src[k.batch]
        BY <2>0, <2>2, <3>1, <3>2, SavedIs DEF Of
      <4> QED
        BY <2>0, <2>2, <3>1, <3>2, <4>1, StageIs DEF Owned
    <3> QED
      BY <2>1, <3>1, <3>2
  <2>4. CASE Ask(i)
    BY <1>0, <2>1, <2>4, AskIs
  <2>5. CASE Answer(i)
    <3>0. Due(i)
      BY <2>0, <2>5 DEF Answer
    <3>1. PICK k, j : /\ k.repair => StageOf(i) = 3
                      /\ k = [Key(i) EXCEPT !.repair = k.repair] /\ k.repair \in BOOLEAN
                      /\ Follows(j, i) /\ j.chain = Append(i.chain, k)
                      /\ items' = (items \ {i}) \cup {j} /\ UNCHANGED <<src, status, run>>
      BY <1>0, <2>5, <3>0, AnswerIs
    <3>2. ASSUME i \in Ours, ~run.recover
          PROVE  k \in Own(i.batch, run.context)[StageOf(i)]
      <4>1. \A n \in DOMAIN i.chain : i.chain[n] \in Own(i.batch, i.context)[n]
        BY <2>0, <2>2, <3>2 DEF Owned
      <4>2. [Key(i) EXCEPT !.repair = k.repair] \in Own(i.batch, i.context)[StageOf(i)]
        BY <2>0, <2>2, <3>0, <3>1, <3>2, <4>1, OwnKey
      <4> QED
        BY <2>2, <3>1, <3>2, <4>2
    <3> QED
      BY <2>1, <3>0, <3>1, <3>2
  <2>6. CASE RepairFails(i) \/ BatchDone(i) \/ Fails(i)
    <3>1. /\ items' \subseteq items /\ UNCHANGED src
          /\ UNCHANGED <<status, run>> \/ status' # "running"
      BY <2>6 DEF RepairFails, BatchDone, Fails, job
    <3> QED
      BY <2>0, <3>1 DEF Owned, Own, Ours
  <2> QED
    BY <2>3, <2>4, <2>5, <2>6 DEF Item
<1>2. CASE Start
  <2>1. PICK c \in Contexts : /\ run' = [id |-> runs', recover |-> SameSource, context |-> c,
                                         seen |-> journal, next |-> 1, aborted |-> FALSE]
                              /\ drifted' = (drifted \/ (~SameSource /\ Foreign(c)))
    BY <1>2 DEF Start
  <2>2. UNCHANGED <<items, src>> /\ runs' = runs + 1
    BY <1>2 DEF Start
  <2>3. Ours' = {}
    BY <2>1, <2>2 DEF Ours, Frame, Types, JobTyped, ItemsTyped, IsItem, Order, RunsApart
  <2>4. ~run'.recover => \A s \in Stages : \A k \in ToSet(run'.seen[s]) :
            k.text = src[k.batch] => k \in Own(k.batch, run'.context)[s]
    BY <2>1 DEF Foreign
  <2> QED
    BY <2>2, <2>3, <2>4 DEF Owned, Own
<1>3. CASE Pause
  <2>1. /\ items' = {Paused(i) : i \in items} /\ UNCHANGED <<src, status>>
        /\ \A i \in items : Follows(Paused(i), i) /\ Paused(i).chain = i.chain
        /\ run'.seen = run.seen /\ run'.recover = run.recover /\ run'.context = run.context
        /\ run'.id = run.id
    BY <1>0, <1>3, PauseIs
  <2>2. Owned
    BY <1>3 DEF Pause, history
  <2> QED
    BY <2>1, <2>2 DEF Owned, Own, Ours, Follows
<1>4. CASE Claim
  <2>1. /\ items' = items \cup {NewItem} /\ UNCHANGED <<src, status>>
        /\ run'.seen = run.seen /\ run'.recover = run.recover /\ run'.context = run.context
        /\ run'.id = run.id
    BY <1>0, <1>4, ClaimIs
  <2>2. Owned /\ DOMAIN NewItem.chain = {}
    BY <1>4 DEF Claim, history, NewItem
  <2> HIDE DEF NewItem
  <2> QED
    BY <2>1, <2>2 DEF Owned, Own, Ours
<1>5. CASE Crash \/ Stops \/ Complete
  <2>1. status' # "running"
    BY <1>5 DEF Crash, Stops, Complete
  <2> QED
    BY <2>1 DEF Owned
<1>6. CASE Upload \/ Refresh \/ Invalidate \/ Analyze
  <2>1. status' # "running"
    BY <1>6 DEF Upload, Refresh, Invalidate, Analyze
  <2> QED
    BY <2>1 DEF Owned
<1>7. CASE UNCHANGED vars
  <2>1. UNCHANGED <<src, status, run, items, drifted>>
    BY <1>7 DEF vars, job, work, history
  <2> QED
    BY <2>1 DEF Owned, Own, Ours
<1> QED
  BY <1>1, <1>2, <1>3, <1>4, <1>5, <1>6, <1>7 DEF Next, Running

\* Whatever was paused, failed, crashed, retried, invalidated or re-read on the way, a
\* stage of a batch is asked for at most once more than work on the batch was cut off,
\* until the batch is invalidated or its text changes: as long as no answer for a
\* replaced text hides the record of the new one, and a run that has to find records by
\* their keys asks with the prompts that these are of (checkpointKey and
\* compatibleCheckpoint in runQualityPipeline).
THEOREM StagesArePaidOnce == Spec => []PaidOnce
<1> DEFINE PaidInv == Frame /\ (~drifted => Owned) /\ (~late /\ ~drifted => AllPaid)
<1>1. Init => PaidInv
  <2> SUFFICES ASSUME Init PROVE Frame /\ Owned /\ AllPaid
    OBVIOUS
  <2>1. Frame /\ Owned
    BY FrameBegins DEF Init, Owned
  <2> SUFFICES ASSUME NEW b \in Batches, NEW s \in Stages PROVE PaidFor(b, s)
    BY <2>1 DEF AllPaid
  <2>2. calls[b][s] = 0 /\ losses[b] = 0
    BY <2>1, UnpaidIs, BatchIs DEF Init, Frame
  <2>3. Strays(b) = {} /\ Behind(b, s) = {}
    BY DEF Init, Strays, Behind
  <2>4. Cardinality(Strays(b)) = 0 /\ Cardinality(Behind(b, s)) = 0
    BY <2>3, FS_EmptySet
  <2> QED
    BY <2>2, <2>4 DEF PaidFor, Covered
<1>2. PaidInv /\ [Next]_vars => PaidInv'
  <2> SUFFICES ASSUME PaidInv, [Next]_vars PROVE PaidInv'
    OBVIOUS
  <2>1. Frame' /\ (~drifted' => Owned')
    BY FrameHolds, OwnedHolds
  <2> SUFFICES ASSUME ~late', ~drifted' PROVE AllPaid'
    BY <2>1
  <2>2. CASE \E i \in items : Item(i)
    <3>1. ~late /\ ~drifted
      <4>1. ~late
        BY <2>2 DEF Item, Reuse, Ask, Answer, RepairFails, BatchDone, Fails, history
      <4>2. ~drifted
        BY <2>2 DEF Item, Reuse, Ask, Answer, RepairFails, BatchDone, Fails, history
      <4> QED
        BY <4>1, <4>2
    <3> QED
      BY <2>1, <2>2, <3>1, ItemsPaid
  <2>3. CASE Start \/ Pause \/ Crash \/ Claim \/ Stops \/ Complete
    <3>1. ~late /\ ~drifted
      <4>1. ~late
        BY <2>3 DEF Start, Pause, Crash, Claim, Stops, Complete, history
      <4>2. ~drifted
        BY <2>3 DEF Start, Pause, Crash, Claim, Stops, Complete, history
      <4> QED
        BY <4>1, <4>2
    <3> QED
      BY <2>1, <2>3, <3>1, RunsPaid
  <2>4. CASE Upload \/ Refresh \/ Invalidate \/ Analyze
    <3>1. ~late /\ ~drifted
      BY <2>4 DEF Upload, Refresh, Invalidate, Analyze, history
    <3> QED
      BY <2>1, <2>4, <3>1, RestPaid
  <2>5. CASE UNCHANGED vars
    <3>1. UNCHANGED <<size, src, fingerprint, status, journal, run, items, calls, losses, late, drifted>>
      BY <2>5 DEF vars, job, work, history
    <3> SUFFICES ASSUME NEW b \in Batches, NEW s \in Stages PROVE PaidFor(b, s)'
      BY <3>1 DEF AllPaid, Batches
    <3>2. PaidFor(b, s)
      BY <3>1 DEF AllPaid
    <3>3. Strays(b)' = Strays(b) /\ Behind(b, s)' = Behind(b, s) /\ Ours' = Ours
      BY <3>1 DEF Strays, Behind, Before, StageOf, Ours
    <3>4. (Passed(b, s)' <=> Passed(b, s)) /\ (Asking(b, s)' <=> Asking(b, s))
      BY <3>1, <3>3 DEF Passed, Asking, Before, StageOf
    <3>5. /\ Usable(journal[s], b)' <=> Usable(journal[s], b)
          /\ Usable(run.seen[s], b)' <=> Usable(run.seen[s], b)
      BY <3>1 DEF Usable, LastOf, LastAt
    <3> QED
      BY <3>1, <3>2, <3>3, <3>4, <3>5 DEF PaidFor, Covered, Reusable
  <2> QED
    BY <2>2, <2>3, <2>4, <2>5 DEF Next, Running
<1>3. PaidInv => PaidOnce
  <2> SUFFICES ASSUME Frame, AllPaid, NEW b \in Batches, NEW s \in Stages
               PROVE  calls[b][s] <= 1 + losses[b]
    BY DEF PaidOnce
  <2>1. Cardinality(Behind(b, s)) \in Nat /\ calls[b][s] \in Nat /\ losses[b] \in Nat
    BY CountsAre DEF Frame, Counted
  <2> QED
    BY <2>1 DEF AllPaid, PaidFor
<1> QED
  BY <1>1, <1>2, <1>3, PTL DEF Spec

-------------------------------------------------------------------------------
(* A completed book is made of answers for the text the source has: as long as *)
(* nothing of what the definition of TrustedBookIsFresh excludes has happened. *)

Clean == ~late /\ ~mixed /\ ~returned

\* The last record of batch b is for text t.
LastIs(records, b, t) == \A k \in LastOf(records, b) : k.text = t

\* A record for text t is not hidden by a later one for another text.
Top(records, b, t) == (\E k \in Of(records, b) : k.text = t) => LastIs(records, b, t)

\* The critic found nothing in text t that a repair was due for.
NoRepair(records, b, t) == \A k \in Of(records, b) : k.text = t => ~k.repair

\* A run on text t may take the last records for its own, up to the audit.
Trusty(J, b, t) ==
    /\ \A s \in 1..3 : LastIs(J[s], b, t)
    /\ Of(J[3], b) = {} => LastIs(J[4], b, t)

\* Nor would it take the repair of another text.
Settled(J, b, t) == LastIs(J[4], b, t) \/ NoRepair(J[3], b, t)

Tops == \A b \in Batches, s \in Stages : Top(journal[s], b, src[b])

\* A run that may not recover has an audit of b, and the repair still to make.
Repairing(b) ==
    /\ status = "running" /\ ~run.recover
    /\ \E i \in Ours : i.batch = b /\ Len(i.chain) = 3 /\ i.chain[3].repair
AuditsSettled == \A b \in Batches : Settled(journal, b, src[b]) \/ Repairing(b)

RestTrusted ==
    status # "running" /\ fingerprint # None =>
      \A b \in Batches : Trusty(journal, b, fingerprint[b])

RunTrusted ==
    status = "running" /\ run.recover =>
      \A b \in Batches :
         /\ Trusty(journal, b, src[b])
         /\ Trusty(run.seen, b, src[b]) /\ Settled(run.seen, b, src[b])
         /\ Of(run.seen[3], b) = {} => LastIs(journal[4], b, src[b])

\* The run is through with batch b.
Through(b) == b < run.next /\ \A i \in Ours : i.batch # b
DoneTrusted ==
    status = "running" =>
      \A b \in Batches : Through(b) => Trusty(journal, b, src[b]) /\ out[b] # <<>>

OutFresh ==
    status \in {"running", "completed"} =>
      \A b \in Batches : /\ \A n \in DOMAIN out[b] : out[b][n].text = src[b]
                         /\ status = "completed" => out[b] # <<>>

ItemFresh(i) ==
    /\ i.run # run.id => i.recover
    /\ i.recover => Trusty(i.seen, i.batch, i.text) /\ Settled(i.seen, i.batch, i.text)
    /\ i.text = src[i.batch] => fingerprint[i.batch] = i.text
    /\ i.text = src[i.batch] /\ i.recover /\ Of(i.seen[3], i.batch) = {} =>
         LastIs(journal[4], i.batch, i.text)
    /\ i.recover /\ i.asked /\ StageOf(i) \in 1..3 => Of(i.seen[StageOf(i)], i.batch) = {}
    /\ i.run = run.id => \A n \in DOMAIN i.chain : i.chain[n].text = i.text /\ i.chain[n].batch = i.batch
    /\ i.run = run.id /\ i.recover /\ Len(i.chain) >= 3 /\ i.chain[3].repair =>
         LastIs(i.seen[4], i.batch, i.text)
ItemsFresh == \A i \in items : ItemFresh(i)

AllFresh ==
    /\ Tops /\ AuditsSettled
    /\ RestTrusted /\ RunTrusted /\ DoneTrusted
    /\ OutFresh /\ ItemsFresh

\* In standard quality nothing is audited.
NoAudits ==
    quality = "standard" =>
      /\ \A i \in items : Len(i.chain) <= 2
      /\ ToSet(journal[3]) = {} /\ ToSet(journal[4]) = {}

LEMMA OfNone ==
    ASSUME NEW R, IsSeq(R), NEW b, Of(R, b) = {}, NEW t
    PROVE  LastOf(R, b) = {} /\ LastIs(R, b, t) /\ Top(R, b, t) /\ NoRepair(R, b, t)
<1>1. LastOf(R, b) = {}
  BY LastOfIs
<1> QED
  BY <1>1 DEF LastIs, Top, NoRepair

LEMMA NoneTrusty ==
    ASSUME NEW J, IsJournals(J), NEW b, \A s \in Stages : Of(J[s], b) = {}, NEW t
    PROVE  Trusty(J, b, t) /\ Settled(J, b, t)
<1>1. \A s \in Stages : LastIs(J[s], b, t) /\ IsSeq(J[s])
  BY OfNone DEF IsJournals
<1>2. 1..3 \subseteq Stages /\ 4 \in Stages
  BY DEF Stages
<1> QED
  BY <1>1, <1>2 DEF Trusty, Settled

\* What one more record k in journal z changes for text t of batch b.
Extended(J, G, z, k, b, t) ==
    /\ \A s \in Stages : /\ LastIs(J[s], b, t) => LastIs(G[s], b, t)
                         /\ Top(J[s], b, t) => Top(G[s], b, t)
    /\ k.batch = b => LastIs(G[z], b, t)
    /\ Trusty(J, b, t) => Trusty(G, b, t)
    /\ \A s \in Stages : s # z => G[s] = J[s]
    /\ Of(G[z], b) = IF k.batch = b THEN Of(J[z], b) \cup {k} ELSE Of(J[z], b)

LEMMA AppendTrusty ==
    ASSUME NEW J, IsJournals(J), NEW G, NEW z \in Stages, NEW k, IsRecord(k),
           G = [J EXCEPT ![z] = Append(@, k)],
           NEW b, NEW t, k.batch = b => k.text = t
    PROVE  Extended(J, G, z, k, b, t)
<1>1. /\ \A s \in Stages : s # z => G[s] = J[s]
      /\ G[z] = Append(J[z], k) /\ IsSeq(J[z])
  BY JournalGrows DEF IsJournals
<1>2. PICK r : r = J[z] /\ IsSeq(r)
  BY <1>1
<1>3. /\ LastOf(Append(r, k), b) = IF k.batch = b THEN {k} ELSE LastOf(r, b)
      /\ Of(Append(r, k), b) = IF k.batch = b THEN Of(r, b) \cup {k} ELSE Of(r, b)
  <2>1. LastOf(Append(r, k), b) = IF k.batch = b THEN {k} ELSE LastOf(r, b)
    BY ONLY <1>2, LastOfAppended
  <2>2. Of(Append(r, k), b) = IF k.batch = b THEN Of(r, b) \cup {k} ELSE Of(r, b)
    BY ONLY <1>2, LastOfAppended
  <2> QED
    BY <2>1, <2>2
<1>4. /\ LastOf(G[z], b) = IF k.batch = b THEN {k} ELSE LastOf(J[z], b)
      /\ Of(G[z], b) = IF k.batch = b THEN Of(J[z], b) \cup {k} ELSE Of(J[z], b)
  BY <1>1, <1>2, <1>3
<1>5. k.batch = b => LastIs(G[z], b, t)
  BY <1>4 DEF LastIs
<1>6. k.batch # b => LastOf(G[z], b) = LastOf(J[z], b) /\ Of(G[z], b) = Of(J[z], b)
  BY <1>4
<1>7. ASSUME NEW s \in Stages
      PROVE  /\ LastIs(J[s], b, t) => LastIs(G[s], b, t)
             /\ Top(J[s], b, t) => Top(G[s], b, t)
  BY <1>1, <1>5, <1>6 DEF Top, LastIs
<1>8. Trusty(J, b, t) => Trusty(G, b, t)
  <2> SUFFICES ASSUME Trusty(J, b, t) PROVE Trusty(G, b, t)
    OBVIOUS
  <2>1. 1..3 \subseteq Stages /\ 4 \in Stages /\ 3 \in Stages
    BY DEF Stages
  <2>2. Of(G[3], b) = {} => Of(J[3], b) = {}
    BY <1>1, <1>4, <2>1
  <2> QED
    BY <1>7, <2>1, <2>2 DEF Trusty
<1>9. Of(G[z], b) = IF k.batch = b THEN Of(J[z], b) \cup {k} ELSE Of(J[z], b)
  BY <1>4
<1> QED
  BY <1>1, <1>5, <1>7, <1>8, <1>9 DEF Extended

\* What is left after a filter from stage 1, 2 or 3 down.
LEMMA FilterTrusty ==
    ASSUME Types, NEW from \in 1..3, NEW some, Filter(from, some), NEW b, NEW t
    PROVE  /\ \A s \in Stages : /\ LastIs(journal[s], b, t) => LastIs(journal'[s], b, t)
                                /\ Top(journal[s], b, t) => Top(journal'[s], b, t)
                                /\ s >= from /\ b \in some => Of(journal'[s], b) = {}
           /\ Trusty(journal, b, t) => Trusty(journal', b, t)
           /\ Settled(journal, b, t) => Settled(journal', b, t)
<1>1. \A s \in Stages : IsSeq(journal[s]) /\ IsSeq(journal'[s])
  BY JournalsFiltered DEF Types, IsJournals
<1>2. \A s \in Stages : IF s >= from /\ b \in some
                        THEN Of(journal'[s], b) = {}
                        ELSE Of(journal'[s], b) = Of(journal[s], b) /\ LastOf(journal'[s], b) = LastOf(journal[s], b)
  <2> TAKE s \in Stages
  <2>1. CASE s < from
    <3>1. journal'[s] = journal[s] /\ ~(s >= from)
      BY <2>1, JournalsFiltered DEF Stages
    <3> QED
      BY <3>1
  <2>2. CASE ~(s < from)
    <3>1. Filtered(journal'[s], journal[s], some) /\ s >= from
      BY <2>2, JournalsFiltered DEF Stages
    <3> QED
      BY <3>1 DEF Filtered
  <2> QED
    BY <2>1, <2>2
<1>3. ASSUME NEW s \in Stages
      PROVE  /\ LastIs(journal[s], b, t) => LastIs(journal'[s], b, t)
             /\ Top(journal[s], b, t) => Top(journal'[s], b, t)
             /\ NoRepair(journal[s], b, t) => NoRepair(journal'[s], b, t)
  <2>1. CASE s >= from /\ b \in some
    BY <1>1, <1>2, <2>1, OfNone
  <2>2. CASE ~(s >= from /\ b \in some)
    BY <1>2, <2>2 DEF LastIs, Top, NoRepair
  <2> QED
    BY <2>1, <2>2
<1>4. 1..3 \subseteq Stages /\ 4 \in Stages /\ 3 \in Stages /\ 3 >= from /\ 4 >= from
  BY DEF Stages
<1>5. Settled(journal, b, t) => Settled(journal', b, t)
  BY <1>3, <1>4 DEF Settled
<1>6. Trusty(journal, b, t) => Trusty(journal', b, t)
  <2>1. CASE b \in some
    BY <1>1, <1>2, <1>3, <1>4, <2>1, OfNone DEF Trusty
  <2>2. CASE b \notin some
    BY <1>2, <1>3, <1>4, <2>2 DEF Trusty
  <2> QED
    BY <2>1, <2>2
<1> QED
  BY <1>2, <1>3, <1>5, <1>6

LEMMA ItemFreshSame ==
    ASSUME UNCHANGED <<src, fingerprint, journal, run>>
    PROVE  \A i : ItemFresh(i)' <=> ItemFresh(i)
BY DEF ItemFresh, StageOf

\* An item goes on, and the journals are as they were.
LEMMA MoveFresh ==
    ASSUME Frame, AllFresh, NEW i \in items, NEW j, Follows(j, i), items' = (items \ {i}) \cup {j},
           UNCHANGED <<size, src, fingerprint, status, journal, run, out>>,
           ItemFresh(j),
           \/ j.chain = i.chain \/ i.run # run.id
           \/ ~Repairing(i.batch) \/ Settled(journal, i.batch, src[i.batch])
    PROVE  AllFresh'
<1>1. Batches' = Batches
  BY DEF Batches
<1>2. Tops' /\ RestTrusted' /\ RunTrusted' /\ OutFresh'
  BY <1>1 DEF AllFresh, Tops, RestTrusted, RunTrusted, OutFresh
<1>3. /\ \A l \in Ours : \E m \in Ours' : m.batch = l.batch /\ (m = l \/ (l = i /\ m = j))
      /\ j.batch = i.batch
  BY DEF Ours, Follows
<1>4. DoneTrusted'
  <2>1. \A b : b \in Batches /\ Through(b)' => Through(b)
    BY <1>3 DEF Through
  <2> QED
    BY <1>1, <2>1 DEF AllFresh, DoneTrusted
<1>5. \A b \in Batches : Repairing(b) => Repairing(b)' \/ Settled(journal, b, src[b])
  <2> SUFFICES ASSUME NEW b \in Batches, Repairing(b), ~Settled(journal, b, src[b]) PROVE Repairing(b)'
    OBVIOUS
  <2>1. PICK l \in Ours : l.batch = b /\ Len(l.chain) = 3 /\ l.chain[3].repair
    BY DEF Repairing
  <2>2. PICK m \in Ours' : m.batch = l.batch /\ (m = l \/ (l = i /\ m = j))
    BY <1>3
  <2>3. m.chain = l.chain
    BY <2>1, <2>2 DEF Ours
  <2> QED
    BY <2>1, <2>2, <2>3 DEF Repairing
<1>6. AuditsSettled'
  BY <1>1, <1>5 DEF AllFresh, AuditsSettled
<1>7. ItemsFresh'
  BY ItemFreshSame DEF AllFresh, ItemsFresh
<1> QED
  BY <1>2, <1>4, <1>6, <1>7 DEF AllFresh

\* Of a chain that goes on with record k.
LEMMA ChainOn ==
    ASSUME NEW i, IsItem(i), NEW j, NEW k, j.chain = Append(i.chain, k)
    PROVE  /\ Len(i.chain) \in Nat /\ Len(j.chain) = Len(i.chain) + 1
           /\ DOMAIN i.chain = 1..Len(i.chain) /\ StageOf(i) = Len(i.chain) + 1
           /\ \A n \in DOMAIN j.chain : (n \in DOMAIN i.chain /\ j.chain[n] = i.chain[n]) \/ (n = StageOf(i) /\ j.chain[n] = k)
           /\ j.chain[StageOf(i)] = k
<1>1. IsSeq(i.chain) /\ Len(i.chain) \in Nat /\ DOMAIN i.chain = 1..Len(i.chain)
  BY ChainIs DEF IsItem
<1>2. /\ DOMAIN j.chain = 1..(Len(i.chain) + 1) /\ Len(j.chain) = Len(i.chain) + 1
      /\ \A n \in 1..Len(i.chain) : j.chain[n] = i.chain[n]
      /\ j.chain[Len(i.chain) + 1] = k
  BY <1>1, Appended
<1>3. \A l \in Nat : \A n \in 1..(l + 1) : n \in 1..l \/ n = l + 1
  OBVIOUS
<1>4. \A n \in DOMAIN j.chain : n \in 1..Len(i.chain) \/ n = Len(i.chain) + 1
  BY <1>1, <1>2, <1>3
<1> QED
  BY <1>1, <1>2, <1>4 DEF StageOf

\* The third record of a chain that goes on.
LEMMA ThirdOn ==
    ASSUME NEW i, IsItem(i), NEW j, NEW k, j.chain = Append(i.chain, k), Len(j.chain) >= 3
    PROVE  \/ Len(i.chain) >= 3 /\ j.chain[3] = i.chain[3]
           \/ StageOf(i) = 3 /\ j.chain[3] = k
<1>1. IsSeq(i.chain)
  BY DEF IsItem
<1>2. Len(i.chain) \in Nat
  BY <1>1, SeqFacts
<1>3. /\ Len(j.chain) = Len(i.chain) + 1 /\ j.chain[Len(i.chain) + 1] = k
      /\ \A n \in 1..Len(i.chain) : j.chain[n] = i.chain[n]
  BY <1>1, Appended
<1>4. CASE Len(i.chain) >= 3
  BY <1>2, <1>3, <1>4
<1>5. CASE ~(Len(i.chain) >= 3)
  <2>1. Len(i.chain) + 1 = 3
    BY <1>2, <1>3, <1>5
  <2> QED
    BY <1>3, <2>1 DEF StageOf
<1> QED
  BY <1>4, <1>5

\* Facts about an item that is due a stage.
LEMMA DueFacts ==
    ASSUME Frame, AllFresh, NEW i \in items, Due(i)
    PROVE  /\ IsItem(i) /\ ItemFresh(i) /\ Types /\ i.batch \in Batches
           /\ StageOf(i) \in Stages /\ Len(i.chain) \in Nat /\ StageOf(i) = Len(i.chain) + 1
           /\ IsJournals(i.seen) /\ IsSeq(i.seen[StageOf(i)])
           /\ i.recover \in BOOLEAN
           /\ StageOf(i) \in 1..3 \/ (StageOf(i) = 4 /\ Len(i.chain) = 3 /\ i.chain[3].repair)
           /\ i.run = run.id =>
                /\ status = "running" /\ i.text = src[i.batch] /\ i.seen = run.seen
                /\ i.recover = run.recover /\ i.context = run.context /\ i.batch < run.next
<1>1. IsItem(i) /\ ItemFresh(i) /\ Types
  BY DEF Frame, Types, ItemsTyped, AllFresh, ItemsFresh
<1>2. Len(i.chain) \in Nat /\ StageOf(i) = Len(i.chain) + 1 /\ StageOf(i) \in Stages
  BY <1>1, StageIs
<1>3. StageOf(i) \in 1..3 \/ (StageOf(i) = 4 /\ Len(i.chain) = 3 /\ i.chain[3].repair)
  <2>1. StageOf(i) \in {1, 2, 3, 4}
    BY <1>2 DEF Stages
  <2>2. ASSUME StageOf(i) = 4 PROVE Len(i.chain) = 3 /\ i.chain[3].repair
    <3>1. Len(i.chain) = 3
      <4>1. \A n \in Nat : n + 1 = 4 => n = 3
        OBVIOUS
      <4>2. Len(i.chain) + 1 = 4
        BY <1>2, <2>2
      <4> QED
        BY <1>2, <4>1, <4>2
    <3>2. ~(StageOf(i) <= 2) /\ StageOf(i) # 3
      BY <2>2
    <3>3. i.chain[3].repair
      BY <3>2 DEF Due
    <3> QED
      BY <3>1, <3>3
  <2> QED
    BY <2>1, <2>2
<1>4. IsJournals(i.seen) /\ IsSeq(i.seen[StageOf(i)]) /\ i.recover \in BOOLEAN
  BY <1>1, <1>2 DEF IsItem, IsJournals
<1>5. i.batch \in Batches
  <2>1. i.batch \in 1..MaxSize /\ i.batch <= size /\ MaxSize \in Nat /\ size \in Nat
    BY <1>1, ConstantsAssumption DEF IsItem, Frame, Order, RunsApart, Types, JobTyped, ConstantsAssumption
  <2> QED
    BY <2>1 DEF Batches
<1>6. i.run = run.id =>
        /\ status = "running" /\ i.text = src[i.batch] /\ i.seen = run.seen
        /\ i.recover = run.recover /\ i.context = run.context /\ i.batch < run.next
  BY EmptyIs DEF Frame, Order, RunsApart
<1> QED
  BY <1>1, <1>2, <1>3, <1>4, <1>5, <1>6

LEMMA ReuseFresh ==
    ASSUME Frame, AllWritten, AllFresh, NEW i \in items, Reuse(i)
    PROVE  AllFresh'
<1>0. Due(i) /\ Types
  BY DEF Reuse, Frame
<1>1. /\ IsItem(i) /\ ItemFresh(i) /\ i.batch \in Batches
      /\ StageOf(i) \in Stages /\ Len(i.chain) \in Nat /\ StageOf(i) = Len(i.chain) + 1
      /\ IsJournals(i.seen) /\ IsSeq(i.seen[StageOf(i)])
      /\ i.recover \in BOOLEAN
      /\ StageOf(i) \in 1..3 \/ (StageOf(i) = 4 /\ Len(i.chain) = 3 /\ i.chain[3].repair)
      /\ i.run = run.id =>
           /\ status = "running" /\ i.text = src[i.batch] /\ i.seen = run.seen
           /\ i.recover = run.recover /\ i.context = run.context /\ i.batch < run.next
  BY <1>0, DueFacts
<1>2. PICK k, j : /\ k \in Saved(i) /\ ~i.asked
                  /\ Follows(j, i) /\ j.chain = Append(i.chain, k) /\ ~j.asked
                  /\ items' = (items \ {i}) \cup {j}
                  /\ UNCHANGED <<size, quality, src, fingerprint, status, journal, run, out>>
  BY <1>0, ReuseIs
<1>3. /\ k \in Of(i.seen[StageOf(i)], i.batch) /\ IsRecord(k)
      /\ k.text = i.text \/ (i.recover /\ k \in LastOf(i.seen[StageOf(i)], i.batch))
  BY <1>0, <1>1, <1>2, SavedIs
<1>4. i.run = run.id => k.text = i.text /\ k.batch = i.batch
  <2> SUFFICES ASSUME i.run = run.id, i.recover, k \in LastOf(i.seen[StageOf(i)], i.batch)
               PROVE  k.text = i.text
    BY <1>3 DEF Of
  <2>1. CASE StageOf(i) \in 1..3
    BY <1>1, <2>1 DEF ItemFresh, Trusty, LastIs
  <2>2. CASE StageOf(i) = 4 /\ Len(i.chain) = 3 /\ i.chain[3].repair
    BY <1>1, <2>2 DEF ItemFresh, LastIs
  <2> QED
    BY <1>1, <2>1, <2>2
<1>5. i.run # run.id \/ ~Repairing(i.batch) \/ Settled(journal, i.batch, src[i.batch])
  <2> SUFFICES ASSUME Repairing(i.batch), i.run = run.id PROVE Settled(journal, i.batch, src[i.batch])
    OBVIOUS
  <2>1. PICK l \in Ours : l.batch = i.batch /\ Len(l.chain) = 3 /\ l.chain[3].repair
    BY DEF Repairing
  <2>2. l = i
    BY <2>1 DEF Ours, Frame, Order, RunsApart
  <2>3. StageOf(i) = 4 /\ ~i.recover
    BY <1>1, <2>1, <2>2 DEF Repairing
  <2>4. k \in ToSet(run.seen[4]) /\ k.batch = i.batch /\ k.text = src[i.batch]
    BY <1>1, <1>3, <1>4, <2>3 DEF Of
  <2>5. k \in Of(journal[4], i.batch)
    BY <1>1, <2>4 DEF AllWritten, SeenWritten, Stages, Of
  <2>6. Top(journal[4], i.batch, src[i.batch])
    BY <1>1 DEF AllFresh, Tops, Stages
  <2> QED
    BY <2>4, <2>5, <2>6 DEF Top, Settled
<1>6. ItemFresh(j)
  <2>1. /\ IsItem(j) /\ j.run = i.run /\ j.batch = i.batch /\ j.text = i.text
        /\ j.recover = i.recover /\ j.context = i.context /\ j.seen = i.seen
    BY <1>2 DEF Follows
  <2>2. ASSUME j.run = run.id, NEW n \in DOMAIN j.chain
        PROVE  j.chain[n].text = j.text /\ j.chain[n].batch = j.batch
    <3>1. (n \in DOMAIN i.chain /\ j.chain[n] = i.chain[n]) \/ j.chain[n] = k
      BY <1>1, <1>2, ChainOn
    <3> QED
      BY <1>1, <1>4, <2>1, <2>2, <3>1 DEF ItemFresh
  <2>3. ASSUME j.run = run.id, j.recover, Len(j.chain) >= 3, j.chain[3].repair
        PROVE  LastIs(j.seen[4], j.batch, j.text)
    <3>1. \/ Len(i.chain) >= 3 /\ j.chain[3] = i.chain[3]
          \/ StageOf(i) = 3 /\ j.chain[3] = k
      BY <1>1, <1>2, <2>3, ThirdOn
    <3>2. CASE Len(i.chain) >= 3 /\ j.chain[3] = i.chain[3]
      BY <1>1, <2>1, <2>3, <3>2 DEF ItemFresh
    <3>3. CASE StageOf(i) = 3 /\ j.chain[3] = k
      <4>1. k \in Of(i.seen[3], i.batch) /\ k.text = i.text /\ k.repair
        BY <1>3, <1>4, <2>1, <2>3, <3>3
      <4>2. Settled(i.seen, i.batch, i.text)
        BY <1>1, <2>1, <2>3 DEF ItemFresh
      <4> QED
        BY <2>1, <4>1, <4>2 DEF Settled, NoRepair
    <3> QED
      BY <3>1, <3>2, <3>3
  <2> QED
    BY <1>1, <1>2, <2>1, <2>2, <2>3 DEF ItemFresh
<1> QED
  BY <1>1, <1>2, <1>5, <1>6, MoveFresh

LEMMA AskFresh ==
    ASSUME Frame, AllFresh, NEW i \in items, Ask(i)
    PROVE  AllFresh'
<1>0. Due(i) /\ Types
  BY DEF Ask, Frame
<1>1. /\ IsItem(i) /\ ItemFresh(i)
      /\ StageOf(i) \in Stages /\ IsSeq(i.seen[StageOf(i)])
      /\ StageOf(i) \in 1..3 \/ (StageOf(i) = 4 /\ Len(i.chain) = 3 /\ i.chain[3].repair)
  BY <1>0, DueFacts
<1>2. PICK j : /\ Saved(i) = {}
               /\ Follows(j, i) /\ j.chain = i.chain
               /\ items' = (items \ {i}) \cup {j}
               /\ UNCHANGED <<size, quality, src, fingerprint, status, journal, run, out>>
  BY <1>0, AskIs
<1>3. ASSUME i.recover, StageOf(i) \in 1..3 PROVE Of(i.seen[StageOf(i)], i.batch) = {}
  <2> SUFFICES ASSUME Of(i.seen[StageOf(i)], i.batch) # {} PROVE FALSE
    OBVIOUS
  <2>1. PICK l : l \in LastOf(i.seen[StageOf(i)], i.batch)
    BY <1>1, LastOfIs
  <2>2. l.text = i.text
    BY <1>1, <1>3, <2>1 DEF ItemFresh, Trusty, LastIs
  <2>3. Compatible(l, i.text)
    BY <2>2 DEF Compatible
  <2> QED
    BY <1>0, <1>1, <1>2, <1>3, <2>1, <2>3, SavedIs
<1>4. ItemFresh(j)
  <2>1. /\ j.run = i.run /\ j.batch = i.batch /\ j.text = i.text
        /\ j.recover = i.recover /\ j.context = i.context /\ j.seen = i.seen /\ StageOf(j) = StageOf(i)
    BY <1>2 DEF Follows, StageOf
  <2> QED
    BY <1>1, <1>2, <1>3, <2>1 DEF ItemFresh
<1> QED
  BY <1>2, <1>4, MoveFresh

LEMMA AnswerFresh ==
    ASSUME Frame, AllFresh, NEW i \in items, Answer(i), ~late'
    PROVE  AllFresh'
<1>0. Due(i) /\ Types
  BY DEF Answer, Frame, Order, RunsApart
<1>1. /\ IsItem(i) /\ ItemFresh(i) /\ i.batch \in Batches
      /\ StageOf(i) \in Stages /\ Len(i.chain) \in Nat /\ StageOf(i) = Len(i.chain) + 1
      /\ StageOf(i) \in 1..3 \/ (StageOf(i) = 4 /\ Len(i.chain) = 3 /\ i.chain[3].repair)
      /\ i.run = run.id =>
           /\ status = "running" /\ i.text = src[i.batch] /\ i.seen = run.seen
           /\ i.recover = run.recover /\ i.context = run.context /\ i.batch < run.next
      /\ IsJournals(i.seen) /\ i.recover \in BOOLEAN
  BY <1>0, DueFacts
<1>2. PICK k, j : /\ i.asked /\ IsRecord(k) /\ k.batch = i.batch /\ k.text = i.text
                  /\ Follows(j, i) /\ j.chain = Append(i.chain, k) /\ ~j.asked
                  /\ items' = (items \ {i}) \cup {j}
                  /\ journal' = [journal EXCEPT ![StageOf(i)] = Append(@, k)]
                  /\ late' = (late \/ i.text # src[i.batch])
                  /\ UNCHANGED <<size, quality, src, fingerprint, status, run, out>>
  BY <1>0, AnswerIs
<1>3. k.text = src[i.batch] /\ i.text = src[i.batch]
  BY <1>2
<1>4. PICK z \in Stages : z = StageOf(i)
  BY <1>1
<1>5. ASSUME NEW b, NEW t, k.batch = b => k.text = t
      PROVE  /\ \A s \in Stages : /\ LastIs(journal[s], b, t) => LastIs(journal'[s], b, t)
                                  /\ Top(journal[s], b, t) => Top(journal'[s], b, t)
             /\ k.batch = b => LastIs(journal'[z], b, t)
             /\ Trusty(journal, b, t) => Trusty(journal', b, t)
             /\ \A s \in Stages : s # z => journal'[s] = journal[s]
             /\ Of(journal'[z], b) = IF k.batch = b THEN Of(journal[z], b) \cup {k} ELSE Of(journal[z], b)
  <2>1. IsJournals(journal) /\ journal' = [journal EXCEPT ![z] = Append(@, k)]
    BY <1>0, <1>2, <1>4 DEF Types
  <2>2. IsRecord(k) /\ z \in Stages
    BY <1>2
  <2>3. Extended(journal, journal', z, k, b, t)
    BY <1>5, <2>1, <2>2, AppendTrusty
  <2> QED
    BY <2>3 DEF Extended
<1>6. Batches' = Batches
  BY <1>2 DEF Batches
<1>7. \A b \in Batches : k.batch = b => k.text = src[b]
  BY <1>2, <1>3
<1>8. 3 \in Stages /\ 4 \in Stages
  BY DEF Stages
<1>9. /\ \A l \in Ours : \E m \in Ours' : m.batch = l.batch /\ (m = l \/ (l = i /\ m = j))
      /\ j.batch = i.batch
  BY <1>2 DEF Ours, Follows
<1>10. Tops'
  BY <1>2, <1>5, <1>6, <1>7 DEF AllFresh, Tops
<1>11. RestTrusted'
  <2> SUFFICES ASSUME status # "running", fingerprint # None, NEW b \in Batches
               PROVE  Trusty(journal', b, fingerprint[b])
    BY <1>2, <1>6 DEF RestTrusted
  <2>1. k.batch = b => k.text = fingerprint[b]
    BY <1>1, <1>2, <1>3 DEF ItemFresh
  <2>2. Trusty(journal, b, fingerprint[b])
    BY DEF AllFresh, RestTrusted
  <2> QED
    BY <1>5, <2>1, <2>2
<1>12. RunTrusted'
  <2> SUFFICES ASSUME status = "running", run.recover, NEW b \in Batches
               PROVE  /\ Trusty(journal', b, src[b])
                      /\ Trusty(run.seen, b, src[b]) /\ Settled(run.seen, b, src[b])
                      /\ Of(run.seen[3], b) = {} => LastIs(journal'[4], b, src[b])
    BY <1>2, <1>6 DEF RunTrusted
  <2> QED
    BY <1>5, <1>7, <1>8 DEF AllFresh, RunTrusted
<1>13. DoneTrusted'
  <2>1. \A b : b \in Batches /\ Through(b)' => Through(b)
    BY <1>2, <1>9 DEF Through
  <2>2. \A b \in Batches : Trusty(journal, b, src[b]) => Trusty(journal', b, src[b])
    BY <1>5, <1>7
  <2> QED
    BY <1>2, <1>6, <2>1, <2>2 DEF AllFresh, DoneTrusted
<1>14. OutFresh'
  BY <1>2, <1>6 DEF AllFresh, OutFresh
<1>15. i.recover /\ StageOf(i) \in 1..3 => Of(i.seen[StageOf(i)], i.batch) = {}
  BY <1>1, <1>2 DEF ItemFresh
<1>16. AuditsSettled'
  <2> SUFFICES ASSUME NEW b \in Batches, ~Repairing(b)' PROVE Settled(journal', b, src[b])
    BY <1>2, <1>6 DEF AuditsSettled
  <2>1. /\ LastIs(journal[4], b, src[b]) => LastIs(journal'[4], b, src[b])
        /\ k.batch = b => LastIs(journal'[z], b, src[b])
        /\ \A s \in Stages : s # z => journal'[s] = journal[s]
        /\ Of(journal'[z], b) = IF k.batch = b THEN Of(journal[z], b) \cup {k} ELSE Of(journal[z], b)
    BY <1>5, <1>7, <1>8
  <2>2. ASSUME Repairing(b)
        PROVE  LastIs(journal'[4], b, src[b])
    <3>1. PICK l \in Ours : l.batch = b /\ Len(l.chain) = 3 /\ l.chain[3].repair
      BY <2>2 DEF Repairing
    <3>2. l = i
      <4>1. PICK m \in Ours' : m.batch = l.batch /\ (m = l \/ (l = i /\ m = j))
        BY <1>9
      <4>2. m # l
        BY <1>2, <2>2, <3>1 DEF Repairing
      <4> QED
        BY <4>1, <4>2
    <3>3. z = 4
      BY <1>1, <1>4, <3>1, <3>2
    <3> QED
      BY <1>2, <2>1, <3>1, <3>2, <3>3
  <2>3. ASSUME Settled(journal, b, src[b])
        PROVE  Settled(journal', b, src[b])
    <3>1. CASE LastIs(journal[4], b, src[b])
      BY <2>1, <3>1 DEF Settled
    <3>2. CASE NoRepair(journal[3], b, src[b]) /\ (z # 3 \/ ~k.repair \/ k.batch # b)
      <4>1. CASE z # 3
        BY <1>8, <2>1, <3>2, <4>1 DEF Settled
      <4>2. CASE z = 3
        BY <2>1, <3>2, <4>2 DEF Settled, NoRepair
      <4> QED
        BY <4>1, <4>2
    <3>3. CASE z = 3 /\ k.repair /\ k.batch = b
      <4>1. CASE i.recover
        <5>1. Of(i.seen[3], i.batch) = {}
          BY <1>4, <1>15, <3>3, <4>1
        <5>2. LastIs(journal[4], b, src[b])
          BY <1>1, <1>2, <1>3, <3>3, <4>1, <5>1 DEF ItemFresh
        <5> QED
          BY <2>1, <5>2 DEF Settled
      <4>2. CASE ~i.recover
        <5>1. i.run = run.id /\ ~run.recover /\ status = "running"
          BY <1>1, <4>2 DEF ItemFresh
        <5>2. j \in Ours' /\ j.batch = b
          BY <1>2, <3>3, <5>1 DEF Ours, Follows
        <5>3. j.chain[3] = k /\ Len(j.chain) = 3
          <6>1. j.chain[StageOf(i)] = k /\ Len(j.chain) = StageOf(i)
            BY <1>1, <1>2, ChainOn
          <6> QED
            BY <1>4, <3>3, <6>1
        <5>4. Repairing(b)'
          BY <1>2, <3>3, <5>1, <5>2, <5>3 DEF Repairing
        <5> QED
          BY <5>4
      <4> QED
        BY <4>1, <4>2
    <3>4. LastIs(journal[4], b, src[b]) \/ NoRepair(journal[3], b, src[b])
      BY <2>3 DEF Settled
    <3>5. (z # 3 \/ ~k.repair \/ k.batch # b) \/ (z = 3 /\ k.repair /\ k.batch = b)
      OBVIOUS
    <3> QED
      BY <3>1, <3>2, <3>3, <3>4, <3>5
  <2> QED
    BY <2>2, <2>3 DEF AllFresh, AuditsSettled, Settled
<1>17. ASSUME NEW l, ItemFresh(l) PROVE ItemFresh(l)'
  <2>1. LastIs(journal[4], l.batch, l.text) /\ l.text = src[l.batch] => LastIs(journal'[4], l.batch, l.text)
    <3>1. ASSUME l.text = src[l.batch] PROVE k.batch = l.batch => k.text = l.text
      BY <1>2, <1>3, <3>1
    <3> QED
      BY <1>5, <1>8, <3>1
  <2> QED
    BY <1>2, <1>17, <2>1 DEF ItemFresh, StageOf
<1>18. ItemFresh(j)
  <2>1. /\ IsItem(j) /\ j.run = i.run /\ j.batch = i.batch /\ j.text = i.text
        /\ j.recover = i.recover /\ j.context = i.context /\ j.seen = i.seen
    BY <1>2 DEF Follows
  <2>2. ASSUME j.run = run.id, NEW n \in DOMAIN j.chain
        PROVE  j.chain[n].text = j.text /\ j.chain[n].batch = j.batch
    <3>1. (n \in DOMAIN i.chain /\ j.chain[n] = i.chain[n]) \/ j.chain[n] = k
      BY <1>1, <1>2, ChainOn
    <3> QED
      BY <1>1, <1>2, <2>1, <2>2, <3>1 DEF ItemFresh
  <2>3. ASSUME j.run = run.id, j.recover, Len(j.chain) >= 3, j.chain[3].repair
        PROVE  LastIs(j.seen[4], j.batch, j.text)
    <3>1. \/ Len(i.chain) >= 3 /\ j.chain[3] = i.chain[3]
          \/ StageOf(i) = 3 /\ j.chain[3] = k
      BY <1>1, <1>2, <2>3, ThirdOn
    <3>2. CASE Len(i.chain) >= 3 /\ j.chain[3] = i.chain[3]
      BY <1>1, <2>1, <2>3, <3>2 DEF ItemFresh
    <3>3. CASE StageOf(i) = 3
      <4>1. Of(i.seen[3], i.batch) = {}
        BY <1>15, <2>1, <2>3, <3>3
      <4> QED
        BY <1>1, <2>1, <2>3, <4>1 DEF ItemFresh, Trusty
    <3> QED
      BY <3>1, <3>2, <3>3
  <2> QED
    BY <1>1, <1>2, <2>1, <2>2, <2>3 DEF ItemFresh
<1>19. ItemsFresh'
  <2>1. \A l \in items' : ItemFresh(l)
    BY <1>2, <1>18 DEF AllFresh, ItemsFresh
  <2> QED
    BY <1>17, <2>1 DEF ItemsFresh
<1> QED
  BY <1>10, <1>11, <1>12, <1>13, <1>14, <1>16, <1>19 DEF AllFresh

\* A stray is gone.
LEMMA StrayFresh ==
    ASSUME Frame, AllFresh, NEW i \in items, i.run # run.id, items' = items \ {i},
           UNCHANGED <<size, src, fingerprint, status, journal, run, out>>
    PROVE  AllFresh'
<1>1. Batches' = Batches /\ Ours' = Ours
  BY DEF Batches, Ours
<1>2. Tops' /\ RestTrusted' /\ RunTrusted' /\ OutFresh'
  BY <1>1 DEF AllFresh, Tops, RestTrusted, RunTrusted, OutFresh
<1>3. DoneTrusted'
  BY <1>1 DEF AllFresh, DoneTrusted, Through
<1>4. AuditsSettled'
  BY <1>1 DEF AllFresh, AuditsSettled, Repairing
<1>5. ItemsFresh'
  BY ItemFreshSame DEF AllFresh, ItemsFresh
<1> QED
  BY <1>2, <1>3, <1>4, <1>5 DEF AllFresh

\* The run is through with a batch.
LEMMA DoneFresh ==
    ASSUME Frame, AllFresh, NEW i \in items, i.run = run.id, items' = items \ {i},
           out' = [out EXCEPT ![i.batch] = i.chain],
           UNCHANGED <<size, src, fingerprint, status, journal, run>>,
           Trusty(journal, i.batch, src[i.batch]), i.chain # <<>>,
           ~(Len(i.chain) = 3 /\ i.chain[3].repair /\ ~run.recover)
    PROVE  AllFresh'
<1>0. IsItem(i) /\ Types /\ ItemFresh(i) /\ i.text = src[i.batch]
  BY DEF Frame, Types, ItemsTyped, Order, RunsApart, AllFresh, ItemsFresh
<1>1. Batches' = Batches /\ Batches \subseteq 1..MaxSize
  BY <1>0, BatchIs DEF Batches
<1>2. Tops' /\ RestTrusted' /\ RunTrusted'
  BY <1>1 DEF AllFresh, Tops, RestTrusted, RunTrusted
<1>3. \A b \in Batches : out'[b] = IF b = i.batch THEN i.chain ELSE out[b]
  BY <1>0, <1>1, OutSet
<1>4. OutFresh'
  <2>1. \A n \in DOMAIN i.chain : i.chain[n].text = src[i.batch]
    BY <1>0 DEF ItemFresh
  <2> QED
    BY <1>1, <1>3, <2>1 DEF AllFresh, OutFresh
<1>5. DoneTrusted'
  <2> SUFFICES ASSUME status = "running", NEW b \in Batches, Through(b)'
               PROVE  Trusty(journal, b, src[b]) /\ out'[b] # <<>>
    BY <1>1 DEF DoneTrusted
  <2>1. CASE b = i.batch
    BY <1>3, <2>1
  <2>2. CASE b # i.batch
    <3>1. Through(b)
      BY <2>2 DEF Through, Ours
    <3> QED
      BY <1>3, <2>2, <3>1 DEF AllFresh, DoneTrusted
  <2> QED
    BY <2>1, <2>2
<1>6. AuditsSettled'
  <2>1. \A b \in Batches : Repairing(b) => Repairing(b)'
    BY DEF Repairing, Ours
  <2> QED
    BY <1>1, <2>1 DEF AllFresh, AuditsSettled
<1>7. ItemsFresh'
  BY ItemFreshSame DEF AllFresh, ItemsFresh
<1> QED
  BY <1>2, <1>4, <1>5, <1>6, <1>7 DEF AllFresh

\* The run ends.
LEMMA EndFresh ==
    ASSUME Frame, AllFresh, status = "running", run' = NoRun, items' \subseteq items,
           UNCHANGED <<size, src, fingerprint, journal>>, status' \in {"paused", "failed", "completed"},
           \A b \in Batches : Trusty(journal, b, src[b]) /\ ~Repairing(b),
           \A i \in items' : i.recover,
           status' = "completed" => out' = out /\ \A b \in Batches : out[b] # <<>>
    PROVE  AllFresh'
<1>1. Batches' = Batches /\ fingerprint = src
  BY DEF Batches, Frame, Order, SourceKnown
<1>2. Tops'
  BY <1>1 DEF AllFresh, Tops
<1>3. AuditsSettled'
  BY <1>1 DEF AllFresh, AuditsSettled
<1>4. RestTrusted' /\ RunTrusted' /\ DoneTrusted'
  BY <1>1 DEF RestTrusted, RunTrusted, DoneTrusted
<1>5. OutFresh'
  BY <1>1 DEF AllFresh, OutFresh
<1>6. ItemsFresh'
  <2> SUFFICES ASSUME NEW i \in items' PROVE ItemFresh(i)'
    BY DEF ItemsFresh
  <2>1. ItemFresh(i) /\ i.recover /\ i.run # run'.id
    BY EmptyIs DEF AllFresh, ItemsFresh, Frame, Order, RunsApart
  <2> QED
    BY <2>1 DEF ItemFresh, StageOf
<1> QED
  BY <1>2, <1>3, <1>4, <1>5, <1>6 DEF AllFresh

\* A run that may recover leaves journals that can be trusted whenever it is cut off.
LEMMA CutOffFresh ==
    ASSUME Frame, AllFresh, status = "running", run.recover, run' = NoRun, items' \subseteq items,
           UNCHANGED <<size, src, fingerprint, journal>>, status' \in {"paused", "failed"}
    PROVE  AllFresh'
<1>1. \A b \in Batches : Trusty(journal, b, src[b]) /\ ~Repairing(b)
  BY DEF AllFresh, RunTrusted, Repairing
<1>2. \A i \in items : i.recover
  <2> TAKE i \in items
  <2>1. ItemFresh(i) /\ (i.run = run.id => i.recover = run.recover /\ i.context = run.context)
    BY DEF AllFresh, ItemsFresh, Frame, Order, RunsApart
  <2> QED
    BY <2>1 DEF ItemFresh
<1> QED
  BY <1>1, <1>2, EndFresh

\* A batch that is done, and not cut off, has written all it is made of.
LEMMA WholeTrusty ==
    ASSUME Frame, AllWritten, AllFresh, NoAudits, NEW i \in items, i.run = run.id, ~Due(i)
    PROVE  /\ Trusty(journal, i.batch, src[i.batch]) /\ i.chain # <<>>
           /\ ~(Len(i.chain) = 3 /\ i.chain[3].repair)
<1>1. /\ IsItem(i) /\ ItemFresh(i) /\ Types /\ i.text = src[i.batch] /\ i.batch \in Batches
  <2>1. IsItem(i) /\ ItemFresh(i) /\ Types /\ i.text = src[i.batch]
    BY DEF Frame, Types, ItemsTyped, Order, RunsApart, AllFresh, ItemsFresh
  <2>2. i.batch \in 1..MaxSize /\ i.batch <= size /\ MaxSize \in Nat /\ size \in Nat
    BY <2>1, ConstantsAssumption DEF IsItem, Frame, Order, RunsApart, Types, JobTyped, ConstantsAssumption
  <2> QED
    BY <2>1, <2>2 DEF Batches
<1>2. PICK l \in Nat : l = Len(i.chain) /\ l <= 4 /\ DOMAIN i.chain = 1..l /\ StageOf(i) = l + 1
  BY <1>1, ChainIs DEF IsItem, StageOf
<1>3. ~(l + 1 <= 2) /\ ~(l + 1 = 3 /\ quality = "high") /\ ~(l + 1 = 4 /\ i.chain[3].repair)
  BY <1>2 DEF Due
<1>4. \A n \in 1..l : n \in Stages /\ LastIs(journal[n], i.batch, src[i.batch]) /\ Of(journal[n], i.batch) # {}
  <2> TAKE n \in 1..l
  <2>1. n \in Stages
    BY <1>2 DEF Stages
  <2>2. i.chain[n] \in ToSet(journal[n]) /\ i.chain[n].text = src[i.batch] /\ i.chain[n].batch = i.batch
    BY <1>1, <1>2 DEF AllWritten, ChainsWritten, Written, ItemFresh
  <2>3. i.chain[n] \in Of(journal[n], i.batch)
    BY <2>2 DEF Of
  <2>4. Top(journal[n], i.batch, src[i.batch])
    BY <1>1, <2>1 DEF AllFresh, Tops
  <2> QED
    BY <2>1, <2>2, <2>3, <2>4 DEF Top
<1>5. Trusty(journal, i.batch, src[i.batch])
  <2>1. CASE l = 2
    <3>1. ToSet(journal[3]) = {} /\ ToSet(journal[4]) = {}
      BY <1>1, <1>3, <2>1 DEF NoAudits, Types, JobTyped, Qualities
    <3>2. IsSeq(journal[3]) /\ IsSeq(journal[4])
      BY <1>1 DEF Types, IsJournals, Stages
    <3>3. Of(journal[3], i.batch) = {} /\ Of(journal[4], i.batch) = {}
      BY <3>1 DEF Of
    <3>4. LastIs(journal[3], i.batch, src[i.batch]) /\ LastIs(journal[4], i.batch, src[i.batch])
      BY <3>2, <3>3, OfNone
    <3>5. \A n \in 1..3 : n \in 1..l \/ n = 3
      BY <2>1
    <3> QED
      BY <1>4, <3>4, <3>5 DEF Trusty
  <2>2. CASE l # 2
    <3>1. l \in Nat /\ ~(l + 1 <= 2)
      BY <1>3
    <3>2. 1..3 \subseteq 1..l /\ 3 \in 1..l
      BY <2>2, <3>1
    <3> QED
      BY <1>4, <3>2 DEF Trusty
  <2> QED
    BY <2>1, <2>2
<1>6. i.chain # <<>>
  BY <1>2, <1>3, NoRecords
<1>7. ASSUME Len(i.chain) = 3 PROVE ~i.chain[3].repair
  <2>1. l + 1 = 4
    BY <1>2, <1>7
  <2> QED
    BY <1>3, <2>1
<1> QED
  BY <1>5, <1>6, <1>7

LEMMA LeavingFresh ==
    ASSUME Frame, AllWritten, AllFresh, NoAudits, NEW i \in items,
           RepairFails(i) \/ BatchDone(i) \/ Fails(i), ~mixed'
    PROVE  AllFresh'
<1>0. /\ Current(i) <=> i.run = run.id
      /\ IsItem(i) /\ (i.run = run.id => i.recover = run.recover /\ i.context = run.context) /\ (i.asked => Due(i)) /\ ItemFresh(i)
  BY EmptyIs DEF Current, Frame, Types, ItemsTyped, Order, RunsApart, AllFresh, ItemsFresh
<1>1. CASE i.run # run.id
  <2>1. items' = items \ {i} /\ UNCHANGED <<size, src, fingerprint, status, journal, run, out>>
    BY <1>0, <1>1 DEF RepairFails, BatchDone, Fails, job
  <2> QED
    BY <1>1, <2>1, StrayFresh
<1>2. CASE i.run = run.id /\ RepairFails(i)
  <2>1. /\ items' = items \ {i} /\ out' = [out EXCEPT ![i.batch] = i.chain] /\ run.recover
        /\ UNCHANGED <<size, src, fingerprint, status, journal, run>>
        /\ StageOf(i) = 4 /\ Due(i) /\ status = "running"
    BY <1>0, <1>2 DEF RepairFails, Current, job
  <2>2. i.batch \in Batches
    BY <2>1, DueFacts
  <2>3. Trusty(journal, i.batch, src[i.batch])
    BY <2>1, <2>2 DEF AllFresh, RunTrusted
  <2>4. i.chain # <<>>
    <3>1. Len(i.chain) \in Nat /\ Len(i.chain) + 1 = 4
      BY <1>0, <2>1, ChainIs DEF StageOf
    <3> QED
      BY <3>1, NoRecords
  <2> QED
    BY <1>2, <2>1, <2>3, <2>4, DoneFresh
<1>3. CASE i.run = run.id /\ BatchDone(i)
  <2>1. /\ items' = items \ {i} /\ out' = [out EXCEPT ![i.batch] = i.chain] /\ ~Due(i)
        /\ UNCHANGED <<size, src, fingerprint, status, journal, run>>
    BY <1>0, <1>3 DEF BatchDone, job
  <2>2. /\ Trusty(journal, i.batch, src[i.batch]) /\ i.chain # <<>>
        /\ ~(Len(i.chain) = 3 /\ i.chain[3].repair)
    BY <1>3, <2>1, WholeTrusty
  <2> QED
    BY <1>3, <2>1, <2>2, DoneFresh
<1>4. CASE i.run = run.id /\ Fails(i)
  <2>1. /\ status = "running" /\ run' = NoRun /\ items' \subseteq items /\ status' \in {"paused", "failed"}
        /\ UNCHANGED <<size, src, fingerprint, journal>> /\ run.recover
    BY <1>0, <1>4 DEF Fails, Current, Ends
  <2> QED
    BY <2>1, CutOffFresh
<1> QED
  BY <1>1, <1>2, <1>3, <1>4

LEMMA RunsFresh ==
    ASSUME Frame, AllFresh, Start \/ Pause \/ Crash \/ Claim \/ Stops \/ Complete, ~mixed'
    PROVE  AllFresh'
<1>0. /\ Types /\ runs \in Nat
      /\ \A i \in items : IsItem(i) /\ ItemFresh(i) /\ i.run # 0 /\ i.run \in Nat /\ i.run <= runs
      /\ \A b \in Batches : b \in Nat /\ 1 <= b
  <2>1. \A b \in Batches : b \in Nat /\ 1 <= b
    BY BatchIs DEF Frame, Batches
  <2> QED
    BY <2>1 DEF Frame, Types, JobTyped, ItemsTyped, IsItem, Order, RunsApart, AllFresh, ItemsFresh
<1>1. CASE Start
  <2>1. /\ run'.id = runs' /\ runs' = runs + 1 /\ run'.recover = SameSource /\ run'.seen = journal
        /\ run'.next = 1 /\ fingerprint' = src /\ out' = [b \in 1..MaxSize |-> <<>>]
        /\ status # "running" /\ status # "created" /\ status' = "running"
        /\ UNCHANGED <<size, src, journal, items>>
    BY <1>1 DEF Start, AtRest
  <2>2. fingerprint # None /\ Batches' = Batches /\ run = NoRun
    BY <2>1 DEF Frame, Order, SourceKnown, RunsApart, Batches
  <2>3. \A i \in items : i.run # run'.id /\ i.recover
    <3>1. \A i \in items : i.run # run'.id /\ i.run # run.id
      BY <1>0, <2>1, <2>2, EmptyIs
    <3> QED
      BY <1>0, <3>1 DEF ItemFresh
  <2>4. \A b \in Batches : /\ Trusty(journal, b, fingerprint[b])
                           /\ Settled(journal, b, src[b])
    BY <2>1, <2>2 DEF AllFresh, RestTrusted, AuditsSettled, Repairing
  <2>5. Tops' /\ AuditsSettled' /\ RestTrusted'
    BY <2>1, <2>2, <2>4 DEF AllFresh, Tops, AuditsSettled, RestTrusted
  <2>6. RunTrusted'
    <3> SUFFICES ASSUME run'.recover, NEW b \in Batches
                 PROVE  /\ Trusty(journal, b, src[b]) /\ Settled(journal, b, src[b])
                        /\ Of(journal[3], b) = {} => LastIs(journal[4], b, src[b])
      BY <2>1, <2>2 DEF RunTrusted
    <3>1. fingerprint = src
      BY <2>1, <2>2 DEF SameSource
    <3> QED
      BY <2>4, <3>1 DEF Trusty
  <2>7. DoneTrusted'
    <3>1. \A b \in Batches : ~(b < run'.next)
      BY <1>0, <2>1
    <3> QED
      BY <2>2, <3>1 DEF DoneTrusted, Through
  <2>8. OutFresh'
    <3>1. Batches \subseteq 1..MaxSize
      BY <1>0, BatchIs
    <3>2. \A b \in Batches : out'[b] = <<>>
      BY <2>1, <3>1
    <3>3. \A b \in Batches : DOMAIN out'[b] = {}
      BY <3>2, NoRecords, SeqFacts
    <3> QED
      BY <2>1, <2>2, <3>3 DEF OutFresh
  <2>9. ItemsFresh'
    <3> SUFFICES ASSUME NEW i \in items PROVE ItemFresh(i)'
      BY <2>1 DEF ItemsFresh
    <3>1. /\ ItemFresh(i) /\ i.run # run'.id /\ i.recover
      BY <1>0, <2>3
    <3> QED
      BY <2>1, <3>1 DEF ItemFresh, StageOf
  <2> QED
    BY <2>5, <2>6, <2>7, <2>8, <2>9 DEF AllFresh
<1>2. CASE Pause
  <2>1. /\ status = "running" /\ items' = {Paused(i) : i \in items}
        /\ \A i \in items : Follows(Paused(i), i) /\ Paused(i).chain = i.chain /\ Paused(i).asked = i.asked
        /\ run'.next = run.next /\ run'.id = run.id /\ run'.seen = run.seen /\ run'.recover = run.recover /\ run'.context = run.context
        /\ UNCHANGED <<size, src, fingerprint, status, journal, out>>
    BY <1>0, <1>2, PauseIs
  <2>2. Batches' = Batches
    BY <2>1 DEF Batches
  <2>3. Tops' /\ RestTrusted' /\ RunTrusted' /\ OutFresh'
    BY <2>1, <2>2 DEF AllFresh, Tops, RestTrusted, RunTrusted, OutFresh
  <2>4. \A i \in Ours : \E k \in Ours' : k.batch = i.batch /\ k.chain = i.chain
    BY <2>1 DEF Ours, Follows
  <2>5. DoneTrusted'
    <3>1. \A b : b \in Batches /\ Through(b)' => Through(b)
      BY <2>1, <2>4 DEF Through
    <3> QED
      BY <2>1, <2>2, <3>1 DEF AllFresh, DoneTrusted
  <2>6. AuditsSettled'
    <3>1. \A b \in Batches : Repairing(b) => Repairing(b)'
      <4> SUFFICES ASSUME NEW b \in Batches, Repairing(b) PROVE Repairing(b)'
        OBVIOUS
      <4>1. PICK l \in Ours : l.batch = b /\ Len(l.chain) = 3 /\ l.chain[3].repair
        BY DEF Repairing
      <4>2. PICK k \in Ours' : k.batch = l.batch /\ k.chain = l.chain
        BY <2>4
      <4> QED
        BY <2>1, <4>1, <4>2 DEF Repairing
    <3> QED
      BY <2>1, <2>2, <3>1 DEF AllFresh, AuditsSettled
  <2>7. ItemsFresh'
    <3> SUFFICES ASSUME NEW i \in items, NEW j, j = Paused(i) PROVE ItemFresh(j)'
      BY <2>1 DEF ItemsFresh
    <3>1. /\ ItemFresh(i) /\ j.run = i.run /\ j.batch = i.batch /\ j.text = i.text
          /\ j.recover = i.recover /\ j.context = i.context /\ j.seen = i.seen /\ j.chain = i.chain /\ j.asked = i.asked
      BY <1>0, <2>1 DEF Follows
    <3>2. StageOf(j) = StageOf(i)
      BY <3>1 DEF StageOf
    <3>3. ItemFresh(j)
      BY <3>1, <3>2 DEF ItemFresh
    <3> QED
      BY <2>1, <3>3 DEF ItemFresh, StageOf
  <2> QED
    BY <2>3, <2>5, <2>6, <2>7 DEF AllFresh
<1>3. CASE Claim
  <2>1. /\ status = "running" /\ items' = items \cup {NewItem} /\ run.next \in Batches
        /\ run'.next = run.next + 1 /\ run'.id = run.id /\ run'.seen = run.seen /\ run'.recover = run.recover /\ run'.context = run.context
        /\ UNCHANGED <<size, src, fingerprint, status, journal, out>>
    BY <1>0, <1>3, ClaimIs
  <2>2. /\ NewItem.run = run.id /\ NewItem.batch = run.next /\ NewItem.text = src[run.next]
        /\ NewItem.recover = run.recover /\ NewItem.context = run.context /\ NewItem.seen = run.seen /\ NewItem.chain = <<>>
        /\ NewItem.asked = FALSE
    BY DEF NewItem
  <2> HIDE DEF NewItem
  <2>3. Batches' = Batches /\ fingerprint = src
    BY <2>1 DEF Batches, Frame, Order, SourceKnown
  <2>4. Tops' /\ RestTrusted' /\ RunTrusted' /\ OutFresh'
    BY <2>1, <2>3 DEF AllFresh, Tops, RestTrusted, RunTrusted, OutFresh
  <2>5. Ours \subseteq Ours' /\ NewItem \in Ours'
    BY <2>1, <2>2 DEF Ours
  <2>6. DoneTrusted'
    <3>1. ASSUME NEW b \in Batches, Through(b)' PROVE Through(b)
      <4>1. b # run.next /\ b < run.next + 1
        BY <2>1, <2>2, <2>5, <3>1 DEF Through
      <4>2. b < run.next
        BY <1>0, <2>1, <4>1
      <4> QED
        BY <2>5, <3>1, <4>2 DEF Through
    <3> QED
      BY <2>1, <2>3, <3>1 DEF AllFresh, DoneTrusted
  <2>7. AuditsSettled'
    <3>1. \A b \in Batches : Repairing(b) => Repairing(b)'
      BY <2>1, <2>5 DEF Repairing
    <3> QED
      BY <2>1, <2>3, <3>1 DEF AllFresh, AuditsSettled
  <2>8. ItemFresh(NewItem)
    <3>1. DOMAIN <<>> = {} /\ ~(Len(<<>>) >= 3)
      BY NoRecords, SeqFacts
    <3>2. run.recover => /\ Trusty(run.seen, run.next, src[run.next]) /\ Settled(run.seen, run.next, src[run.next])
                         /\ Of(run.seen[3], run.next) = {} => LastIs(journal[4], run.next, src[run.next])
      BY <2>1 DEF AllFresh, RunTrusted
    <3> QED
      BY <2>2, <2>3, <3>1, <3>2 DEF ItemFresh
  <2>9. ItemsFresh'
    <3>1. \A i \in items' : ItemFresh(i)
      BY <1>0, <2>1, <2>8
    <3>2. \A i : ItemFresh(i) => ItemFresh(i)'
      BY <2>1 DEF ItemFresh, StageOf
    <3> QED
      BY <3>1, <3>2 DEF ItemsFresh
  <2> QED
    BY <2>4, <2>6, <2>7, <2>9 DEF AllFresh
<1>4. CASE Stops
  <2>1. /\ status = "running" /\ run' = NoRun /\ status' = "paused" /\ run.recover
        /\ UNCHANGED <<size, src, fingerprint, journal, items>>
    BY <1>4 DEF Stops, Ends
  <2> QED
    BY <2>1, CutOffFresh
<1>5. CASE Complete
  <2>1. /\ status = "running" /\ run' = NoRun /\ status' = "completed" /\ Ours = {} /\ run.next > size
        /\ UNCHANGED <<size, src, fingerprint, journal, items, out>>
    BY <1>5 DEF Complete
  <2>2. \A b \in Batches : Through(b)
    <3>1. \A b \in Batches : b < run.next
      <4>1. run.next \in Nat /\ size \in Nat /\ \A b \in Batches : b \in Nat /\ b <= size
        BY <1>0, BatchIs DEF Types, JobTyped, IsRun
      <4> QED
        BY <2>1, <4>1
    <3> QED
      BY <2>1, <3>1 DEF Through
  <2>3. \A b \in Batches : Trusty(journal, b, src[b]) /\ out[b] # <<>> /\ ~Repairing(b)
    BY <2>1, <2>2 DEF AllFresh, DoneTrusted, Repairing
  <2>4. \A i \in items : i.recover
    BY <1>0, <2>1 DEF ItemFresh, Ours
  <2> QED
    BY <2>1, <2>3, <2>4, EndFresh
<1>6. CASE Crash
  <2>0. items' = {} /\ UNCHANGED <<size, src, fingerprint, journal>>
    BY <1>6 DEF Crash
  <2>1. CASE status = "running"
    <3>1. run' = NoRun /\ status' = "paused" /\ run.recover
      BY <1>6, <2>1 DEF Crash, Ends
    <3> QED
      BY <2>0, <2>1, <3>1, CutOffFresh
  <2>2. CASE status # "running"
    <3>1. UNCHANGED <<status, run, out>> /\ Batches' = Batches
      BY <1>6, <2>0, <2>2 DEF Crash, Batches
    <3>2. Tops' /\ RestTrusted' /\ OutFresh'
      BY <2>0, <3>1 DEF AllFresh, Tops, RestTrusted, OutFresh
    <3>3. RunTrusted' /\ DoneTrusted' /\ ItemsFresh'
      BY <2>0, <2>2, <3>1 DEF RunTrusted, DoneTrusted, ItemsFresh
    <3>4. AuditsSettled'
      BY <2>0, <2>2, <3>1 DEF AllFresh, AuditsSettled, Repairing
    <3> QED
      BY <3>2, <3>3, <3>4 DEF AllFresh
  <2> QED
    BY <2>1, <2>2
<1> QED
  BY <1>1, <1>2, <1>3, <1>4, <1>5, <1>6

\* What a new source leaves of the journals, and of the batches in flight.
LEMMA SourceFresh ==
    ASSUME Frame, AllFresh, status # "running", status' = "created",
           src' \in [1..MaxSize -> Texts], UNCHANGED <<size, fingerprint, run, items>>,
           UNCHANGED journal \/ Filter(1, 1..MaxSize),
           ~GoesBack
    PROVE  AllFresh'
<1>0. /\ Types /\ run = NoRun /\ Batches' = Batches /\ Batches \subseteq 1..MaxSize
      /\ \A i \in items : i.run # run.id /\ i.batch \in Batches
  <2>1. Types /\ run = NoRun /\ Batches' = Batches /\ Batches \subseteq 1..MaxSize
    BY BatchIs DEF Frame, Order, RunsApart, Batches
  <2>2. ASSUME NEW i \in items PROVE i.run # run.id /\ i.batch \in Batches
    <3>1. i.run # 0 /\ i.batch <= size /\ i.batch \in 1..MaxSize /\ MaxSize \in Nat /\ size \in Nat
      BY <2>1, ConstantsAssumption DEF Types, ItemsTyped, IsItem, JobTyped, Frame, Order, RunsApart, ConstantsAssumption
    <3> QED
      BY <2>1, <3>1, EmptyIs DEF Batches
  <2> QED
    BY <2>1, <2>2
<1>1. \A s \in Stages : IsSeq(journal'[s]) /\ IsSeq(journal[s])
  BY <1>0, JournalsFiltered DEF Types, IsJournals
<1>2. ASSUME NEW b \in Batches, NEW s \in Stages
      PROVE  Of(journal'[s], b) = {} \/ journal'[s] = journal[s]
  <2>1. CASE Filter(1, 1..MaxSize)
    <3>1. 1 \in 1..3 /\ s >= 1 /\ b \in 1..MaxSize
      BY <1>0 DEF Stages
    <3>2. s >= 1 /\ b \in 1..MaxSize => Of(journal'[s], b) = {}
      BY <1>0, <2>1, <3>1, FilterTrusty
    <3> QED
      BY <3>1, <3>2
  <2>2. CASE UNCHANGED journal
    BY <2>2
  <2> QED
    BY <2>1, <2>2
<1>3. ASSUME NEW b \in Batches, src'[b] # src[b], NEW s \in Stages
      PROVE  \A k \in Of(journal'[s], b) : k.text # src'[b]
  BY <1>3 DEF GoesBack, Of
<1>4. Tops'
  <2> SUFFICES ASSUME NEW b \in Batches, NEW s \in Stages PROVE Top(journal'[s], b, src'[b])
    BY <1>0 DEF Tops
  <2>1. CASE src'[b] # src[b]
    BY <1>3, <2>1 DEF Top
  <2>2. CASE src'[b] = src[b]
    BY <1>1, <1>2, <2>2, OfNone DEF AllFresh, Tops
  <2> QED
    BY <2>1, <2>2
<1>5. 1..3 \subseteq Stages /\ 3 \in Stages /\ 4 \in Stages
  BY DEF Stages
<1>6. \A b : IF UNCHANGED journal THEN TRUE ELSE b \in Batches => \A s \in Stages : Of(journal'[s], b) = {}
  <2> SUFFICES ASSUME Filter(1, 1..MaxSize), NEW b \in Batches, NEW s \in Stages
               PROVE  Of(journal'[s], b) = {}
    OBVIOUS
  <2>1. 1 \in 1..3 /\ s >= 1 /\ b \in 1..MaxSize
    BY <1>0 DEF Stages
  <2>2. s >= 1 /\ b \in 1..MaxSize => Of(journal'[s], b) = {}
    BY <1>0, <2>1, FilterTrusty
  <2> QED
    BY <2>1, <2>2
<1>7. IsJournals(journal')
  BY <1>0, JournalsFiltered DEF Types
<1>8. AuditsSettled'
  <2> SUFFICES ASSUME NEW b \in Batches PROVE Settled(journal', b, src'[b])
    BY <1>0 DEF AuditsSettled
  <2>1. CASE src'[b] # src[b]
    BY <1>3, <1>5, <2>1 DEF Settled, NoRepair
  <2>2. CASE src'[b] = src[b] /\ UNCHANGED journal
    BY <2>2 DEF AllFresh, AuditsSettled, Repairing
  <2>3. CASE ~UNCHANGED journal
    BY <1>6, <1>7, <2>3, NoneTrusty
  <2> QED
    BY <2>1, <2>2, <2>3
<1>9. RestTrusted'
  <2> SUFFICES ASSUME fingerprint # None, NEW b \in Batches PROVE Trusty(journal', b, fingerprint[b])
    BY <1>0 DEF RestTrusted
  <2>1. CASE UNCHANGED journal
    BY <2>1 DEF AllFresh, RestTrusted
  <2>2. CASE ~UNCHANGED journal
    BY <1>6, <1>7, <2>2, NoneTrusty
  <2> QED
    BY <2>1, <2>2
<1>10. RunTrusted' /\ DoneTrusted' /\ OutFresh'
  BY DEF RunTrusted, DoneTrusted, OutFresh
<1>11. ItemsFresh'
  <2> SUFFICES ASSUME NEW i \in items PROVE ItemFresh(i)'
    BY DEF ItemsFresh
  <2>1. ItemFresh(i) /\ i.run # run.id /\ i.batch \in Batches
    BY <1>0 DEF AllFresh, ItemsFresh
  <2>2. i.text = src'[i.batch] => i.text = src[i.batch]
    BY <2>1 DEF GoesBack
  <2>3. LastIs(journal[4], i.batch, i.text) => LastIs(journal'[4], i.batch, i.text)
    BY <1>1, <1>2, <1>5, <2>1, OfNone
  <2> QED
    BY <2>1, <2>2, <2>3 DEF ItemFresh, StageOf
<1> QED
  BY <1>4, <1>8, <1>9, <1>10, <1>11 DEF AllFresh

LEMMA RestFresh ==
    ASSUME Frame, AllFresh, Upload \/ Refresh \/ Invalidate \/ Analyze, ~returned'
    PROVE  AllFresh'
<1>1. CASE Upload \/ Refresh
  BY <1>1, SourceFresh DEF Upload, Refresh, AtRest, work
<1>2. CASE Invalidate
  <2>1. PICK from \in 1..3, some \in SUBSET Batches : Filter(from, some)
    BY <1>2 DEF Invalidate
  <2>2. /\ status # "running" /\ status' \in {"created", "ready"}
        /\ UNCHANGED <<size, src, fingerprint, run, items>>
    BY <1>2 DEF Invalidate, AtRest, work
  <2>3. Types /\ run = NoRun /\ Batches' = Batches /\ 3 \in Stages /\ 4 \in Stages
    BY <2>2 DEF Frame, Order, RunsApart, Batches, Stages
  <2>4. \A b, t : /\ \A s \in Stages : /\ LastIs(journal[s], b, t) => LastIs(journal'[s], b, t)
                                       /\ Top(journal[s], b, t) => Top(journal'[s], b, t)
                  /\ Trusty(journal, b, t) => Trusty(journal', b, t)
                  /\ Settled(journal, b, t) => Settled(journal', b, t)
    BY <2>1, <2>3, FilterTrusty
  <2>5. Tops' /\ AuditsSettled' /\ RestTrusted'
    BY <2>2, <2>3, <2>4 DEF AllFresh, Tops, AuditsSettled, Repairing, RestTrusted
  <2>6. RunTrusted' /\ DoneTrusted' /\ OutFresh'
    BY <2>2 DEF RunTrusted, DoneTrusted, OutFresh
  <2>7. ItemsFresh'
    <3> SUFFICES ASSUME NEW i \in items PROVE ItemFresh(i)'
      BY <2>2 DEF ItemsFresh
    <3>1. ItemFresh(i)
      BY DEF AllFresh, ItemsFresh
    <3>2. LastIs(journal[4], i.batch, i.text) => LastIs(journal'[4], i.batch, i.text)
      BY <2>3, <2>4
    <3> QED
      BY <2>2, <3>1, <3>2 DEF ItemFresh, StageOf
  <2> QED
    BY <2>5, <2>6, <2>7 DEF AllFresh
<1>3. CASE Analyze
  <2>1. /\ status # "running" /\ status' = "ready"
        /\ fingerprint' = IF fingerprint = None THEN src ELSE fingerprint
        /\ UNCHANGED <<size, src, journal, run, items, out>>
    BY <1>3 DEF Analyze, AnalyzedSource, AtRest, work
  <2>2. Batches' = Batches
    BY <2>1 DEF Batches
  <2>3. Tops' /\ AuditsSettled'
    BY <2>1, <2>2 DEF AllFresh, Tops, AuditsSettled, Repairing
  <2>4. RestTrusted'
    <3>1. CASE fingerprint = None
      <4>1. \A s \in Stages : ToSet(journal[s]) = {}
        BY <3>1 DEF Frame, Order, SourceKnown
      <4>2. \A s \in Stages : \A b : Of(journal[s], b) = {}
        BY <4>1 DEF Of
      <4>3. \A b, t : Trusty(journal, b, t)
        BY <4>2, NoneTrusty DEF Frame, Types
      <4> QED
        BY <2>1, <4>3 DEF RestTrusted
    <3>2. CASE fingerprint # None
      BY <2>1, <2>2, <3>2 DEF AllFresh, RestTrusted
    <3> QED
      BY <3>1, <3>2
  <2>5. RunTrusted' /\ DoneTrusted' /\ OutFresh'
    BY <2>1 DEF RunTrusted, DoneTrusted, OutFresh
  <2>6. ItemsFresh'
    <3>1. items # {} => fingerprint # None
      BY DEF Frame, Order, SourceKnown
    <3> QED
      BY <2>1, <3>1 DEF AllFresh, ItemsFresh, ItemFresh, StageOf
  <2> QED
    BY <2>3, <2>4, <2>5, <2>6 DEF AllFresh
<1> QED
  BY <1>1, <1>2, <1>3

\* Standard quality stays without audits.
LEMMA NoAuditsHold ==
    ASSUME Frame, NoAudits, [Next]_vars
    PROVE  NoAudits'
<1> SUFFICES ASSUME quality' = "standard"
             PROVE  /\ \A i \in items' : Len(i.chain) <= 2
                    /\ ToSet(journal'[3]) = {} /\ ToSet(journal'[4]) = {}
  BY DEF NoAudits
<1>0. Types /\ 3 \in Stages /\ 4 \in Stages
  BY DEF Frame, Stages
<1>1. quality = "standard"
  BY DEF Next, Running, Item, Upload, Refresh, Invalidate, Analyze, Start, Pause, Crash, Claim, Stops, Complete,
         Reuse, Ask, Answer, RepairFails, BatchDone, Fails, vars, job
<1>2. /\ \A i \in items : Len(i.chain) <= 2
      /\ ToSet(journal[3]) = {} /\ ToSet(journal[4]) = {}
  BY <1>1 DEF NoAudits
<1>3. ASSUME NEW i \in items, Due(i)
      PROVE  /\ StageOf(i) # 3 /\ StageOf(i) # 4 /\ StageOf(i) \in Stages
             /\ \A j, k : j.chain = Append(i.chain, k) => Len(j.chain) <= 2
  <2>1. IsItem(i)
    BY <1>0 DEF Types, ItemsTyped
  <2>2. PICK l \in Nat : l = Len(i.chain) /\ StageOf(i) = l + 1 /\ l <= 2
    BY <1>2, <2>1, ChainIs DEF StageOf
  <2>3. StageOf(i) <= 2 \/ StageOf(i) = 4
    BY <1>1, <1>3 DEF Due
  <2>4. l + 1 <= 2
    BY <2>2, <2>3
  <2>5. \A j, k : j.chain = Append(i.chain, k) => Len(j.chain) = l + 1
    BY <2>1, <2>2, ChainOn
  <2>6. StageOf(i) \in Stages
    BY <1>3, <2>1, StageIs
  <2> QED
    BY <2>2, <2>4, <2>5, <2>6
<1>4. CASE \E i \in items : Item(i)
  <2>1. PICK i \in items : Item(i)
    BY <1>4
  <2>2. CASE Reuse(i)
    <3>1. PICK k, j : /\ Due(i) /\ j.chain = Append(i.chain, k) /\ items' = (items \ {i}) \cup {j}
                      /\ UNCHANGED journal
      BY <1>0, <2>2, ReuseIs
    <3>2. Len(j.chain) <= 2
      BY <1>3, <3>1
    <3> QED
      BY <1>2, <3>1, <3>2
  <2>3. CASE Ask(i)
    <3>1. PICK j : j.chain = i.chain /\ items' = (items \ {i}) \cup {j} /\ UNCHANGED journal
      BY <1>0, <2>3, AskIs
    <3> QED
      BY <1>2, <3>1
  <2>4. CASE Answer(i)
    <3>0. Due(i)
      BY <2>4 DEF Answer, Frame, Order, RunsApart
    <3>1. PICK k, j : /\ j.chain = Append(i.chain, k) /\ items' = (items \ {i}) \cup {j}
                      /\ IsRecord(k) /\ journal' = [journal EXCEPT ![StageOf(i)] = Append(@, k)]
      BY <1>0, <2>4, <3>0, AnswerIs
    <3>2. Len(j.chain) <= 2 /\ StageOf(i) # 3 /\ StageOf(i) # 4 /\ StageOf(i) \in Stages
      BY <1>3, <3>0, <3>1
    <3>3. journal'[3] = journal[3] /\ journal'[4] = journal[4]
      BY <1>0, <3>1, <3>2
    <3> QED
      BY <1>2, <3>1, <3>2, <3>3
  <2>5. CASE RepairFails(i) \/ BatchDone(i) \/ Fails(i)
    <3>1. items' \subseteq items /\ UNCHANGED journal
      BY <2>5 DEF RepairFails, BatchDone, Fails
    <3> QED
      BY <1>2, <3>1
  <2> QED
    BY <2>1, <2>2, <2>3, <2>4, <2>5 DEF Item
<1>5. CASE Pause
  <2>1. /\ \A i \in items : Paused(i).chain = i.chain
        /\ items' = {Paused(i) : i \in items} /\ UNCHANGED journal
    BY <1>0, <1>5, PauseIs
  <2>2. \A k \in items' : \E i \in items : k.chain = i.chain
    BY <2>1
  <2> QED
    BY <1>2, <2>1, <2>2
<1>6. CASE Claim
  <2>1. items' = items \cup {NewItem} /\ UNCHANGED journal
    BY <1>0, <1>6, ClaimIs
  <2>2. NewItem.chain = <<>> /\ Len(<<>>) = 0
    BY NoRecords DEF NewItem
  <2> HIDE DEF NewItem
  <2>3. Len(NewItem.chain) <= 2
    BY <2>2
  <2> QED
    BY <1>2, <2>1, <2>3
<1>7. CASE Start \/ Crash \/ Stops \/ Complete \/ Analyze \/ Refresh \/ UNCHANGED vars
  <2>1. items' \subseteq items /\ UNCHANGED journal
    BY <1>7 DEF Start, Crash, Stops, Complete, Analyze, Refresh, vars, work
  <2> QED
    BY <1>2, <2>1
<1>8. CASE Upload \/ Invalidate
  <2>1. UNCHANGED items /\ (UNCHANGED journal \/ \E from, some : Filter(from, some))
    BY <1>8 DEF Upload, Invalidate, work
  <2>2. \A s \in Stages : ToSet(journal'[s]) \subseteq ToSet(journal[s])
    BY <1>0, <2>1, JournalsFiltered
  <2> QED
    BY <1>0, <1>2, <2>1, <2>2
<1> QED
  BY <1>4, <1>5, <1>6, <1>7, <1>8 DEF Next, Running

LEMMA FreshHolds ==
    ASSUME Frame, AllWritten, NoAudits, AllFresh, [Next]_vars, Clean'
    PROVE  AllFresh'
<1>1. CASE \E i \in items : Item(i)
  BY <1>1, ReuseFresh, AskFresh, AnswerFresh, LeavingFresh DEF Item, Clean
<1>2. CASE Start \/ Pause \/ Crash \/ Claim \/ Stops \/ Complete
  BY <1>2, RunsFresh DEF Clean
<1>3. CASE Upload \/ Refresh \/ Invalidate \/ Analyze
  BY <1>3, RestFresh DEF Clean
<1>4. CASE UNCHANGED vars
  <2>1. UNCHANGED <<size, src, fingerprint, status, journal, run, items, out>>
    BY <1>4 DEF vars, job, work
  <2>2. Batches' = Batches
    BY <2>1 DEF Batches
  <2>3. Tops' /\ RestTrusted' /\ RunTrusted' /\ OutFresh'
    BY <2>1, <2>2 DEF AllFresh, Tops, RestTrusted, RunTrusted, OutFresh
  <2>4. AuditsSettled' /\ DoneTrusted'
    BY <2>1, <2>2 DEF AllFresh, AuditsSettled, Repairing, DoneTrusted, Through, Ours
  <2>5. ItemsFresh'
    BY <2>1, ItemFreshSame DEF AllFresh, ItemsFresh
  <2> QED
    BY <2>3, <2>4, <2>5 DEF AllFresh
<1> QED
  BY <1>1, <1>2, <1>3, <1>4 DEF Next, Running

\* A completed book is whole, and none of its batches is the translation of an
\* older text, however often runs were paused, failed, crashed, continued with
\* other contexts or invalidated, and the source replaced between them: outside
\* what TrustedBookIsFresh excludes (sameSource in job-orchestrator.ts, and
\* compatibleCheckpoint in runQualityPipeline).
THEOREM TrustedBooksAreFresh == Spec => []TrustedBookIsFresh
<1> DEFINE FreshInv == Frame /\ AllWritten /\ NoAudits /\ (Clean => AllFresh)
<1>1. Init => FreshInv
  <2> SUFFICES ASSUME Init PROVE FreshInv
    OBVIOUS
  <2>1. Frame
    BY FrameBegins
  <2>2. AllWritten
    BY DEF Init, AllWritten, ChainsWritten, SeenWritten, OutWritten
  <2>3. journal = Empty /\ items = {} /\ status = "created" /\ fingerprint = None
    BY DEF Init
  <2>4. \A s \in Stages : ToSet(journal[s]) = {} /\ \A b : Of(journal[s], b) = {}
    BY <2>3, EmptyIs DEF Of
  <2>5. NoAudits
    BY <2>3, <2>4 DEF NoAudits, Stages
  <2>6. \A b, t : Settled(journal, b, t)
    BY <2>1, <2>4, NoneTrusty DEF Frame, Types
  <2>7. Tops
    BY <2>4 DEF Tops, Top
  <2>8. AllFresh
    BY <2>3, <2>6, <2>7 DEF AllFresh, AuditsSettled, RestTrusted, RunTrusted, DoneTrusted, OutFresh, ItemsFresh
  <2> QED
    BY <2>1, <2>2, <2>5, <2>8
<1>2. FreshInv /\ [Next]_vars => FreshInv'
  <2> SUFFICES ASSUME FreshInv, [Next]_vars PROVE FreshInv'
    OBVIOUS
  <2>1. Frame' /\ AllWritten' /\ NoAudits'
    BY FrameHolds, WrittenHolds, NoAuditsHold
  <2>2. Clean' => Clean
    <3>1. ASSUME NEW i \in items, Item(i) PROVE Clean' => Clean
      BY <3>1 DEF Item, Reuse, Ask, Answer, RepairFails, BatchDone, Fails, Ends, history, Clean
    <3>2. CASE Start \/ Pause \/ Crash \/ Claim \/ Stops \/ Complete
      BY <3>2 DEF Start, Pause, Crash, Claim, Stops, Complete, Ends, history, Clean
    <3>3. CASE Upload \/ Refresh \/ Invalidate \/ Analyze
      BY <3>3 DEF Upload, Refresh, Invalidate, Analyze, history, Clean
    <3>4. CASE UNCHANGED vars
      BY <3>4 DEF vars, history, Clean
    <3> QED
      BY <3>1, <3>2, <3>3, <3>4 DEF Next, Running
  <2> QED
    BY <2>1, <2>2, FreshHolds
<1>3. FreshInv => TrustedBookIsFresh
  BY DEF TrustedBookIsFresh, Fresh, Clean, AllFresh, OutFresh
<1> QED
  BY <1>1, <1>2, <1>3, PTL DEF Spec
===============================================================================
