----------------------------- MODULE Events_proofs -----------------------------
(* Theorems about Events, for any number of changes and faults.                  *)
EXTENDS Events, WellFoundedInduction, TLAPS

\* What was read was saved, by the page and by the requests that are under way.
Typed ==
    /\ version \in Nat
    /\ gets \subseteq [cur : BOOLEAN, read : Nat \cup {None}]
    /\ job \in Nat \cup {None}
Saved ==
    /\ job # None => job <= version
    /\ \A g \in gets : g.read # None => g.read <= version

\* At most one request counts, and what it read is no older than what is shown.
OneCounts == \A g, h \in gets : g.cur /\ h.cur => g = h
NoneIsOlder ==
    \A g \in gets : g.cur /\ g.read # None /\ job # None => g.read >= job

Inv == Typed /\ Saved /\ OneCounts /\ NoneIsOlder

\* The page asks first for a job it knows nothing of.
LEMMA InitHolds == Init => Inv
BY EventsAssumption
DEF EventsAssumption, Init, Inv, Typed, Saved, OneCounts, NoneIsOlder, Request

\* A new question: the ones before it count no more.
LEMMA AskHolds ==
    ASSUME Inv, Ask, UNCHANGED <<version, job>>
    PROVE  Inv'
<1> USE EventsAssumption DEF EventsAssumption
<1>1. \A g \in gets' :
        \/ g = Request(TRUE, None)
        \/ \E h \in gets : g = [h EXCEPT !.cur = FALSE]
  BY DEF Ask
<1>2. \A h \in gets : /\ [h EXCEPT !.cur = FALSE] \in [cur : BOOLEAN, read : Nat \cup {None}]
                      /\ [h EXCEPT !.cur = FALSE].cur = FALSE
                      /\ [h EXCEPT !.cur = FALSE].read = h.read
  BY DEF Inv, Typed
<1>3. /\ Request(TRUE, None) \in [cur : BOOLEAN, read : Nat \cup {None}]
      /\ Request(TRUE, None).read = None
  BY DEF Request
<1>4. Typed'
  BY <1>1, <1>2, <1>3 DEF Inv, Typed
<1>5. Saved'
  BY <1>1, <1>2, <1>3 DEF Inv, Saved
<1>6. OneCounts' /\ NoneIsOlder'
  <2>1. \A g \in gets' : g.cur => g = Request(TRUE, None)
    BY <1>1, <1>2
  <2> QED
    BY <2>1, <1>3 DEF OneCounts, NoneIsOlder
<1> QED
  BY <1>4, <1>5, <1>6 DEF Inv

\* A step that leaves what the page asked and shows, or drops a request.
LEMMA QuietHolds ==
    ASSUME Inv, gets' \subseteq gets, version' \in Nat, version' >= version, UNCHANGED job
    PROVE  Inv'
<1> USE EventsAssumption DEF EventsAssumption
<1>1. Typed'
  BY DEF Inv, Typed
<1>2. Saved'
  <2>1. job' # None => job' <= version'
    BY DEF Inv, Typed, Saved
  <2>2. \A g \in gets' : g.read \in Nat \cup {None} /\ (g.read # None => g.read <= version)
    BY DEF Inv, Typed, Saved
  <2>3. \A g \in gets' : g.read # None => g.read <= version'
    BY <2>2 DEF Inv, Typed
  <2> QED
    BY <2>1, <2>3 DEF Saved
<1>3. OneCounts' /\ NoneIsOlder'
  BY DEF Inv, OneCounts, NoneIsOlder
<1> QED
  BY <1>1, <1>2, <1>3 DEF Inv

\* The server answers with the job as it is, which is no older than what the page shows.
LEMMA ServeHolds ==
    ASSUME Inv, Serve
    PROVE  Inv'
<1> USE EventsAssumption DEF EventsAssumption
<1>1. PICK g \in gets : /\ g.read = None
                        /\ gets' = (gets \ {g}) \cup {[g EXCEPT !.read = version]}
  BY DEF Serve
<1> DEFINE a == [g EXCEPT !.read = version]
<1>2. /\ a \in [cur : BOOLEAN, read : Nat \cup {None}]
      /\ a.cur = g.cur /\ a.read = version
  BY DEF Inv, Typed
<1>3. UNCHANGED <<version, job>>
  BY DEF Serve, server
<1>4. gets' = (gets \ {g}) \cup {a}
  BY <1>1
<1> HIDE DEF a
<1>5. Typed'
  BY <1>2, <1>3, <1>4 DEF Inv, Typed
<1>6. Saved'
  BY <1>2, <1>3, <1>4 DEF Inv, Typed, Saved
<1>7. OneCounts'
  <2>1. \A h \in gets \ {g} : ~(h.cur /\ a.cur)
    BY <1>2 DEF Inv, OneCounts
  <2> QED
    BY <2>1, <1>4 DEF Inv, OneCounts
<1>8. NoneIsOlder'
  BY <1>2, <1>3, <1>4 DEF Inv, Typed, Saved, NoneIsOlder
<1> QED
  BY <1>5, <1>6, <1>7, <1>8 DEF Inv

\* An answer is shown only if it is the one that counts.
LEMMA AnswerHolds ==
    ASSUME Inv, Answer
    PROVE  Inv' /\ (job # None => job' # None /\ job' >= job)
<1> USE EventsAssumption DEF EventsAssumption
<1>1. PICK g \in gets : /\ g.read # None /\ gets' = gets \ {g}
                        /\ IF g.cur
                           THEN job' = g.read
                           ELSE UNCHANGED job
  BY DEF Answer
<1>2. UNCHANGED version
  BY DEF Answer, server
<1>3. CASE g.cur
  <2>1. job' \in Nat /\ job' <= version /\ (job # None => job' >= job)
    BY <1>1, <1>3 DEF Inv, Typed, Saved, NoneIsOlder
  <2>2. \A h \in gets' : ~h.cur
    BY <1>1, <1>3 DEF Inv, OneCounts
  <2>3. Typed' /\ Saved'
    BY <1>1, <1>2, <2>1 DEF Inv, Typed, Saved
  <2>4. OneCounts' /\ NoneIsOlder'
    BY <2>2 DEF OneCounts, NoneIsOlder
  <2> QED
    BY <2>1, <2>3, <2>4 DEF Inv
<1>4. CASE ~g.cur
  <2>1. UNCHANGED job /\ gets' \subseteq gets
    BY <1>1, <1>4
  <2>2. version' \in Nat /\ version' >= version
    BY <1>2 DEF Inv, Typed
  <2>3. job # None => job' >= job
    BY <2>1 DEF Inv, Typed
  <2> QED
    BY <2>1, <2>2, <2>3, QuietHolds
<1> QED
  BY <1>3, <1>4

\* All other steps ask nothing, answer nothing and save, if anything, a newer job.
LEMMA OtherHolds ==
    ASSUME Inv, \/ Change \/ Act \/ Log \/ Connect \/ Subscribe \/ Faulty
                \/ ServeResults \/ Results \/ UNCHANGED vars
    PROVE  Inv' /\ UNCHANGED job
<1>1. CASE Change \/ Act
  <2>1. version' = version + 1 /\ UNCHANGED <<gets, job>>
    BY <1>1 DEF Change, Act, Save, page
  <2> QED
    BY <2>1, QuietHolds DEF Inv, Typed
<1>2. CASE Log
  <2>1. UNCHANGED <<version, gets, job>>
    BY <1>2 DEF Log, Emit, BeginWrite, Land, Appended, page
  <2> QED
    BY <2>1, QuietHolds DEF Inv, Typed
<1>3. CASE Connect \/ Subscribe \/ Disconnect
  <2>1. UNCHANGED <<version, gets, job>>
    BY <1>3 DEF Connect, Subscribe, Disconnect, server, page
  <2> QED
    BY <2>1, QuietHolds DEF Inv, Typed
<1>4. CASE AppendFails \/ Crash
  <2>1. UNCHANGED <<version, gets, job>>
    BY <1>4 DEF AppendFails, Crash, page
  <2> QED
    BY <2>1, QuietHolds DEF Inv, Typed
<1>5. CASE ServeResults \/ Results \/ NoResults \/ UNCHANGED vars
  <2>1. UNCHANGED <<version, gets, job>>
    BY <1>5 DEF ServeResults, Results, NoResults, vars, server, page
  <2> QED
    BY <2>1, QuietHolds DEF Inv, Typed
<1>6. CASE NoAnswer
  <2>1. UNCHANGED <<version, job>> /\ gets' \subseteq gets
    BY <1>6 DEF NoAnswer, server
  <2> QED
    BY <2>1, QuietHolds DEF Inv, Typed
<1> QED
  BY <1>1, <1>2, <1>3, <1>4, <1>5, <1>6 DEF Faulty

\* Steps that ask.
LEMMA AskingHolds ==
    ASSUME Inv, Poll \/ Receive \/ Acted
    PROVE  Inv' /\ UNCHANGED job
<1>1. Ask
  BY DEF Poll, Receive, Acted
<1>2. UNCHANGED <<version, job>>
  BY DEF Poll, Receive, Acted, server
<1> QED
  BY <1>1, <1>2, AskHolds

\* Every step keeps the invariant and what the page shows of the job.
LEMMA StepHolds ==
    ASSUME Inv, [Next]_vars
    PROVE  Inv' /\ (UNCHANGED job \/ (job # None => job' >= job))
<1>1. CASE Answer
  BY <1>1, AnswerHolds
<1>2. CASE Serve
  <2>1. UNCHANGED job
    BY <1>2 DEF Serve
  <2> QED
    BY <1>2, <2>1, ServeHolds
<1>3. CASE Poll \/ Receive \/ Acted
  BY <1>3, AskingHolds
<1>4. CASE \/ Change \/ Act \/ Log \/ Connect \/ Subscribe \/ Faulty
           \/ ServeResults \/ Results \/ UNCHANGED vars
  BY <1>4, OtherHolds
<1> QED
  BY <1>1, <1>2, <1>3, <1>4 DEF Next, Stream, Page, Actions

\* The job on the page never goes back, whatever the order in which polls, events and
\* actions are answered: a refresh makes the ones before it stale (JobPage.tsx,
\* refreshVersion), and none is older than what an answer before it showed.
THEOREM PageNeverGoesBack == Spec => NeverBackwards
<1>1. Inv /\ [Next]_vars => [job # None => job' >= job]_job
  BY StepHolds
<1>2. Inv /\ [Next]_vars => Inv'
  BY StepHolds
<1> QED
  BY <1>1, <1>2, InitHolds, PTL DEF Spec, NeverBackwards

-------------------------------------------------------------------------------
(* The log, the connection and the page: every event once, in order.           *)

Lines == [id : Nat, n : Nat]
Shapes ==
    /\ version \in Nat /\ due \subseteq Nat /\ queue \in Seq(Nat)
    /\ write = None \/ write \in [event : Lines, onDisk : BOOLEAN]
    /\ lastId \in Nat \cup {None} /\ lastSeen \in Nat
    /\ log \in Seq(Lines) /\ wire \in Seq(Lines) /\ shown \in Seq(Lines)
    /\ conn \in [at : {"closed", "listed", "open"}, listed : Seq(Lines)]

\* A save is on its way to the log in one place, and once.
WrittenOnce ==
    /\ \A i, j \in 1 .. Len(queue) : i # j => queue[i] # queue[j]
    /\ \A i \in 1 .. Len(queue) : queue[i] \notin due
    /\ write # None =>
         /\ write.event.n \notin due
         /\ \A i \in 1 .. Len(queue) : queue[i] # write.event.n
    /\ \A k \in 1 .. Len(log) :
         /\ log[k].n \notin due
         /\ \A i \in 1 .. Len(queue) : queue[i] # log[k].n
         /\ write # None /\ log[k].n = write.event.n => write.onDisk /\ k = Len(log)
    /\ \A k, l \in 1 .. Len(log) : k # l => log[k].n # log[l].n

\* Nothing is written of a save that was not made.
WrittenIsSaved ==
    /\ \A n \in due : n <= version
    /\ \A i \in 1 .. Len(queue) : queue[i] <= version
    /\ write # None => write.event.n <= version
    /\ \A k \in 1 .. Len(log) : log[k].n <= version

\* Line k does not have a number above id, and if its append did not fail a smaller one.
Before(k, id) == log[k].id <= id /\ (log[k].n \notin failed => log[k].id < id)
OnDisk == write # None /\ write.onDisk
LogInOrder ==
    /\ \A k, l \in 1 .. Len(log) : k < l => Before(k, log[l].id)
    /\ write # None /\ ~write.onDisk => \A k \in 1 .. Len(log) : Before(k, write.event.id)
    /\ OnDisk => log # <<>> /\ log[Len(log)] = write.event
    /\ write # None /\ lastId # None => write.event.id <= lastId + 1
    /\ lastId # None => \A k \in 1 .. Len(log) :
         \/ Before(k, lastId + 1)
         \/ (OnDisk /\ k = Len(log) /\ log[k].id <= lastId + 1)

Written == {log[k] : k \in 1 .. Len(log)}
Sent(s) ==
    /\ \A i \in 1 .. Len(s) : s[i] \in Written /\ s[i].id >= lastSeen
    /\ \A i, j \in 1 .. Len(s) : i < j => s[i].id <= s[j].id
SentInOrder ==
    /\ Sent(wire) /\ Sent(conn.listed)
    /\ wire # <<>> => conn.at = "open"
    /\ conn.at = "open" => conn.listed = <<>>
    /\ lastSeen = 0 \/ \E e \in Written : e.id = lastSeen
ShownInOrder ==
    /\ \A i \in 1 .. Len(shown) : shown[i] \in Written /\ shown[i].id <= lastSeen
    /\ \A i, j \in 1 .. Len(shown) : i < j => shown[i].id < shown[j].id


\* What has at least one member among the numbers has a least one.
LEMMA Least ==
    ASSUME NEW T, T \subseteq Nat, T # {}
    PROVE  \E n \in T : \A m \in T : n <= m
<1>1. PICK x \in T : \A y \in T : ~(<<y, x>> \in OpToRel(<, Nat))
  BY NatLessThanWellFounded, WFMin
<1>2. \A y \in T : ~(y < x)
  BY <1>1 DEF OpToRel
<1> QED
  BY <1>2

\* The function that Since is defined by.
Reads(f, s, id) ==
    f = [n \in 0 .. Len(s) |->
           IF n = 0 THEN <<>>
           ELSE IF s[n].id > id THEN Append(f[n - 1], s[n]) ELSE f[n - 1]]
ReadsTo(f, s, id, m) ==
    f = [n \in 0 .. m |->
           IF n = 0 THEN <<>>
           ELSE IF s[n].id > id THEN Append(f[n - 1], s[n]) ELSE f[n - 1]]

\* There is one: a longest log without one would have a line before it.
LEMMA ReadsExists ==
    ASSUME NEW s \in Seq(Lines), NEW id \in Nat
    PROVE  \E f : Reads(f, s, id)
<1> DEFINE T == {m \in Nat : ~ \E f : ReadsTo(f, s, id, m)}
<1>1. SUFFICES T = {}
  BY DEF Reads, ReadsTo
<1>2. SUFFICES ASSUME T # {} PROVE FALSE
  OBVIOUS
<1>3. PICK m \in T : \A k \in T : m <= k
  <2>1. T \subseteq Nat
    OBVIOUS
  <2> HIDE DEF T
  <2> QED
    BY <1>2, <2>1, Least
<1>4. ReadsTo([n \in 0 .. 0 |-> <<>>], s, id, 0)
  BY DEF ReadsTo
<1>5. m # 0 /\ m \in Nat
  BY <1>3, <1>4
<1>6. m - 1 \in Nat /\ m - 1 \notin T
  BY <1>3, <1>5
<1>7. PICK f : ReadsTo(f, s, id, m - 1)
  BY <1>6
<1> DEFINE g == [n \in 0 .. m |->
                   IF n < m THEN f[n]
                   ELSE IF s[m].id > id THEN Append(f[m - 1], s[m]) ELSE f[m - 1]]
<1>8. \A n \in 0 .. m : g[n] = IF n = 0 THEN <<>>
           ELSE IF s[n].id > id THEN Append(g[n - 1], s[n]) ELSE g[n - 1]
  <2> TAKE n \in 0 .. m
  <2>1. CASE n = 0
    BY <2>1, <1>5, <1>7 DEF ReadsTo
  <2>2. CASE n \in 1 .. (m - 1)
    <3>1. g[n] = f[n] /\ g[n - 1] = f[n - 1] /\ n \in 0 .. (m - 1) /\ n # 0
      BY <2>2, <1>5
    <3> HIDE DEF g
    <3> QED
      BY <3>1, <1>7 DEF ReadsTo
  <2>3. CASE n = m
    BY <2>3, <1>5
  <2> QED
    BY <2>1, <2>2, <2>3, <1>5
<1>9. ReadsTo(g, s, id, m)
  <2>1. g = [n \in 0 .. m |-> g[n]]
    OBVIOUS
  <2> HIDE DEF g
  <2> QED
    BY <2>1, <1>8 DEF ReadsTo
<1> QED
  BY <1>9, <1>3

\* What a function like that has read of the first n lines.
ReadWell(r, s, id, n) ==
    /\ r \in Seq(Lines)
    /\ \A i \in 1 .. Len(r) : /\ \E k \in 1 .. n : r[i] = s[k]
                              /\ r[i].id > id
    /\ \A i, j \in 1 .. Len(r) : i < j => r[i].id <= r[j].id
LEMMA ReadsWell ==
    ASSUME NEW s \in Seq(Lines), NEW id \in Nat, NEW f, Reads(f, s, id),
           \A k, l \in 1 .. Len(s) : k < l => s[k].id <= s[l].id
    PROVE  ReadWell(f[Len(s)], s, id, Len(s))
<1> DEFINE T == {m \in 0 .. Len(s) : ~ ReadWell(f[m], s, id, m)}
<1>1. SUFFICES ASSUME T # {} PROVE FALSE
  OBVIOUS
<1>2. PICK m \in T : \A k \in T : m <= k
  <2>1. T \subseteq Nat
    OBVIOUS
  <2> HIDE DEF T
  <2> QED
    BY <1>1, <2>1, Least
<1>3. ReadWell(f[0], s, id, 0)
  <2>1. Len(s) \in Nat /\ 0 \in 0 .. Len(s)
    OBVIOUS
  <2>2. f[0] = <<>>
    BY <2>1 DEF Reads
  <2> QED
    BY <2>2 DEF ReadWell
<1>4. m \in 1 .. Len(s) /\ ~ ReadWell(f[m], s, id, m)
  BY <1>2, <1>3
<1> DEFINE r == f[m - 1]
<1>5. ReadWell(r, s, id, m - 1)
  BY <1>2, <1>4
<1>6. f[m] = IF s[m].id > id THEN Append(r, s[m]) ELSE r
  <2>1. Len(s) \in Nat /\ m \in 0 .. Len(s) /\ m # 0
    BY <1>4
  <2> QED
    BY <2>1 DEF Reads
<1>7. /\ s[m] \in Lines /\ r \in Seq(Lines) /\ m \in Nat /\ Len(r) \in Nat
      /\ \A i \in 1 .. Len(r) : r[i] \in Lines
  BY <1>4, <1>5 DEF ReadWell
<1> HIDE DEF r, T
<1>8. \A i \in 1 .. Len(r) : \E k \in 1 .. m : r[i] = s[k] /\ k < m
  <2>1. \A k \in 1 .. (m - 1) : k \in 1 .. m /\ k < m
    BY <1>7
  <2> QED
    BY <2>1, <1>5 DEF ReadWell
<1>9. CASE ~(s[m].id > id)
  BY <1>4, <1>5, <1>6, <1>8, <1>9 DEF ReadWell
<1>10. CASE s[m].id > id
  <2> DEFINE t == Append(r, s[m])
  <2>1. /\ t \in Seq(Lines) /\ Len(t) = Len(r) + 1 /\ t[Len(r) + 1] = s[m]
        /\ \A i \in 1 .. Len(r) : t[i] = r[i]
    BY <1>7
  <2> HIDE DEF t
  <2>2. \A i \in 1 .. Len(r) : r[i].id <= s[m].id
    <3>1. Len(s) \in Nat /\ \A k \in 1 .. m : k \in 1 .. Len(s)
      BY <1>4
    <3> QED
      BY <3>1, <1>4, <1>8
  <2>3. \A i \in 1 .. Len(t) : (\E k \in 1 .. m : t[i] = s[k]) /\ t[i].id > id
    <3> SUFFICES ASSUME NEW i \in 1 .. Len(t)
                 PROVE  (\E k \in 1 .. m : t[i] = s[k]) /\ t[i].id > id
      OBVIOUS
    <3>1. CASE i \in 1 .. Len(r)
      BY <3>1, <2>1, <1>5, <1>8 DEF ReadWell
    <3>2. CASE i = Len(r) + 1
      BY <3>2, <2>1, <1>7, <1>10, <1>4
    <3> QED
      BY <3>1, <3>2, <2>1, <1>7
  <2>4. \A i, j \in 1 .. Len(t) : i < j => t[i].id <= t[j].id
    <3> SUFFICES ASSUME NEW i \in 1 .. Len(t), NEW j \in 1 .. Len(t), i < j
                 PROVE  t[i].id <= t[j].id
      OBVIOUS
    <3>1. i \in 1 .. Len(r) /\ t[i] = r[i] /\ (j = Len(r) + 1 \/ j \in 1 .. Len(r))
      BY <2>1, <1>7
    <3> QED
      BY <3>1, <2>1, <2>2, <1>5 DEF ReadWell
  <2>5. ReadWell(t, s, id, m)
    BY <2>1, <2>3, <2>4 DEF ReadWell
  <2>6. f[m] = t
    BY <1>6, <1>10 DEF t
  <2> QED
    BY <2>5, <2>6, <1>4
<1> QED
  BY <1>9, <1>10

\* A connection lists lines of the log, with numbers above the one it asked from, in order.
LEMMA SinceIsRead ==
    ASSUME Shapes, LogInOrder, NEW id \in Nat
    PROVE  ReadWell(Since(id), log, id, Len(log))
<1>1. \A k, l \in 1 .. Len(log) : k < l => log[k].id <= log[l].id
  BY DEF Shapes, Lines, LogInOrder, Before
<1> DEFINE read == CHOOSE f : Reads(f, log, id)
<1>2. Reads(read, log, id)
  BY ReadsExists DEF Shapes
<1>3. Since(id) = read[Len(log)]
  BY DEF Since, Reads
<1> HIDE DEF read
<1> QED
  BY <1>1, <1>2, <1>3, ReadsWell DEF Shapes
\* Which steps leave the log alone, and which the connection.
LEMMA OthersKeepTheLog ==
    ASSUME Poll \/ Page \/ Acted \/ NoAnswer \/ NoResults \/ UNCHANGED vars
    PROVE  /\ UNCHANGED <<version, due, queue, write, lastId, log, failed>>
           /\ UNCHANGED <<conn, wire, lastSeen, shown>>
BY DEF Page, Poll, Serve, Answer, ServeResults, Results, Acted, NoAnswer, NoResults, vars, server, feed

LEMMA ConnectionKeepsTheLog ==
    ASSUME Connect \/ Subscribe \/ Receive \/ Disconnect
    PROVE  UNCHANGED <<version, due, queue, write, lastId, log, failed>>
BY DEF Connect, Subscribe, Receive, Disconnect, server

LEMMA LogKeepsTheConnection ==
    ASSUME Change \/ Act \/ Emit \/ BeginWrite \/ Land \/ AppendFails
    PROVE  UNCHANGED <<conn, wire, lastSeen, shown>>
BY DEF Change, Act, Emit, BeginWrite, Land, AppendFails, feed

\* Every variable keeps to its kind of value.
LEMMA ShapesHold ==
    ASSUME Shapes, LogInOrder, [Next]_vars
    PROVE  Shapes'
<1> USE EventsAssumption DEF EventsAssumption
<1>1. CASE Change \/ Act
  <2>1. version' = version + 1 /\ due' = due \cup {version + 1}
    BY <1>1 DEF Change, Act, Save
  <2>2. UNCHANGED <<queue, write, lastId, log>>
    BY <1>1 DEF Change, Act
  <2> QED
    BY <2>1, <2>2, <1>1, LogKeepsTheConnection DEF Shapes
<1>2. CASE Emit
  <2>1. PICK n \in due : due' = due \ {n} /\ queue' = Append(queue, n)
    BY <1>2 DEF Emit
  <2>2. UNCHANGED <<version, write, lastId, log>>
    BY <1>2 DEF Emit
  <2> QED
    BY <2>1, <2>2, <1>2, LogKeepsTheConnection DEF Shapes
<1>3. CASE BeginWrite
  <2>1. Previous \in Nat
    <3>1. CASE log = <<>> \/ lastId # None
      BY <3>1 DEF Previous, Shapes
    <3>2. CASE log # <<>> /\ lastId = None
      <4>1. log[Len(log)] \in Lines
        BY <3>2 DEF Shapes
      <4> QED
        BY <4>1, <3>2 DEF Previous, Last, Lines
    <3> QED
      BY <3>1, <3>2
  <2>2. write' = [event |-> [id |-> Previous + 1, n |-> Head(queue)], onDisk |-> FALSE]
    BY <1>3 DEF BeginWrite, Event
  <2>3. queue # <<>> /\ queue' = Tail(queue) /\ UNCHANGED <<version, due, lastId, log>>
    BY <1>3 DEF BeginWrite
  <2>4. Head(queue) \in Nat /\ queue' \in Seq(Nat)
    BY <2>3 DEF Shapes
  <2>5. write' \in [event : Lines, onDisk : BOOLEAN]
    BY <2>1, <2>2, <2>4 DEF Lines
  <2> QED
    BY <2>3, <2>4, <2>5, <1>3, LogKeepsTheConnection DEF Shapes
<1>4. CASE Land
  <2>1. write \in [event : Lines, onDisk : BOOLEAN]
    BY <1>4 DEF Land, Shapes
  <2>2. log' = Append(log, write.event) /\ write' = [write EXCEPT !.onDisk = TRUE]
    BY <1>4 DEF Land
  <2>3. UNCHANGED <<version, due, queue, lastId>>
    BY <1>4 DEF Land
  <2> QED
    <3>0. log \in Seq(Lines) /\ write.event \in Lines
      BY <2>1 DEF Shapes
    <3>1. log' \in Seq(Lines)
      BY <2>2, <3>0
    <3>3. write' \in [event : Lines, onDisk : BOOLEAN]
      BY <2>1, <2>2
    <3>2. UNCHANGED <<conn, wire, lastSeen, shown>>
      BY <1>4, LogKeepsTheConnection
    <3> QED
      BY <3>1, <3>2, <3>3, <2>3 DEF Shapes
<1>5. CASE Appended
  <2>1. write \in [event : Lines, onDisk : BOOLEAN]
    BY <1>5 DEF Appended, Shapes
  <2>2. lastId' = write.event.id /\ write' = None /\ (wire' = wire \/ wire' = Append(wire, write.event))
    BY <1>5 DEF Appended, Notify
  <2>3. UNCHANGED <<version, due, queue, log, conn, lastSeen, shown>>
    BY <1>5 DEF Appended
  <2> QED
    <3>1. write.event \in Lines /\ write.event.id \in Nat
      BY <2>1 DEF Lines
    <3>2. wire \in Seq(Lines)
      BY DEF Shapes
    <3>3. wire' \in Seq(Lines) /\ lastId' \in Nat
      BY <3>1, <3>2, <2>2
    <3> QED
      BY <3>3, <2>2, <2>3 DEF Shapes
<1>6. CASE AppendFails
  <2>1. write' = None /\ UNCHANGED <<version, due, queue, lastId, log>>
    BY <1>6 DEF AppendFails
  <2> QED
    BY <2>1, <1>6, LogKeepsTheConnection DEF Shapes
<1>7. CASE Connect
  <2>1. conn' = [at |-> "listed", listed |-> Since(lastSeen)] /\ UNCHANGED <<wire, lastSeen, shown>>
    BY <1>7 DEF Connect
  <2>2. Since(lastSeen) \in Seq(Lines)
    BY SinceIsRead DEF Shapes, ReadWell
  <2> QED
    BY <2>1, <2>2, <1>7, ConnectionKeepsTheLog DEF Shapes
<1>8. CASE Subscribe
  <2>1. /\ wire' = conn.listed /\ conn' = [at |-> "open", listed |-> <<>>]
        /\ UNCHANGED <<lastSeen, shown>>
    BY <1>8 DEF Subscribe
  <2> QED
    <3>1. <<>> \in Seq(Lines) /\ conn.listed \in Seq(Lines)
      BY DEF Shapes
    <3>2. conn' \in [at : {"closed", "listed", "open"}, listed : Seq(Lines)] /\ wire' \in Seq(Lines)
      BY <2>1, <3>1
    <3> QED
      BY <2>1, <3>2, <1>8, ConnectionKeepsTheLog DEF Shapes
<1>9. CASE Disconnect
  <2>1. wire' = <<>> /\ conn' = [at |-> "closed", listed |-> <<>>] /\ UNCHANGED <<lastSeen, shown>>
    BY <1>9 DEF Disconnect, Lost, Closed
  <2> QED
    <3>1. <<>> \in Seq(Lines)
      OBVIOUS
    <3>2. conn' \in [at : {"closed", "listed", "open"}, listed : Seq(Lines)] /\ wire' \in Seq(Lines)
      BY <2>1, <3>1
    <3> QED
      BY <2>1, <3>2, <1>9, ConnectionKeepsTheLog DEF Shapes
<1>10. CASE Crash
  <2>1. /\ wire' = <<>> /\ conn' = [at |-> "closed", listed |-> <<>>] /\ UNCHANGED <<lastSeen, shown>>
        /\ due' = {} /\ queue' = <<>> /\ write' = None /\ lastId' = None /\ UNCHANGED <<version, log>>
    BY <1>10 DEF Crash, Lost, Closed
  <2> QED
    BY <2>1 DEF Shapes
<1>11. CASE Receive
  <2>1. /\ wire # <<>> /\ lastSeen' = Head(wire).id /\ (shown' = shown \/ shown' = Append(shown, Head(wire)))
        /\ wire' = Tail(wire) /\ UNCHANGED conn
    BY <1>11 DEF Receive, Show
  <2>2. Head(wire) \in Lines /\ Tail(wire) \in Seq(Lines)
    BY <2>1 DEF Shapes
  <2>3. lastSeen' \in Nat
    BY <2>1, <2>2 DEF Lines
  <2>4. wire' \in Seq(Lines) /\ shown' \in Seq(Lines)
    <3>1. shown \in Seq(Lines)
      BY DEF Shapes
    <3> QED
      BY <2>1, <2>2, <3>1
  <2> QED
    BY <2>1, <2>3, <2>4, <1>11, ConnectionKeepsTheLog DEF Shapes
<1>12. CASE Poll \/ Page \/ Acted \/ NoAnswer \/ NoResults \/ UNCHANGED vars
  BY <1>12, OthersKeepTheLog DEF Shapes
<1> QED
  BY <1>1, <1>2, <1>3, <1>4, <1>5, <1>6, <1>7, <1>8, <1>9, <1>10, <1>11, <1>12
  DEF Next, Log, Stream, Actions, Faulty
\* What Append makes of a log.
LEMMA AppendedLine ==
    ASSUME NEW S, NEW s \in Seq(S), NEW e \in S
    PROVE  /\ Append(s, e) \in Seq(S) /\ Len(Append(s, e)) = Len(s) + 1
           /\ Append(s, e)[Len(s) + 1] = e
           /\ \A i \in 1 .. Len(s) : i \in 1 .. Len(s) + 1 /\ Append(s, e)[i] = s[i]
           /\ \A i \in 1 .. Len(s) + 1 : i = Len(s) + 1 \/ i \in 1 .. Len(s)
OBVIOUS

\* What Head and Tail make of a queue.
LEMMA FirstOut ==
    ASSUME NEW S, NEW s \in Seq(S), s # <<>>
    PROVE  /\ Tail(s) \in Seq(S) /\ Head(s) = s[1] /\ 1 \in 1 .. Len(s) /\ Head(s) \in S
           /\ \A i \in 1 .. Len(Tail(s)) : i + 1 \in 1 .. Len(s) /\ i + 1 # 1 /\ Tail(s)[i] = s[i + 1]
OBVIOUS

\* A save goes from one place to the next, or is lost.
LEMMA WrittenOnceHolds ==
    ASSUME Shapes, WrittenOnce, WrittenIsSaved, LogInOrder, [Next]_vars
    PROVE  WrittenOnce' /\ WrittenIsSaved'
<1> USE EventsAssumption DEF EventsAssumption
<1>0. /\ version \in Nat /\ due \subseteq Nat /\ queue \in Seq(Nat) /\ log \in Seq(Lines)
      /\ \A i \in 1 .. Len(queue) : queue[i] \in Nat
      /\ \A k \in 1 .. Len(log) : log[k].n \in Nat
      /\ write # None => write.event \in Lines /\ write.event.n \in Nat
  <2>1. \A k \in 1 .. Len(log) : log[k] \in Lines
    BY DEF Shapes
  <2>2. write # None => write.event \in Lines
    BY DEF Shapes
  <2> QED
    BY <2>1, <2>2 DEF Shapes, Lines
<1>1. CASE Change \/ Act
  <2>1. version' = version + 1 /\ due' = due \cup {version + 1}
    BY <1>1 DEF Change, Act, Save
  <2>2. UNCHANGED <<queue, write, log>>
    BY <1>1 DEF Change, Act
  <2>3. /\ \A n \in due' : n = version + 1 \/ n \in due
        /\ \A i \in 1 .. Len(queue) : queue[i] # version + 1
        /\ \A k \in 1 .. Len(log) : log[k].n # version + 1
        /\ write # None => write.event.n # version + 1
    BY <2>1, <1>0 DEF WrittenIsSaved
  <2>4. WrittenOnce'
    BY <2>2, <2>3 DEF WrittenOnce
  <2>5. WrittenIsSaved'
    BY <1>0, <2>1, <2>2, <2>3 DEF WrittenIsSaved
  <2> QED
    BY <2>4, <2>5
<1>2. CASE Emit
  <2>1. PICK n \in due : due' = due \ {n} /\ queue' = Append(queue, n)
    BY <1>2 DEF Emit
  <2>2. UNCHANGED <<version, write, log>>
    BY <1>2 DEF Emit
  <2>3. n \in Nat
    BY <1>0
  <2>4. /\ Len(queue') = Len(queue) + 1 /\ queue'[Len(queue) + 1] = n
        /\ \A i \in 1 .. Len(queue') : i = Len(queue) + 1 \/ (i \in 1 .. Len(queue) /\ queue'[i] = queue[i])
    BY <1>0, <2>1, <2>3, AppendedLine
  <2>5. \A i \in 1 .. Len(queue') : queue'[i] = n \/ (\E j \in 1 .. Len(queue) : queue'[i] = queue[j])
    BY <2>4
  <2>6. \A i, j \in 1 .. Len(queue') : i # j => queue'[i] # queue'[j]
    BY <2>4 DEF WrittenOnce
  <2>7. WrittenOnce'
    BY <2>1, <2>2, <2>5, <2>6 DEF WrittenOnce
  <2>8. WrittenIsSaved'
    BY <2>1, <2>2, <2>5 DEF WrittenIsSaved
  <2> QED
    BY <2>7, <2>8
<1>3. CASE BeginWrite
  <2>1. write = None /\ queue # <<>> /\ queue' = Tail(queue) /\ UNCHANGED <<version, due, log>>
    BY <1>3 DEF BeginWrite
  <2>2. write'.event.n = Head(queue)
    BY <1>3 DEF BeginWrite, Event
  <2>3. /\ \A i \in 1 .. Len(queue') : i + 1 \in 1 .. Len(queue) /\ queue'[i] = queue[i + 1] /\ i \in Nat
        /\ 1 \in 1 .. Len(queue) /\ write'.event.n = queue[1]
        /\ \A i \in 1 .. Len(queue') : i + 1 # 1
        /\ \A i, j \in 1 .. Len(queue') : i # j => i + 1 # j + 1
    BY <2>1, <2>2, <1>0, FirstOut
  <2>4. WrittenOnce'
    BY <2>1, <2>3 DEF WrittenOnce
  <2>5. WrittenIsSaved'
    BY <2>1, <2>3 DEF WrittenIsSaved
  <2> QED
    BY <2>4, <2>5
<1>4. CASE Land
  <2>1. /\ write # None /\ ~write.onDisk /\ log' = Append(log, write.event)
        /\ write' = [write EXCEPT !.onDisk = TRUE] /\ UNCHANGED <<version, due, queue>>
    BY <1>4 DEF Land
  <2>2. write \in [event : Lines, onDisk : BOOLEAN]
    BY <2>1 DEF Shapes
  <2>3. write'.event = write.event /\ write'.onDisk
    BY <2>1, <2>2
  <2>4. /\ Len(log') = Len(log) + 1 /\ log'[Len(log) + 1] = write.event
        /\ \A k \in 1 .. Len(log') : k = Len(log') \/ (k \in 1 .. Len(log) /\ log'[k] = log[k])
    BY <1>0, <2>1, AppendedLine
  <2>5. \A k \in 1 .. Len(log) : log[k].n # write.event.n
    BY <2>1 DEF WrittenOnce
  <2>6. \A k \in 1 .. Len(log') :
           \/ k = Len(log') /\ log'[k].n = write.event.n
           \/ k \in 1 .. Len(log) /\ log'[k].n = log[k].n /\ log'[k].n # write.event.n
    BY <2>4, <2>5
  <2>7. WrittenOnce'
    <3>1. \A k, l \in 1 .. Len(log') : k # l => log'[k].n # log'[l].n
      BY <2>6 DEF WrittenOnce
    <3> QED
      BY <3>1, <2>1, <2>3, <2>6 DEF WrittenOnce
  <2>8. WrittenIsSaved'
    BY <2>1, <2>3, <2>6 DEF WrittenIsSaved
  <2> QED
    BY <2>7, <2>8
<1>5. CASE Appended \/ AppendFails \/ Crash
  <2>1. /\ write' = None /\ UNCHANGED <<version, log>>
        /\ \/ UNCHANGED <<due, queue>>
           \/ due' = {} /\ queue' = <<>>
    BY <1>5 DEF Appended, AppendFails, Crash
  <2>2. CASE UNCHANGED <<due, queue>>
    BY <2>1, <2>2 DEF WrittenOnce, WrittenIsSaved
  <2>3. CASE due' = {} /\ queue' = <<>>
    BY <2>1, <2>3 DEF WrittenOnce, WrittenIsSaved
  <2> QED
    BY <2>1, <2>2, <2>3
<1>6. CASE \/ Connect \/ Subscribe \/ Receive \/ Disconnect
           \/ Poll \/ Page \/ Acted \/ NoAnswer \/ NoResults \/ UNCHANGED vars
  <2>1. UNCHANGED <<version, due, queue, write, log>>
    BY <1>6, OthersKeepTheLog, ConnectionKeepsTheLog
  <2> QED
    BY <2>1 DEF WrittenOnce, WrittenIsSaved
<1> QED
  BY <1>1, <1>2, <1>3, <1>4, <1>5, <1>6 DEF Next, Log, Stream, Actions, Faulty
\* The numbers of the log go up, but for a line whose append failed.
LEMMA LogInOrderHolds ==
    ASSUME Shapes, WrittenOnce, LogInOrder, [Next]_vars
    PROVE  LogInOrder'
<1> USE EventsAssumption DEF EventsAssumption
<1>0. /\ log \in Seq(Lines) /\ Len(log) \in Nat
      /\ \A k \in 1 .. Len(log) : log[k] \in Lines /\ log[k].id \in Nat
      /\ write # None => write \in [event : Lines, onDisk : BOOLEAN]
      /\ write # None => write.event \in Lines /\ write.event.id \in Nat
      /\ lastId # None => lastId \in Nat
  <2>1. \A k \in 1 .. Len(log) : log[k] \in Lines
    BY DEF Shapes
  <2>2. write # None => write.event \in Lines
    BY DEF Shapes
  <2> QED
    BY <2>1, <2>2 DEF Shapes, Lines
<1>1. CASE BeginWrite
  <2>1. write = None /\ UNCHANGED <<lastId, log, failed>>
    BY <1>1 DEF BeginWrite
  <2>2. write'.event.id = Previous + 1 /\ ~write'.onDisk
    BY <1>1 DEF BeginWrite, Event
  <2>3. \A k \in 1 .. Len(log) : Before(k, Previous + 1)
    <3>1. CASE lastId # None
      BY <3>1, <2>1 DEF LogInOrder, Previous, OnDisk
    <3>2. CASE lastId = None /\ log = <<>>
      BY <3>2, <1>0
    <3>3. CASE lastId = None /\ log # <<>>
      <4>1. Previous = log[Len(log)].id /\ Len(log) \in 1 .. Len(log)
        BY <3>3, <1>0 DEF Previous, Last
      <4>2. \A k \in 1 .. Len(log) : k < Len(log) \/ k = Len(log)
        BY <1>0
      <4>3. \A k \in 1 .. Len(log) : log[k].id <= log[Len(log)].id
        BY <4>1, <4>2, <1>0 DEF LogInOrder, Before
      <4> QED
        BY <4>1, <4>3, <1>0 DEF Before
    <3> QED
      BY <3>1, <3>2, <3>3
  <2>4. \A k \in 1 .. Len(log') : Before(k, write.event.id)'
    BY <2>1, <2>2, <2>3 DEF Before
  <2>5. ~OnDisk /\ ~OnDisk'
    BY <2>1, <2>2 DEF OnDisk
  <2>6. \A k, l \in 1 .. Len(log') : k < l => Before(k, log[l].id)'
    BY <2>1 DEF LogInOrder, Before
  <2>7. lastId' # None => \A k \in 1 .. Len(log') : Before(k, lastId + 1)'
    BY <2>1, <2>5 DEF LogInOrder, Before
  <2>8. lastId' # None => write'.event.id <= lastId' + 1
    BY <2>1, <2>2, <1>0 DEF Previous
  <2> QED
    BY <2>4, <2>5, <2>6, <2>7, <2>8 DEF LogInOrder
<1>2. CASE Land
  <2>1. /\ write # None /\ ~write.onDisk /\ log' = Append(log, write.event)
        /\ write' = [write EXCEPT !.onDisk = TRUE] /\ UNCHANGED <<lastId, failed>>
    BY <1>2 DEF Land
  <2>2. write' # None /\ write'.event = write.event /\ write'.onDisk
    BY <2>1, <1>0 DEF Lines
  <2>3. /\ Len(log') = Len(log) + 1 /\ log'[Len(log) + 1] = write.event
        /\ \A k \in 1 .. Len(log') : k = Len(log) + 1 \/ (k \in 1 .. Len(log) /\ log'[k] = log[k])
    BY <1>0, <2>1, AppendedLine
  <2>4. \A k \in 1 .. Len(log) : Before(k, write.event.id)
    BY <2>1 DEF LogInOrder
  <2>5. \A k, l \in 1 .. Len(log') : k < l => Before(k, log[l].id)'
    <3> SUFFICES ASSUME NEW k \in 1 .. Len(log'), NEW l \in 1 .. Len(log'), k < l
                 PROVE  Before(k, log[l].id)'
      OBVIOUS
    <3>1. k \in 1 .. Len(log) /\ log'[k] = log[k]
      BY <2>3, <1>0
    <3>2. CASE l \in 1 .. Len(log)
      <4>1. log'[l] = log[l]
        BY <3>2, <2>3, <1>0
      <4> QED
        BY <3>1, <3>2, <4>1, <2>1 DEF LogInOrder, Before
    <3>3. CASE l = Len(log) + 1
      BY <3>1, <3>3, <2>3, <2>4, <2>1 DEF Before
    <3> QED
      BY <3>2, <3>3, <2>3
  <2>6. log' # <<>> /\ log'[Len(log')] = write'.event
    BY <2>2, <2>3, <1>0
  <2>7. ~OnDisk /\ OnDisk'
    BY <2>1, <2>2 DEF OnDisk
  <2>8. lastId' # None => write'.event.id <= lastId' + 1
    BY <2>1, <2>2 DEF LogInOrder
  <2>9. ASSUME lastId' # None, NEW k \in 1 .. Len(log')
        PROVE  Before(k, lastId + 1)' \/ (k = Len(log') /\ log'[k].id <= lastId' + 1)
    <3>1. CASE k = Len(log) + 1
      BY <3>1, <2>9, <2>2, <2>3, <2>8
    <3>2. CASE k \in 1 .. Len(log) /\ log'[k] = log[k]
      BY <3>2, <2>9, <2>1, <2>7 DEF LogInOrder, Before
    <3> QED
      BY <3>1, <3>2, <2>3
  <2> QED
    BY <2>2, <2>5, <2>6, <2>7, <2>8, <2>9 DEF LogInOrder
<1>3. CASE Appended
  <2>1. /\ OnDisk /\ lastId' = write.event.id /\ write' = None /\ UNCHANGED <<log, failed>>
        /\ write # None
    BY <1>3 DEF Appended, OnDisk
  <2>2. log # <<>> /\ log[Len(log)] = write.event /\ Len(log) \in 1 .. Len(log)
    BY <2>1, <1>0 DEF LogInOrder
  <2>3. \A k \in 1 .. Len(log) : log[k].id <= lastId'
    <3>1. \A k \in 1 .. Len(log) : k < Len(log) \/ k = Len(log)
      BY <1>0
    <3> QED
      BY <3>1, <2>1, <2>2, <1>0 DEF LogInOrder, Before
  <2>4. \A k \in 1 .. Len(log') : Before(k, lastId + 1)'
    BY <2>1, <2>3, <1>0 DEF Before
  <2>5. \A k, l \in 1 .. Len(log') : k < l => Before(k, log[l].id)'
    BY <2>1 DEF LogInOrder, Before
  <2> QED
    BY <2>1, <2>4, <2>5 DEF LogInOrder, OnDisk
<1>4. CASE AppendFails
  <2>1. /\ write # None /\ write' = None /\ failed' = failed \cup {write.event.n}
        /\ UNCHANGED <<lastId, log>>
    BY <1>4 DEF AppendFails
  <2>2. \A k \in 1 .. Len(log), x \in Nat : Before(k, x) => Before(k, x)'
    BY <2>1 DEF Before
  <2>3. \A k, l \in 1 .. Len(log') : k < l => Before(k, log[l].id)'
    BY <2>1, <1>0 DEF LogInOrder, Before
  <2>4. ASSUME lastId' # None, NEW k \in 1 .. Len(log')
        PROVE  Before(k, lastId + 1)'
    <3>1. CASE OnDisk /\ k = Len(log) /\ log[k].id <= lastId + 1
      BY <3>1, <2>1 DEF LogInOrder, Before
    <3>2. CASE Before(k, lastId + 1)
      BY <3>2, <2>1 DEF Before
    <3> QED
      BY <3>1, <3>2, <2>1, <2>4 DEF LogInOrder
  <2> QED
    BY <2>1, <2>3, <2>4 DEF LogInOrder, OnDisk
<1>5. CASE Crash
  <2>1. write' = None /\ lastId' = None /\ UNCHANGED <<log, failed>>
    BY <1>5 DEF Crash
  <2>2. \A k, l \in 1 .. Len(log') : k < l => Before(k, log[l].id)'
    BY <2>1 DEF LogInOrder, Before
  <2> QED
    BY <2>1, <2>2 DEF LogInOrder, OnDisk
<1>6. CASE \/ Change \/ Act \/ Emit \/ Connect \/ Subscribe \/ Receive \/ Disconnect
           \/ Poll \/ Page \/ Acted \/ NoAnswer \/ NoResults \/ UNCHANGED vars
  <2>1. CASE Change \/ Act \/ Emit
    <3>1. UNCHANGED <<write, lastId, log, failed>>
      BY <2>1 DEF Change, Act, Emit
    <3> QED
      BY <3>1 DEF LogInOrder, Before, OnDisk
  <2>2. CASE ~(Change \/ Act \/ Emit)
    <3>1. UNCHANGED <<write, lastId, log, failed>>
      BY <1>6, <2>2, OthersKeepTheLog, ConnectionKeepsTheLog
    <3> QED
      BY <3>1 DEF LogInOrder, Before, OnDisk
  <2> QED
    BY <2>1, <2>2
<1> QED
  BY <1>1, <1>2, <1>3, <1>4, <1>5, <1>6 DEF Next, Log, Stream, Actions, Faulty

\* A line of the log stays where it is.
LEMMA LinesStay ==
    ASSUME Shapes, [Next]_vars
    PROVE  Written \subseteq Written'
<1>1. CASE Land
  <2>1. write \in [event : Lines, onDisk : BOOLEAN] /\ log \in Seq(Lines) /\ log' = Append(log, write.event)
    BY <1>1 DEF Land, Shapes
  <2>2. write.event \in Lines
    BY <2>1
  <2>3. \A k \in 1 .. Len(log) : k \in 1 .. Len(log') /\ log'[k] = log[k]
    BY <2>1, <2>2, AppendedLine
  <2> QED
    BY <2>3 DEF Written
<1>2. CASE ~Land
  <2>1. UNCHANGED log
    <3>1. CASE Change \/ Act \/ Emit \/ BeginWrite \/ Appended \/ AppendFails \/ Crash
      BY <3>1 DEF Change, Act, Emit, BeginWrite, Appended, AppendFails, Crash
    <3>2. CASE \/ Connect \/ Subscribe \/ Receive \/ Disconnect
               \/ Poll \/ Page \/ Acted \/ NoAnswer \/ NoResults \/ UNCHANGED vars
      BY <3>2, OthersKeepTheLog, ConnectionKeepsTheLog
    <3> QED
      BY <3>1, <3>2, <1>2 DEF Next, Log, Stream, Actions, Faulty
  <2> QED
    BY <2>1 DEF Written
<1> QED
  BY <1>1, <1>2
\* The last line of the log has no smaller number than any other.
LEMMA LastIsHighest ==
    ASSUME Shapes, LogInOrder, NEW e, e \in Written
    PROVE  /\ e \in Lines /\ Len(log) \in 1 .. Len(log) /\ log # <<>>
           /\ e.id <= log[Len(log)].id
<1>1. PICK k \in 1 .. Len(log) : log[k] = e
  BY DEF Written
<1>2. /\ log \in Seq(Lines) /\ e \in Lines /\ Len(log) \in 1 .. Len(log) /\ log # <<>>
      /\ k = Len(log) \/ k < Len(log)
  BY <1>1 DEF Shapes
<1>3. e.id <= log[Len(log)].id
  BY <1>1, <1>2 DEF LogInOrder, Before, Lines
<1> QED
  BY <1>2, <1>3

\* What is sent to the page are lines of the log in their order, from where it stopped.
LEMMA SentInOrderHolds ==
    ASSUME Shapes, LogInOrder, SentInOrder, [Next]_vars
    PROVE  SentInOrder'
<1> USE EventsAssumption DEF EventsAssumption
<1>0. /\ wire \in Seq(Lines) /\ conn.listed \in Seq(Lines) /\ lastSeen \in Nat
      /\ \A i \in 1 .. Len(wire) : wire[i] \in Lines /\ wire[i].id \in Nat
      /\ Sent(<<>>)
  <2>1. \A i \in 1 .. Len(wire) : wire[i] \in Lines
    BY DEF Shapes
  <2> QED
    BY <2>1 DEF Shapes, Lines, Sent
<1>a. Written \subseteq Written'
  BY LinesStay
<1>b. ASSUME UNCHANGED lastSeen, NEW s, Sent(s)
      PROVE  Sent(s)'
  BY <1>a, <1>b DEF Sent
<1>c. ASSUME UNCHANGED <<conn, wire, lastSeen>>
      PROVE  SentInOrder'
  <2>1. Sent(wire)' /\ Sent(conn.listed)'
    <3>1. ASSUME NEW i \in 1 .. Len(wire)
          PROVE  wire[i] \in Written' /\ wire[i].id >= lastSeen
      BY <1>a, <1>c DEF SentInOrder, Sent
    <3>2. ASSUME NEW i \in 1 .. Len(conn.listed)
          PROVE  conn.listed[i] \in Written' /\ conn.listed[i].id >= lastSeen
      BY <1>a, <1>c DEF SentInOrder, Sent
    <3> QED
      BY <3>1, <3>2, <1>c DEF SentInOrder, Sent
  <2> QED
    BY <2>1, <1>a, <1>c DEF SentInOrder
<1>1. CASE Appended
  <2>1. /\ OnDisk /\ write # None /\ UNCHANGED <<log, conn, lastSeen>>
        /\ wire' = IF conn.at = "open" THEN Append(wire, write.event) ELSE wire
    BY <1>1 DEF Appended, Notify, OnDisk
  <2>2. CASE conn.at = "open"
    <3>1. /\ log # <<>> /\ log[Len(log)] = write.event /\ Len(log) \in 1 .. Len(log)
          /\ write.event \in Lines /\ write.event.id \in Nat
      <4>1. write \in [event : Lines, onDisk : BOOLEAN] /\ log \in Seq(Lines)
        BY <2>1 DEF Shapes
      <4>2. write.event \in Lines /\ write.event.id \in Nat
        BY <4>1 DEF Lines
      <4> QED
        BY <4>1, <4>2, <2>1 DEF LogInOrder
    <3>2. write.event \in Written /\ write.event \in Written'
      BY <3>1, <1>a DEF Written
    <3>3. \A e \in Written : e.id <= write.event.id
      BY <3>1, LastIsHighest
    <3>4. lastSeen <= write.event.id
      BY <3>3, <3>1 DEF SentInOrder
    <3>5. /\ Len(wire') = Len(wire) + 1 /\ wire'[Len(wire) + 1] = write.event
          /\ \A i \in 1 .. Len(wire') : i = Len(wire) + 1 \/ (i \in 1 .. Len(wire) /\ wire'[i] = wire[i])
          /\ Len(wire) \in Nat
      BY <2>1, <2>2, <3>1, <1>0, AppendedLine
    <3>6. \A i \in 1 .. Len(wire) : /\ wire[i] \in Written /\ wire[i] \in Written'
                                    /\ wire[i].id >= lastSeen /\ wire[i].id <= write.event.id
      BY <1>a, <3>3 DEF SentInOrder, Sent
    <3>7. \A i \in 1 .. Len(wire') : wire'[i] \in Written' /\ wire'[i].id >= lastSeen'
      <4> SUFFICES ASSUME NEW i \in 1 .. Len(wire')
                   PROVE  wire'[i] \in Written' /\ wire'[i].id >= lastSeen'
        OBVIOUS
      <4>1. CASE i = Len(wire) + 1
        BY <4>1, <3>5, <3>2, <3>4, <2>1, <1>0, <3>1
      <4>2. CASE i \in 1 .. Len(wire) /\ wire'[i] = wire[i]
        BY <4>2, <3>6, <2>1
      <4> QED
        BY <4>1, <4>2, <3>5
    <3>8. \A i, j \in 1 .. Len(wire') : i < j => wire'[i].id <= wire'[j].id
      <4> SUFFICES ASSUME NEW i \in 1 .. Len(wire'), NEW j \in 1 .. Len(wire'), i < j
                   PROVE  wire'[i].id <= wire'[j].id
        OBVIOUS
      <4>1. i \in 1 .. Len(wire) /\ wire'[i] = wire[i]
        BY <3>5
      <4>2. CASE j = Len(wire) + 1
        BY <4>1, <4>2, <3>5, <3>6
      <4>3. CASE j \in 1 .. Len(wire) /\ wire'[j] = wire[j]
        BY <4>1, <4>3 DEF SentInOrder, Sent
      <4> QED
        BY <4>2, <4>3, <3>5
    <3>9. Sent(wire)'
      BY <3>7, <3>8 DEF Sent
    <3>10. conn.listed = <<>>
      BY <2>2 DEF SentInOrder
    <3> QED
      BY <3>9, <3>10, <2>1, <2>2, <1>a DEF SentInOrder, Sent
  <2>3. CASE conn.at # "open"
    BY <2>1, <2>3, <1>c
  <2> QED
    BY <2>2, <2>3
<1>2. CASE Connect
  <2>1. /\ conn' = [at |-> "listed", listed |-> Since(lastSeen)] /\ conn.at = "closed"
        /\ UNCHANGED <<wire, lastSeen>>
    BY <1>2 DEF Connect
  <2>2. ReadWell(Since(lastSeen), log, lastSeen, Len(log))
    BY <1>0, SinceIsRead
  <2>3. Sent(Since(lastSeen))
    <3> DEFINE s == Since(lastSeen)
    <3>1. /\ s \in Seq(Lines) /\ \A i, j \in 1 .. Len(s) : i < j => s[i].id <= s[j].id
          /\ \A i \in 1 .. Len(s) : s[i] \in Written /\ s[i].id > lastSeen
      BY <2>2 DEF ReadWell, Written
    <3> HIDE DEF s
    <3>2. \A i \in 1 .. Len(s) : s[i].id \in Nat
      <4>1. \A i \in 1 .. Len(s) : s[i] \in Lines
        BY <3>1
      <4> QED
        BY <4>1 DEF Lines
    <3>3. Sent(s)
      BY <3>1, <3>2, <1>0 DEF Sent
    <3> QED
      BY <3>3 DEF s
  <2>4. wire = <<>> /\ conn'.at = "listed" /\ conn'.listed = Since(lastSeen)
    BY <2>1 DEF SentInOrder
  <2>5. PICK s : s = Since(lastSeen)
    OBVIOUS
  <2>6. Sent(s)' /\ Sent(<<>>)'
    BY <1>b, <1>0, <2>1, <2>3, <2>5
  <2> QED
    BY <2>1, <2>4, <2>5, <2>6, <1>a DEF SentInOrder, Sent
<1>3. CASE Subscribe
  <2>1. /\ wire' = conn.listed /\ conn' = [at |-> "open", listed |-> <<>>] /\ UNCHANGED lastSeen
    BY <1>3 DEF Subscribe
  <2>2. PICK s : s = conn.listed
    OBVIOUS
  <2>3. Sent(s)' /\ Sent(<<>>)'
    BY <1>b, <1>0, <2>1, <2>2 DEF SentInOrder
  <2> QED
    BY <2>1, <2>2, <2>3, <1>a DEF SentInOrder, Sent
<1>4. CASE Disconnect \/ Crash
  <2>1. wire' = <<>> /\ conn' = [at |-> "closed", listed |-> <<>>] /\ UNCHANGED lastSeen
    BY <1>4 DEF Disconnect, Crash, Lost, Closed
  <2>2. Sent(<<>>)'
    BY <1>b, <1>0, <2>1
  <2> QED
    BY <2>1, <2>2, <1>a DEF SentInOrder, Sent
<1>5. CASE Receive
  <2>1. wire # <<>> /\ lastSeen' = Head(wire).id /\ wire' = Tail(wire) /\ UNCHANGED <<conn, log>>
    BY <1>5 DEF Receive, server
  <2>2. conn.at = "open" /\ conn.listed = <<>>
    BY <2>1 DEF SentInOrder
  <2>3. /\ Head(wire) = wire[1] /\ 1 \in 1 .. Len(wire)
        /\ \A i \in 1 .. Len(wire') :
             i \in Nat /\ i + 1 \in 1 .. Len(wire) /\ 1 < i + 1 /\ wire'[i] = wire[i + 1]
        /\ \A i, j \in 1 .. Len(wire') : i < j => i + 1 < j + 1
    BY <2>1, <1>0, FirstOut
  <2>4. \A i \in 1 .. Len(wire') : wire'[i] \in Written' /\ wire'[i].id >= lastSeen'
    <3> SUFFICES ASSUME NEW i \in 1 .. Len(wire')
                 PROVE  wire'[i] \in Written' /\ wire'[i].id >= lastSeen'
      OBVIOUS
    <3>1. wire'[i] = wire[i + 1] /\ i + 1 \in 1 .. Len(wire) /\ 1 < i + 1 /\ lastSeen' = wire[1].id
      BY <2>1, <2>3
    <3>2. wire[i + 1] \in Written
      BY <3>1 DEF SentInOrder, Sent
    <3>3. wire[i + 1] \in Written'
      BY <3>1, <3>2, <1>a
    <3>4. wire[i + 1].id >= wire[1].id
      BY <3>1, <2>3, <1>0 DEF SentInOrder, Sent
    <3> QED
      BY <3>1, <3>3, <3>4
  <2>5. \A i, j \in 1 .. Len(wire') : i < j => wire'[i].id <= wire'[j].id
    BY <2>3 DEF SentInOrder, Sent
  <2>6. Sent(wire)'
    BY <2>4, <2>5 DEF Sent
  <2>7. Head(wire) \in Written'
    BY <2>3, <1>a DEF SentInOrder, Sent
  <2> QED
    BY <2>1, <2>2, <2>6, <2>7 DEF SentInOrder, Sent
<1>6. CASE \/ Change \/ Act \/ Emit \/ BeginWrite \/ Land \/ AppendFails
           \/ Poll \/ Page \/ Acted \/ NoAnswer \/ NoResults \/ UNCHANGED vars
  <2>1. UNCHANGED <<conn, wire, lastSeen>>
    BY <1>6, OthersKeepTheLog, LogKeepsTheConnection
  <2> QED
    BY <2>1, <1>c
<1> QED
  BY <1>1, <1>2, <1>3, <1>4, <1>5, <1>6 DEF Next, Log, Stream, Actions, Faulty
\* What the page adds to its list has a greater number than all that is in it.
LEMMA ShownInOrderHolds ==
    ASSUME Shapes, SentInOrder, ShownInOrder, [Next]_vars
    PROVE  ShownInOrder'
<1>a. Written \subseteq Written'
  BY LinesStay
<1>1. CASE Receive
  <2>1. wire # <<>> /\ lastSeen' = Head(wire).id /\ shown' = Show(Head(wire))
    BY <1>1 DEF Receive
  <2> DEFINE e == Head(wire)
  <2>2. e \in Lines /\ e \in Written /\ e.id >= lastSeen
    <3>1. wire \in Seq(Lines) /\ Head(wire) = wire[1] /\ 1 \in 1 .. Len(wire) /\ Head(wire) \in Lines
      BY <2>1, FirstOut DEF Shapes
    <3> QED
      BY <3>1 DEF SentInOrder, Sent
  <2>3. lastSeen' = e.id /\ shown' = IF \E i \in 1 .. Len(shown) : shown[i].id = e.id
                                     THEN shown ELSE Append(shown, e)
    BY <2>1 DEF Show
  <2> HIDE DEF e
  <2>4. e.id \in Nat /\ lastSeen \in Nat /\ shown \in Seq(Lines) /\ Len(shown) \in Nat
    BY <2>2 DEF Shapes, Lines
  <2>5. \A i \in 1 .. Len(shown) : /\ shown[i] \in Written' /\ shown[i].id <= e.id
                                   /\ shown[i].id \in Nat
    <3> SUFFICES ASSUME NEW i \in 1 .. Len(shown)
                 PROVE  shown[i] \in Written' /\ shown[i].id <= e.id /\ shown[i].id \in Nat
      OBVIOUS
    <3>1. shown[i] \in Lines /\ shown[i] \in Written /\ shown[i].id <= lastSeen
      BY <2>4 DEF ShownInOrder
    <3> QED
      BY <3>1, <2>2, <2>4, <1>a DEF Lines
  <2>6. CASE shown' = shown
    BY <2>3, <2>5, <2>6 DEF ShownInOrder
  <2>7. CASE shown' = Append(shown, e) /\ \A i \in 1 .. Len(shown) : shown[i].id # e.id
    <3>1. /\ Len(shown') = Len(shown) + 1 /\ shown'[Len(shown) + 1] = e
          /\ \A i \in 1 .. Len(shown') : i = Len(shown) + 1 \/ (i \in 1 .. Len(shown) /\ shown'[i] = shown[i])
      BY <2>2, <2>4, <2>7, AppendedLine
    <3>2. \A i \in 1 .. Len(shown') : shown'[i] \in Written' /\ shown'[i].id <= lastSeen'
      BY <3>1, <2>2, <2>3, <2>4, <2>5, <1>a
    <3>3. \A i, j \in 1 .. Len(shown') : i < j => shown'[i].id < shown'[j].id
      <4> SUFFICES ASSUME NEW i \in 1 .. Len(shown'), NEW j \in 1 .. Len(shown'), i < j
                   PROVE  shown'[i].id < shown'[j].id
        OBVIOUS
      <4>1. i \in 1 .. Len(shown) /\ shown'[i] = shown[i]
        BY <3>1, <2>4
      <4>2. CASE j = Len(shown) + 1
        BY <4>1, <4>2, <3>1, <2>4, <2>5, <2>7
      <4>3. CASE j \in 1 .. Len(shown) /\ shown'[j] = shown[j]
        BY <4>1, <4>3 DEF ShownInOrder
      <4> QED
        BY <4>2, <4>3, <3>1
    <3> QED
      BY <3>2, <3>3 DEF ShownInOrder
  <2> QED
    BY <2>3, <2>6, <2>7
<1>2. CASE ~Receive
  <2>1. UNCHANGED <<lastSeen, shown>>
    <3>1. CASE Appended \/ Connect \/ Subscribe \/ Disconnect \/ Crash
      BY <3>1 DEF Appended, Connect, Subscribe, Disconnect, Crash
    <3>2. CASE Change \/ Act \/ Emit \/ BeginWrite \/ Land \/ AppendFails
      BY <3>2, LogKeepsTheConnection
    <3>3. CASE Poll \/ Page \/ Acted \/ NoAnswer \/ NoResults \/ UNCHANGED vars
      BY <3>3, OthersKeepTheLog
    <3> QED
      BY <3>1, <3>2, <3>3, <1>2 DEF Next, Log, Stream, Actions, Faulty
  <2>2. \A i \in 1 .. Len(shown) : shown[i] \in Written'
    BY <1>a DEF ShownInOrder
  <2> QED
    BY <2>1, <2>2 DEF ShownInOrder
<1> QED
  BY <1>1, <1>2

\* The invariant of the way from the save to the page.
WayInv == Shapes /\ WrittenOnce /\ WrittenIsSaved /\ LogInOrder /\ SentInOrder /\ ShownInOrder

LEMMA WayInit == Init => WayInv
<1> SUFFICES ASSUME Init PROVE WayInv
  OBVIOUS
<1>1. /\ version = 0 /\ due = {} /\ queue = <<>> /\ write = None /\ lastId = None /\ log = <<>>
      /\ conn = [at |-> "closed", listed |-> <<>>] /\ wire = <<>> /\ lastSeen = 0 /\ shown = <<>>
  BY DEF Init, Closed
<1>2. <<>> \in Seq(Nat) /\ <<>> \in Seq(Lines)
  OBVIOUS
<1>3. conn \in [at : {"closed", "listed", "open"}, listed : Seq(Lines)]
  BY <1>1, <1>2
<1>4. Shapes
  BY <1>1, <1>2, <1>3 DEF Shapes
<1>5. WrittenOnce /\ WrittenIsSaved /\ LogInOrder
  BY <1>1 DEF WrittenOnce, WrittenIsSaved, LogInOrder, OnDisk
<1>6. SentInOrder /\ ShownInOrder
  BY <1>1 DEF SentInOrder, ShownInOrder, Sent
<1> QED
  BY <1>4, <1>5, <1>6 DEF WayInv

LEMMA WayHolds == WayInv /\ [Next]_vars => WayInv'
BY ShapesHold, WrittenOnceHolds, LogInOrderHolds, SentInOrderHolds, ShownInOrderHolds DEF WayInv

LEMMA WayIsKept == Spec => []WayInv
BY WayInit, WayHolds, PTL DEF Spec

\* The page shows each event once and in the order of the log, whatever connections,
\* processes and appends are lost on the way: a number is given twice only if the first
\* append to have it failed (event-repository.ts), a list and the notifications after it
\* never go back behind what was received last (job-events.ts), and what has the number
\* of a shown event is not shown (JobPage.tsx).
THEOREM EventsComeInOrder == Spec => []EventsInOrder
<1>1. WayInv => EventsInOrder
  <2> SUFFICES ASSUME WayInv PROVE EventsInOrder
    OBVIOUS
  <2>1. \A i, j \in 1 .. Len(log) : i < j /\ log[i].n \notin failed => log[i].id < log[j].id
    BY DEF WayInv, LogInOrder, Before
  <2>2. \A i, j \in 1 .. Len(shown) : i < j => shown[i].id < shown[j].id
    BY DEF WayInv, ShownInOrder
  <2>3. ASSUME NEW i \in 1 .. Len(shown), NEW j \in 1 .. Len(shown), i < j
        PROVE  shown[i].n # shown[j].n
    <3>1. PICK k \in 1 .. Len(log) : log[k] = shown[i]
      BY DEF WayInv, ShownInOrder, Written
    <3>2. PICK l \in 1 .. Len(log) : log[l] = shown[j]
      BY DEF WayInv, ShownInOrder, Written
    <3>3. shown[i].id < shown[j].id /\ shown[i].id \in Nat /\ shown[j].id \in Nat
      <4>1. shown[i] \in Lines /\ shown[j] \in Lines
        BY DEF WayInv, Shapes
      <4> QED
        BY <4>1, <2>2, <2>3 DEF Lines
    <3>4. k # l
      BY <3>1, <3>2, <3>3
    <3> QED
      BY <3>1, <3>2, <3>4 DEF WayInv, WrittenOnce
  <2> QED
    BY <2>1, <2>2, <2>3 DEF EventsInOrder
<1> QED
  BY <1>1, WayIsKept, PTL

\* The request that counts was made after the last event was shown, and what it read is
\* no older; a page that has none shows a job that is no older, or an error.
Fresh ==
    /\ \A g \in gets : g.cur /\ g.read # None => \A i \in 1 .. Len(shown) : g.read >= shown[i].n
    /\ (\A g \in gets : ~g.cur) /\ ~loadError =>
         \A i \in 1 .. Len(shown) : job # None /\ job >= shown[i].n

\* Asking anew, there is a request that counts, and it has read nothing.
LEMMA AskIsFresh ==
    ASSUME Typed, Ask
    PROVE  Fresh'
<1>1. Request(TRUE, None) \in gets' /\ Request(TRUE, None).cur /\ Request(TRUE, None).read = None
  BY DEF Ask, Request
<1>2. ASSUME NEW g \in gets', g.cur
      PROVE  g = Request(TRUE, None)
  <2>1. g = Request(TRUE, None) \/ \E h \in gets : g = [h EXCEPT !.cur = FALSE]
    BY DEF Ask
  <2>2. \A h \in gets : [h EXCEPT !.cur = FALSE].cur = FALSE
    BY DEF Typed
  <2> QED
    BY <2>1, <2>2, <1>2
<1> QED
  BY <1>1, <1>2 DEF Fresh

\* Every step keeps it.
LEMMA FreshHolds ==
    ASSUME Inv, WayInv, Fresh, [Next]_vars
    PROVE  Fresh'
<1> USE EventsAssumption DEF EventsAssumption
<1>0. \A i \in 1 .. Len(shown) : shown[i].n \in Nat /\ shown[i].n <= version
  <2> SUFFICES ASSUME NEW i \in 1 .. Len(shown)
               PROVE  shown[i].n \in Nat /\ shown[i].n <= version
    OBVIOUS
  <2>1. PICK k \in 1 .. Len(log) : log[k] = shown[i]
    BY DEF WayInv, ShownInOrder, Written
  <2> QED
    <3>1. log[k] \in Lines
      BY DEF WayInv, Shapes
    <3> QED
      BY <3>1, <2>1 DEF WayInv, Lines, WrittenIsSaved
<1>1. CASE Poll \/ Receive \/ Acted
  <2>1. Ask
    BY <1>1 DEF Poll, Receive, Acted
  <2> QED
    BY <2>1, AskIsFresh DEF Inv
<1>2. CASE Serve
  <2>1. PICK g \in gets : /\ g.read = None
                          /\ gets' = (gets \ {g}) \cup {[g EXCEPT !.read = version]}
    BY <1>2 DEF Serve
  <2>2. UNCHANGED <<job, loadError, shown>>
    BY <1>2 DEF Serve, feed
  <2>3. /\ [g EXCEPT !.read = version].cur = g.cur
        /\ [g EXCEPT !.read = version].read = version
    BY DEF Inv, Typed
  <2>4. (\A h \in gets' : ~h.cur) => (\A h \in gets : ~h.cur)
    BY <2>1, <2>3
  <2>5. \A h \in gets' : h.cur /\ h.read # None => \A i \in 1 .. Len(shown) : h.read >= shown[i].n
    BY <2>1, <2>3, <1>0 DEF Fresh, Inv, Typed
  <2> QED
    BY <2>2, <2>4, <2>5 DEF Fresh
<1>3. CASE Answer
  <2>1. PICK g \in gets : /\ g.read # None /\ gets' = gets \ {g}
                          /\ IF g.cur THEN job' = g.read
                             ELSE UNCHANGED <<job, loadError>>
    BY <1>3 DEF Answer
  <2>2. UNCHANGED shown
    BY <1>3 DEF Answer, feed
  <2>3. CASE g.cur
    BY <2>1, <2>2, <2>3 DEF Fresh
  <2>4. CASE ~g.cur
    <3>1. (\A h \in gets' : ~h.cur) => (\A h \in gets : ~h.cur)
      BY <2>1, <2>4
    <3> QED
      BY <3>1, <2>1, <2>2, <2>4 DEF Fresh
  <2> QED
    BY <2>3, <2>4
<1>4. CASE NoAnswer
  <2>1. PICK g \in gets : gets' = gets \ {g} /\ loadError' = (g.cur \/ loadError)
    BY <1>4 DEF NoAnswer
  <2>2. UNCHANGED <<shown, job>>
    BY <1>4 DEF NoAnswer, feed
  <2>3. (\A h \in gets' : ~h.cur) /\ ~loadError' => (\A h \in gets : ~h.cur) /\ ~loadError
    BY <2>1
  <2> QED
    BY <2>1, <2>2, <2>3 DEF Fresh
<1>5. CASE \/ Change \/ Act \/ Log \/ Connect \/ Subscribe \/ AppendFails \/ Disconnect \/ Crash
           \/ ServeResults \/ Results \/ NoResults \/ UNCHANGED vars
  <2>1. UNCHANGED <<gets, job, loadError, shown>>
    <3>1. CASE Change \/ Act
      BY <3>1 DEF Change, Act, feed, page
    <3>2. CASE Log
      BY <3>2 DEF Log, Emit, BeginWrite, Land, Appended, feed, page
    <3>3. CASE Connect \/ Subscribe \/ Disconnect
      BY <3>3 DEF Connect, Subscribe, Disconnect, page
    <3>4. CASE AppendFails \/ Crash
      BY <3>4 DEF AppendFails, Crash, feed, page
    <3>5. CASE ServeResults \/ Results \/ NoResults
      BY <3>5 DEF ServeResults, Results, NoResults, feed
    <3>6. CASE UNCHANGED vars
      BY <3>6 DEF vars, feed, page
    <3> QED
      BY <3>1, <3>2, <3>3, <3>4, <3>5, <3>6, <1>5
  <2> QED
    BY <2>1 DEF Fresh
<1> QED
  BY <1>1, <1>2, <1>3, <1>4, <1>5 DEF Next, Stream, Page, Actions, Faulty

\* A page that waits for nothing shows a job as new as every event it shows: the event
\* comes after the save, a request is made at every event, and no answer to one before it
\* is taken (JobPage.tsx, refresh).
THEOREM QuietPagesAreFresh == Spec => []QuietPageIsFresh
<1>1. Init => Fresh
  BY DEF Init, Fresh, Request
<1>2. Inv /\ [Next]_vars => Inv'
  BY StepHolds
<1>3. Inv /\ WayInv /\ Fresh /\ [Next]_vars => Fresh'
  BY FreshHolds
<1>4. Fresh => QuietPageIsFresh
  BY DEF Fresh, QuietPageIsFresh
<1> QED
  BY <1>1, <1>2, <1>3, <1>4, InitHolds, WayIsKept, PTL DEF Spec
=================================================================================
