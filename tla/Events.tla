--------------------------------- MODULE Events ---------------------------------
(* What a person who watches a job sees. The job is saved, then the change is    *)
(* appended to the one event log under a number of its own; a connection first   *)
(* lists the log and then listens; the page shows each number once and asks for  *)
(* the job at every event, every five seconds and after each of its own actions. *)
(* Bounds: one job and one page, MaxChanges saves, MaxFaults things going wrong; *)
(* the 250 events the page keeps are more than that.                             *)
EXTENDS Naturals, Sequences, FiniteSets, SequencesExt

CONSTANTS None,
          MaxChanges,   \* bound: saves of the job
          MaxFaults,    \* bound: crashes, lost connections, failed writes and requests
          Finished      \* the saves that leave a book to look at

ASSUME EventsAssumption ==
  MaxChanges \in Nat /\ MaxFaults \in Nat /\ Finished \subseteq 1 .. MaxChanges
  /\ None \notin Nat /\ None \notin [event : [id : Nat, n : Nat], onDisk : BOOLEAN]

VARIABLES version,      \* job.json, as the number of its last save
          due,          \* saves whose event was not yet appended
          queue, write, \* EventRepository.writes: what waits, and what is being written
          lastId,       \* EventRepository.lastId
          log,          \* events.ndjson
          conn,         \* the connection, and what its list read
          wire,         \* sent and not yet received
          lastSeen,     \* the browser's Last-Event-ID
          shown,        \* the events on the page
          gets,         \* the page's requests for the job
          job,          \* the job on the page
          loads,        \* the page's requests for the results
          loadError,    \* the page says that the last request failed
          results,      \* the results on the page
          acted,        \* actionLock: an action whose answer is under way
          faults,
          failed        \* history: events whose append failed
server == <<version, due, queue, write, lastId, log, failed>>
feed == <<conn, wire, lastSeen, shown>>
page == <<gets, job, loadError, loads, results, acted>>
vars == <<server, feed, page, faults>>

Versions == 0 .. MaxChanges
Event(id, n) == [id |-> id, n |-> n]
Closed == [at |-> "closed", listed |-> <<>>]
Request(cur, read) == [cur |-> cur, read |-> read]

Init ==
  /\ version = 0 /\ due = {} /\ queue = <<>> /\ write = None /\ lastId = None /\ log = <<>>
  /\ conn = Closed /\ wire = <<>> /\ lastSeen = 0 /\ shown = <<>>
  /\ gets = {Request(TRUE, None)} /\ job = None /\ loadError = FALSE
  /\ loads = {} /\ results = None
  /\ acted = FALSE /\ faults = 0 /\ failed = {}
----------------------------------------------------------------------------
(* The server: a save, then its event; appends run one after the other. *)
Save(n) == version' = n /\ due' = due \cup {n}
Change ==
  /\ version < MaxChanges /\ Save(version + 1)
  /\ UNCHANGED <<queue, write, lastId, log, failed, feed, page, faults>>
Emit ==
  /\ \E n \in due : due' = due \ {n} /\ queue' = Append(queue, n)
  /\ UNCHANGED <<version, write, lastId, log, failed, feed, page, faults>>
\* Mutant: a new process numbers its events from one.
PreviousForgotten == IF lastId # None THEN lastId ELSE 0
Previous == IF lastId # None THEN lastId ELSE IF log = <<>> THEN 0 ELSE Last(log).id
BeginWrite ==
  /\ write = None /\ queue # <<>>
  /\ write' = [event |-> Event(Previous + 1, Head(queue)), onDisk |-> FALSE]
  /\ queue' = Tail(queue)
  /\ UNCHANGED <<version, due, lastId, log, failed, feed, page, faults>>
\* The line is there for every reader before it is synced.
Land ==
  /\ write # None /\ ~write.onDisk
  /\ log' = Append(log, write.event) /\ write' = [write EXCEPT !.onDisk = TRUE]
  /\ UNCHANGED <<version, due, queue, lastId, failed, feed, page, faults>>
Notify(e) == wire' = IF conn.at = "open" THEN Append(wire, e) ELSE wire
Appended ==
  /\ write # None /\ write.onDisk
  /\ lastId' = write.event.id /\ Notify(write.event) /\ write' = None
  /\ UNCHANGED <<version, due, queue, log, failed, conn, lastSeen, shown, page, faults>>
Fault == faults < MaxFaults /\ faults' = faults + 1
\* A write or a sync that fails: the event is lost to its caller, its line may be there.
AppendFails ==
  /\ Fault /\ write # None /\ write' = None /\ failed' = failed \cup {write.event.n}
  /\ UNCHANGED <<version, due, queue, lastId, log, feed, page>>
----------------------------------------------------------------------------
(* The connection. *)
\* list: the lines of the log whose number is above id.
Since(id) ==
  LET read[n \in 0 .. Len(log)] ==
        IF n = 0 THEN <<>>
        ELSE IF log[n].id > id THEN Append(read[n - 1], log[n]) ELSE read[n - 1]
  IN  read[Len(log)]
Connect ==
  /\ conn.at = "closed"
  /\ conn' = [at |-> "listed", listed |-> Since(lastSeen)]
  /\ UNCHANGED <<server, wire, lastSeen, shown, page, faults>>
Subscribe ==
  /\ conn.at = "listed" /\ wire' = conn.listed /\ conn' = [at |-> "open", listed |-> <<>>]
  /\ UNCHANGED <<server, lastSeen, shown, page, faults>>
Lost == conn' = Closed /\ wire' = <<>>
Disconnect ==
  /\ Fault /\ conn.at # "closed" /\ Lost
  /\ UNCHANGED <<server, lastSeen, shown, page>>
\* The process dies with its queue, its numbers and its connections; saves stay.
Crash ==
  /\ Fault /\ due' = {} /\ queue' = <<>> /\ write' = None /\ lastId' = None /\ Lost
  /\ UNCHANGED <<version, log, failed, lastSeen, shown, page>>
----------------------------------------------------------------------------
(* The page. *)
\* refresh: a new request makes the ones before it stale (refreshVersion).
\* Mutant: it does not.
AskBeside == gets' = gets \cup {Request(TRUE, None)}
Ask == gets' = {[g EXCEPT !.cur = FALSE] : g \in gets} \cup {Request(TRUE, None)}
Show(e) == IF \E i \in 1 .. Len(shown) : shown[i].id = e.id THEN shown ELSE Append(shown, e)
\* Mutant: an event is put on the page, and the job is left to the next poll.
ReceiveSilently ==
  /\ wire # <<>>
  /\ lastSeen' = Head(wire).id /\ shown' = Show(Head(wire)) /\ wire' = Tail(wire)
  /\ UNCHANGED <<server, conn, page, faults>>
Receive ==
  /\ wire # <<>>
  /\ lastSeen' = Head(wire).id /\ shown' = Show(Head(wire)) /\ wire' = Tail(wire)
  /\ Ask
  /\ UNCHANGED <<server, conn, job, loadError, loads, results, acted, faults>>
\* Requests are answered within the five seconds between two polls.
Poll ==
  /\ (\A g \in gets : ~g.cur) /\ Ask
  /\ UNCHANGED <<server, feed, job, loadError, loads, results, acted, faults>>
Serve ==
  /\ \E g \in gets : g.read = None /\ gets' = (gets \ {g}) \cup {[g EXCEPT !.read = version]}
  /\ UNCHANGED <<server, feed, job, loadError, loads, results, acted, faults>>
Built(v) == v \in Finished
\* Mutant: a job that did not change asks for no results.
LoadsOnce(v) == IF Built(v) /\ job # v THEN loads \cup {None} ELSE loads
Loads(v) == IF Built(v) THEN loads \cup {None} ELSE loads
\* The book is there: its results are asked for at every look at the job, in no order.
Answer ==
  /\ \E g \in gets :
       /\ g.read # None /\ gets' = gets \ {g}
       /\ IF g.cur
          THEN /\ job' = g.read /\ loadError' = FALSE
               /\ loads' = Loads(g.read)
          ELSE UNCHANGED <<job, loadError, loads>>
  /\ UNCHANGED <<server, feed, results, acted, faults>>
NoAnswer ==
  /\ Fault
  /\ \E g \in gets : gets' = gets \ {g} /\ loadError' = (g.cur \/ loadError)
  /\ UNCHANGED <<server, feed, job, loads, results, acted>>
ServeResults ==
  /\ None \in loads /\ loads' = (loads \ {None}) \cup {version}
  /\ UNCHANGED <<server, feed, gets, job, loadError, results, acted, faults>>
Results ==
  /\ \E v \in loads \ {None} : results' = v /\ loads' = loads \ {v}
  /\ UNCHANGED <<server, feed, gets, job, loadError, acted, faults>>
NoResults ==
  /\ Fault /\ \E v \in loads : loads' = loads \ {v}
  /\ UNCHANGED <<server, feed, gets, job, loadError, results, acted>>

\* A button: the job is saved, the page hears of it and asks for the job.
Act ==
  /\ ~acted /\ job # None /\ version < MaxChanges /\ Save(version + 1) /\ acted' = TRUE
  /\ UNCHANGED <<queue, write, lastId, log, failed, feed, gets, job, loadError, loads, results, faults>>
Acted ==
  /\ acted /\ acted' = FALSE /\ Ask
  /\ UNCHANGED <<server, feed, job, loadError, loads, results, faults>>
Log == Emit \/ BeginWrite \/ Land \/ Appended
Stream == Connect \/ Subscribe \/ Receive
Page == Serve \/ Answer \/ ServeResults \/ Results
Actions == Act \/ Acted
Faulty == AppendFails \/ Disconnect \/ Crash \/ NoAnswer \/ NoResults
Next == Change \/ Log \/ Stream \/ Poll \/ Page \/ Actions \/ Faulty
Spec == Init /\ [][Next]_vars
\* Timers fire and requests are answered, each of them and not only some.
FairSpec ==
  /\ Spec /\ WF_vars(Poll) /\ WF_vars(Serve) /\ WF_vars(Answer)
  /\ WF_vars(ServeResults) /\ WF_vars(Results) /\ WF_vars(Receive) /\ WF_vars(Acted)
----------------------------------------------------------------------------
TypeOK ==
  /\ version \in Versions /\ due \subseteq Versions /\ lastId \in Nat \cup {None}
  /\ conn.at \in {"closed", "listed", "open"}
  /\ (conn.at # "open" => wire = <<>>)
  /\ Cardinality({g \in gets : g.cur}) \in 0 .. 1
  /\ job \in Versions \cup {None} /\ results \in Versions \cup {None}
  /\ loads \subseteq Versions \cup {None}

\* The page shows each event once and in the order of the log, through lost connections,
\* replays, restarts of the server and appends that fail after their line was written; and
\* no line has the number of another but one whose append failed (event-repository.ts).
EventsInOrder ==
  /\ \A i, j \in 1 .. Len(log) : i < j /\ log[i].n \notin failed => log[i].id < log[j].id
  /\ \A i, j \in 1 .. Len(shown) : i < j =>
       shown[i].id < shown[j].id /\ shown[i].n # shown[j].n

\* A page that waits for nothing shows a job at least as new as every event it shows: the
\* save is before the event, and no answer to an earlier question is the last word.
QuietPageIsFresh ==
  (gets = {} /\ ~loadError) => \A i \in 1 .. Len(shown) : job # None /\ job >= shown[i].n

\* The job on the page never goes back, whatever the order of the answers
\* (JobPage.tsx, refreshVersion).
NeverBackwards == [][job # None => job' >= job]_job

\* Once the job stays as it is, the page comes to show it, and the results of a book that
\* is there, whatever was missed, lost or answered out of order.
RestShown == <>[](job = version /\ (Built(version) => results = version))

\* What was received last is where a new connection begins: all before it was received
\* (docs/001-book-translation-mvp/quickstart.md, "support reconnect from Last-Event-ID").
NothingSkipped ==
  \A i \in 1 .. Len(log) :
    log[i].id <= lastSeen => \E j \in 1 .. Len(shown) : shown[j].n = log[i].n
=============================================================================
