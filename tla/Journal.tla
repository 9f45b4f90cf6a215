------------------------------ MODULE Journal ------------------------------
(***************************************************************************)
(* A journal of JSON lines: src/server/storage/ndjson-journal.ts, and      *)
(* filterJournal of src/server/jobs/job-orchestrator.ts, which rewrites    *)
(* one.                                                                    *)
(*                                                                         *)
(* A file is a sequence of pieces.  The text of record r is <<r, 1>>,      *)
(* <<r, 2>>, of which neither parses alone; NL is the newline.  Writes     *)
(* reach the file piece by piece and the disk when it is synced, so a      *)
(* fault or a crash can come between any two pieces.  The copies that      *)
(* repairTail keeps in <path>.torn are read by nobody and left out.        *)
(***************************************************************************)
EXTENDS Naturals, Sequences, SequencesExt, FiniteSets

CONSTANTS Records,      \* each is appended at most once
          Batches, Batch,
          NL,
          Legacy,       \* the files a process can find
          MaxFaults,    \* bound: failing file operations
          MaxCrashes,   \* bound: crashes
          MaxFilters,   \* bound: rewrites
          PowerLosses   \* a crash may be a power loss

Pieces == (Records \X (1..2)) \cup {NL}

ASSUME ConstantsAssumption ==
    /\ Batch \in [Records -> Batches]
    /\ NL \notin Records \X (1..2)
    /\ Legacy \subseteq Seq(Pieces)
    /\ MaxFaults \in Nat /\ MaxCrashes \in Nat /\ MaxFilters \in Nat
    /\ PowerLosses \in BOOLEAN

VARIABLES
    file,        \* the file as processes see it
    durable,     \* the file as of the last sync
    queue,       \* the chain of appends of this path
    at,          \* 0, or 1 + the pieces its first one has written
    rewrite,     \* the records the rewrite in progress has still to write
    put,         \* the pieces of the first of them it has written
    rewritten,   \* durable is from before a rewrite
    faults, crashes, filters,
  \* History.
    asked,       \* records whose append was called
    owed,        \* records acknowledged, or found, and not filtered out
    lossy        \* a fault or crash cut a rewrite short

disk == <<file, durable, rewritten>>
process == <<queue, at, rewrite, put>>
counts == <<faults, crashes, filters>>
history == <<asked, owed, lossy>>
vars == <<disk, process, counts, history>>

Line(r) == << <<r, 1>>, <<r, 2>>, NL >>

\* A line of f begins at i.
Begins(f, i) == i = 1 \/ f[i - 1] = NL

\* The line that begins at i is the text of a record.
Whole(f, i) ==
    /\ Begins(f, i) /\ i + 1 \in DOMAIN f
    /\ \E r \in Records : f[i] = <<r, 1>> /\ f[i + 1] = <<r, 2>>
    /\ i + 2 \in DOMAIN f => f[i + 2] = NL

\* readJournal: lines that do not parse are skipped, wherever they are.
\* Upto(f)[n] are the records whose text is among the first n pieces.
Upto(f) ==
    LET upto[n \in 0..Len(f)] ==
          IF n = 0 THEN <<>>
          ELSE IF n > 1 /\ Whole(f, n - 1) THEN Append(upto[n - 1], f[n - 1][1])
          ELSE upto[n - 1]
    IN  upto
Readable(f) == Upto(f)[Len(f)]

LastNewline(f) == CHOOSE n \in 0..Len(f) : /\ n = 0 \/ f[n] = NL
                                           /\ \A m \in n + 1..Len(f) : f[m] # NL

\* Mutant of Repaired: appends go after whatever is there.
Unrepaired(f) == f

\* repairTail: a whole record only lacks its newline, anything else is cut.
Repaired(f) ==
    LET cut == LastNewline(f)
    IN  IF cut = Len(f) THEN f
        ELSE IF Whole(f, cut + 1) THEN Append(f, NL)
        ELSE SubSeq(f, 1, cut)
-----------------------------------------------------------------------------
Init == /\ file \in Legacy /\ durable = file /\ rewritten = FALSE
        /\ queue = <<>> /\ at = 0 /\ rewrite = <<>> /\ put = 0
        /\ faults = 0 /\ crashes = 0 /\ filters = 0
        /\ asked = Range(Readable(file)) /\ owed = asked
        /\ lossy = FALSE

\* appendJournal.  A job appends while it runs and rewrites while it does
\* not: invalidate refuses a job that has an entry.  Nothing in this file
\* enforces it, and how far the callers do is the question of JobOrchestrator.
Request(r) ==
    /\ r \notin asked /\ rewrite = <<>>
    /\ asked' = asked \cup {r}
    /\ queue' = Append(queue, r)
    /\ UNCHANGED <<disk, at, rewrite, put, counts, owed, lossy>>

\* writeLine of the first append in the chain: open and repair,
Open ==
    /\ queue # <<>> /\ at = 0
    /\ file' = Repaired(file)
    /\ at' = 1
    /\ UNCHANGED <<durable, rewritten, queue, rewrite, put, counts, history>>

\* write,
Write ==
    /\ at \in 1..3
    /\ file' = Append(file, Line(Head(queue))[at])
    /\ at' = at + 1
    /\ UNCHANGED <<durable, rewritten, queue, rewrite, put, counts, history>>

\* Mutant of Sync: the append resolves without it.
NoSync ==
    /\ at = 4
    /\ owed' = owed \cup {Head(queue)}
    /\ queue' = Tail(queue) /\ at' = 0
    /\ UNCHANGED <<disk, rewrite, put, counts, asked, lossy>>

\* sync, and resolve.
Sync ==
    /\ at = 4
    /\ durable' = file /\ rewritten' = FALSE
    /\ owed' = owed \cup {Head(queue)}
    /\ queue' = Tail(queue) /\ at' = 0
    /\ UNCHANGED <<file, rewrite, put, counts, asked, lossy>>

\* Any of these file operations fails: the append rejects and leaves in the
\* file what it wrote.  The chain goes on.
Fail ==
    /\ queue # <<>> /\ faults < MaxFaults
    /\ faults' = faults + 1
    /\ queue' = Tail(queue) /\ at' = 0
    /\ UNCHANGED <<disk, rewrite, put, crashes, filters, history>>

\* The records that are not of the batches bs.
Kept(records, bs) ==
    LET kept[n \in 0..Len(records)] ==
          IF n = 0 THEN <<>>
          ELSE IF Batch[records[n]] \in bs THEN kept[n - 1]
          ELSE Append(kept[n - 1], records[n])
    IN  kept[Len(records)]

\* filterJournal for the batches bs: one, or all of them.  writeFile empties
\* the file before it writes; rm leaves none.
Filter(bs) ==
    /\ queue = <<>> /\ rewrite = <<>> /\ filters < MaxFilters
    /\ filters' = filters + 1
    /\ rewrite' = Kept(Readable(file), bs)
    /\ file' = <<>> /\ rewritten' = TRUE
    /\ owed' = {r \in owed : Batch[r] \notin bs}
    /\ UNCHANGED <<durable, queue, at, put, faults, crashes, asked, lossy>>

FilterWrite ==
    /\ rewrite # <<>>
    /\ file' = Append(file, Line(Head(rewrite))[put + 1])
    /\ IF put < 2 THEN put' = put + 1 /\ UNCHANGED rewrite
                  ELSE put' = 0 /\ rewrite' = Tail(rewrite)
    /\ UNCHANGED <<durable, rewritten, queue, at, counts, history>>

\* An operation of the rewrite fails: invalidate throws.
FilterFail ==
    /\ rewrite # <<>> /\ faults < MaxFaults
    /\ faults' = faults + 1
    /\ rewrite' = <<>> /\ put' = 0 /\ lossy' = TRUE
    /\ UNCHANGED <<disk, queue, at, crashes, filters, asked, owed>>
-----------------------------------------------------------------------------
Forget == /\ crashes < MaxCrashes /\ crashes' = crashes + 1
          /\ queue' = <<>> /\ at' = 0 /\ rewrite' = <<>> /\ put' = 0
          /\ UNCHANGED <<faults, filters, asked, owed>>

\* The process is killed; the file is as it left it.
Kill == /\ Forget
        /\ lossy' = (lossy \/ rewrite # <<>>)
        /\ UNCHANGED disk

\* How much of the file is on the disk: all that is as it was synced, and of
\* what was written since any first part.
Lasting == {n \in 0..Len(file) : \/ rewritten \/ n = Len(file)
                                 \/ ~IsPrefix(SubSeq(file, 1, n + 1), durable)}

\* The machine stops: it is that, or what was synced.
PowerLoss ==
    /\ PowerLosses
    /\ Forget
    /\ lossy' = (lossy \/ rewritten)
    /\ file' \in {durable} \cup {SubSeq(file, 1, n) : n \in Lasting}
    /\ durable' = file' /\ rewritten' = FALSE

Next == \/ \E r \in Records : Request(r)
        \/ Open \/ Write \/ Sync \/ Fail
        \/ \E bs \in {{b} : b \in Batches} \cup {Batches} : Filter(bs)
        \/ FilterWrite \/ FilterFail
        \/ Kill \/ PowerLoss

Spec == Init /\ [][Next]_vars
-----------------------------------------------------------------------------
TypeOK ==
    /\ {file, durable} \subseteq Seq(Pieces)
    /\ rewrite \in Seq(Records) /\ put \in 0..2
    /\ queue \in Seq(Records) /\ at \in 0..4
    /\ at # 0 => queue # <<>>
    /\ owed \subseteq asked /\ asked \subseteq Records
    /\ {rewritten, lossy} \subseteq BOOLEAN
    /\ {faults, crashes, filters} \subseteq Nat

\* The journal implements the abstract log: a reader sees exactly the whole
\* records, each from the moment its text is complete, in order; an append
\* that fails, and whatever it leaves behind, costs no other one; and a crash
\* forgets no record that was acknowledged (repairTail and appendJournal,
\* src/server/storage/ndjson-journal.ts:5-59).
L == INSTANCE Log WITH
        log <- Readable(file), saved <- Readable(durable), queue <- queue,
        landed <- at \in {3, 4}, rewritten <- rewritten,
        rest <- IF put = 2 THEN Tail(rewrite) ELSE rewrite
ImplementsLog == L!Spec

\* A record that was acknowledged, and whose batch was not invalidated since,
\* is read again after any number of faults and crashes, unless one of them
\* cut a rewrite of the journal short.
AckedSurvive == rewrite = <<>> /\ ~lossy => owed \subseteq Range(Readable(file))

\* As the product's requirements have it (docs/trucheman-prd.md:178), journal
\* operations tolerate abrupt process termination: also a rewrite keeps the
\* records of the batches that were not invalidated.
KeptSurvive == rewrite = <<>> => owed \subseteq Range(Readable(file))
=============================================================================
