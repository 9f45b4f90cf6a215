---------------------------- MODULE Checkpoints ----------------------------
(***************************************************************************)
(* Checkpoints of paid work: runQualityPipeline in                         *)
(* src/server/jobs/job-runner.ts, with the operations of the job that      *)
(* decide which journal records a run may reuse.                           *)
(*                                                                         *)
(* A batch goes through translation and editing and, in high quality,      *)
(* audit and, when the critic finds something, repair.  Every answer is    *)
(* paid for once and appended to the journal of its stage.  A record is    *)
(* found again by its key, a hash of all that went into the prompt, or,    *)
(* when the run believes the source to be the one of the last run, by its  *)
(* batch's positional id.  A provider's answer is named by the key it      *)
(* answers: a record is its key and, for the critic, whether it is due a   *)
(* repair.                                                                 *)
(*                                                                         *)
(* Handlers are atomic here: JobOrchestrator shows how they interleave.    *)
(***************************************************************************)
EXTENDS Naturals, Sequences, SequencesExt, FiniteSets

CONSTANTS MaxSize,     \* bound: batches in the book
          Texts,       \* the texts a batch can have
          Shape,       \* Shape[t]: the segment ids of text t
          Contexts,    \* what prompts carry besides the text: card, glossary
          Workers,     \* batches in flight at once
          None,        \* "no fingerprint yet"
          MaxRuns,     \* bound: starts
          MaxChanges   \* bound: replaced sources and invalidations

ASSUME ConstantsAssumption ==
    /\ MaxSize \in Nat \ {0} /\ Workers \in Nat \ {0}
    /\ MaxRuns \in Nat /\ MaxChanges \in Nat
    /\ DOMAIN Shape = Texts
    /\ None \notin [1..MaxSize -> Texts]

Stages == 1..4          \* translation, editing, audit, repair
Qualities == {"standard", "high"}

VARIABLES
    size, quality,   \* the job: its batches 1..size, its qualityMode
    src,             \* src[b]: the text of batch b in source.epub
    fingerprint,     \* job.sourceFingerprint
    journal,         \* journal[s]: the records of stage s, oldest first
    status,          \* the job's status
    run,             \* the executing run, or NoRun
    items,           \* batches in flight, those of runs that have ended too
    out,             \* out[b]: the answers the run's text of b is made of
    runs, changes,   \* how many there have been
  \* History.
    calls,           \* calls[b][s]: answers asked for since b was invalidated
                     \* or given another text
    losses,          \* losses[b]: how often work on b was cut off
    late,            \* an answer was journaled for a text replaced meanwhile
    mixed,           \* a run that could not trust positional ids did not do
                     \* every batch to the end
    returned,        \* a batch was given a text again that there is work on
    drifted          \* a run that could not trust positional ids began with
                     \* other prompts than the records it found were asked with

job == <<size, quality, src, fingerprint, status>>
work == <<run, items, out>>
counts == <<runs, changes>>
history == <<calls, losses, late, mixed, returned, drifted>>
vars == <<job, journal, work, counts, history>>

Batches == 1..size

NoRun == [id |-> 0, recover |-> FALSE, context |-> None,
          seen |-> [s \in Stages |-> <<>>], next |-> 1, aborted |-> FALSE]

Empty == [s \in Stages |-> <<>>]

Unpaid == [b \in 1..MaxSize |-> [s \in Stages |-> 0]]

Init ==
    /\ size \in 1..MaxSize /\ quality \in Qualities
    /\ src \in [1..MaxSize -> Texts]
    /\ fingerprint = None
    /\ journal = Empty
    /\ status = "created"
    /\ run = NoRun /\ items = {} /\ out = [b \in 1..MaxSize |-> <<>>]
    /\ runs = 0 /\ changes = 0
    /\ calls = Unpaid /\ losses = [b \in 1..MaxSize |-> 0]
    /\ late = FALSE /\ mixed = FALSE /\ returned = FALSE /\ drifted = FALSE

-----------------------------------------------------------------------------
(* Reusing records. *)

\* The records of batch b that a run of context c would have made itself, had it
\* asked for its present text at every stage.
Own(b, c) ==
    LET record(chain, found) == [batch |-> b, text |-> src[b], context |-> c,
                                 chain |-> chain, repair |-> found]
        draft == record(<<>>, FALSE)
        edit  == record(<<draft>>, FALSE)
        audit(found) == record(<<draft, edit>>, found)
    IN  <<{draft}, {edit}, {audit(FALSE), audit(TRUE)},
          {record(<<draft, edit, audit(TRUE)>>, FALSE)}>>

\* Some record for the present text was asked for with something else in its prompt.
Foreign(c) ==
    \E s \in Stages : \E k \in ToSet(journal[s]) :
       k.text = src[k.batch] /\ k \notin Own(k.batch, c)[s]

\* checkpointKey: everything that is in the prompt of the item's next stage.
Key(i) == [batch |-> i.batch, text |-> i.text, context |-> i.context,
           chain |-> i.chain, repair |-> FALSE]

KeyOf(k) == [k EXCEPT !.repair = FALSE]

StageOf(i) == Len(i.chain) + 1

\* Of the records at these places a Map keeps the last: at most one.
LastAt(records, places) ==
    {records[n] : n \in {m \in places : \A p \in places : p <= m}}

\* checkpointBatchMap: the batch's last record in a journal.
LastOf(records, b) == LastAt(records, {n \in DOMAIN records : records[n].batch = b})

\* compatibleCheckpoint: the same segment ids in the same order.
Compatible(k, t) == Shape[k.text] = Shape[t]

\* Mutant of Saved: a run that cannot trust positional ids looks for no key either.
SavedIfTrusted(i) ==
    IF i.recover
    THEN {k \in LastOf(i.seen[StageOf(i)], i.batch) : Compatible(k, i.text)}
    ELSE {}

\* The record that answers the item's next stage: at most one.
Saved(i) ==
    LET records == i.seen[StageOf(i)]
        keyed   == LastAt(records, {n \in DOMAIN records : KeyOf(records[n]) = Key(i)})
    IN
    IF keyed # {} THEN keyed
    ELSE IF i.recover THEN {k \in LastOf(records, i.batch) : Compatible(k, i.text)}
    ELSE {}

-----------------------------------------------------------------------------
(* Operations on the resting job. *)

AtRest == status # "running"

Changes == changes < MaxChanges /\ changes' = changes + 1

\* What filterJournal leaves of a journal: the records of the other batches.
Kept(records, some) ==
    LET kept[n \in 0..Len(records)] ==
          IF n = 0 THEN <<>>
          ELSE IF records[n].batch \in some THEN kept[n - 1]
          ELSE Append(kept[n - 1], records[n])
    IN  kept[Len(records)]

\* filterJournal, for the batches of `some', on every journal from stage s down.
Filter(s, some) ==
    /\ journal' = [z \in Stages |->
                     IF z < s THEN journal[z]
                     ELSE Kept(journal[z], some)]
    /\ calls' = [b \in 1..MaxSize |-> [z \in Stages |->
                   IF z >= s /\ b \in some THEN 0 ELSE calls[b][z]]]

\* The new source gives a batch a text that records or batches in flight are for.
GoesBack ==
    \E b \in Batches :
      /\ src'[b] # src[b]
      /\ \/ \E s \in Stages : \E k \in ToSet(journal'[s]) : k.batch = b /\ k.text = src'[b]
         \/ \E i \in items : i.batch = b /\ i.text = src'[b]

\* Of a batch that is given another text no call counts any more.
Recounted ==
    calls' = [b \in 1..MaxSize |->
                IF src'[b] = src[b] THEN calls[b] ELSE [s \in Stages |-> 0]]

\* PUT source: a used job is invalidated, then the EPUB is replaced.
Upload ==
    /\ AtRest /\ Changes
    /\ src' \in [1..MaxSize -> Texts]
    /\ IF status = "created" THEN UNCHANGED journal /\ Recounted
                             ELSE Filter(1, 1..MaxSize)
    /\ status' = "created" /\ returned' = (returned \/ GoesBack)
    /\ UNCHANGED <<size, quality, fingerprint, work, runs, losses, late,
                   mixed, drifted>>

\* A workspace is read again: the journals are kept.
Refresh ==
    /\ AtRest /\ Changes
    /\ src' \in [1..MaxSize -> Texts]
    /\ UNCHANGED journal /\ Recounted
    /\ status' = "created" /\ returned' = (returned \/ GoesBack)
    /\ UNCHANGED <<size, quality, fingerprint, work, runs, losses,
                   late, mixed, drifted>>

\* POST invalidate, for one batch or for all, from translation, editing or audit.
Invalidate ==
    /\ AtRest /\ Changes
    /\ \E from \in 1..3, some \in SUBSET Batches :
          /\ some = Batches \/ Cardinality(some) = 1
          /\ Filter(from, some)
    /\ status' = IF fingerprint = None THEN "created" ELSE "ready"
    /\ UNCHANGED <<size, quality, src, fingerprint, work, runs, losses, late,
                   mixed, returned, drifted>>

\* Mutant of AnalyzedSource: analysis overwrites the fingerprint.
OverwrittenSource == src

\* A fingerprint that is there is kept: it is the source as of the last run.
AnalyzedSource == IF fingerprint = None THEN src ELSE fingerprint

Analyze ==
    /\ AtRest
    /\ status' = "ready"
    /\ fingerprint' = AnalyzedSource
    /\ UNCHANGED <<size, quality, src, journal, work, counts, history>>

\* May a run find records by their positional ids?
SameSource == fingerprint \in {None, src}

\* Start, resume or retry.  The preflight of the run decides the context.
Start ==
    /\ AtRest /\ status # "created" /\ runs < MaxRuns
    /\ runs' = runs + 1
    /\ \E c \in Contexts :
          /\ run' = [id |-> runs', recover |-> SameSource,
                     context |-> c, seen |-> journal, next |-> 1, aborted |-> FALSE]
          /\ drifted' = (drifted \/ (~SameSource /\ Foreign(c)))
    /\ fingerprint' = src
    /\ out' = [b \in 1..MaxSize |-> <<>>]
    /\ status' = "running"
    /\ UNCHANGED <<size, quality, src, journal, items, changes, calls, losses,
                   late, mixed, returned>>

\* Pause aborts the run's controller.
Pause ==
    /\ status = "running" /\ ~run.aborted
    /\ run' = [run EXCEPT !.aborted = TRUE]
    /\ items' = {[i EXCEPT !.aborted = @ \/ i.run = run.id] : i \in items}
    /\ UNCHANGED <<job, journal, out, counts, history>>

-----------------------------------------------------------------------------
(* The worker pool. *)

Ours == {i \in items : i.run = run.id}

Current(i) == status = "running" /\ i.run = run.id

Becomes(i, j) == items' = (items \ {i}) \cup {j}

\* A worker with nothing to do takes the next batch of the queue.
Claim ==
    /\ status = "running" /\ ~run.aborted /\ run.next <= size
    /\ Cardinality(Ours) < Workers
    /\ items' = items \cup
         {[run |-> run.id, batch |-> run.next, text |-> src[run.next],
           context |-> run.context, recover |-> run.recover, seen |-> run.seen,
           chain |-> <<>>, asked |-> FALSE, aborted |-> FALSE]}
    /\ run' = [run EXCEPT !.next = @ + 1]
    /\ UNCHANGED <<job, journal, out, counts, history>>

\* Is there another stage for item i?  A repair is due when the audit says so: what
\* a scan of the audited texts adds to its findings is the same whenever the audit
\* is found by its key, and is part of the record's flag here.
Due(i) ==
    \/ StageOf(i) <= 2
    \/ StageOf(i) = 3 /\ quality = "high"
    \/ StageOf(i) = 4 /\ i.chain[3].repair

Reuse(i) ==
    /\ Due(i) /\ ~i.asked /\ ~i.aborted
    /\ \E k \in Saved(i) : Becomes(i, [i EXCEPT !.chain = Append(@, k)])
    /\ UNCHANGED <<job, journal, run, out, counts, history>>

Ask(i) ==
    /\ Due(i) /\ ~i.asked /\ ~i.aborted /\ Saved(i) = {}
    /\ Becomes(i, [i EXCEPT !.asked = TRUE])
    /\ calls' = [calls EXCEPT ![i.batch][StageOf(i)] = @ + 1]
    /\ UNCHANGED <<job, journal, run, out, counts, losses, late,
                   mixed, returned, drifted>>

\* Mutant of Journaled: the answer is used without being written down.
Unsaved(s, k) == UNCHANGED journal

\* appendJournal, to the journal of stage s.
Journaled(s, k) == journal' = [journal EXCEPT ![s] = Append(@, k)]

\* The answer is journaled before it is used, whatever has happened meanwhile.
Answer(i) ==
    /\ i.asked
    /\ \E found \in IF StageOf(i) = 3 THEN BOOLEAN ELSE {FALSE} :
         LET k == [Key(i) EXCEPT !.repair = found] IN
         /\ Journaled(StageOf(i), k)
         /\ Becomes(i, [i EXCEPT !.asked = FALSE, !.chain = Append(@, k)])
    /\ late' = (late \/ i.text # src[i.batch])
    /\ UNCHANGED <<job, run, out, counts, calls, losses,
                   mixed, returned, drifted>>

\* A repair the provider cannot answer leaves the edited text as it is.
RepairFails(i) ==
    /\ i.asked /\ StageOf(i) = 4 /\ ~i.aborted
    /\ items' = items \ {i}
    /\ out' = IF Current(i) THEN [out EXCEPT ![i.batch] = i.chain] ELSE out
    /\ losses' = [losses EXCEPT ![i.batch] = @ + 1]
    /\ mixed' = (mixed \/ ~i.recover)
    /\ UNCHANGED <<job, journal, run, counts, calls, late, returned,
                   drifted>>

BatchDone(i) ==
    /\ ~Due(i)
    /\ items' = items \ {i}
    /\ out' = IF Current(i) THEN [out EXCEPT ![i.batch] = i.chain] ELSE out
    /\ UNCHANGED <<job, journal, run, counts, history>>

\* The run is cut off: its memory is gone, except in the batches in flight.
Ends ==
    /\ run' = NoRun /\ out' = [b \in 1..MaxSize |-> <<>>]
    /\ mixed' = (mixed \/ ~run.recover)

CutOff(cut) ==
    losses' = [b \in 1..MaxSize |->
                 losses[b] + Cardinality({i \in cut : i.batch = b})]

\* The provider gave up, or a stage saw the abort.  The first batch to fail ends
\* the run; the other workers finish the batches they hold.
Fails(i) ==
    /\ i.aborted \/ (i.asked /\ StageOf(i) # 4)
    /\ items' = items \ {i}
    /\ IF Current(i)
       THEN /\ status' = IF run.aborted THEN "paused" ELSE "failed"
            /\ Ends /\ CutOff(Ours)
       ELSE UNCHANGED <<status, run, out, losses, mixed>>
    /\ UNCHANGED <<size, quality, src, fingerprint, journal, counts, calls, late,
                   returned, drifted>>

\* An aborted run with no batch in flight stops at its next check.
Stops ==
    /\ status = "running" /\ run.aborted /\ Ours = {}
    /\ status' = "paused" /\ Ends
    /\ UNCHANGED <<size, quality, src, fingerprint, journal, items, counts,
                   calls, losses, late, returned, drifted>>

\* Every worker has returned.
Complete ==
    /\ status = "running" /\ ~run.aborted
    /\ run.next > size /\ Ours = {}
    /\ status' = "completed" /\ run' = NoRun
    /\ UNCHANGED <<size, quality, src, fingerprint, journal, items, out, counts,
                   history>>

\* The process dies; start-up recovery marks the job paused.
Crash ==
    /\ status = "running" \/ items # {}
    /\ status' = IF status = "running" THEN "paused" ELSE status
    /\ items' = {} /\ CutOff(items)
    /\ IF status = "running" THEN Ends ELSE UNCHANGED <<run, out, mixed>>
    /\ UNCHANGED <<size, quality, src, fingerprint, journal, counts, calls, late,
                   returned, drifted>>

Item(i) ==
    Reuse(i) \/ Ask(i) \/ Answer(i) \/ RepairFails(i) \/ BatchDone(i) \/ Fails(i)

Running ==
    \/ Start \/ Pause \/ Crash
    \/ Claim \/ Stops \/ Complete
    \/ \E i \in items : Item(i)

Next == Upload \/ Refresh \/ Invalidate \/ Analyze \/ Running

Spec == Init /\ [][Next]_vars

-----------------------------------------------------------------------------
(* Properties. *)

Statuses == {"created", "ready", "running", "paused", "failed", "completed"}

IsKey(k) == /\ k.batch \in Batches /\ k.text \in Texts
            /\ k.context \in Contexts /\ Len(k.chain) < 4

\* Every variable holds a value of its kind.
TypeOK ==
    /\ src \in [1..MaxSize -> Texts]
    /\ fingerprint \in [1..MaxSize -> Texts] \cup {None}
    /\ \A s \in Stages : \A k \in ToSet(journal[s]) :
          IsKey(k) /\ Len(k.chain) = s - 1
    /\ status \in Statuses
    /\ Cardinality(Ours) <= Workers
    /\ \A i \in items : IsKey(Key(i)) \/ Len(i.chain) = 4
    /\ \A b \in 1..MaxSize : Len(out[b]) <= 4
    /\ runs <= MaxRuns /\ changes <= MaxChanges

\* Every batch is there, in answers asked for the text the source has now.
Fresh ==
    \A b \in Batches :
       out[b] # <<>> /\ \A n \in DOMAIN out[b] : out[b][n].text = src[b]

\* However often runs were paused, failed, crashed, continued with other
\* contexts or partly invalidated, and the source uploaded or re-read between
\* them, a completed book is whole and none of its batches is the translation of
\* an older text: as long as the first run on a re-read source is not cut off,
\* no worker of a failed run answers late, and no batch gets a text back that it
\* was translated from before (its keyed record is used again and not appended, so
\* the text in between keeps the last record of the batch).
TrustedBookIsFresh ==
    status = "completed" /\ ~late /\ ~mixed /\ ~returned => Fresh

\* A source replaced under a job never gets the translation of the old one.
BookIsFresh == status = "completed" /\ ~late => Fresh

\* A step of a batch is paid for once, and once more for every time work on the
\* batch was cut off, until the batch is invalidated or its text changes: a run
\* that continues may carry other cards and glossary, and one on a re-read source
\* does not pay for the batches that did not change, if its prompts are those
\* their records were asked with.  As long as no worker of a failed run answers
\* for an older text, which hides the new one's record.
PaidOnce ==
    ~late /\ ~drifted =>
      \A b \in Batches, s \in Stages : calls[b][s] <= 1 + losses[b]

\* "Re-read the linked project after its text changed; only changed chapters are
\* paid for again": whatever the prompts of the runs carry.
OnlyChangedArePaid ==
    ~late => \A b \in Batches, s \in Stages : calls[b][s] <= 1 + losses[b]

\* Of each batch of a completed book the answers of the stages it went through are
\* in the journals, whatever runs, failures and crashes it took: what was paid for
\* in them is there for the next run.  (The second look at a repair, the last
\* repair of the book and repairs that failed are journaled nowhere, and are asked
\* for again.)
PublishedIsJournaled ==
    status = "completed" =>
      \A b \in Batches : \A n \in DOMAIN out[b] : out[b][n] \in ToSet(journal[n])
=============================================================================
