# Trucheman in TLA+

Trucheman translates books with language models: a Node.js server keeps a job per
book in a data directory, cuts the book into batches, and sends each batch through
paid model calls (translation, editing and, in high quality, audit and repair).
Work takes hours, costs money, and is paused, resumed, crashed and re-started; what
must not go wrong is that paid work is lost or bought twice, that a job is locked
or shown in a state nothing will ever leave, and that a text is given the
translation of another one. This directory models those parts in TLA+, checks the
models with TLC and proves with TLAPS the main facts about the coordinator, the journals and
what is reused from them, provider calls, paid batches, delegation, preflights, the quality
report, the way of the text through the batches, its names, the conformance repair, the event
log and the job page: every invariant and every step property a run checks, for any values of
the constants.

Source paths below are relative to the repository; `server/` stands for
`src/server/`.

## 1. The system

### Components, their state and their operations

| Component | State | Operations | Made correct by |
| --- | --- | --- | --- |
| Orchestrator (`server/jobs/job-orchestrator.ts`) | maps `active`, `claims`, `launches`; per run an `AbortController`, a gate, a chain of patches | `analyze`, `start`, `pause`, `resume`, `retry`, `invalidate`, `rebuild`, `repairEpub`, `execute` | locks are released exactly when their holder is gone; a run is never invisible; every call returns; the state file says what is happening |
| Scheduler (`server/jobs/scheduler.ts`) | one slot: a key and a promise | `schedule` | one run at a time; same key joins |
| Recovery (`server/jobs/recovery.ts`) | none | `recoverActiveJobs` at start-up | nothing is falsely active |
| Job repository and API handlers (`server/storage/job-repository.ts`, `server/api/*.ts`) | `jobs/<id>/state.json` | `get`, `save` (atomic replace), `remove`; PUT config, source, workspace, authority | no change under a running job |
| Pipeline (`server/jobs/job-runner.ts`, `book-pipeline.ts`) | four journals, maps over them read at the start of a run, a pool of workers over a shared queue | the four stages of a batch, reuse by key or by batch id | paid once, published whole, never stale |
| Journals (`server/storage/ndjson-journal.ts`) | one file of JSON lines, a chain of appends per path | `appendJournal`, `readJournal`, tail repair | a whole record is never lost, a torn one is never read |
| Event log and SSE (`server/storage/event-repository.ts`, `server/api/job-events.ts`) | `events.ndjson`, `lastId`, listeners | `append`, `list`, `subscribe` | ids grow, every event reaches a subscriber |
| Provider calls (`server/jobs/translation-service.ts`, `server/providers/`) | a cooldown shared by all callers of a provider | retry, halving of a batch the provider cannot answer, recovery of empty segments, splits of a long text | every segment is answered once and in order, attempts are bounded, a pause ends them |
| Usage accounting (`server/jobs/usage-service.ts`) | `usage.ndjson`, a chain of writes | record, report | every call that cost is counted |
| Budget (`server/mcp/authority.ts`, `server/mcp/server.ts`) | delegations, a ledger of bookings, a lock directory | `authorize`, `reserve`, `release`, the check before each call | open bookings never exceed the limit; a lapsed delegation stops the calls |
| OpenAI batches (`server/providers/openai-batch.ts`) | a state file and an output file per request | upload, create, poll, cache | one remote batch per request, its answer kept |
| Preflights (`style-profile-service.ts`, `consistency-service.ts`, `chapter-card-service.ts`) | three cached answers | ask, halve, merge | a failed part costs a warning, not the run; a pause is not a failure; a resumed run has the same context |
| Quality (`job-runner.ts`, `quality-service.ts`, `book-pipeline.ts`) | `quality-report.json`, the status of the job | audit, repair, second look, consistency pass, last repair, scan, publication | the report and the status are true of the book that ships |
| Text and batches (`server/epub/text-segments.ts`, `batcher.ts`) | none | merging nodes to blocks, cutting, merging answers, reinsertion | every sentence comes back once, to its place, within the budgets |
| Names (`consistency-service.ts`) | none | the resolver's decisions, alignment to the glossary | names are respelt, not renamed or re-inflected |
| Conformance repair (`server/epub/repair.ts`) | none | clean names of entries and ids, references rewritten | ids are valid and unique, links lead where they led |
| Published book (`job-orchestrator.ts`, `rebuild`, `repairEpub`) | `output.epub`, `epubcheck-report.json` | build, check, rename, save | a rebuild does not undo a repair |
| Job page (`client/features/jobs/JobPage.tsx`) | the job, its events and results as last shown | polls, events, actions | it never goes back and comes to show what is |
| Workspace (`server/workspace/codicora.ts`) | `localization/<lang>/` | read, export by folder swap | a reader sees a whole folder |
| Other EPUB processing, languages, prompts, configuration, the other pages | none that decides anything | transformations | unit tests |

### How they interact

An HTTP request calls the orchestrator, which reads the job file, decides, and
schedules a task in the single slot. The task is a promise: launches, `resume` and
`analyze` attach reactions to it, and it patches the same job file that handlers
read and write. A run reads the journals once, hands batches to workers, and every
worker appends to the journals. `invalidate` and uploads rewrite those journals.
Nothing but the three in-memory tables protects the files: `assertMutable` looks at
them, no file lock exists, and a handler that has been admitted awaits before it
writes.

Before it translates, a run asks the preflights for the context of its prompts; each
batch goes through the provider calls, which ask the delegation first and record
usage after; when the batches are done the run rewrites names, repairs what is still
in the source language, builds the book and judges it. Every change is saved first
and then announced through the event log, which the job page listens to while it
also polls. An agent drives the same HTTP API through the MCP tools, in a process of
its own that shares only the authority files with the server.

### What is hard

* Every `await` is an interleaving point, for handlers of the same job, for the
  run, and for workers that outlive their run.
* Reactions to a settled promise run as microtasks, before any other callback: the
  order in which the scheduler, a waiting `resume` and the launch's `finally` see
  the end of a run decides which table entries survive.
* The job file is replaced whole, from a copy read before the await.
* The process may die anywhere; a rejected promise nobody awaits also ends it.
* The right to reuse records by position rests on a fingerprint that is compared by
  one run and written by another.
* Partial failure: one worker fails while others are in flight; an advisory step fails
  and the run goes on without it; a write fails after its answer was paid for.
* Answers of different calls, workers and requests come in any order and are put
  together by id or by position.
* Retries, halving and resumption each begin again, and what was counted, asked or
  decided before must not be a second time.

`PROJECT.json` lists the hazards one by one, at their lines, with the property that
covers each, or why none does yet.

## 2. Modules

| Module | Models |
| --- | --- |
| `JobDomain` | the vocabulary: statuses, stages, the table of legal moves, the states a data directory can hold at rest |
| `JobOrchestrator` | the coordinator, its scheduler, recovery and all handlers that write the job file, at the granularity of awaits |
| `Checkpoints` | the batch pipeline: reuse, payment, journaling, with the operations that decide what may be reused |
| `Log`, `Journal` | what callers of the journals may count on, and the journal file piece by piece, which implements it |
| `Authority` | the paid tools of an agent, the ledger and its lock, and the check before each model call |
| `Calls` | how a batch of segments becomes provider calls, with the usage chain and the cooldown under it |
| `OpenAiBatch` | one request sent through the Batch API |
| `Preflights` | style profile, registry of names, chapter cards |
| `Book` | one batch's way through the stages, the reports, the last passes, the job's verdict |
| `Text` | text nodes to blocks, batches and pieces, and back |
| `Names` | the resolver's decisions and the alignment to the glossary |
| `Repair` | the conformance repair of entries, ids and references |
| `Events` | the event log, its stream, and the job page |
| `Output` | rebuild and repair of a published book |
| `MC*` | instances for TLC; `MCText` runs `Text`, `Names` and `Repair` as one specification, whose behaviors are each of one of the three |
| `*_proofs` | theorems about the module they are named after; `Book_proofs` also about `Names`, `Text` and `Repair`, what happens to a book without a model, and `Journal_proofs` about `OpenAiBatch` |

`Log` is the abstract specification; `Journal` implements it by a refinement that TLC checks
and TLAPS proves (`ImplementsLog`), and `Checkpoints` and `Events` take an append as one
step, which is what `Log` promises for records that were acknowledged. `JobOrchestrator`
takes a run as a task that works, patches and ends; what happens inside it is `Preflights`,
then `Calls` and `Checkpoints` (many batches) or `Book` (one batch, all its stages), then
`Names` and `Output`.

### JobOrchestrator

A step is the code between two awaits together with the file access it resumes
from. Each request is a process with a program counter `pc[r]` named for what it
awaits next (`startGet`, `startSave`, ...); `val[r]` is the copy of the job it read
and `hold[r]` the run it refers to. A request is used once, and the run and the
AbortController it creates are named after it, so that identities that JavaScript
compares by reference are values here.

| Code | Model |
| --- | --- |
| `state.json` | `state[j]`, status and folded stage; "deleted" is the absence of the file |
| `prepared.json` exists | `prepared[j]` |
| `active`, `claims`, `launches` | variables of the same names |
| `Scheduler.active` and its promise | `slot`, `task` (where the task is, what it will save, whether it will resolve) |
| the gate of a launch | `task.at = "gated"` until `OpenGate` |
| `controller.abort()` | the controller's name enters `aborted` |
| `applyPatch` in flight | `patch[t]` |
| workers after a failed run | `stragglers` |
| `promise.finally(...)` of a launch | `cleanups` |
| microtasks after a promise settles | `settled`: nothing else resumes from an await (`MacroTask`) until `ReactionsDone` |
| `recoverActiveJobs` | `recovering`: requests are sent once it is empty |
| an unhandled rejection | `UnhandledRejection`, the end of the process |

The nine stages are folded into four because only `analysis` (where `resume` and
`retry` branch) and `complete` (where repair and download look) are ever tested.
Progress, titles, manifests and events are left out: no decision reads them. A
failing disk is modelled where the code has a handler for it: the save of a launch
(`StartFails`), and that of a result, after which the run is saved as failed (`RunStops`).

### Checkpoints

Handlers are atomic here. A batch in flight is an item with the chain of answers it
has so far; `Key(i)` is all that goes into the prompt of its next stage (text,
context of the run, earlier answers), which is what `checkpointKey` hashes. A
record is the key it answers. `seen` is the snapshot of the journals a run read.
`Contexts` stands for everything else in the prompt that may change between two
runs of one job: chapter cards, style profile, glossary. `Shape` says which texts
cut into the same segment ids, which is all `compatibleCheckpoint` compares.
History variables count the calls of each batch since it was invalidated or its own text
changed (`calls`; re-reading the source starts no other batch's count again), how often work
on it was cut off (`losses`), and set aside four ways in which the code is known to do what
it should not. Three let an old record through: a worker of a failed run answers for a text that was
replaced meanwhile (`late`); the first run on a re-read source does not do every batch
to the end (`mixed`); a batch is given back a text it was translated from before, whose
keyed record is then used and not appended again, so that the text in between still has
the batch's last record (`returned`). The fourth buys an unchanged batch again: after a re-read
a run that may not look by position begins with other prompts than those the batch's records
were asked with (`drifted`). The second look at a repair, the last repair of the book and
repairs that failed are journaled nowhere and are asked for again after a pause;
`PublishedIsJournaled` is about the answers of the four stages only.

### Journal and Log

A file is a sequence of pieces: a record is two of them, neither of which parses
alone, and a newline. `Open` is `open` with `repairTail`, `Write` one piece of the
`writeFile`, `Sync` the `sync` and the resolution; `Fail` and `Kill` may come between
any two. `queue` is the chain of promises that `appends` keeps for the path.
`Readable(file)` is what `readJournal` would return now: `Upto(file)[n]` are the records
whose text is complete within the first `n` pieces. `Filter` is `filterJournal`
up to the truncation by `writeFile`, `FilterWrite` one piece of what follows: `rewrite`
are the records still to be put back, of the first of which `put` pieces are written.
`Log` has the same operations on whole records, and `ImplementsLog` maps
`log` to `Readable(file)` and `saved` to `Readable(durable)`; a record is written back
there with the second piece of its text, and what `repairTail` does is a stutter. A
power loss leaves what was synced, or any part of what was written since that the
disk may have (`Lasting`). A sync is taken to make the file durable with its name (the
directory is not synced by the code), and unsynced writes to reach the disk in
order. Appends and rewrites of one journal are kept apart: this file relies on its
callers for that, and `OneJobWorks` below says where they fail it.

### Authority

Each client is one call of a paid tool, and its booking and the job it creates are
named after it. A step is the work between two file operations or HTTP requests:
reading the delegation, taking the lock (`mkdir`), breaking a stale one, checking the
ledger against the limit, appending, unlocking, and then creating, launching and, if
that did not work, releasing. `hash[c]` is the delegation as the client read it.
On the server's side a call is checked (`checked`) and then sent, so that the author
can end the delegation in between. `late` counts what is sent since. A ledger line
that was torn makes every later sum fail, as in the code (`Legible`).

### Calls

`processChunk` calls itself, so a worker has a stack of invocations, each with its
attempt, what it was refused with, and the plan for the answers still to come:
slices, halves, two parts of one text, or empty segments asked again. `chain` is the
promise every usage write is chained to: a failed write rejects all that follow.
`now` and `cooldownUntil` are a clock that only the providers' delays read. A text is
a sequence of letters, spaces and stops, since where a text is cut is the point;
an answer is what a faithful translation covers. No segment is blank, since
`text-segments.ts:166` leaves those out.

### OpenAiBatch

`pc` walks through upload, create, poll and download; `mine` is the record in memory,
`record` the one in `openai-batches/<key>.json`, `output` the downloaded answer,
`remote` what became of each batch OpenAI created. A request may be refused, its
answer lost, the run paused or killed at each of them. What `processBatch` does with
each kind of error is part of the module.

### Preflights

The three questions with their retries and caches. Names go in chunks that are
halved when an answer makes no sense; chapters go to a pool of workers that share one
file, each write being of the whole map as it was in memory. A progress save that fails takes
a cached style with it (`StyleMissing`). `context` is what the
translation is given, `report` what the run says it does without.

### Book

One batch and what is journaled for it. A unit's text is what the scan says of it (its
`kind`: a word of the source inside it, another script, cut, short, a lighter finding, fine, or
`broken`), how many runs of Latin letters it has, and who wrote it. `Review` is
`reviewRepair`, which counts those runs and looks at nothing else of the language: it lets a
repair pass that leaves the text in the source language, and the second look has to catch
it (`Reverted`). What the page shows (`Defects`) is more than what keeps a job from being
completed (`Hard`, `Attention`). Audit, repair, second look, the report, the consistency pass,
the last repair, the scan, the build and EPUBCheck are one action each; a call, a build or a
write that fails is `Throw`, what the code catches has an action of its own. `Results` is what
the results page computes from the reports.

### Text, Names, Repair

Pure algorithms, each as a few steps from input to output; the inputs are all those
within the bounds. Loops that carry a result along (`Joined`, `MakeBatches`, `MergeChunked`,
`Renamed`, `PointsTo`, `ReplaceText`, `Rewritten`) are recursive functions, about which TLAPS
can prove.

`Text`: `MergeLogicalBlocks`, chunks, batches, the merge of answers in any order,
reinsertion; a sentence is known by where it came from. An inline element is a value of its own
with a `Tag`: the code compares tags (`MergesInto`), the properties ask for the very elements
(`Boundaries`).

`Names`: a word is a stem, the part of its ending that `nameStem` leaves on (`rest`), because it
is not listed or three letters would not remain, and the part it takes off (`ending`). `Safe`
compares what `nameStem` makes of two words, as the code does, while `CasesStand` is about rest
and ending. One action applies the resolver's decisions, one the glossary.

`Repair`: one document and the archive it is in, with each pass of `repairXml` as an operator
and the whole of it as one action. Names are sequences of characters and references are
rewritten as text, wherever the old name is found (`ReplaceText`, which is
`split(old).join(new)`), one name after the other and entries in any order (`Rewritten`); of
an entry three spellings are looked for (`Spellings`), while a reference may escape any of its
characters (`References`). `Renamed` gives ids to all elements first, `Left` is what remains of
one of them, and `Pointing` then rewrites every attribute that is an old name, the ids
themselves included, and every `#old` in a reference, as the last loop of `repairXml` does.

### Events

The server saves, emits, appends and notifies; the connection lists and then
listens, with what is on the wire in order; the page has any number of requests under
way, each with what it read. A failed append leaves its line or does not. `acted` is
the page's own action, `gets` its requests for the job, `loads` those for the results.

### Output

`rebuild` and `repairEpub` as processes: read the job, build, check, rename, report,
save. `output_repair` finds the order of them that the code's comment rules out.

## 3. Runs

| Run | Instance | Shows |
| --- | --- | --- |
| `orchestrator_control` | two jobs and one slot; three overlapping requests among the five lifecycle operations on one job, or any two of all ten on both; one crash, a first save and a result's save that may fail | the executing run is visible; no lock outlives its holder; the state file says running while a run works; recovery leaves nothing active |
| `orchestrator_live` | one job, two requests, parallel batches, fair awaits | every request returns; an aborted run ends |
| `checkpoints` | two batches and two workers in standard quality over two runs, one batch through four stages in high quality over three runs and three texts, each with one change of source or invalidation; or one batch in standard quality over four runs with two changes; two contexts | a completed book is fresh; steps are paid for once; the answers of the stages that are published are journaled |
| `journal` | two appends of two batches, one rewrite, two failing operations, one crash or power loss, six files to begin with | the journal implements `Log`; acknowledged records survive |
| `authority` | two clients, limits 0 and 1, one edit, one fault | bookings stay within the limit; a lapse stops the calls; a booking settled at zero is not paid |
| `calls` | one to three segments, four shapes of text, two workers, one retry, one failed usage write, one cooldown | every segment answered once and in order; calls bounded; a segment that came back is not asked about again; every batch ends |
| `openai_batch` | three runs, three batches, one retry | a batch whose id was saved is not paid for again; every call ends |
| `preflights` | two names in one chunk, two chapters, two workers, two runs, failing writes | what a translation does without was reported; a pause is no failure; a name is decided once; the preflights end |
| `book` | two units of two kinds each, high quality with the second look, two runs | the report adds up; repairs are safe; the verdict is true of the book; a run ends |
| `text` | documents of three nodes and four sentences; books of three mentions; documents of three elements | every sentence once, within budget, in its place; names respelt, and not re-inflected where `nameStem` sees their endings; ids sound, links where they led |
| `events` | two saves, two faults, one page | events in order; a quiet page is fresh; it never goes back; it comes to show what is |
| `output_repair` | two requests, one run | violated: a rebuild undoes a repair, against the comment at `job-orchestrator.ts:605` (the finding in `PROJECT.json`) |

**Bounds.** `Reqs` bounds the requests of a behavior: three are needed for a
`resume` that waits for a paused run while a third request launches, which is the
interleaving on which the `finally` of a launch has to compare promises. Two jobs
are the least that contend for the slot; there the second one is ready from the start,
so that two requests suffice to launch both. `MaxCrashes = 1`: a second crash starts
from a state the first recovery could have left, and those are all initial states.
In `Checkpoints`, three runs are a first one, one that is interrupted under a
changed source and one that trusts it, with one upload, re-read or invalidation between
them; the fourth run and the second change, on a single short batch, are a text that is
replaced and comes back. These bounds do not suffice by themselves: without `~late` a batch is
paid for twice only with two batches and three runs, which the runs leave out, so
`PaidOnce` rests on its proof beyond them. Two batches and two workers give a failure with another
worker in flight; two contexts are "unchanged" and "changed"; three texts are two
of the same shape and one of another. In `Journal`, a second append shows whether the
first one's fate touches it; two faults tear the file, and strike the repair of it; and
since the files to begin with are those a crash can leave, one crash more is enough.
The two batches let a rewrite keep something.

In `Authority`, two bookings are one too many for the limit of 1, and a limit lowered to 0
is an edit that both may have read before. In `Calls`, `MaxSegments = 2` with three segments
gives two slices, one of which is halved; the four texts have two spaces in a row, a cut off
the middle, a stop, and nowhere to cut. In `OpenAiBatch`, three runs are one that creates,
one that is cut off while polling and one that finds the answer. In `Preflights`, one chunk
of two names can be halved, and two workers and two chapters race on the file. In `Book`,
two units let one be repaired and the other not, and two runs let the second find what the
first journaled; one unit has a lighter finding or is in another script, the other has a
title in Latin letters or a word of the source in its place, which `Review` cannot tell
apart; the critic's answer is read wholly or not at all, and its lighter findings are for
the first unit. In `Text`, lengths of 1 and 3 under a budget of 4 fit, fill and exceed a
batch; two links and an emphasis are the least that has two elements of one tag and one
inside another. In `Names`, a stem close to two others is what two decisions can disagree
about, and of a short fourth one `nameStem` takes nothing off. In `Repair`, `1` and `1)` are
both cleaned to `id-1`, which a third element may have already, and one of them begins the
other; two names of entries have the same clean form, one has characters that are escaped;
entries are looked for in documents of two elements. In `Events`, two saves are an old and a
new answer, two faults a lost connection and a failure while it is lost.

**Symmetry** is used in `orchestrator_control` (requests), `checkpoints` (contexts),
`authority` (clients) and `text` (entities, and the two stems that are close to the third):
they are interchangeable there and no liveness is checked.

**Fairness.** *Orchestrator:* awaits resolve, because file accesses end and every
provider call carries a timeout and the abort signal. So each handler, each started
write, the task and the recovery are weakly fair. `RunEnds` is strongly fair, because
patches disable it again and again while a run that has finitely many batches cannot
go on patching for ever. *Calls:* the clock and each worker's steps. *OpenAiBatch:* the
steps of the call, and `Finish`: a batch ends, as the API promises within 24 hours.
*Preflights, Book:* the run's own steps. *Events:* the poll every five seconds, the
server's answers, and the delivery of what is on the wire. Nowhere are clients, pauses,
edits, crashes or other faults fair: nobody owes them.

**Deadlock** is checked in the runs of the orchestrator (its only terminal states are
those in which every request was served and nothing runs, `Quiescent`), of
`checkpoints` (a resting job can always be analyzed again) and of `events` (a page always
polls). The other models really stop: their inputs, runs or requests are used up, or the
computation is done.

### Known divergences

These definitions state what a comment, a document or a test says of the code and TLC
refutes. They belong to no run; to see the counterexample, add the name to the cfg given.

| Definition | Add to | What happens |
| --- | --- | --- |
| `JobOrchestrator!LegalMoves` | `PROPERTY` of `orchestrator_control` | `analyze` and `invalidate` save statuses the table of legal moves has no move to |
| `JobOrchestrator!StoppingSettles` | `PROPERTY` of `orchestrator_live` | a pause that overlaps the end of a run leaves `stopping` for ever |
| `JobOrchestrator!OneJobWorks` | `INVARIANT` of `orchestrator_control`, `Parallel = TRUE` | after a batch failed, workers of two jobs overlap, and append to journals that an `invalidate` rewrites |
| `Checkpoints!BookIsFresh` | `INVARIANT` of `checkpoints` | a re-read source whose first run is cut off is given the old translation; so is, without any cut, a source that was replaced, went back and was replaced again, although "that is the whole condition" (`job-orchestrator.ts:314-318`) |
| `Checkpoints!OnlyChangedArePaid` | `INVARIANT` of `checkpoints` | every key carries the instructions and the glossary of the run (`job-runner.ts:352-364`), which one changed chapter may change: the whole book is paid for again, although "only changed chapters are paid for again" (`server/api/jobs.ts:249`) |
| `Journal!KeptSurvive` | `INVARIANT` of `journal` | a process killed while a journal is rewritten loses the records to be kept |
| `Authority!SettledMeansUnpaid` | `INVARIANT` of `authority` | a launch whose answer was lost is settled at zero and runs |
| `OpenAiBatch!CallEnds` | `openai_batch` with `ErrorFiles = TRUE` | a completed batch with an error file and no output is polled for ever |
| `Preflights!CardsKept` | `PROPERTY` of `preflights` | a worker's write takes another's card out of the file again |
| `Book!AuditErrorsCounted` | `INVARIANT` of `book`, `PostAudit = FALSE` | an audit that made no sense is journaled as no issues, and the next run counts no error |
| `Text!KeepsOrder` | `INVARIANT` of `text`, `Islands = TRUE` | text behind code, an image or a formula is put before it |
| `Text!BoundariesStay` | `INVARIANT` of `text` | two links or footnote markers that follow one another in a block merge, the second's words into the first (`text-segments.ts:117-118`), although such elements "stay boundaries" (92-93) |
| `Names!NothingReinflected` | `INVARIANT` of `text` | of a short name `nameStem` takes no ending off, so its cases are variants of each other (`consistency-service.ts:923-928`, 981-988), although a decision "may not re-inflect one" (896) |
| `Names!DecisionsStand` | `INVARIANT` of `text` | the glossary undoes what the resolver decided |
| `Repair!RefinesStand`, `ValuesStand` | `INVARIANT` of `text` | metadata that refines a renamed id is dropped; an attribute that only looks like the id is rewritten |
| `Repair!IdsDiffer` | `INVARIANT` of `text` | `<a name="1">` and `<a name="id-1">` in one page are given `id-1` and `id-1-2`; the first one's new id is the second one's old name, so the last loop rewrites it too, and both have `id-1-2` (`repair.ts:308-316`) |
| `Repair!FragmentsFollow` | `INVARIANT` of `text` | `#1` is replaced in `#1)` as well, so a link to the second element leads nowhere (`repair.ts:315`) |
| `Repair!ReferencesFollow` | `INVARIANT` of `text` | a reference that escapes some characters of an entry's name and not others is not found (`repair.ts:103-109`) and leads to no entry |
| `Events!NothingSkipped` | `INVARIANT` of `events` | an event appended between `list` and `subscribe` reaches nobody until the next connection |

Two properties of `Checkpoints` carry conditions. `PaidOnce` without `~drifted` is
`OnlyChangedArePaid` of the table. The other two conditions the attempt to prove them showed
to be needed. `PaidOnce` without `~late`: a worker of a failed run answers for the
text a re-read has replaced, its record becomes the last of the batch, and the next run
that looks by position asks again for what the journal has (`MaxSize = 2`, three runs,
standard quality, one change). `TrustedBookIsFresh` without `~returned`: a batch goes
from one text to another and back, a fresh run finds the keyed record and appends
nothing, and the run after it, with other cards, takes the last record of the batch,
which is of the text in between (one batch, four runs, two changes). Drop the condition
and TLC shows the second; the first needs `Runs` of `MCCheckpoints` to be three for two
batches as well.

`RunOwnsState` is about histories with at most one pause. With two (and a start and a
resume, so with four requests) a pause that found no task is still saving while a run
begins, and its `paused` (`job-orchestrator.ts:391-397`) lands on a
job whose run is at work; drop the condition and TLC shows it.

`IdsAreSound` and `LinksStand` hold for documents in which no two elements are called the
same and no paragraph with an id is split (`Plain`; `repair.ts:187` copies the id into each
part), and in which no element is given what another one was called (`NothingPassedOn`,
without which `IdsDiffer` shows what happens). `LinksStand` needs besides that no name that
is replaced is found within another one that is pointed to, of an element (`IdsApart`) or an
entry (`PathsApart`), since references are rewritten as text, and is about references spelt
in one of the three ways the code looks for: `FragmentsFollow` and `ReferencesFollow` show
the rest. `KeepsPlace` is about tags, and about the elements themselves only where no two of
one tag follow one another (`ElementsApart`). `CasesStand` is about names of which
`nameStem` takes off the whole ending (`Regular`). `RepairsAreSafe` is about the second
look: without it `Review` lets repairs in the source language pass, up to the last repair.
Ids are renamed in each document by itself, so a link into another document is beyond the
model. A rebuild of a paused or ready job publishes an unfinished staging folder as
completed (`job-orchestrator.ts:594`): in `Output`, `staging` is then still `Source`.

## 4. Proofs

All for any values of the constants that satisfy the assumptions the modules name, which
say of what sort a constant is, that the sets of clients and units are finite, and
that `None` is none of the values it stands for the absence of.

`JobOrchestrator_proofs`, for any jobs, requests and operations, with or without
parallel batches and disk faults, and any number of crashes:

* `TypeCorrect` (`TypeOK`). It is not inductive: a handler's data are typed only for the
  program counters at which it reads them, and a task's only while it has something to
  save. `WellFormed` adds those facts (`HandlerData`, `TaskData`).
* `RunAlwaysVisible` (`RunIsVisible`), the fact on which every mutating handler's check
  rests. The strengthening `SlotOwned` says that the entry of the slot's job is for that run
  at every point of the task, and that the reactions to a settled run see a free slot.
* `RecoveryRests` (`RestAfterRecovery`) needs `Booting`: while recovery is under way no
  request is in a step that could write a state file.
* `NoLocksLeak` (`NoLockLeak`): a table entry, a claim or a launch belongs to a run that is
  live or to a request that is going to undo it. `Locks` says for each point of a task
  and of a handler who that is.
* `RunOwnsItsState` (`RunOwnsState`), on top of the two: every step that writes the state
  file of a job is one of seven (`Writers`), and only a task that ends, the recovery and a
  pause that found no task leave it at rest. The pause is harmless because the status it read admits
  neither a launch nor an analysis until it has saved (`IdlePause`), which needs that no
  launch was already admitted (`NoPauseYet`): the fact a second pause breaks.

`Calls_proofs`, for any segments, texts, budgets, workers and number of tries:

* `CallsTyped` (`TypeOK`).
* `AnswersStayInOrder` (`AnsweredInOrder`), from `InOrder`: on each worker's stack, every
  waiting invocation asks for what its plan says (`Planned`, `Asked`), holds the answers to the part
  it is through with (`Collected`), and the answers so far are a prefix of what was asked.
  That halving, slices and cuts lose nothing and repeat nothing is `SplitKeeps` (of a text) and
  `LoadOfSplit`, `LoadCut` and `LoadSelected` (of what a batch carries).
* `CallsStayBounded` (`CallsBounded`), from `Paid`: a `Ledger` of the worker says how many
  invocations there were so far and, per level of the stack, how many there can be at most
  when it returns; an invocation makes no more than its tries.

`Checkpoints_proofs`, for any book, texts, contexts, workers and number of runs, on a
common `Frame` (what every variable holds; the items of a run are of different batches
and agree with it; once a run began the fingerprint is the source's, until that is replaced):

* `PublishedIsSaved` (`PublishedIsJournaled`), from `AllWritten`: the answers of the run in
  progress, those it read and those it has handed over are in the journals, which
  nothing shortens while it works.
* `StagesArePaidOnce` (`PaidOnce`), from `AllPaid`: for each batch and stage, either as
  many calls as losses allow are already covered by work that was cut off (`Covered`
  counts what stragglers may still ask), or one more was made and then its record can be
  used by whoever comes next (`Reusable`), or the worker that asked is still waiting for
  it (`Asking`). For the batches a re-read leaves unchanged it needs that a run which may not
  look by position asks with the prompts of the records it read and of its own (`Owned`), which is
  what `drifted` sets aside.
* `TrustedBooksAreFresh` (`TrustedBookIsFresh`), from `AllFresh`: as long as nothing was
  late, mixed or returned, the last record of a batch is of its present text once any record
  of it is (`Tops`); no audit of that text asked for a repair, or the last repair is of it,
  unless an untrusted run is about to make it (`AuditsSettled`); and the last records a
  trusted run may take by position, from the journals, its snapshot or that of an item, are
  of the text it works on (`Trusty`). That standard quality audits nothing is a fact of its
  own (`NoAudits`).

`Journal_proofs`, for any records, batches, files found, faults and crashes:

* `TypeCorrect` (`TypeOK`).
* Of `OpenAiBatch`: `BatchTyped` (`BatchOK`) and `BatchPaidOnce` (`PaidOnceIfKept`).
  `BatchRecorded` says that the record on disk agrees with where the call is,
  `OthersAreOver` that of all batches whose id was saved only the one on record is still alive.
* `AckedRecordsSurvive` (`AckedSurvive`). The invariant says that there is a place in the
  file up to which it is as it was synced, behind which nothing is glued to a whole
  text, and which has all that was readable then (`Firm`): a cut at or behind it, by
  `repairTail` or by a power loss, loses nothing that was acknowledged and makes no record
  up. `Places` says what the end of the file looks like at each point of an append or a
  rewrite, `Acked` where an acknowledged record is.
* `JournalIsALog` (`ImplementsLog`): the initial states map to initial states and each
  step to a step or a stutter of `Log`, on the same invariant. What it rests on is
  how `Readable` changes when a piece is written (`WriteReads`), a torn end is repaired
  (`RepairReads`) or the file is cut (`CutReads`).

`Authority_proofs`: `LapseStops` (`LapseStopsCalls`) and `SettledAreUnpaid`
(`SettledUnpaid`). A lapse is for good, because ledger lines are never removed and a
hash never comes back, so `late + checked` stays within `Callers`; and a client whose
booking has something running or paid under it is past the clauses that release.
`BookingsFit` (`WithinLimit`), from `LedgerInv`: as long as no lock is broken under a process
at work only one client is between lock and unlock (`Exclusive`), so what it checked
still fits when it is written (`Fits`), and unless the ledger is corrupt, in which case
nothing more is booked, it holds all that was made.

`Preflights_proofs`: `PausesAreNoFailures` (`PauseIsNoFailure`), from `CutIsOver`: a run one of
whose questions was cut off is over. `MissingIsTold` (`NothingSilent`) and
`NamesAreDecidedOnce` (`DecidedOnce`): the chunks still to be asked have no name in common
(`Apart`) and cover every name that has neither an answer nor a warning (`NamesTold`), which
halving and asking again preserve; the same for chapters in the queue and in the hands
of a worker (`CardsTold`); and as long as no write failed, the file, the memory and the
context have every answer of the last translation (`Kept`).

`Book_proofs`: `ReportsAddUp`, `RepairsSafe`, `VerdictsTrue`. The journal is filled in
the order of the stages and its answers are those a new run would get to the same
question (`Kept`); what is repaired so far was flagged, and once the second look is over none
of it is in the source language, whatever `Review` accepted (`Working`); the
severe findings that stand are in the report (`Reported`); and the book on disk is the
text that was scanned (`Shown`). Beside the stages, what no model takes part in:

* `Names`: `CasesAreKept` (`CasesStand`) and `SettledNamesAreKept` (`SettledNamesStand`),
  from `NamesInv`: a mention keeps the ending it had, where `nameStem` takes all of it off,
  and one that had a name of the glossary before the decisions has it after them.
* `Text`: `TextTyped` (`TextOK`), `WholeOnceKept` (`WholeOnce`), `BudgetsKept`
  (`WithinBudget`) and `PlacesKept` (`KeepsPlace`), from `TextInv`: the units have each
  sentence of the document once and where it stood (`Gathered`), the batches are what
  `MakeBatches` makes of the units, each answer is its batch, and the values are their
  merge. A sentence stays in its very elements because each text that is merged stands next
  to the one merged before it (`KeptIn`). The lemmas say that chunks lose nothing
  (`ChunksAreWhole`), that each batch may be asked and together they are all that is to be
  asked (`BatchesAre`), and that the merge undoes the cutting whatever pieces a unit was cut
  into (`MergeOne`, `AllComeBack`).
* `Repair`: `IdsStaySound` (`IdsAreSound`) and `LinksStillStand` (`LinksStand`), from `RepairInv`,
  whose weight is in what `Renamed` computes (`AllNamed`): after each element ids differ, those
  that XML allows are the ones in use, of which there are fewer than `uniqueId` tries, every
  name that is remembered leads to the id its element has now, and nobody is lost with his id
  or name. So each old name leads there and no new one leads on (`AllSettled`, which needs
  `NothingPassedOn`), and what is put back into the document keeps its ids apart (`RepairedIs`).
  Of rewriting as text, two facts carry the links: what is found nowhere changes nothing, and what
  is found as a whole becomes the new name; `IdsApart` and `PathsApart` say that of every
  replacement on the way of a reference one of the two applies.

`Events_proofs`: `PageNeverGoesBack` (`NeverBackwards`), an action property: of the page's
requests only one may still be shown, and what it read is no older than the page.
`EventsComeInOrder` (`EventsInOrder`), from `WayInv`: a save is on its way to the log in one
place only (`WrittenOnce`), the numbers of the log rise but for appends that failed
(`LogInOrder`), and what is listed, on the wire and shown are pieces of the log one behind
the other (`SentInOrder`, `ShownInOrder`). `QuietPagesAreFresh` (`QuietPageIsFresh`), from
`Fresh`: what is shown and not yet in the job has a request under way that will read it.

An invariant is proved inductive by one lemma or step per action; the theorems combine
`Init`, the step and the implication. Where a function is defined along a sequence
(`Readable`, `Kept`, `Since`, `Unanswered`, `Selected`, `Load`, `Joined`, `MakeBatches`,
`MergeChunked`, `Renamed`, `PointsTo`, `ReplaceText`, `Rewritten`) the proofs do not use the
library's induction, which takes an operator the provers cannot instantiate: they take the
least number at which the fact would fail (`Least`, from the well-foundedness of the
naturals). That such a function exists is a fact of its own (`RecursionIs`), on which its
equations rest.

Only model-checked: liveness (`HandlersReturn`, `AbortedRunEnds`, `BatchesEnd`, `CallEnds`,
`PreflightEnds`, `RunEnds`, `RestShown`), which is outside the prover's reach.

## 5. Not modelled

* Extraction, validation, localization and package parsing, languages and the segment
  scan, prompts and the parsing of answers: sequential text handling, where a model
  would repeat the code. Where it decides something (an answer is usable or not, the scan
  flags a unit or not) the models choose.
* Reading a workspace and exporting to it: parsing, and one swap of folders between two
  renames, listed as a hazard.
* HTTP wiring and configuration, evaluation scripts, the other pages of the client:
  no state that decides anything.
* The counters of `job.progress`, navigation labels, typography passes, the arithmetic of
  the usage report, the run manifest: derived, and read by no decision.
* `atomicWrite` is one step everywhere: a reader sees the old file or the new one.
* Small things each model leaves out of what it has: workers that were past the check when a
  run ended and still send their call (`Authority!Stop`), `needs_attention` beside the other
  resting states (`Authority!From`), a cached batch output that no longer parses
  (`OpenAiBatch!Look`), a poll of the page that overtakes one still unanswered (`Events!Poll`),
  and scan findings that a later run adds to a journaled audit (`Checkpoints!Due`).

## 6. Plan

1. Progress counters against what the journals hold, and navigation labels beside the text.
2. The export swap with its crash, and a reader that comes between.
