------------------------------ MODULE Preflights ------------------------------
(* What a run asks the model before it translates: the style of the book, what *)
(* its names are called, and a card of facts for each chapter. The answers are *)
(* kept in three files, so that a resumed run translates with the same context *)
(* and its checkpoints still fit. Chapters are asked for by a pool of workers  *)
(* that share one file.                                                        *)
EXTENDS Naturals, Sequences, FiniteSets, FiniteSetsExt

CONSTANTS None,
          N,          \* the names found in the book, in order: 1 .. N
          ChunkSize,  \* names in one question
          Chapters,   \* how many chapters are long enough for a card
          Workers,    \* concurrency
          DiskFaults, \* a write may fail
          MaxRuns     \* bound: runs of the job

ASSUME PreflightsAssumption ==
  /\ None \notin Nat
  /\ {N, Chapters, MaxRuns} \subseteq Nat /\ {ChunkSize, Workers} \subseteq Nat \ {0}
  /\ DiskFaults \in BOOLEAN

VARIABLES phase,   \* where the run is
          run, aborted,
          todo,    \* parts of chunks still to be asked, in order
          tries,   \* retries of the question at hand (style or names)
          mem,     \* the caches in memory
          disk,    \* style-profile.json, entity-registry.json, chapter-cards.json
          queue,   \* chapters no worker has taken
          work,    \* the card workers
          context, \* what the translation of this run is given
          report,  \* what the run says it has to do without
          used,    \* history: the style and the names the last translation was given
          cut,     \* history: an abort ended a question of this run
          faulted  \* history: a write failed
vars == <<phase, run, aborted, todo, tries, mem, disk, queue, work, context, report, used, cut, faulted>>

Names == 1 .. N
Cards == 1 .. Chapters
Pool == 1 .. Workers
\* An answer is known by the run that got it; 0 is a name the model has nothing to say about.
Answers == 0 .. MaxRuns \cup {None}
Blank == [style |-> None, names |-> [n \in Names |-> None], cards |-> [c \in Cards |-> None]]
Silent == [style |-> FALSE, names |-> {}, registry |-> FALSE, cards |-> {}, pool |-> FALSE]
Done == [at |-> "done", card |-> None, tries |-> 0, write |-> Blank.cards]

Init ==
  /\ phase = "idle" /\ run = 0 /\ aborted = FALSE /\ todo = <<>> /\ tries = 0
  /\ mem = Blank /\ disk = Blank /\ queue = {} /\ work = [w \in Pool |-> Done]
  /\ context = Blank /\ report = Silent /\ used = Blank /\ cut = FALSE /\ faulted = FALSE
----------------------------------------------------------------------------
(* completeJsonTask: a question, its retries, and how it can fail. *)
Kinds == {"temporary", "invalid_response", "configuration"}
Budget(kind, retries) ==
  CASE kind = "temporary" -> retries + 2 [] kind = "invalid_response" -> retries [] OTHER -> 0

Pooled == UNCHANGED <<queue, work>>
Asking == UNCHANGED <<run, aborted, context, used, faulted>>
AskAgain(retries) ==
  /\ \E k \in Kinds : tries < Budget(k, retries)
  /\ ~aborted /\ tries' = tries + 1
  /\ UNCHANGED <<phase, todo, mem, disk, report, cut>> /\ Pooled /\ Asking
\* The signal cuts a question, or the pause between two tries, off.
CutOff ==
  /\ aborted /\ phase' = "idle" /\ cut' = TRUE
  /\ mem' = Blank /\ todo' = <<>> /\ report' = Silent
  /\ UNCHANGED <<tries, disk>> /\ Pooled /\ Asking
----------------------------------------------------------------------------
Begin ==
  /\ phase = "idle" /\ run < MaxRuns
  /\ phase' = "style" /\ run' = run + 1 /\ aborted' = FALSE /\ tries' = 0
  /\ mem' = [Blank EXCEPT !.style = disk.style] /\ todo' = <<>> /\ queue' = {}
  /\ context' = Blank /\ report' = Silent /\ cut' = FALSE
  /\ UNCHANGED <<work, disk, used, faulted>>

(* The style profile: one question with one retry. *)
StyleKnown ==
  /\ phase = "style" /\ mem.style # None /\ phase' = "registry"
  /\ UNCHANGED <<todo, tries, mem, disk, report, cut>> /\ Pooled /\ Asking
StyleAnswered ==
  /\ phase = "style" /\ mem.style = None /\ ~aborted
  /\ mem' = [mem EXCEPT !.style = run] /\ disk' = [disk EXCEPT !.style = run]
  /\ phase' = "registry" /\ tries' = 0
  /\ UNCHANGED <<todo, report, cut>> /\ Pooled /\ Asking
StyleRetried == phase = "style" /\ mem.style = None /\ AskAgain(1)
\* A write that fails, be it that of the job's progress, loses a profile on disk too.
StyleMissing ==
  /\ phase = "style" /\ ~aborted
  /\ \/ mem.style = None /\ (\E k \in Kinds : tries >= Budget(k, 1)) /\ faulted' = faulted
     \/ DiskFaults /\ faulted' = TRUE
  /\ mem' = [mem EXCEPT !.style = None]
  /\ phase' = "registry" /\ tries' = 0 /\ report' = [report EXCEPT !.style = TRUE]
  /\ UNCHANGED <<run, aborted, context, used, todo, disk, cut>> /\ Pooled
StyleCutOff == phase = "style" /\ mem.style = None /\ CutOff

(* The names: the ones without an answer, in chunks; a chunk that cannot be     *)
(* answered is halved, twice at most.                                          *)
\* Mutant: a resumed run asks about every name again.
EveryName == [n \in Names |-> n]
Unanswered ==
  LET open[n \in 0 .. N] ==
        IF n = 0 THEN <<>>
        ELSE IF disk.names[n] = None THEN Append(open[n - 1], n) ELSE open[n - 1]
  IN  open[N]
Chunks(s) ==
  [i \in 1 .. (Len(s) + ChunkSize - 1) \div ChunkSize |->
     [names |-> SubSeq(s, (i - 1) * ChunkSize + 1, Min({i * ChunkSize, Len(s)})), depth |-> 0]]
Halves(part) ==
  LET middle == (Len(part.names) + 1) \div 2
  IN  << [names |-> SubSeq(part.names, 1, middle), depth |-> part.depth + 1],
         [names |-> SubSeq(part.names, middle + 1, Len(part.names)), depth |-> part.depth + 1] >>
Asked(part) == {part.names[i] : i \in DOMAIN part.names}

RegistryBegin ==
  /\ phase = "registry"
  /\ mem' = [mem EXCEPT !.names = disk.names] /\ todo' = Chunks(Unanswered) /\ phase' = "names"
  /\ UNCHANGED <<tries, disk, report, cut>> /\ Pooled /\ Asking
\* Every name asked about gets an answer, the ones the model left out included.
NamesAnswered ==
  /\ phase = "names" /\ todo # <<>> /\ ~aborted
  /\ \E named \in {Asked(Head(todo)), {Min(Asked(Head(todo)))}} :
       LET answers == [n \in Names |-> IF n \notin Asked(Head(todo)) THEN mem.names[n]
                                       ELSE IF n \in named THEN run ELSE 0]
       IN  mem' = [mem EXCEPT !.names = answers] /\ disk' = [disk EXCEPT !.names = answers]
  /\ todo' = Tail(todo) /\ tries' = 0
  /\ UNCHANGED <<phase, report, cut>> /\ Pooled /\ Asking
NamesRetried == phase = "names" /\ todo # <<>> /\ AskAgain(0)
Fails == \/ (\E k \in Kinds : tries >= Budget(k, 0)) /\ UNCHANGED <<mem, faulted>>
         \/ /\ DiskFaults /\ faulted' = TRUE \* answered, and the file could not be written
            /\ mem' = [mem EXCEPT !.names =
                         [n \in Names |-> IF n \in Asked(Head(todo)) THEN run ELSE @[n]]]
Halvable(part) == Len(part.names) > 1 /\ part.depth < 2
NamesHalved ==
  /\ phase = "names" /\ todo # <<>> /\ ~aborted /\ Fails
  /\ Halvable(Head(todo)) /\ todo' = Halves(Head(todo)) \o Tail(todo) /\ tries' = 0
  /\ UNCHANGED <<phase, run, aborted, disk, context, report, used, cut>> /\ Pooled
\* Mutant: the first half that fails gives the other one up unsaid.
NamesFailedAlone ==
  /\ phase = "names" /\ todo # <<>> /\ ~aborted /\ Fails
  /\ ~Halvable(Head(todo)) /\ tries' = 0
  /\ todo' = SelectSeq(Tail(todo), LAMBDA part : part.depth = 0)
  /\ report' = [report EXCEPT !.names = @ \cup Asked(Head(todo))]
  /\ UNCHANGED <<phase, run, aborted, disk, context, used, cut>> /\ Pooled
\* Mutant: a part that failed is put back at the end.
NamesFailedRequeued ==
  /\ phase = "names" /\ todo # <<>> /\ ~aborted /\ Fails
  /\ ~Halvable(Head(todo)) /\ tries' = 0 /\ todo' = Append(Tail(todo), Head(todo))
  /\ UNCHANGED <<phase, run, aborted, disk, context, report, used, cut>> /\ Pooled
NamesFailed ==
  /\ phase = "names" /\ todo # <<>> /\ ~aborted /\ Fails
  /\ ~Halvable(Head(todo)) /\ todo' = Tail(todo) /\ tries' = 0
  /\ report' = [report EXCEPT !.names = @ \cup Asked(Head(todo))]
  /\ UNCHANGED <<phase, run, aborted, disk, context, used, cut>> /\ Pooled
\* Mutant: an abort is one more failure of an advisory step.
NamesCutOffUnseen ==
  /\ phase = "names" /\ todo # <<>> /\ aborted /\ phase' = "cards" /\ cut' = TRUE
  /\ todo' = <<>> /\ tries' = 0 /\ report' = [report EXCEPT !.registry = TRUE]
  /\ UNCHANGED <<mem, disk>> /\ Pooled /\ Asking
NamesCutOff == phase = "names" /\ todo # <<>> /\ CutOff
\* The job's progress cannot be saved: the whole registry is given up.
RegistryLost ==
  /\ DiskFaults /\ phase \in {"registry", "names"} /\ ~aborted
  /\ phase' = "cards" /\ todo' = <<>> /\ tries' = 0 /\ faulted' = TRUE
  /\ mem' = [mem EXCEPT !.names = Blank.names] /\ report' = [report EXCEPT !.registry = TRUE]
  /\ UNCHANGED <<run, aborted, disk, context, used, cut>> /\ Pooled
RegistryEnd ==
  /\ phase = "names" /\ todo = <<>> /\ phase' = "cards"
  /\ UNCHANGED <<todo, tries, mem, disk, report, cut>> /\ Pooled /\ Asking

(* The cards: the chapters without one, taken from one queue by the workers.   *)
(* A worker that got a card writes the whole cache as it then was.             *)
Busy(w) == work[w].at # "done"
Idle == \A w \in Pool : ~Busy(w)
Moves(w, next) == work' = [work EXCEPT ![w] = next]
NextOne == [Done EXCEPT !.at = "next"]
Cache == UNCHANGED <<run, aborted, todo, tries, used>>

CardsBegin ==
  /\ phase = "cards" /\ Idle
  /\ mem' = [mem EXCEPT !.cards = disk.cards] /\ queue' = {c \in Cards : disk.cards[c] = None}
  /\ work' = [w \in Pool |-> NextOne] /\ phase' = "pool"
  /\ UNCHANGED <<disk, context, report, cut, faulted>> /\ Cache
\* A worker that throws ends the step, and with an abort the run, while the others go on.
Throw(w) == /\ Moves(w, Done)
            /\ IF phase = "pool" THEN phase' = "idle" /\ cut' = TRUE ELSE UNCHANGED <<phase, cut>>
Take(w) ==
  /\ work[w].at = "next"
  /\ IF queue = {} THEN Moves(w, Done) /\ UNCHANGED <<queue, phase, cut>>
     ELSE /\ queue' = queue \ {Min(queue)}
          /\ IF aborted THEN Throw(w)
             ELSE Moves(w, [NextOne EXCEPT !.at = "asking", !.card = Min(queue)])
                  /\ UNCHANGED <<phase, cut>>
  /\ UNCHANGED <<mem, disk, context, report, faulted>> /\ Cache
CardAnswered(w) ==
  /\ work[w].at = "asking" /\ ~aborted
  /\ mem' = [mem EXCEPT !.cards[work[w].card] = run]
  /\ Moves(w, [work[w] EXCEPT !.at = "writing", !.write = mem'.cards])
  /\ UNCHANGED <<phase, disk, queue, context, report, cut, faulted>> /\ Cache
CardRetried(w) ==
  /\ work[w].at = "asking" /\ ~aborted /\ \E k \in Kinds : work[w].tries < Budget(k, 1)
  /\ Moves(w, [work[w] EXCEPT !.tries = @ + 1])
  /\ UNCHANGED <<phase, mem, disk, queue, context, report, cut, faulted>> /\ Cache
Without(c) == report' = IF phase = "pool" THEN [report EXCEPT !.cards = @ \cup {c}] ELSE report
CardFailed(w) ==
  /\ work[w].at = "asking" /\ ~aborted /\ \E k \in Kinds : work[w].tries >= Budget(k, 1)
  /\ Without(work[w].card) /\ Moves(w, NextOne)
  /\ UNCHANGED <<phase, mem, disk, queue, context, cut, faulted>> /\ Cache
CardCutOff(w) ==
  /\ work[w].at = "asking" /\ aborted /\ Throw(w)
  /\ UNCHANGED <<mem, disk, queue, context, report, faulted>> /\ Cache
CardWritten(w) ==
  /\ work[w].at = "writing"
  /\ disk' = [disk EXCEPT !.cards = work[w].write] /\ Moves(w, NextOne)
  /\ UNCHANGED <<phase, mem, queue, context, report, cut, faulted>> /\ Cache
CardUnwritten(w) ==
  /\ DiskFaults /\ work[w].at = "writing" /\ faulted' = TRUE
  /\ IF aborted THEN Throw(w) /\ UNCHANGED report
     ELSE Without(work[w].card) /\ Moves(w, NextOne) /\ UNCHANGED <<phase, cut>>
  /\ UNCHANGED <<mem, disk, queue, context>> /\ Cache

\* Translation begins, with whatever the three steps gave.
Translate(cards) == phase' = "translate" /\ context' = [mem EXCEPT !.cards = cards]
\* The job's progress cannot be saved: the cards are given up, the other workers go on.
PoolLost ==
  /\ DiskFaults /\ ~aborted /\ faulted' = TRUE
  /\ \/ phase = "cards" /\ UNCHANGED work
     \/ phase = "pool" /\ \E w \in Pool : work[w].at = "next" /\ Moves(w, Done)
  /\ Translate(Blank.cards) /\ report' = [report EXCEPT !.pool = TRUE]
  /\ UNCHANGED <<mem, disk, queue, cut>> /\ Cache
PoolEnd ==
  /\ phase = "pool" /\ Idle /\ Translate(mem.cards)
  /\ UNCHANGED <<mem, disk, queue, work, report, cut, faulted>> /\ Cache

Worker(w) == \/ Take(w) \/ CardAnswered(w) \/ CardRetried(w) \/ CardFailed(w) \/ CardCutOff(w)
             \/ CardWritten(w) \/ CardUnwritten(w)
----------------------------------------------------------------------------
(* The rest of the run, and the outside. Bound: the workers of a run are done  *)
(* before the next run begins.                                                 *)
Over ==
  /\ phase = "translate" /\ Idle
  /\ phase' = "idle" /\ used' = [context EXCEPT !.cards = Blank.cards]
  /\ mem' = Blank /\ context' = Blank /\ report' = Silent
  /\ UNCHANGED <<run, aborted, todo, tries, disk, cut, faulted>> /\ Pooled
Abort ==
  /\ phase \notin {"idle", "translate"} /\ ~aborted /\ aborted' = TRUE
  /\ UNCHANGED <<phase, run, todo, tries, mem, disk, context, report, used, cut, faulted>> /\ Pooled
Crash ==
  /\ phase # "idle" /\ phase' = "idle" /\ work' = [w \in Pool |-> Done] /\ todo' = <<>>
  /\ mem' = Blank /\ queue' = {} /\ context' = Blank /\ report' = Silent
  /\ UNCHANGED <<run, aborted, tries, disk, used, cut, faulted>>

Step == \/ StyleKnown \/ StyleAnswered \/ StyleRetried \/ StyleMissing \/ StyleCutOff
        \/ RegistryBegin \/ NamesAnswered \/ NamesRetried \/ NamesHalved \/ NamesFailed
        \/ NamesCutOff \/ RegistryLost \/ RegistryEnd
        \/ CardsBegin \/ PoolLost \/ PoolEnd
        \/ \E w \in Pool : Worker(w)
Next == (Idle /\ Begin) \/ Step \/ Over \/ Abort \/ Crash
Spec == Init /\ [][Next]_vars
\* Calls and their pauses settle, and a worker that can go on does.
FairSpec == Spec /\ WF_vars(Step)
----------------------------------------------------------------------------
TypeOK ==
  /\ phase \in {"idle", "style", "registry", "names", "cards", "pool", "translate"}
  /\ run \in 0 .. MaxRuns /\ tries \in 0 .. 3 /\ {aborted, cut, faulted} \subseteq BOOLEAN
  /\ \A c \in {mem, disk, context, used} :
       /\ c.style \in Answers /\ c.names \in [Names -> Answers] /\ c.cards \in [Cards -> Answers]
  /\ \A i \in DOMAIN todo : todo[i].depth \in 0 .. 2 /\ Asked(todo[i]) \in SUBSET Names \ {{}}
  /\ queue \subseteq Cards
  /\ \A w \in Pool : /\ work[w].at \in {"next", "asking", "writing", "done"}
                      /\ work[w].card \in Cards \cup {None} /\ work[w].tries \in 0 .. 3

\* What the translation does without was reported: no style, name or card is missing
\* unsaid, whichever chunk, half, chapter or write failed (consistency-service.ts,
\* failedChunks; book-pipeline.ts, "they are not silent").
NothingSilent ==
  phase = "translate" =>
    /\ context.style = None => report.style
    /\ \A n \in Names : context.names[n] = None => n \in report.names \/ report.registry
    /\ \A c \in Cards : context.cards[c] = None => c \in report.cards \/ report.pool

\* A pause is not a failure: a run whose questions an abort ended translates nothing
\* (book-pipeline.ts, "swallowing the abort here let a paused run carry on with an
\* empty generated glossary").
PauseIsNoFailure == phase = "translate" => ~cut

\* What a name is called is decided once: as long as no write fails, a run translates
\* with every answer the last one translated with (consistency-service.ts,
\* "re-asking re-rolls it").
DecidedOnce ==
  phase = "translate" /\ ~faulted =>
    /\ used.style # None => context.style = used.style
    /\ \A n \in Names : used.names[n] # None => context.names[n] = used.names[n]

\* Every preflight comes to an end, with translation or with the run.
PreflightEnds == phase = "style" ~> phase \in {"translate", "idle"}

\* A card that was written stays in the file: "a run interrupted halfway keeps the
\* chapters it paid for" (chapter-card-service.ts).
CardsKept == [][\A c \in Cards : disk.cards[c] # None => disk'.cards[c] = disk.cards[c]]_vars
=============================================================================
