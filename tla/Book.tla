---------------------------------- MODULE Book ----------------------------------
(* What becomes of the text of a book after it was edited: the critic judges   *)
(* it, flagged units are repaired and looked at again, the consistency pass    *)
(* rewrites names, what is still in the source language gets one more repair,  *)
(* and the book is built, whatever of this failed. Answers are journaled per   *)
(* batch; the reports and the job's status say what the book was shipped with. *)
(* Bound: the book is one batch, Checkpoints has batches side by side.         *)
EXTENDS Naturals, FiniteSets

CONSTANTS None,
          Units,        \* the logical blocks of the book
          Renderings,       \* what the models may make of a unit, as scan and review see it
          HighQuality,  \* qualityMode is "high"
          PostAudit,    \* postRepairAudit is on
          MaxRuns       \* bound: runs of the job

(* What the scan says of a translated unit: it is in the source language, by a word *)
(* inside it ("word", source_interference) or as a whole ("script", untranslated),  *)
(* much of it is missing ("cut"), it is short or long ("short"), it keeps a word or *)
(* lacks a number ("kept"), or it is "fine". All but "fine" is shown, the first     *)
(* four are hard, three are repaired; what else is wrong only a critic can say. A   *)
(* text has runs of Latin letters besides: a title it keeps, or the source's words. *)
Leaks == {"word", "script"}
Flaws == Leaks \cup {"cut"}
Hard == Flaws \cup {"short"}
Kinds == Hard \cup {"kept", "fine"}

ASSUME BookAssumption ==
  /\ IsFiniteSet(Units) /\ None \notin Units
  /\ Renderings \in [Units -> SUBSET [kind : Kinds, latin : Nat]]
  /\ {HighQuality, PostAudit} \subseteq BOOLEAN /\ MaxRuns \in Nat

VARIABLES status,                  \* the job
          phase, run, aborted,     \* the run
          journal,                 \* edits, audits and repairs on disk
          text,                    \* the book in memory
          before,                  \* the text the repair began with
          verdict,                 \* what the critic said, here "error" if it said nothing usable
          answers,                 \* what the repairer said of the units it was asked about
          rejected, repairFailed,
          report,                  \* quality-report.json
          degraded,                \* the consistency errors of the run, as its report keeps them
          conformant,              \* what EPUBCheck said
          book,                    \* output.epub
          unjudged                 \* history: units no critic has judged
vars == <<status, phase, run, aborted, journal, text, before, verdict, answers, rejected,
          repairFailed, report, degraded, conformant, book, unjudged>>

Text(shape, by) == [kind |-> shape.kind, latin |-> shape.latin, by |-> by]
\* What no repair may be: empty, unbalanced, of another length.
Broken(by) == [kind |-> "broken", latin |-> 0, by |-> by]
Texts == [kind : Kinds \cup {"broken"}, latin : Nat, by : {"editor", "repairer", "final"}]
\* What a model may answer for a unit, and for all of them.
Writes(u, by) == {Text(s, by) : s \in Renderings[u]}
OneOfEach(S) ==
  {f \in [Units -> UNION {S[u] : u \in Units}] : \A u \in Units : f[u] \in S[u]}
\* Severe are a semantic error and an editor's regression the critic rates high, "noted"
\* is anything else it finds.
Verdicts == {"ok", "noted", "severe", "error"}
\* An answer is never taken for none.
ASSUME NoneAssumption == None \notin [Units -> Texts] \cup [Units -> Verdicts]
NoJournal == [edit |-> None, audit |-> None, repair |-> None]
NoText == [u \in Units |-> None]

Init ==
  /\ status = "ready" /\ phase = "idle" /\ run = 0 /\ aborted = FALSE
  /\ journal = NoJournal /\ text = NoText /\ before = NoText
  /\ verdict = [u \in Units |-> "ok"] /\ answers = NoText /\ rejected = {}
  /\ repairFailed = FALSE /\ report = None /\ degraded = FALSE /\ conformant = TRUE
  /\ book = None /\ unjudged = {}
----------------------------------------------------------------------------
(* Running, pausing, failing. *)
Forget == /\ text' = NoText /\ before' = NoText /\ verdict' = [u \in Units |-> "ok"]
          /\ answers' = NoText /\ rejected' = {} /\ repairFailed' = FALSE
Ends(s) == phase' = "idle" /\ status' = s /\ aborted' = FALSE /\ Forget
Begin ==
  /\ status \in {"ready", "paused", "failed", "needs_attention"} /\ phase = "idle" /\ run < MaxRuns
  /\ status' = "running" /\ phase' = "edit" /\ run' = run + 1
  /\ degraded' = FALSE /\ conformant' = TRUE /\ Forget
  /\ UNCHANGED <<aborted, journal, report, book, unjudged>>
Abort ==
  /\ phase # "idle" /\ ~aborted /\ aborted' = TRUE
  /\ UNCHANGED <<status, phase, run, journal, text, before, verdict, answers, rejected,
                 repairFailed, report, degraded, conformant, book, unjudged>>
\* The process ends; the next one finds the job running and pauses it.
Crash ==
  /\ phase # "idle" /\ Ends("paused")
  /\ UNCHANGED <<run, journal, report, degraded, conformant, book, unjudged>>
Changed == {u \in Units : text[u] # before[u]}
Asks == {"edit", "audit", "repair", "again", "verify"}
\* Mutant: a call does not see the signal.
ThrowUnpaused ==
  /\ ~aborted /\ phase = "edit" /\ journal.edit = None /\ Ends("failed")
  /\ UNCHANGED <<run, journal, report, degraded, conformant, book, unjudged>>
\* What sees the signal throws, and so do an editor out of retries, a build that is not
\* valid, and a write that fails, of a journal, a report or the job; the repairer's own
\* failures are caught.
Throw ==
  /\ phase # "idle" /\ (phase = "again" => aborted)
  /\ Ends(IF aborted THEN "paused" ELSE "failed")
  /\ UNCHANGED <<run, journal, report, degraded, conformant, book, unjudged>>

Job == UNCHANGED <<status, run, aborted>>
Ended == UNCHANGED <<degraded, conformant, book>>
----------------------------------------------------------------------------
(* The stages of a batch. *)
AfterEdit == IF HighQuality THEN "audit" ELSE "report"
Edit ==
  /\ phase = "edit" /\ ~aborted
  /\ text' \in IF journal.edit # None THEN {journal.edit}
               ELSE OneOfEach([u \in Units |-> Writes(u, "editor")])
  /\ before' = text' /\ journal' = [journal EXCEPT !.edit = text'] /\ phase' = AfterEdit
  /\ UNCHANGED <<verdict, answers, rejected, repairFailed, report, unjudged>> /\ Job /\ Ended

\* The journal keeps the issues of an audit, and a call that failed has none.
OnRecord(v) == [u \in Units |-> IF v[u] = "error" THEN "ok" ELSE v[u]]
Among(t, kinds) == {u \in Units : t[u].kind \in kinds}
Flagged(v, t) == {u \in Units : v[u] \in {"noted", "severe"}} \cup Among(t, Flaws)
AfterAudit == IF Flagged(verdict', text) = {} THEN "report" ELSE "repair"
AuditKept ==
  /\ phase = "audit" /\ ~aborted /\ journal.audit # None
  /\ verdict' = journal.audit /\ phase' = AfterAudit
  /\ UNCHANGED <<journal, text, before, answers, rejected, repairFailed, report, unjudged>>
  /\ Job /\ Ended
\* The answer is read unit by unit: one that makes no sense reads as no issues.
Judged(lost) == {v \in [Units -> {"ok", "noted", "severe"}] : \A u \in lost : v[u] = "ok"}
Audit ==
  /\ phase = "audit" /\ ~aborted /\ journal.audit = None
  /\ \E lost \in SUBSET Units : verdict' \in Judged(lost) /\ unjudged' = lost
  /\ journal' = [journal EXCEPT !.audit = OnRecord(verdict')] /\ phase' = AfterAudit
  /\ UNCHANGED <<text, before, answers, rejected, repairFailed, report>> /\ Job /\ Ended
\* The critic is advisory: a batch it does not answer is an error for each of its units.
AuditFailed ==
  /\ phase = "audit" /\ ~aborted /\ journal.audit = None
  /\ verdict' = [u \in Units |-> "error"] /\ unjudged' = Units
  /\ journal' = [journal EXCEPT !.audit = OnRecord(verdict')] /\ phase' = AfterAudit
  /\ UNCHANGED <<text, before, answers, rejected, repairFailed, report>> /\ Job /\ Ended

\* reviewRepair: what a repair may not do to the text it replaces. It counts Latin runs and
\* looks at nothing else of the language: a repair in another script, or one with a word of
\* the source where a title was, passes.
Review(old, new) == new = old \/ (new.kind # "broken" /\ new.latin <= old.latin)
Accepted(given, old) == {u \in Units : given[u] # None /\ Review(old[u], given[u])}
Applied(given, old) == [u \in Units |-> IF u \in Accepted(given, old) THEN given[u] ELSE old[u]]
Refused(given, old) == {u \in Units : given[u] # None} \ Accepted(given, old)
Repairs(asked, old, by) ==
  OneOfEach([u \in Units |-> IF u \in asked THEN {old[u], Broken(by)} \cup Writes(u, by) ELSE {None}])
\* What is done with the answers, the journal's or the model's.
Apply(given) ==
  /\ text' = Applied(given, before) /\ rejected' = Refused(given, before) /\ answers' = NoText
  /\ phase' = IF PostAudit THEN "verify" ELSE "report"
RepairKept ==
  /\ phase = "repair" /\ ~aborted /\ journal.repair # None /\ Apply(journal.repair)
  /\ UNCHANGED <<journal, before, verdict, repairFailed, report, unjudged>> /\ Job /\ Ended
Returned(given) == {u \in Units : given[u] # None /\ given[u] = before[u]}
Repair ==
  /\ phase = "repair" /\ ~aborted /\ journal.repair = None
  /\ \E given \in Repairs(Flagged(verdict, text), before, "repairer") :
       IF Returned(given) # {}
       THEN phase' = "again" /\ answers' = given /\ UNCHANGED <<journal, text, rejected>>
       ELSE Apply(given) /\ journal' = [journal EXCEPT !.repair = given]
  /\ UNCHANGED <<before, verdict, repairFailed, report, unjudged>> /\ Job /\ Ended
\* Units that came back word for word are asked about once more.
RepairAgain ==
  /\ phase = "again" /\ ~aborted
  /\ \E second \in Repairs(Returned(answers), before, "repairer") :
       LET given == [u \in Units |-> IF second[u] # None THEN second[u] ELSE answers[u]]
       IN  Apply(given) /\ journal' = [journal EXCEPT !.repair = given]
  /\ UNCHANGED <<before, verdict, repairFailed, report, unjudged>> /\ Job /\ Ended
\* A repair nobody answers costs the batch its polish, the first answers included.
RepairFailed ==
  /\ phase = "again" \/ (phase = "repair" /\ journal.repair = None)
  /\ ~aborted /\ repairFailed' = TRUE /\ Apply(NoText)
  /\ UNCHANGED <<journal, before, verdict, report, unjudged>> /\ Job /\ Ended

\* Mutant: what the second critic says is all that counts.
RevertedByCritic(high) == high
Reverted(high) == high \cup (Changed \cap Among(text, Leaks))
\* The second look at what the repair changed: not journaled, so a resumed run asks again.
Verify ==
  /\ phase = "verify" /\ (Changed # {} => ~aborted)
  /\ \E high \in SUBSET Changed :
       text' = [u \in Units |-> IF u \in Reverted(high) THEN before[u] ELSE text[u]]
  /\ phase' = "report"
  /\ UNCHANGED <<journal, before, verdict, answers, rejected, repairFailed, report, unjudged>>
  /\ Job /\ Ended

\* Mutant: a unit the second look put back still counts as repaired.
UnrepairedAsAnswered ==
  {u \in Flagged(verdict, before) \ rejected :
     \/ repairFailed
     \/ journal.repair # None /\ journal.repair[u] = before[u]}
Unrepaired == IF HighQuality
              THEN {u \in Flagged(verdict, before) \ rejected : text[u] = before[u]} ELSE {}
\* The defects the scan reports, of every kind.
Defects(t) == {<<u, t[u].kind>> : u \in Among(t, Kinds \ {"fine"})}
AuditErrors == {u \in Units : verdict[u] = "error"}
Report ==
  /\ phase = "report"
  /\ LET flagged == IF HighQuality THEN Flagged(verdict, before) ELSE {}
         unresolved == rejected \cup Unrepaired
     IN  report' = [flagged |-> flagged, unresolved |-> unresolved,
                    repaired |-> Cardinality(flagged) - Cardinality(unresolved),
                    severe |-> {u \in unresolved : verdict[u] = "severe" \/ before[u].kind = "cut"},
                    errors |-> AuditErrors, scan |-> Defects(text)]
  /\ phase' = "pass"
  /\ UNCHANGED <<journal, text, before, verdict, answers, rejected, repairFailed, unjudged>>
  /\ Job /\ Ended
----------------------------------------------------------------------------
(* After the batches: the last models that touch the text, and the book. *)
\* The resolver may turn a name into one the source language keeps. Its failure, a pause
\* included, is an error of the run that goes on.
Misnamed(t) == [t EXCEPT !.kind = IF @ = "script" THEN @ ELSE "word", !.latin = @ + 1]
Consistency ==
  /\ phase = "pass" /\ phase' = "final"
  /\ \/ \E renamed \in SUBSET Units :
          /\ aborted => renamed = {}
          /\ text' = [u \in Units |-> IF u \in renamed THEN Misnamed(text[u]) ELSE text[u]]
          /\ degraded' = degraded
     \/ degraded' = TRUE /\ text' = text
  /\ UNCHANGED <<conformant, book, journal, before, verdict, answers, rejected,
                 repairFailed, report, unjudged>> /\ Job

\* The last gate, for what is still in the source language. Nothing to ask sees no signal.
FinalRepair ==
  /\ phase = "final" /\ (Among(text, Leaks) # {} => ~aborted) /\ phase' = "scan"
  /\ \/ text' = text
     \/ \E given \in Repairs(Among(text, Leaks), text, "final") : text' = Applied(given, text)
  /\ UNCHANGED <<journal, before, verdict, answers, rejected, repairFailed, report, unjudged>>
  /\ Job /\ Ended

\* Mutant: what the batches' scan saw is good enough.
FinalScanOnce(t) == report.scan
FinalScan(t) == Defects(t)
Scan ==
  /\ phase = "scan" /\ phase' = "build"
  /\ report' = [report EXCEPT !.scan = FinalScan(text)]
  /\ UNCHANGED <<journal, text, before, verdict, answers, rejected, repairFailed, unjudged>>
  /\ UNCHANGED <<degraded, conformant, book>> /\ Job
Publish ==
  /\ phase = "build" /\ phase' = "check" /\ book' = text
  /\ conformant' \in BOOLEAN
  /\ UNCHANGED <<degraded, journal, text, before, verdict, answers, rejected,
                 repairFailed, report, unjudged>> /\ Job
\* What keeps a job from being completed. A batch no critic answered and a repair nobody
\* answered do not, nor does a finding that is not severe.
Attention ==
  degraded \/ ~conformant \/ report.severe # {} \/ \E d \in report.scan : d[2] \in Hard
Finish ==
  /\ phase = "check"
  /\ Ends(IF aborted THEN "paused" ELSE IF Attention THEN "needs_attention" ELSE "completed")
  /\ UNCHANGED <<run, journal, report, degraded, conformant, book, unjudged>>

\* What the job's page is told of the report and the book that are on disk.
Results ==
  [flagged |-> Cardinality(report.flagged), repaired |-> report.repaired,
   remaining |-> Cardinality(report.unresolved), defects |-> Cardinality(report.scan),
   outputAvailable |-> book # None]

Stage == \/ Edit \/ AuditKept \/ Audit \/ AuditFailed \/ RepairKept \/ Repair \/ RepairAgain \/ RepairFailed
         \/ Verify \/ Report \/ Throw
Ending == Consistency \/ FinalRepair \/ Scan \/ Publish \/ Finish
Next == Begin \/ Stage \/ Ending \/ Abort \/ Crash
Spec == Init /\ [][Next]_vars
\* A call settles, and what awaits it goes on.
FairSpec == Spec /\ WF_vars(Stage \/ Ending)
----------------------------------------------------------------------------
TypeOK ==
  /\ status \in {"ready", "running", "paused", "failed", "needs_attention", "completed"}
  /\ phase \in Asks \cup {"idle", "report", "pass", "final", "scan", "build", "check"}
  /\ (phase # "idle") = (status = "running") /\ run \in 0 .. MaxRuns
  /\ {aborted, repairFailed, degraded, conformant} \subseteq BOOLEAN
  /\ \A f \in {text, before, answers} : f \in [Units -> Texts \cup {None}]
  /\ verdict \in [Units -> Verdicts] /\ rejected \cup unjudged \subseteq Units
  /\ phase \notin {"idle", "edit"} => \A u \in Units : text[u] # None /\ text[u].kind # "broken"

\* The report adds up, also as the job's page shows it: what it counts as repaired is exactly
\* what reads differently now, and nothing else was touched, whichever repair failed, was
\* refused, ignored or put back
\* (job-runner.ts, "A block the model handed back word for word was not repaired, and neither
\* was one the post-repair audit reverted").
ReportAddsUp ==
  phase = "pass" =>
    /\ report.repaired = Cardinality(Changed) /\ Changed \subseteq report.flagged
    /\ report.unresolved = report.flagged \ Changed
    /\ Results.flagged = Results.repaired + Results.remaining

\* With the second look, no unit a repair changed is in the source language, or has a word
\* of it inside, whatever the review let through, however often the run was cut off between
\* a repair's record and the look at it (job-runner.ts, "a repair that leaves a source word
\* inside the sentence it rewrote is strictly worse than the text it replaced").
RepairsAreSafe == phase = "pass" /\ PostAudit => Changed \cap Among(text, Leaks) = {}

\* The verdict on a job is true of the book it ships: the page shows the defects that book
\* has, however often it was paused, rewritten or run again, whatever changed it last; and a
\* completed book has no unit the scan finds hard, no unit that stands as the editor wrote it
\* where the critic's record has a severe finding, no error of the consistency pass, and no
\* complaint of EPUBCheck (book-pipeline.ts:519-539, job-orchestrator.ts:133). It may have
\* lighter findings, and units no critic judged or no repairer answered for.
VerdictIsTrue ==
  /\ status \in {"completed", "needs_attention"} =>
       Results.outputAvailable /\ Results.defects = Cardinality(Defects(book))
  /\ status = "completed" =>
       /\ Among(book, Hard) = {}
       /\ HighQuality => \A u \in Units : journal.audit[u] = "severe" => book[u].by # "editor"
       /\ ~degraded /\ conformant

\* Every run ends: with a book, a failure or a pause.
RunEnds == status = "running" ~> status # "running"

\* A unit the critic never judged is counted as such by every run that ships it
\* (book-pipeline.ts, "Every term below is recomputed over the whole book on every run,
\* cached batches included").
AuditErrorsCounted == phase = "pass" => unjudged \subseteq report.errors
=============================================================================
