------------------------------ MODULE Book_proofs ------------------------------
(* Theorems about Book, for any finite book and any number of runs, in both     *)
(* qualities, with or without the second look; about Names, for any book, any   *)
(* names and whatever the resolver answers; about Text, for any document, any   *)
(* budget and any order of the answers; and about Repair, for any document, any *)
(* archive and whatever uniqueId makes of an id.                                *)
EXTENDS Book, Names, Text, Repair, FiniteSetTheorems, WellFoundedInduction, TLAPS

\* Induction on the natural numbers: a set of them has a least one.
LEMMA Least ==
    ASSUME NEW T, T \subseteq Nat, T # {}
    PROVE  \E n \in T : \A m \in T : n <= m
<1>1. PICK x \in T : \A y \in T : ~(<<y, x>> \in OpToRel(<, Nat))
  BY NatLessThanWellFounded, WFMin
<1>2. \A y \in T : ~(y < x)
  BY <1>1 DEF OpToRel
<1> QED
  BY <1>2
-----------------------------------------------------------------------------
(* Book. *)

Edits == [Units -> [kind : Kinds, latin : Nat, by : {"editor"}]]
Written == [Units -> [kind : Kinds, latin : Nat, by : {"editor", "repairer", "final"}]]
Audits == [Units -> {"ok", "noted", "severe"}]
Given == [Units -> Texts \cup {None}]
Reports == [flagged : SUBSET Units, unresolved : SUBSET Units, repaired : Nat,
            severe : SUBSET Units, errors : SUBSET Units, scan : SUBSET (Units \X Kinds)]

\* Answers to the question about the units in `asked` of the text `old`.
Answers(given, asked, old) ==
    /\ given \in Given
    /\ \A u \in Units : given[u] # None =>
         u \in asked /\ (given[u] = old[u] \/ given[u].by = "repairer")

\* The journal is filled in the order of the stages, and an old answer is one to
\* the question a new run would ask again.
Kept ==
    /\ journal \in [edit : Edits \cup {None}, audit : Audits \cup {None}, repair : Given \cup {None}]
    /\ journal.audit # None => HighQuality /\ journal.edit # None
    /\ journal.repair # None =>
         /\ journal.audit # None
         /\ Answers(journal.repair, Flagged(journal.audit, journal.edit), journal.edit)

\* The run at work on its batch: it has the text and the verdicts the journal has.
JudgedOnRecord ==
    /\ journal.audit # None /\ verdict \in [Units -> Verdicts]
    /\ journal.audit = OnRecord(verdict)
\* What was repaired was flagged; what was refused is as it was.
Mended ==
    /\ rejected \subseteq Flagged(verdict, before)
    /\ \A u \in rejected : text[u] = before[u]
    /\ \A u \in Changed : /\ u \in Flagged(verdict, before) /\ text[u].by = "repairer"
Working ==
    /\ phase \in {"audit", "repair", "again", "verify", "report"} =>
         before = journal.edit /\ before \in Edits /\ text \in Written
    /\ phase \in {"audit", "repair", "again", "verify"} => HighQuality
    /\ phase = "edit" => rejected = {}
    /\ phase \in {"audit", "repair", "again"} \/ (phase = "report" /\ ~HighQuality) =>
         text = before /\ rejected = {}
    /\ phase \in {"repair", "again", "verify"} \/ (phase = "report" /\ HighQuality) => JudgedOnRecord
    /\ phase = "again" => Answers(answers, Flagged(verdict, before), before)
    /\ phase = "verify" \/ (phase = "report" /\ HighQuality) => Mended
    /\ phase = "report" /\ PostAudit => Changed \cap Among(text, Leaks) = {}

\* The run after its batches: what the critic found severe and nobody mended is in
\* the report, and the book is the text that was scanned.
Severe(t) == HighQuality =>
    /\ journal.audit # None
    /\ \A u \in Units : journal.audit[u] = "severe" => t[u].by # "editor" \/ u \in report.severe
Reported ==
    /\ phase \in {"pass", "final", "scan", "build", "check"} =>
         text \in Written /\ report \in Reports /\ Severe(text)
    /\ ReportAddsUp /\ RepairsAreSafe
    /\ phase \in {"build", "check"} => report.scan = Defects(text)
    /\ phase = "check" => book = text

\* The job and the book it shows.
Shown ==
    /\ (phase # "idle") = (status = "running")
    /\ status \in {"completed", "needs_attention"} =>
         book \in Written /\ report.scan = Defects(book)
    /\ status = "completed" =>
         /\ Among(book, Hard) = {} /\ ~degraded /\ conformant
         /\ HighQuality => \A u \in Units : journal.audit[u] = "severe" => book[u].by # "editor"

Inv == Kept /\ Working /\ Reported /\ Shown
-----------------------------------------------------------------------------
\* A part of a finite set and the rest of it.
LEMMA TheRest ==
    ASSUME NEW S, IsFiniteSet(S), NEW T \in SUBSET S
    PROVE  /\ Cardinality(T) \in Nat /\ Cardinality(S) \in Nat /\ Cardinality(S \ T) \in Nat
           /\ Cardinality(S) = Cardinality(T) + Cardinality(S \ T)
<1>1. IsFiniteSet(T) /\ IsFiniteSet(S \ T)
  BY FS_Subset, S \ T \in SUBSET S
<1>2. S \cap T = T
  OBVIOUS
<1>3. Cardinality(S \ T) = Cardinality(S) - Cardinality(T)
  BY <1>2, FS_Difference
<1>4. Cardinality(T) \in Nat /\ Cardinality(S) \in Nat /\ Cardinality(S \ T) \in Nat
  BY <1>1, FS_CardinalityType
<1> QED
  BY <1>3, <1>4

\* What is recorded of an audit flags the same units.
LEMMA RecordFlags ==
    ASSUME NEW v \in [Units -> Verdicts], NEW t
    PROVE  /\ OnRecord(v) \in Audits /\ OnRecord(v) # None
           /\ Flagged(OnRecord(v), t) = Flagged(v, t)
           /\ \A u \in Units : OnRecord(v)[u] = v[u] \/ (OnRecord(v)[u] = "ok" /\ v[u] = "error")
<1>1. OnRecord(v) \in Audits
  BY DEF OnRecord, Audits, Verdicts
<1>2. \A u \in Units : OnRecord(v)[u] = v[u] \/ (OnRecord(v)[u] = "ok" /\ v[u] = "error")
  BY DEF OnRecord
<1>3. OnRecord(v) \in [Units -> Verdicts]
  BY <1>1 DEF Audits, Verdicts
<1>4. OnRecord(v) # None
  BY <1>3, NoneAssumption
<1> QED
  BY <1>1, <1>2, <1>4 DEF Flagged

\* What becomes of the text when answers are applied to it: only what was asked about
\* changes, by a repair that passed its review.
LEMMA ApplyMends ==
    ASSUME before \in Edits, NEW given, Answers(given, Flagged(verdict, before), before),
           Apply(given), UNCHANGED <<before, verdict>>
    PROVE  text' \in Written /\ Mended'
<1>1. text' = Applied(given, before) /\ rejected' = Refused(given, before)
  BY DEF Apply
<1>2. \A u \in Units : before[u] \in [kind : Kinds, latin : Nat, by : {"editor"}]
  BY DEF Edits
<1>3. ASSUME NEW u \in Units, u \in Accepted(given, before)
      PROVE  /\ given[u] \in [kind : Kinds, latin : Nat, by : {"editor", "repairer", "final"}]
             /\ u \in Flagged(verdict, before)
             /\ given[u] = before[u] \/ given[u].by = "repairer"
  <2>1. given[u] # None /\ Review(before[u], given[u])
    BY <1>3 DEF Accepted
  <2>2. given[u] \in Texts
    BY <2>1 DEF Answers, Given
  <2>3. CASE given[u] = before[u]
    BY <2>1, <2>3, <1>2 DEF Answers
  <2>4. CASE given[u] # before[u]
    BY <2>1, <2>2, <2>4 DEF Review, Texts, Answers
  <2> QED
    BY <2>3, <2>4
<1>4. text' \in Written
  BY <1>1, <1>2, <1>3 DEF Applied, Written
<1>5. \A u \in Units : text'[u] = IF u \in Accepted(given, before) THEN given[u] ELSE before[u]
  BY <1>1 DEF Applied
<1>6. \A u \in rejected' : u \in Flagged(verdict, before) /\ text'[u] = before[u]
  BY <1>1, <1>5 DEF Refused, Answers
<1>7. \A u \in Changed' : /\ u \in Flagged(verdict, before) /\ text'[u].by = "repairer"
  BY <1>3, <1>5 DEF Changed
<1>8. Flagged(verdict, before)' = Flagged(verdict, before)
  BY DEF Flagged
<1> QED
  BY <1>4, <1>6, <1>7, <1>8 DEF Mended

\* What a model may write, and what no repair may be, are texts.
LEMMA WritesAre ==
    ASSUME NEW u \in Units, NEW by \in {"editor", "repairer", "final"}, NEW t \in Writes(u, by)
    PROVE  t \in [kind : Kinds, latin : Nat, by : {by}] /\ t \in Texts /\ t.by = by
<1>1. PICK s \in Renderings[u] : t = Text(s, by)
  BY DEF Writes
<1>2. s.kind \in Kinds /\ s.latin \in Nat
  BY BookAssumption DEF BookAssumption
<1>3. t = [kind |-> s.kind, latin |-> s.latin, by |-> by]
  BY <1>1 DEF Text
<1> QED
  BY <1>2, <1>3 DEF Texts
LEMMA BrokenIs ==
    ASSUME NEW by \in {"editor", "repairer", "final"}
    PROVE  Broken(by) \in Texts /\ Broken(by).by = by /\ Broken(by).kind = "broken"
BY DEF Broken, Texts

\* The answers a model may give to a question are answers to it.
LEMMA RepairsAnswer ==
    ASSUME NEW asked \in SUBSET Units, NEW old \in [Units -> Texts],
           NEW given \in Repairs(asked, old, "repairer")
    PROVE  Answers(given, asked, old)
<1> DEFINE new == UNION {Writes(u, "repairer") \cup {Broken("repairer")} : u \in Units}
<1>1. \A u \in Units : given[u] \in IF u \in asked THEN {old[u]} \cup new ELSE {None}
  BY DEF Repairs, OneOfEach
<1>2. new \subseteq Texts /\ \A t \in new : t.by = "repairer"
  BY WritesAre, BrokenIs
<1> HIDE DEF new
<1>3. given \in Given
  <2>1. given = [u \in Units |-> given[u]]
    BY DEF Repairs, OneOfEach
  <2>2. \A u \in Units : given[u] \in Texts \cup {None}
    BY <1>1, <1>2
  <2> QED
    BY <2>1, <2>2 DEF Given
<1> QED
  BY <1>1, <1>2, <1>3 DEF Answers

\* The edits of a book are texts, and not nothing.
LEMMA EditsAreTexts == \A t \in Edits : t \in Written /\ t \in [Units -> Texts] /\ t # None
<1>1. \A t \in Edits : t \in Written /\ t \in [Units -> Texts]
  BY DEF Edits, Written, Texts
<1> QED
  BY <1>1, NoneAssumption
-----------------------------------------------------------------------------
\* A job that was not begun.
LEMMA InitHolds == Init => Inv
<1> SUFFICES ASSUME Init PROVE Inv
  OBVIOUS
<1>1. Kept
  BY DEF Init, Kept, NoJournal
<1>2. Working /\ Reported /\ Shown
  BY DEF Init, Working, Reported, Shown, ReportAddsUp, RepairsAreSafe
<1> QED
  BY <1>1, <1>2 DEF Inv

\* A run that ends without a verdict, or did not begin its batch, has nothing to keep
\* but the journal.
LEMMA NothingAtHand ==
    ASSUME Inv, UNCHANGED journal, phase' \in {"idle", "edit"},
           phase' = "edit" => rejected' = {},
           (phase' # "idle") = (status' = "running"),
           status' \notin {"completed", "needs_attention"}
    PROVE  Inv'
<1>1. Kept'
  BY DEF Inv, Kept, Answers, Flagged, Among, Defects
<1>2. Working'
  BY DEF Working
<1>3. Reported' /\ Shown'
  BY DEF Reported, Shown, ReportAddsUp, RepairsAreSafe
<1> QED
  BY <1>1, <1>2, <1>3 DEF Inv

\* The beginning of a run and all of its ends but the last.
LEMMA EndsHold ==
    ASSUME Inv, Begin \/ Crash \/ Throw
    PROVE  Inv'
<1>1. CASE Begin
  BY <1>1, NothingAtHand DEF Begin, Forget
<1>2. CASE Crash \/ Throw
  BY <1>2, NothingAtHand DEF Crash, Throw, Ends
<1> QED
  BY <1>1, <1>2

\* An edit is the journal's, or one that the journal is given; then nothing else is in it.
LEMMA EditHolds ==
    ASSUME Inv, Edit
    PROVE  Inv'
<1>1. text' \in Edits /\ (journal.edit # None => text' = journal.edit)
  <2>1. CASE journal.edit # None
    BY <2>1 DEF Edit, Inv, Kept
  <2>2. CASE journal.edit = None
    <3>1. text' \in OneOfEach([u \in Units |-> Writes(u, "editor")])
      BY <2>2 DEF Edit
    <3>2. text' = [u \in Units |-> text'[u]] /\ \A u \in Units : text'[u] \in Writes(u, "editor")
      BY <3>1 DEF OneOfEach
    <3>3. \A u \in Units : text'[u] \in [kind : Kinds, latin : Nat, by : {"editor"}]
      BY <3>2, WritesAre
    <3> QED
      BY <2>2, <3>2, <3>3 DEF Edits
  <2> QED
    BY <2>1, <2>2
<1>2. /\ journal' = [journal EXCEPT !.edit = text'] /\ before' = text'
      /\ phase' = IF HighQuality THEN "audit" ELSE "report"
      /\ phase = "edit" /\ rejected = {}
      /\ UNCHANGED <<verdict, rejected, report, status, book>>
  BY DEF Edit, AfterEdit, Job, Ended, Inv, Working
<1>3. /\ journal'.edit = text' /\ journal'.audit = journal.audit
      /\ journal'.repair = journal.repair
      /\ journal' \in [edit : Edits \cup {None}, audit : Audits \cup {None}, repair : Given \cup {None}]
  BY <1>1, <1>2 DEF Inv, Kept
<1>4. Kept'
  <2>1. CASE journal.edit = None
    BY <2>1, <1>3 DEF Inv, Kept
  <2>2. CASE journal.edit # None
    BY <2>2, <1>1, <1>3, EditsAreTexts DEF Inv, Kept
  <2> QED
    BY <2>1, <2>2
<1>5. Working'
  BY <1>1, <1>2, <1>3, EditsAreTexts DEF Working, Changed
<1>6. Reported' /\ Shown'
  BY <1>2 DEF Inv, Reported, Shown, ReportAddsUp, RepairsAreSafe
<1> QED
  BY <1>4, <1>5, <1>6 DEF Inv

\* A verdict on the text, once it is on record.
LEMMA AfterAuditHolds ==
    ASSUME Inv, phase = "audit", verdict' \in [Units -> Verdicts],
           phase' = IF Flagged(verdict', text) = {} THEN "report" ELSE "repair",
           Kept', journal'.edit = journal.edit, journal'.audit = OnRecord(verdict'),
           UNCHANGED <<text, before, rejected, report, status, book>>
    PROVE  Inv'
<1>1. /\ before = journal.edit /\ before \in Edits /\ text \in Written
      /\ HighQuality /\ text = before /\ rejected = {}
  BY DEF Inv, Working
<1>2. JudgedOnRecord'
  BY RecordFlags DEF JudgedOnRecord
<1>3. Mended' /\ Changed' = {}
  BY <1>1 DEF Mended, Changed
<1>4. Working'
  BY <1>1, <1>2, <1>3 DEF Working
<1>5. Reported' /\ Shown'
  BY DEF Inv, Reported, Shown, ReportAddsUp, RepairsAreSafe
<1> QED
  BY <1>4, <1>5 DEF Inv

\* The verdict may be the journal's, the critic's, or missing.
LEMMA AuditHolds ==
    ASSUME Inv, AuditKept \/ Audit \/ AuditFailed
    PROVE  Inv'
<1>1. /\ phase = "audit"
      /\ phase' = IF Flagged(verdict', text) = {} THEN "report" ELSE "repair"
      /\ UNCHANGED <<text, before, rejected, report, status, book>>
  BY DEF AuditKept, Audit, AuditFailed, AfterAudit, Job, Ended
<1>2. HighQuality /\ journal.edit \in Edits /\ journal.edit # None
  BY <1>1, EditsAreTexts DEF Inv, Working
<1>3. CASE AuditKept
  <2>1. verdict' = journal.audit /\ UNCHANGED journal /\ journal.audit \in Audits
    BY <1>3 DEF AuditKept, Inv, Kept
  <2>2. verdict' \in [Units -> Verdicts] /\ OnRecord(verdict') = verdict'
    BY <2>1 DEF Audits, Verdicts, OnRecord
  <2>3. Kept'
    BY <2>1 DEF Inv, Kept, Answers, Flagged, Among, Defects
  <2> QED
    BY <1>1, <2>1, <2>2, <2>3, AfterAuditHolds
<1>4. CASE Audit \/ AuditFailed
  <2>1. /\ journal.audit = None /\ journal' = [journal EXCEPT !.audit = OnRecord(verdict')]
        /\ verdict' \in [Units -> Verdicts]
    BY <1>4 DEF Audit, AuditFailed, Judged, Verdicts
  <2>2. /\ journal'.edit = journal.edit /\ journal'.audit = OnRecord(verdict')
        /\ journal'.repair = journal.repair
        /\ journal' \in [edit : Edits \cup {None}, audit : Audits \cup {None}, repair : Given \cup {None}]
    BY <2>1, RecordFlags DEF Inv, Kept
  <2>3. Kept'
    BY <1>2, <2>1, <2>2 DEF Inv, Kept
  <2> QED
    BY <1>1, <2>1, <2>2, <2>3, AfterAuditHolds
<1> QED
  BY <1>3, <1>4
-----------------------------------------------------------------------------
\* Answers to the repairer's question, once they are on record.
LEMMA AfterApplyHolds ==
    ASSUME Inv, phase \in {"repair", "again"},
           NEW given, Answers(given, Flagged(verdict, before), before), Apply(given),
           Kept', journal'.edit = journal.edit, journal'.audit = journal.audit,
           UNCHANGED <<before, verdict, report, status, book>>
    PROVE  Inv'
<1>1. before = journal.edit /\ before \in Edits /\ HighQuality /\ JudgedOnRecord
  BY DEF Inv, Working
<1>2. text' \in Written /\ Mended'
  BY <1>1, ApplyMends
<1>3. phase' = IF PostAudit THEN "verify" ELSE "report"
  BY DEF Apply
<1>4. JudgedOnRecord'
  BY <1>1 DEF JudgedOnRecord, OnRecord
<1>5. Working'
  BY <1>1, <1>2, <1>3, <1>4 DEF Working
<1>6. Reported' /\ Shown'
  BY <1>3 DEF Inv, Reported, Shown, ReportAddsUp, RepairsAreSafe
<1> QED
  BY <1>5, <1>6 DEF Inv

\* A repair is the journal's, the model's, the model's at the second asking, or none.
LEMMA RepairHolds ==
    ASSUME Inv, RepairKept \/ Repair \/ RepairAgain \/ RepairFailed
    PROVE  Inv'
<1>1. phase \in {"repair", "again"} /\ UNCHANGED <<before, verdict, report, status, book>>
  BY DEF RepairKept, Repair, RepairAgain, RepairFailed, Job, Ended
<1>2. /\ before = journal.edit /\ before \in Edits /\ text = before
      /\ HighQuality /\ JudgedOnRecord /\ rejected = {}
  BY <1>1 DEF Inv, Working
<1>3. /\ Flagged(journal.audit, journal.edit) = Flagged(verdict, before)
      /\ Flagged(verdict, before) \subseteq Units
  BY <1>2, RecordFlags DEF JudgedOnRecord, Flagged, Among, Defects
<1>4. before \in [Units -> Texts]
  BY <1>2, EditsAreTexts
<1>5. ASSUME UNCHANGED journal PROVE Kept'
  BY <1>5 DEF Inv, Kept, Answers, Flagged, Among, Defects
<1>6. ASSUME NEW given, Answers(given, Flagged(verdict, before), before),
             journal' = [journal EXCEPT !.repair = given]
      PROVE  Kept' /\ journal'.edit = journal.edit /\ journal'.audit = journal.audit
  <2>1. /\ journal'.edit = journal.edit /\ journal'.audit = journal.audit
        /\ journal'.repair = given
        /\ journal' \in [edit : Edits \cup {None}, audit : Audits \cup {None}, repair : Given \cup {None}]
    BY <1>6 DEF Inv, Kept, Answers
  <2>2. Answers(given, Flagged(journal.audit, journal.edit), journal.edit)
    BY <1>2, <1>3, <1>6
  <2>3. journal'.repair # None =>
          Answers(journal'.repair, Flagged(journal'.audit, journal'.edit), journal'.edit)
    BY <2>1, <2>2
  <2> QED
    BY <1>2, <2>1, <2>3 DEF Kept, JudgedOnRecord, Inv, Flagged, Among, Defects, Answers
<1>7. CASE RepairKept
  <2>1. /\ journal.repair # None /\ Apply(journal.repair) /\ UNCHANGED journal
        /\ phase = "repair"
    BY <1>7 DEF RepairKept
  <2>2. Answers(journal.repair, Flagged(verdict, before), before)
    BY <1>2, <1>3, <2>1 DEF Inv, Kept
  <2> QED
    BY <1>1, <1>5, <2>1, <2>2, AfterApplyHolds
<1>8. CASE Repair
  <2>1. PICK given \in Repairs(Flagged(verdict, text), before, "repairer") :
          IF Returned(given) # {}
          THEN phase' = "again" /\ answers' = given /\ UNCHANGED <<journal, text, rejected>>
          ELSE Apply(given) /\ journal' = [journal EXCEPT !.repair = given]
    BY <1>8 DEF Repair
  <2>2. Answers(given, Flagged(verdict, before), before)
    BY <1>2, <1>3, <1>4, RepairsAnswer
  <2>3. CASE Returned(given) # {}
    <3>1. phase' = "again" /\ answers' = given /\ UNCHANGED <<journal, text, rejected>>
      BY <2>1, <2>3
    <3>2. Working'
      <4>1. Answers(answers, Flagged(verdict, before), before)'
        BY <1>1, <2>2, <3>1 DEF Answers, Flagged, Among, Defects
      <4>2. JudgedOnRecord'
        BY <1>1, <1>2, <3>1 DEF JudgedOnRecord, OnRecord
      <4> QED
        BY <1>1, <1>2, <3>1, <4>1, <4>2, EditsAreTexts DEF Working
    <3>3. Reported' /\ Shown'
      BY <1>1, <3>1 DEF Inv, Reported, Shown, ReportAddsUp, RepairsAreSafe
    <3> QED
      BY <1>5, <3>1, <3>2, <3>3 DEF Inv
  <2>4. CASE Returned(given) = {}
    BY <1>1, <1>6, <2>1, <2>2, <2>4, AfterApplyHolds
  <2> QED
    BY <2>3, <2>4
<1>9. CASE RepairAgain
  <2>1. PICK second \in Repairs(Returned(answers), before, "repairer") :
          LET given == [u \in Units |-> IF second[u] # None THEN second[u] ELSE answers[u]]
          IN  Apply(given) /\ journal' = [journal EXCEPT !.repair = given]
    BY <1>9 DEF RepairAgain
  <2> DEFINE given == [u \in Units |-> IF second[u] # None THEN second[u] ELSE answers[u]]
  <2>2. Answers(answers, Flagged(verdict, before), before)
    BY <1>9 DEF RepairAgain, Inv, Working
  <2>3. Returned(answers) \subseteq Flagged(verdict, before) /\ Returned(answers) \subseteq Units
    BY <2>2 DEF Returned, Answers
  <2>4. Answers(second, Returned(answers), before)
    BY <1>4, <2>3, RepairsAnswer
  <2>5. Answers(given, Flagged(verdict, before), before)
    BY <2>2, <2>3, <2>4 DEF Answers, Given
  <2>6. Apply(given) /\ journal' = [journal EXCEPT !.repair = given]
    BY <2>1
  <2> HIDE DEF given
  <2> QED
    BY <1>1, <1>6, <2>5, <2>6, AfterApplyHolds
<1>10. CASE RepairFailed
  <2>1. Apply(NoText) /\ UNCHANGED journal
    BY <1>10 DEF RepairFailed
  <2>2. Answers(NoText, Flagged(verdict, before), before)
    BY DEF NoText, Answers, Given
  <2> QED
    BY <1>1, <1>5, <2>1, <2>2, AfterApplyHolds
<1> QED
  BY <1>7, <1>8, <1>9, <1>10

\* The second look puts back, it does not write.
LEMMA VerifyHolds ==
    ASSUME Inv, Verify
    PROVE  Inv'
<1>1. PICK high \in SUBSET Changed :
        text' = [u \in Units |-> IF u \in Reverted(high) THEN before[u] ELSE text[u]]
  BY DEF Verify
<1>2. /\ phase = "verify" /\ phase' = "report"
      /\ UNCHANGED <<journal, before, verdict, rejected, report, status, book>>
  BY DEF Verify, Job, Ended
<1>3. /\ before = journal.edit /\ before \in Edits /\ text \in Written
      /\ HighQuality /\ JudgedOnRecord /\ Mended
  BY <1>2 DEF Inv, Working
<1>4. text' \in Written
  <2>1. before \in Written
    BY <1>3, EditsAreTexts
  <2> QED
    BY <1>1, <1>3, <2>1 DEF Written
<1>5. \A u \in Changed' : u \in Changed /\ text'[u] = text[u] /\ text[u].kind \notin Leaks
  BY <1>1, <1>2 DEF Changed, Reverted, Among
<1>6. \A u \in rejected : u \in Units /\ text'[u] = before[u]
  <2>1. \A u \in rejected : u \in Units /\ text[u] = before[u]
    BY <1>3 DEF Mended, Flagged, Among, Defects
  <2> QED
    BY <1>1, <2>1
<1>7. Mended'
  BY <1>2, <1>3, <1>5, <1>6 DEF Mended, Flagged, Among, Defects
<1>8. JudgedOnRecord'
  BY <1>2, <1>3 DEF JudgedOnRecord, OnRecord
<1>9. Kept' /\ Working'
  <2>1. Kept'
    BY <1>2 DEF Inv, Kept, Answers, Flagged, Among, Defects
  <2>2. Changed' \cap Among(text', Leaks) = {}
    BY <1>5 DEF Among
  <2> QED
    BY <1>2, <1>3, <1>4, <1>7, <1>8, <2>1, <2>2 DEF Working
<1>10. Reported' /\ Shown'
  BY <1>2 DEF Inv, Reported, Shown, ReportAddsUp, RepairsAreSafe
<1> QED
  BY <1>9, <1>10 DEF Inv

\* The report: all that was flagged was either changed or is unresolved.
LEMMA ReportHolds ==
    ASSUME Inv, Report
    PROVE  Inv'
<1> DEFINE flagged == IF HighQuality THEN Flagged(verdict, before) ELSE {}
           unresolved == rejected \cup Unrepaired
<1>1. /\ report' = [flagged |-> flagged, unresolved |-> unresolved,
                    repaired |-> Cardinality(flagged) - Cardinality(unresolved),
                    severe |-> {u \in unresolved : verdict[u] = "severe" \/ before[u].kind = "cut"},
                    errors |-> AuditErrors, scan |-> Defects(text)]
      /\ phase = "report" /\ phase' = "pass"
      /\ UNCHANGED <<journal, text, before, verdict, rejected, status, book>>
  BY DEF Report, Job, Ended
<1>2. before = journal.edit /\ before \in Edits /\ text \in Written
  BY <1>1 DEF Inv, Working
<1>3. Changed \subseteq flagged /\ unresolved = flagged \ Changed /\ flagged \subseteq Units
  <2>1. CASE HighQuality
    <3>1. Mended
      BY <1>1, <2>1 DEF Inv, Working
    <3>2. flagged = Flagged(verdict, before) /\ flagged \subseteq Units
      BY <2>1 DEF Flagged, Among, Defects
    <3>3. unresolved = {u \in flagged : text[u] = before[u]}
      BY <2>1, <3>1, <3>2 DEF Unrepaired, Mended
    <3> QED
      BY <3>1, <3>2, <3>3 DEF Mended, Changed
  <2>2. CASE ~HighQuality
    <3>1. text = before /\ rejected = {}
      BY <1>1, <2>2 DEF Inv, Working
    <3> QED
      BY <2>2, <3>1 DEF Unrepaired, Changed
  <2> QED
    BY <2>1, <2>2
<1>4. IsFiniteSet(flagged)
  BY <1>3, FS_Subset, BookAssumption DEF BookAssumption
<1>5. /\ Cardinality(flagged) \in Nat /\ Cardinality(unresolved) \in Nat
      /\ Cardinality(Changed) \in Nat
      /\ Cardinality(flagged) = Cardinality(Changed) + Cardinality(unresolved)
  BY <1>3, <1>4, TheRest
<1>6. /\ report' \in Reports
      /\ report'.flagged = flagged /\ report'.unresolved = unresolved
      /\ report'.repaired = Cardinality(Changed)
      /\ report'.severe = {u \in unresolved : verdict[u] = "severe" \/ before[u].kind = "cut"}
  <2>1. Cardinality(flagged) - Cardinality(unresolved) = Cardinality(Changed)
    BY <1>5
  <2>2. unresolved \subseteq Units /\ AuditErrors \subseteq Units /\ Defects(text) \subseteq Units \X Kinds
    BY <1>3 DEF AuditErrors, Defects, Among
  <2> HIDE DEF flagged, unresolved
  <2> QED
    BY <1>1, <1>3, <1>5, <2>1, <2>2 DEF Reports
<1>7. Changed' = Changed
  BY <1>1 DEF Changed
<1>8. ReportAddsUp'
  <2>1. Results'.flagged = Results'.repaired + Results'.remaining
    BY <1>5, <1>6 DEF Results
  <2> QED
    BY <1>3, <1>6, <1>7, <2>1 DEF ReportAddsUp
<1>9. RepairsAreSafe'
  <2>1. PostAudit => Changed \cap Among(text, Leaks) = {}
    BY <1>1 DEF Inv, Working
  <2>2. UNCHANGED Among(text, Leaks)
    BY <1>1 DEF Among
  <2> QED
    BY <1>7, <2>1, <2>2 DEF RepairsAreSafe
<1>10. Severe(text)'
  <2> SUFFICES ASSUME HighQuality
               PROVE  /\ journal.audit # None
                      /\ \A u \in Units : journal.audit[u] = "severe" =>
                           text[u].by # "editor" \/ u \in report'.severe
    BY <1>1 DEF Severe
  <2>1. JudgedOnRecord /\ Mended
    BY <1>1 DEF Inv, Working
  <2>2. \A u \in Units : journal.audit[u] = "severe" => u \in flagged /\ verdict[u] = "severe"
    BY <2>1, RecordFlags DEF JudgedOnRecord, Flagged
  <2> QED
    BY <1>3, <1>6, <2>1, <2>2 DEF JudgedOnRecord, Mended
<1>11. Kept' /\ Working'
  BY <1>1 DEF Inv, Kept, Answers, Flagged, Among, Defects, Working
<1>12. Reported' /\ Shown'
  BY <1>1, <1>2, <1>6, <1>8, <1>9, <1>10 DEF Inv, Reported, Shown
<1> QED
  BY <1>11, <1>12 DEF Inv
-----------------------------------------------------------------------------
\* A name put back into the source language changes neither the type nor the writer.
LEMMA MisnamedIs ==
    ASSUME NEW t \in [kind : Kinds, latin : Nat, by : {"editor", "repairer", "final"}]
    PROVE  /\ Misnamed(t) \in [kind : Kinds, latin : Nat, by : {"editor", "repairer", "final"}]
           /\ Misnamed(t).by = t.by
<1>1. t.kind \in Kinds /\ t.latin + 1 \in Nat /\ t.by \in {"editor", "repairer", "final"}
  OBVIOUS
<1>2. "word" \in Kinds
  BY DEF Kinds, Hard, Flaws, Leaks
<1> DEFINE k == IF t.kind = "script" THEN t.kind ELSE "word"
<1>3. k \in Kinds
  BY <1>1, <1>2
<1>4. Misnamed(t) = [t EXCEPT !.kind = k, !.latin = t.latin + 1]
  BY DEF Misnamed
<1> HIDE DEF k
<1> QED
  BY <1>1, <1>3, <1>4

\* The passes over the whole book may rewrite it, but not who wrote a unit, and a
\* last repair is not the editor's.
LEMMA PassesHold ==
    ASSUME Inv, Consistency \/ FinalRepair
    PROVE  Inv'
<1>1. /\ phase \in {"pass", "final"} /\ phase' \in {"final", "scan"}
      /\ UNCHANGED <<journal, report, status>>
  BY DEF Consistency, FinalRepair, Job, Ended
<1>2. text \in Written /\ report \in Reports /\ Severe(text)
  BY <1>1 DEF Inv, Reported
<1>3. text' \in Written /\ \A u \in Units : text'[u].by = text[u].by \/ text'[u].by = "final"
  <2>1. CASE Consistency
    <3>1. \/ text' = text
          \/ \E renamed \in SUBSET Units :
               text' = [u \in Units |-> IF u \in renamed THEN Misnamed(text[u]) ELSE text[u]]
      BY <2>1 DEF Consistency
    <3> QED
      <4>1. \A u \in Units : text[u] \in [kind : Kinds, latin : Nat, by : {"editor", "repairer", "final"}]
        BY <1>2 DEF Written
      <4>2. ASSUME NEW u \in Units
            PROVE  /\ Misnamed(text[u]) \in [kind : Kinds, latin : Nat, by : {"editor", "repairer", "final"}]
                   /\ Misnamed(text[u]).by = text[u].by
        BY <4>1, MisnamedIs
      <4> QED
        BY <1>2, <3>1, <4>1, <4>2 DEF Written
  <2>2. CASE FinalRepair
    <3>1. CASE text' = text
      BY <1>2, <3>1
    <3>2. CASE \E given \in Repairs(Among(text, Leaks), text, "final") : text' = Applied(given, text)
      <4>1. PICK given \in Repairs(Among(text, Leaks), text, "final") : text' = Applied(given, text)
        BY <3>2
      <4>2. \A u \in Units : given[u] \in {None, text[u], Broken("final")} \cup Writes(u, "final")
        BY <4>1 DEF Repairs, OneOfEach
      <4>3. ASSUME NEW u \in Units, u \in Accepted(given, text)
            PROVE  /\ given[u] \in [kind : Kinds, latin : Nat, by : {"editor", "repairer", "final"}]
                   /\ given[u].by = text[u].by \/ given[u].by = "final"
        <5>1. given[u] = text[u] \/ (given[u] # text[u] /\ given[u] # None /\ given[u].kind # "broken")
          BY <4>3 DEF Accepted, Review
        <5>2. text[u] \in [kind : Kinds, latin : Nat, by : {"editor", "repairer", "final"}]
          BY <1>2 DEF Written
        <5>3. CASE given[u] = text[u]
          BY <5>2, <5>3
        <5>4. CASE given[u] # text[u] /\ given[u] # None /\ given[u].kind # "broken"
          <6>1. given[u] \in Writes(u, "final")
            BY <4>2, <5>4, BrokenIs
          <6> QED
            BY <6>1, WritesAre
        <5> QED
          BY <5>1, <5>3, <5>4
      <4> QED
        BY <1>2, <4>1, <4>3 DEF Applied, Written
    <3> QED
      BY <2>2, <3>1, <3>2 DEF FinalRepair
  <2> QED
    BY <2>1, <2>2
<1>4. Severe(text)'
  BY <1>1, <1>2, <1>3 DEF Severe
<1>5. Kept' /\ Working'
  BY <1>1 DEF Inv, Kept, Answers, Flagged, Among, Defects, Working
<1>6. Reported' /\ Shown'
  <2>1. phase' \notin {"pass", "build", "check"} /\ status = "running" /\ phase' # "idle"
    BY <1>1 DEF Inv, Shown
  <2> QED
    BY <1>1, <1>2, <1>3, <1>4, <2>1 DEF Reported, Shown, ReportAddsUp, RepairsAreSafe
<1> QED
  BY <1>5, <1>6 DEF Inv

\* The last scan is of the text that is built, and the book is that text.
LEMMA BookHolds ==
    ASSUME Inv, Scan \/ Publish
    PROVE  Inv'
<1>1. /\ phase \in {"scan", "build"} /\ UNCHANGED <<journal, text, status>>
      /\ text \in Written /\ report \in Reports /\ Severe(text) /\ status = "running"
  BY DEF Scan, Publish, Job, Inv, Reported, Shown
<1>2. Kept' /\ Working'
  <2>1. phase' \in {"build", "check"}
    BY DEF Scan, Publish
  <2> QED
    BY <1>1, <2>1 DEF Inv, Kept, Answers, Flagged, Among, Defects, Working
<1>3. CASE Scan
  <2>1. /\ report' = [report EXCEPT !.scan = Defects(text)] /\ phase' = "build"
    BY <1>3 DEF Scan, FinalScan
  <2>2. report' \in Reports /\ report'.scan = Defects(text) /\ report'.severe = report.severe
    BY <1>1, <2>1 DEF Reports, Among, Defects
  <2>3. Severe(text)' /\ Defects(text)' = Defects(text)
    BY <1>1, <2>2 DEF Severe, Among, Defects
  <2> QED
    BY <1>1, <1>2, <2>1, <2>2, <2>3 DEF Inv, Reported, Shown, ReportAddsUp, RepairsAreSafe
<1>4. CASE Publish
  <2>1. book' = text /\ phase = "build" /\ phase' = "check" /\ UNCHANGED report
    BY <1>4 DEF Publish
  <2>2. Severe(text)' /\ Defects(text)' = Defects(text) /\ report.scan = Defects(text)
    BY <1>1, <2>1 DEF Severe, Among, Defects, Inv, Reported
  <2> QED
    BY <1>1, <1>2, <2>1, <2>2 DEF Inv, Reported, Shown, ReportAddsUp, RepairsAreSafe
<1> QED
  BY <1>3, <1>4

\* The verdict on the job is passed with the report of the book at hand.
LEMMA FinishHolds ==
    ASSUME Inv, Finish
    PROVE  Inv'
<1>1. /\ phase' = "idle"
      /\ status' = IF aborted THEN "paused" ELSE IF Attention THEN "needs_attention" ELSE "completed"
      /\ UNCHANGED <<journal, report, degraded, conformant, book>>
  BY DEF Finish, Ends
<1>2. book = text /\ text \in Written /\ Severe(text) /\ report.scan = Defects(text)
  BY DEF Finish, Inv, Reported
<1>3. Kept' /\ Working' /\ Reported'
  BY <1>1 DEF Inv, Kept, Answers, Flagged, Among, Defects, Working, Reported, ReportAddsUp, RepairsAreSafe
<1>4. book' \in Written /\ report'.scan = Defects(book')
  BY <1>1, <1>2
<1>5. status' = "completed" =>
         /\ Among(book', Hard) = {} /\ ~degraded' /\ conformant'
         /\ HighQuality => \A u \in Units : journal'.audit[u] = "severe" => book'[u].by # "editor"
  <2> SUFFICES ASSUME status' = "completed"
               PROVE  /\ Among(book', Hard) = {} /\ ~degraded' /\ conformant'
                      /\ HighQuality => \A u \in Units : journal'.audit[u] = "severe" => book'[u].by # "editor"
    OBVIOUS
  <2>1. ~Attention
    BY <1>1
  <2>2. ASSUME NEW u \in Units PROVE text[u].kind \notin Hard
    <3>1. Hard \subseteq Kinds \ {"fine"}
      BY DEF Kinds, Hard, Flaws, Leaks
    <3>2. text[u].kind \in Hard => u \in Among(text, Kinds \ {"fine"})
      BY <3>1 DEF Among
    <3>3. text[u].kind \in Hard => <<u, text[u].kind>> \in report.scan
      BY <1>2, <3>2, Zenon DEF Defects
    <3> DEFINE d == <<u, text[u].kind>>
    <3>4. d[2] = text[u].kind
      OBVIOUS
    <3> QED
      BY <2>1, <3>3, <3>4 DEF Attention
  <2>3. Among(book', Hard) = {}
    BY <1>1, <1>2, <2>2 DEF Among
  <2> QED
    BY <1>1, <1>2, <2>1, <2>3 DEF Attention, Severe
<1>6. Shown'
  BY <1>1, <1>4, <1>5 DEF Shown, Among, Defects
<1> QED
  BY <1>3, <1>6 DEF Inv

\* Every step keeps the invariant.
LEMMA StepHolds ==
    ASSUME Inv, [Next]_vars
    PROVE  Inv'
<1>1. CASE UNCHANGED vars \/ Abort
  <2>1. UNCHANGED <<status, phase, journal, text, before, verdict, answers, rejected, report,
                    degraded, conformant, book>>
    BY <1>1 DEF vars, Abort
  <2>2. Kept'
    BY <2>1 DEF Inv, Kept, Answers, Flagged, Among, Defects
  <2>3. Working'
    BY <2>1 DEF Inv, Working, JudgedOnRecord, OnRecord, Mended, Changed, Answers, Flagged, Among, Defects
  <2>4. ReportAddsUp' /\ RepairsAreSafe'
    BY <2>1 DEF Inv, Reported, ReportAddsUp, RepairsAreSafe, Changed, Results
  <2>5. Reported' /\ Shown'
    BY <2>1, <2>4 DEF Inv, Reported, Shown, Severe, Among, Defects
  <2> QED
    BY <2>2, <2>3, <2>5 DEF Inv
<1> QED
  BY <1>1, EndsHold, EditHolds, AuditHolds, RepairHolds, VerifyHolds, ReportHolds,
     PassesHold, BookHolds, FinishHolds
  DEF Next, Stage, Ending

\* The report adds up, whichever repair failed, was refused, ignored or put back, for a
\* batch of any size: what the counters of job-runner.ts call repaired is what changed.
THEOREM ReportsAddUp == Spec => []ReportAddsUp
<1>1. Inv => ReportAddsUp
  BY DEF Inv, Reported
<1> QED
  BY <1>1, InitHolds, StepHolds, PTL DEF Spec

\* With the second look no unit that a repair changed is in the source language, whatever
\* the models answer and whatever counting Latin runs lets through (quality-service.ts,
\* reviewRepair; job-runner.ts, verifyRepairedBlocks).
THEOREM RepairsSafe == Spec => []RepairsAreSafe
<1>1. Inv => RepairsAreSafe
  BY DEF Inv, Reported
<1> QED
  BY <1>1, InitHolds, StepHolds, PTL DEF Spec

\* What a job is said to be is true of the book it ships, through pauses, crashes and repeated
\* runs: the defects shown are that book's, and a completed one has none the scan finds hard,
\* no severe finding that stands as the editor wrote it, no error of the consistency pass and
\* no complaint of EPUBCheck (book-pipeline.ts, hasHardQualityDefects).
THEOREM VerdictsTrue == Spec => []VerdictIsTrue
<1>1. Inv => VerdictIsTrue
  <2> SUFFICES ASSUME Inv PROVE VerdictIsTrue
    OBVIOUS
  <2>1. ASSUME status \in {"completed", "needs_attention"}
        PROVE  Results.outputAvailable /\ Results.defects = Cardinality(Defects(book))
    <3>1. book \in Written /\ report.scan = Defects(book)
      BY <2>1 DEF Inv, Shown
    <3>2. book \in [Units -> Texts]
      BY <3>1 DEF Written, Texts
    <3>3. book # None
      BY <3>2, NoneAssumption
    <3> QED
      BY <3>1, <3>3 DEF Results
  <2>2. ASSUME status = "completed"
        PROVE  /\ Among(book, Hard) = {}
               /\ HighQuality => \A u \in Units : journal.audit[u] = "severe" => book[u].by # "editor"
               /\ ~degraded /\ conformant
    BY <2>2 DEF Inv, Shown, Among, Defects
  <2> QED
    BY <2>1, <2>2 DEF VerdictIsTrue
<1> QED
  BY <1>1, InitHolds, StepHolds, PTL DEF Spec
-----------------------------------------------------------------------------
(* Names: what the decisions and the glossary make of the words of a book.    *)

DecisionSet == [source : Entities, canonical : Words, variants : SUBSET Words]

\* The words of a book are words, and the decisions are about them.
NamesTyped ==
  /\ mentions \subseteq [entity : Entities, was : Words, word : Words]
  /\ glossary \in [Entities -> Stems]
  /\ decisions \in Seq(DecisionSet)

\* What nameStem takes off a word stays, and what it leaves on the stem is what it left on it in
\* the book, in a decision or in the glossary; nothing is respelt before the decisions are
\* applied, and they leave alone what one of them settled.
RestsGiven == {c.rest : c \in Canonicals} \cup {Rendering(e).rest : e \in Entities}
NamesInv ==
  /\ NamesTyped
  /\ \A m \in mentions :
       /\ m.word.ending = m.was.ending /\ m.word.rest \in {m.was.rest} \cup RestsGiven
       /\ stage \in {"edited", "resolved"} => m.word = m.was
       /\ stage = "decided" /\ m.was \in Canonicals => m.word = m.was

\* A name in its nominative is a word.
LEMMA NameIsWord == ASSUME NEW s \in Stems PROVE Name(s) \in Words /\ Name(s).stem = s
<1>1. Nominative[s] \in Marks \X Marks
  BY NamesAssumption DEF NamesAssumption
<1> QED
  BY <1>1 DEF Name, Word, Words

\* A word with another stem keeps what was taken off it.
LEMMA RestemmedIs ==
  ASSUME NEW w \in Words, NEW c \in Words
  PROVE  Restemmed(w, c) \in Words /\ Restemmed(w, c).ending = w.ending /\ Restemmed(w, c).rest = c.rest
  BY DEF Restemmed, Words

\* The least of a set of positions is one of them.
LEMMA MinIsIn == ASSUME NEW S, S \subseteq Nat, S # {} PROVE Min(S) \in S /\ Min(S) \in Nat
<1>1. \E x \in S : \A y \in S : x <= y
  BY Least
<1> QED
  BY <1>1 DEF Min

\* What counts as a variant is spelt like the decision that accepts it, in the same case.
LEMMA VariantsAreSafe ==
  ASSUME NamesTyped, NEW w \in Variants
  PROVE  /\ Min(AcceptedBy(w)) \in DOMAIN decisions
         /\ Canonical(w) \in Words /\ Canonical(w) \in Canonicals /\ Canonical(w).ending = w.ending
         /\ w \in Words /\ w \notin Canonicals
<1>1. AcceptedBy(w) \subseteq Nat /\ AcceptedBy(w) # {}
  BY DEF Variants, AcceptedBy, NamesTyped
<1>2. Min(AcceptedBy(w)) \in AcceptedBy(w)
  BY <1>1, MinIsIn
<1> DEFINE d == decisions[Min(AcceptedBy(w))]
<1>3. Min(AcceptedBy(w)) \in DOMAIN decisions /\ Accepts(d, w)
  BY <1>2 DEF AcceptedBy
<1>4. d \in DecisionSet
  BY <1>3 DEF NamesTyped
<1>5. w \in Words
  BY <1>3, <1>4 DEF Accepts, DecisionSet
<1> QED
  BY <1>3, <1>4, <1>5 DEF Canonical, Canonicals, Accepts, Safe, DecisionSet, Range

\* A case of a variant takes the stem that was settled for one of the variants it is a case of.
LEMMA DeclinesIsVariant ==
  ASSUME NamesTyped, NEW w, Declined(w) # {}
  PROVE  Declines(w) \in Variants /\ w \notin Canonicals
<1>1. Declined(w) \subseteq Variants /\ w \notin Canonicals
  BY DEF Declined
<1> DEFINE S == {Min(AcceptedBy(x)) : x \in Declined(w)}
<1>2. S \subseteq Nat /\ S # {}
  BY <1>1, VariantsAreSafe DEF NamesTyped
<1>3. PICK n \in S : \A m \in S : n <= m
  BY <1>2, Least
<1>4. \E v \in Declined(w) : \A x \in Declined(w) : Min(AcceptedBy(v)) <= Min(AcceptedBy(x))
  BY <1>3
<1>5. Declines(w) \in Declined(w)
  BY <1>4 DEF Declines
<1> QED
  BY <1>1, <1>5

\* A word that is respelt stays a word, keeps its case, and is no settled rendering.
LEMMA RespeltIsSafe ==
  ASSUME NamesTyped, NEW w \in DOMAIN Respelt, w \in Words
  PROVE  /\ Respelt[w] \in Words /\ Respelt[w].ending = w.ending /\ w \notin Canonicals
         /\ Respelt[w].rest \in {c.rest : c \in Canonicals}
<1>1. w \in Variants \/ Declined(w) # {}
  BY DEF Respelt
<1>2. Respelt[w] = IF Declined(w) # {} THEN Restemmed(w, Canonical(Declines(w))) ELSE Canonical(w)
  BY DEF Respelt
<1>3. CASE Declined(w) # {}
  <2>1. Canonical(Declines(w)) \in Words /\ Canonical(Declines(w)) \in Canonicals /\ w \notin Canonicals
    BY <1>3, DeclinesIsVariant, VariantsAreSafe
  <2> QED
    BY <1>2, <1>3, <2>1, RestemmedIs
<1>4. CASE Declined(w) = {}
  <2>1. /\ Canonical(w) \in Words /\ Canonical(w).ending = w.ending /\ w \notin Canonicals
        /\ Canonical(w) \in Canonicals
    BY <1>1, <1>4, VariantsAreSafe
  <2> QED
    BY <1>2, <1>4, <2>1
<1> QED
  BY <1>3, <1>4

\* The book as the editor left it.
LEMMA EditedHolds == ASSUME Edited PROVE NamesInv
<1>1. mentions \subseteq AllMentions
  BY DEF Edited, kSubset
<1>2. \A m \in mentions : m \in [entity : Entities, was : Words, word : Words] /\ m.word = m.was
  <2>1. Forms \subseteq Words
    BY DEF Forms
  <2>2. \A m \in mentions : m \in [entity : Entities, was : Forms, word : Forms] /\ m.word = m.was
    BY <1>1 DEF AllMentions
  <2> QED
    BY <2>1, <2>2
<1>3. NamesTyped
  BY <1>2 DEF Edited, NamesTyped
<1> QED
  BY <1>2, <1>3 DEF Edited, NamesInv

\* The resolver answers with words it was shown.
LEMMA ResolveHolds == ASSUME NamesInv, Resolve PROVE NamesInv'
<1>1. PICK asked \in SUBSET Entities :
        \E answer \in [asked -> UNION {Decisions(e) : e \in Entities}] :
          \E order \in SetToSeqs(asked) : decisions' = [i \in DOMAIN order |-> answer[order[i]]]
  BY DEF Resolve
<1>a. PICK answer \in [asked -> UNION {Decisions(e) : e \in Entities}], order \in SetToSeqs(asked) :
        decisions' = [i \in DOMAIN order |-> answer[order[i]]]
  BY <1>1
<1>2. IsFiniteSet(asked)
  BY NamesAssumption, FS_Subset DEF NamesAssumption
<1>3. Cardinality(asked) \in Nat
  BY <1>2, FS_CardinalityType
<1>4. order \in [1 .. Cardinality(asked) -> asked]
  BY DEF SetToSeqs
<1>5. \A e \in Entities : Decisions(e) \subseteq DecisionSet
  <2> SUFFICES ASSUME NEW e \in Entities, NEW d \in Decisions(e) PROVE d \in DecisionSet
    OBVIOUS
  <2>1. Evidence(e) \subseteq Words
    BY DEF NamesInv, NamesTyped, Evidence
  <2>2. PICK s \in Stems, v \in SUBSET Evidence(e) :
          d = [source |-> e, canonical |-> Name(s), variants |-> v]
    BY DEF Decisions
  <2>3. Name(s) \in Words
    BY NameIsWord
  <2> QED
    BY <2>1, <2>2, <2>3 DEF DecisionSet
<1>6. \A a \in asked : answer[a] \in DecisionSet
  BY <1>5
<1>7. decisions' \in [1 .. Cardinality(asked) -> DecisionSet]
  BY <1>a, <1>4, <1>6
<1>8. decisions' \in Seq(DecisionSet)
  BY <1>3, <1>7
<1> QED
  BY <1>8 DEF NamesInv, NamesTyped, Resolve

\* Every mention is replaced in one pass, whatever replaces it.
LEMMA ReplacedIs ==
  ASSUME NamesTyped, NEW f, NEW m \in Replaced(f)
  PROVE  \E x \in mentions : /\ m.was = x.was /\ m.entity = x.entity
                             /\ m.word = IF x.word \in DOMAIN f THEN f[x.word] ELSE x.word
                             /\ m = [entity |-> m.entity, was |-> m.was, word |-> m.word]
<1>1. PICK x \in mentions :
        m = [x EXCEPT !.word = IF x.word \in DOMAIN f THEN f[x.word] ELSE x.word]
  BY DEF Replaced
<1>2. x \in [entity : Entities, was : Words, word : Words]
  BY DEF NamesTyped
<1> QED
  BY <1>1, <1>2

\* The decisions respell names in their cases.
LEMMA DecideHolds == ASSUME NamesInv, Decide PROVE NamesInv'
<1>1. NamesTyped /\ stage = "resolved" /\ stage' = "decided" /\ mentions' = Replaced(Respelt)
      /\ UNCHANGED <<glossary, decisions>>
  BY DEF NamesInv, Decide, ApplyConsistencyDecisions
<1>2. ASSUME NEW m \in mentions'
      PROVE  /\ m \in [entity : Entities, was : Words, word : Words]
             /\ m.word.ending = m.was.ending /\ m.word.rest \in {m.was.rest} \cup RestsGiven
             /\ m.was \in Canonicals => m.word = m.was
  <2>1. PICK x \in mentions :
          /\ m.was = x.was /\ m.entity = x.entity
          /\ m.word = IF x.word \in DOMAIN Respelt THEN Respelt[x.word] ELSE x.word
          /\ m = [entity |-> m.entity, was |-> m.was, word |-> m.word]
    BY <1>1, <1>2, ReplacedIs
  <2>2. x.entity \in Entities /\ x.was \in Words /\ x.word \in Words /\ x.word = x.was
    BY <1>1 DEF NamesInv, NamesTyped
  <2>3. CASE x.word \in DOMAIN Respelt
    <3>1. Respelt[x.word] \in Words /\ Respelt[x.word].ending = x.word.ending
          /\ x.word \notin Canonicals /\ Respelt[x.word].rest \in RestsGiven
      BY <1>1, <2>2, <2>3, RespeltIsSafe DEF RestsGiven
    <3> QED
      BY <2>1, <2>2, <2>3, <3>1
  <2>4. CASE x.word \notin DOMAIN Respelt
    BY <2>1, <2>2, <2>4
  <2> QED
    BY <2>3, <2>4
<1>3. Canonicals' = Canonicals /\ RestsGiven' = RestsGiven
  BY <1>1 DEF Canonicals, RestsGiven, Rendering
<1> QED
  BY <1>1, <1>2, <1>3 DEF NamesInv, NamesTyped

\* The glossary gives a stem and leaves the ending.
LEMMA AlignHolds == ASSUME NamesInv, Align PROVE NamesInv'
<1>1. PICK f \in Aligned : mentions' = Replaced(f)
  BY DEF Align, AlignGlossaryVariants
<1>2. NamesTyped /\ stage' = "aligned" /\ UNCHANGED <<glossary, decisions>>
  BY DEF NamesInv, Align
<1>3. \A w \in DOMAIN f : \E e \in Entities : f[w] = Restemmed(w, Rendering(e))
  BY DEF Aligned, Corrected
<1>4. ASSUME NEW m \in mentions'
      PROVE  /\ m \in [entity : Entities, was : Words, word : Words]
             /\ m.word.ending = m.was.ending /\ m.word.rest \in {m.was.rest} \cup RestsGiven
  <2>1. PICK x \in mentions :
          /\ m.was = x.was /\ m.entity = x.entity
          /\ m.word = IF x.word \in DOMAIN f THEN f[x.word] ELSE x.word
          /\ m = [entity |-> m.entity, was |-> m.was, word |-> m.word]
    BY <1>1, <1>2, <1>4, ReplacedIs
  <2>2. x.entity \in Entities /\ x.was \in Words /\ x.word \in Words
        /\ x.word.ending = x.was.ending /\ x.word.rest \in {x.was.rest} \cup RestsGiven
    BY <1>2 DEF NamesInv, NamesTyped
  <2>3. CASE x.word \in DOMAIN f
    <3>1. PICK e \in Entities : f[x.word] = Restemmed(x.word, Rendering(e))
      BY <1>3, <2>3
    <3>2. Rendering(e) \in Words
      BY <1>2, NameIsWord DEF NamesTyped, Rendering
    <3>3. Rendering(e).rest \in RestsGiven
      BY DEF RestsGiven
    <3>4. f[x.word] \in Words /\ f[x.word].ending = x.word.ending /\ f[x.word].rest \in RestsGiven
      BY <2>2, <3>1, <3>2, <3>3, RestemmedIs
    <3> QED
      BY <2>1, <2>2, <2>3, <3>4
  <2>4. CASE x.word \notin DOMAIN f
    BY <2>1, <2>2, <2>4
  <2> QED
    BY <2>3, <2>4
<1>5. RestsGiven' = RestsGiven
  BY <1>2 DEF Canonicals, RestsGiven, Rendering
<1> QED
  BY <1>2, <1>4, <1>5 DEF NamesInv, NamesTyped

\* NamesInv is inductive.
LEMMA PassHolds == NamesInv /\ [Pass]_names => NamesInv'
<1>1. ASSUME NamesInv, UNCHANGED names PROVE NamesInv'
  BY <1>1 DEF names, NamesInv, NamesTyped, Canonicals, RestsGiven, Rendering
<1> QED
  BY <1>1, ResolveHolds, DecideHolds, AlignHolds DEF Pass

\* Names change and their cases do not: whatever the resolver answers, no decision and no
\* glossary entry re-inflects a word of the book, where nameStem sees all of the endings.
THEOREM CasesAreKept == NamesSpec => []CasesStand
<1>1. NamesInv => CasesStand
  <2> SUFFICES ASSUME NamesInv, Regular, NEW m \in mentions PROVE Case(m.word) = Case(m.was)
    BY DEF CasesStand
  <2>1. m.word.ending = m.was.ending /\ m.word.rest \in {m.was.rest} \cup RestsGiven
    BY DEF NamesInv
  <2>2. m.was.rest = NoMark /\ \A r \in RestsGiven : r = NoMark
    BY DEF Regular, RestsGiven
  <2> QED
    BY <2>1, <2>2 DEF Case
<1>2. Edited => NamesInv
  BY EditedHolds
<1> QED
  BY <1>1, <1>2, PassHolds, PTL DEF NamesSpec

\* What one decision settled no other decision renames.
THEOREM SettledNamesAreKept == NamesSpec => []SettledNamesStand
<1>1. NamesInv => SettledNamesStand
  BY DEF NamesInv, SettledNamesStand
<1>2. Edited => NamesInv
  BY EditedHolds
<1> QED
  BY <1>1, <1>2, PassHolds, PTL DEF NamesSpec
-----------------------------------------------------------------------------
(* Text. Joined and the other functions along a sequence are defined by their  *)
(* steps; that there is a function of these steps, and what it does with one    *)
(* element more, comes first (an induction on the natural numbers).             *)

\* Induction on the natural numbers up to m: P are those of which something holds.
LEMMA UpTo ==
  ASSUME NEW m \in Nat, NEW P, 0 \in P, \A n \in 1 .. m : n - 1 \in P => n \in P
  PROVE  \A n \in 0 .. m : n \in P
<1> DEFINE T == {n \in 0 .. m : n \notin P}
<1> SUFFICES ASSUME T # {} PROVE FALSE
  OBVIOUS
<1>0. T \subseteq Nat
  OBVIOUS
<1>1. PICK n \in T : \A k \in T : n <= k
  <2> HIDE DEF T
  <2> QED
    BY <1>0, Least
<1>2. n # 0 /\ n \in 1 .. m /\ n - 1 \in 0 .. m /\ ~(n <= n - 1)
  BY <1>1
<1>3. n - 1 \in P
  BY <1>1, <1>2
<1> QED
  BY <1>1, <1>2, <1>3

Recurs(f, base, G, m) == f[0] = base /\ \A n \in 1 .. m : f[n] = G[<<n, f[n - 1]>>]

\* What a recursion along 1 .. m defines exists; G gives its steps.
LEMMA RecursionIs ==
  ASSUME NEW m \in Nat, NEW A, NEW base \in A, NEW G \in [(1 .. m) \X A -> A]
  PROVE  \E f \in [0 .. m -> A] : Recurs(f, base, G, m)
<1> DEFINE P == {k \in 0 .. m : \E f \in [0 .. k -> A] : Recurs(f, base, G, k)}
<1>1. 0 \in P
  <2>1. [n \in 0 .. 0 |-> base] \in [0 .. 0 -> A] /\ Recurs([n \in 0 .. 0 |-> base], base, G, 0)
    BY DEF Recurs
  <2> QED
    BY <2>1
<1>2. ASSUME NEW k \in 1 .. m, k - 1 \in P PROVE k \in P
  <2>1. PICK f \in [0 .. k - 1 -> A] : Recurs(f, base, G, k - 1)
    BY <1>2
  <2> DEFINE g == [n \in 0 .. k |-> IF n = k THEN G[<<k, f[k - 1]>>] ELSE f[n]]
  <2>2. k - 1 \in 0 .. k - 1 /\ k \in 0 .. m
    OBVIOUS
  <2>3. f[k - 1] \in A
    BY <2>2
  <2>4. <<k, f[k - 1]>> \in (1 .. m) \X A
    BY <2>3
  <2>5. G[<<k, f[k - 1]>>] \in A
    BY <2>4
  <2>6. g \in [0 .. k -> A]
    BY <2>5
  <2>7. g[0] = base
    BY <2>1 DEF Recurs
  <2>8. \A n \in 1 .. k : g[n] = G[<<n, g[n - 1]>>]
    <3> SUFFICES ASSUME NEW n \in 1 .. k PROVE g[n] = G[<<n, g[n - 1]>>]
      OBVIOUS
    <3>1. g[n - 1] = f[n - 1] /\ g[k] = G[<<k, f[k - 1]>>]
      OBVIOUS
    <3> HIDE DEF g
    <3>2. CASE n = k
      BY <3>1, <3>2
    <3>3. CASE n # k
      <4>1. n \in 1 .. k - 1 /\ g[n] = f[n]
        BY <3>3 DEF g
      <4> QED
        BY <4>1, <3>1, <2>1 DEF Recurs
    <3> QED
      BY <3>2, <3>3
  <2> HIDE DEF g
  <2> QED
    BY <2>2, <2>6, <2>7, <2>8 DEF Recurs
<1>3. m \in P
  <2> HIDE DEF P
  <2> QED
    BY <1>1, <1>2, UpTo
<1> QED
  BY <1>3

\* Two functions that take the same steps from the same place agree.
LEMMA SameSteps ==
  ASSUME NEW m \in Nat, NEW f, NEW g, f[0] = g[0],
         \A n \in 1 .. m : f[n - 1] = g[n - 1] => f[n] = g[n]
  PROVE  f[m] = g[m]
<1> DEFINE P == {n \in 0 .. m : f[n] = g[n]}
<1>1. 0 \in P
  OBVIOUS
<1>2. \A n \in 1 .. m : n - 1 \in P => n \in P
  OBVIOUS
<1>3. m \in P
  <2> HIDE DEF P
  <2> QED
    BY <1>1, <1>2, UpTo
<1> QED
  BY <1>3
-----------------------------------------------------------------------------
(* Sequences put together, and numbers added up.                              *)

\* The function that Joined is defined by: f[n] are the first n parts.
Joins(f, parts, m) == f = [n \in 0 .. m |-> IF n = 0 THEN <<>> ELSE f[n - 1] \o parts[n]]

LEMMA JoinsIs ==
  ASSUME NEW m \in Nat, NEW f, NEW parts, Joins(f, parts, m)
  PROVE  f[0] = <<>> /\ \A n \in 1 .. m : f[n] = f[n - 1] \o parts[n]
<1>1. 0 \in 0 .. m /\ \A n \in 1 .. m : n \in 0 .. m /\ n # 0
  OBVIOUS
<1> QED
  BY <1>1 DEF Joins

LEMMA JoinedIs ==
  ASSUME NEW V, NEW parts \in Seq(Seq(V))
  PROVE  \E f \in [0 .. Len(parts) -> Seq(V)] :
           /\ f[0] = <<>> /\ Joined(parts) = f[Len(parts)]
           /\ \A n \in 1 .. Len(parts) : f[n] = f[n - 1] \o parts[n]
<1> DEFINE m == Len(parts)
           G == [x \in (1 .. m) \X Seq(V) |-> x[2] \o parts[x[1]]]
           all == CHOOSE f : Joins(f, parts, m)
<1>1. m \in Nat /\ <<>> \in Seq(V) /\ G \in [(1 .. m) \X Seq(V) -> Seq(V)]
  OBVIOUS
<1>2. \A n \in 1 .. m, a \in Seq(V) : G[<<n, a>>] = a \o parts[n]
  OBVIOUS
<1>3. Joined(parts) = all[m]
  BY DEF Joined, Joins
<1> HIDE DEF m, G, all
<1>4. PICK f \in [0 .. m -> Seq(V)] : Recurs(f, <<>>, G, m)
  BY <1>1, RecursionIs
<1>5. f[0] = <<>> /\ \A n \in 1 .. m : f[n] = f[n - 1] \o parts[n]
  <2>1. \A n \in 1 .. m : f[n - 1] \in Seq(V)
    BY <1>1
  <2> QED
    BY <1>2, <1>4, <2>1 DEF Recurs
<1>6. Joins(f, parts, m)
  <2> DEFINE g == [n \in 0 .. m |-> IF n = 0 THEN <<>> ELSE f[n - 1] \o parts[n]]
  <2>1. \A n \in 0 .. m : f[n] = g[n]
    <3>1. \A n \in 0 .. m : n = 0 \/ n \in 1 .. m
      BY <1>1
    <3>2. \A n \in 0 .. m : g[n] = IF n = 0 THEN <<>> ELSE f[n - 1] \o parts[n]
      OBVIOUS
    <3> HIDE DEF g
    <3> QED
      BY <3>1, <3>2, <1>5
  <2>2. f = [n \in 0 .. m |-> f[n]] /\ g = [n \in 0 .. m |-> g[n]]
    OBVIOUS
  <2>3. f = g
    <3> HIDE DEF g
    <3> QED
      BY <2>1, <2>2
  <2> QED
    BY <2>3 DEF Joins
<1>7. PICK g : Joins(g, parts, m) /\ Joined(parts) = g[m]
  BY <1>3, <1>6 DEF all
<1>8. m \in Nat
  BY <1>1
<1>9. g[0] = <<>> /\ \A n \in 1 .. m : g[n] = g[n - 1] \o parts[n]
  BY <1>7, <1>8, JoinsIs
<1>10. g[m] = f[m]
  <2>1. g[0] = f[0] /\ \A n \in 1 .. m : g[n - 1] = f[n - 1] => g[n] = f[n]
    BY <1>5, <1>9
  <2> QED
    BY <1>8, <2>1, SameSteps
<1> QED
  BY <1>5, <1>7, <1>10 DEF m

\* Nothing put together is nothing, and one part more comes at the end.
LEMMA JoinedNone == Joined(<<>>) = <<>>
<1>1. <<>> \in Seq(Seq({})) /\ Len(<<>>) = 0
  OBVIOUS
<1>2. PICK f : f[0] = <<>> /\ Joined(<<>>) = f[Len(<<>>)]
  BY <1>1, JoinedIs
<1> QED
  BY <1>1, <1>2

LEMMA JoinedAppend ==
  ASSUME NEW V, NEW parts \in Seq(Seq(V)), NEW last \in Seq(V)
  PROVE  Joined(parts) \in Seq(V) /\ Joined(Append(parts, last)) = Joined(parts) \o last
<1> DEFINE t == Append(parts, last)
           k == Len(parts)
<1>1. /\ t \in Seq(Seq(V)) /\ Len(t) = k + 1 /\ k \in Nat /\ t[k + 1] = last
      /\ \A i \in 1 .. k : t[i] = parts[i]
  OBVIOUS
<1> HIDE DEF t
<1>2. PICK f \in [0 .. k -> Seq(V)] :
        /\ f[0] = <<>> /\ Joined(parts) = f[k]
        /\ \A n \in 1 .. k : f[n] = f[n - 1] \o parts[n]
  BY JoinedIs
<1>3. PICK g \in [0 .. Len(t) -> Seq(V)] :
        /\ g[0] = <<>> /\ Joined(t) = g[Len(t)]
        /\ \A n \in 1 .. Len(t) : g[n] = g[n - 1] \o t[n]
  BY <1>1, JoinedIs
<1> HIDE DEF k
<1>4. f[k] = g[k]
  <2>1. \A n \in 1 .. k : n \in 1 .. Len(t)
    BY <1>1
  <2>2. \A n \in 1 .. k : g[n] = g[n - 1] \o parts[n]
    BY <1>1, <1>3, <2>1
  <2>3. f[0] = g[0] /\ \A n \in 1 .. k : f[n - 1] = g[n - 1] => f[n] = g[n]
    BY <1>2, <1>3, <2>2
  <2> QED
    BY <1>1, <2>3, SameSteps
<1>5. g[k + 1] = g[k] \o last
  <2>1. k + 1 \in 1 .. Len(t) /\ (k + 1) - 1 = k
    BY <1>1
  <2> QED
    BY <1>1, <1>3, <2>1
<1>6. f[k] \in Seq(V)
  BY <1>1, <1>2
<1> QED
  BY <1>1, <1>2, <1>3, <1>4, <1>5, <1>6 DEF t
\* The function that Total is defined by: f[n] is the sum of the first n.
Sums(f, sizes, m) == f = [n \in 0 .. m |-> IF n = 0 THEN 0 ELSE f[n - 1] + sizes[n]]

LEMMA SumsIs ==
  ASSUME NEW m \in Nat, NEW f, NEW sizes, Sums(f, sizes, m)
  PROVE  f[0] = 0 /\ \A n \in 1 .. m : f[n] = f[n - 1] + sizes[n]
<1>1. 0 \in 0 .. m /\ \A n \in 1 .. m : n \in 0 .. m /\ n # 0
  OBVIOUS
<1> QED
  BY <1>1 DEF Sums

LEMMA TotalIs ==
  ASSUME NEW sizes \in Seq(Nat)
  PROVE  \E f \in [0 .. Len(sizes) -> Nat] :
           /\ f[0] = 0 /\ Total(sizes) = f[Len(sizes)]
           /\ \A n \in 1 .. Len(sizes) : f[n] = f[n - 1] + sizes[n]
<1> DEFINE m == Len(sizes)
           G == [x \in (1 .. m) \X Nat |-> x[2] + sizes[x[1]]]
           all == CHOOSE f : Sums(f, sizes, m)
<1>1. m \in Nat /\ 0 \in Nat /\ G \in [(1 .. m) \X Nat -> Nat]
  OBVIOUS
<1>2. \A n \in 1 .. m, a \in Nat : G[<<n, a>>] = a + sizes[n]
  OBVIOUS
<1>3. Total(sizes) = all[m]
  BY DEF Total, Sums
<1> HIDE DEF m, G, all
<1>4. PICK f \in [0 .. m -> Nat] : Recurs(f, 0, G, m)
  BY <1>1, RecursionIs
<1>5. f[0] = 0 /\ \A n \in 1 .. m : f[n] = f[n - 1] + sizes[n]
  <2>1. \A n \in 1 .. m : f[n - 1] \in Nat
    BY <1>1
  <2> QED
    BY <1>2, <1>4, <2>1 DEF Recurs
<1>6. Sums(f, sizes, m)
  <2> DEFINE g == [n \in 0 .. m |-> IF n = 0 THEN 0 ELSE f[n - 1] + sizes[n]]
  <2>1. \A n \in 0 .. m : f[n] = g[n]
    <3>1. \A n \in 0 .. m : n = 0 \/ n \in 1 .. m
      BY <1>1
    <3>2. \A n \in 0 .. m : g[n] = IF n = 0 THEN 0 ELSE f[n - 1] + sizes[n]
      OBVIOUS
    <3> HIDE DEF g
    <3> QED
      BY <3>1, <3>2, <1>5
  <2>2. f = [n \in 0 .. m |-> f[n]] /\ g = [n \in 0 .. m |-> g[n]]
    OBVIOUS
  <2>3. f = g
    <3> HIDE DEF g
    <3> QED
      BY <2>1, <2>2
  <2> QED
    BY <2>3 DEF Sums
<1>7. PICK g : Sums(g, sizes, m) /\ Total(sizes) = g[m]
  BY <1>3, <1>6 DEF all
<1>8. m \in Nat
  BY <1>1
<1>9. g[0] = 0 /\ \A n \in 1 .. m : g[n] = g[n - 1] + sizes[n]
  BY <1>7, <1>8, SumsIs
<1>10. g[m] = f[m]
  <2>1. g[0] = f[0] /\ \A n \in 1 .. m : g[n - 1] = f[n - 1] => g[n] = f[n]
    BY <1>5, <1>9
  <2> QED
    BY <1>8, <2>1, SameSteps
<1> QED
  BY <1>5, <1>7, <1>10 DEF m

\* Nothing adds up to nothing, and one number more is added.
LEMMA TotalNone == Total(<<>>) = 0
<1>1. <<>> \in Seq(Nat) /\ Len(<<>>) = 0
  OBVIOUS
<1>2. PICK f : f[0] = 0 /\ Total(<<>>) = f[Len(<<>>)]
  BY <1>1, TotalIs
<1> QED
  BY <1>1, <1>2

LEMMA TotalAppend ==
  ASSUME NEW sizes \in Seq(Nat), NEW size \in Nat
  PROVE  Total(sizes) \in Nat /\ Total(Append(sizes, size)) = Total(sizes) + size
<1> DEFINE t == Append(sizes, size)
           k == Len(sizes)
<1>1. /\ t \in Seq(Nat) /\ Len(t) = k + 1 /\ k \in Nat /\ t[k + 1] = size
      /\ \A i \in 1 .. k : t[i] = sizes[i]
  OBVIOUS
<1> HIDE DEF t
<1>2. PICK f \in [0 .. k -> Nat] :
        /\ f[0] = 0 /\ Total(sizes) = f[k]
        /\ \A n \in 1 .. k : f[n] = f[n - 1] + sizes[n]
  BY TotalIs
<1>3. PICK g \in [0 .. Len(t) -> Nat] :
        /\ g[0] = 0 /\ Total(t) = g[Len(t)]
        /\ \A n \in 1 .. Len(t) : g[n] = g[n - 1] + t[n]
  BY <1>1, TotalIs
<1> HIDE DEF k
<1>4. f[k] = g[k]
  <2>1. \A n \in 1 .. k : n \in 1 .. Len(t)
    BY <1>1
  <2>2. \A n \in 1 .. k : g[n] = g[n - 1] + sizes[n]
    BY <1>1, <1>3, <2>1
  <2>3. f[0] = g[0] /\ \A n \in 1 .. k : f[n - 1] = g[n - 1] => f[n] = g[n]
    BY <1>2, <1>3, <2>2
  <2> QED
    BY <1>1, <2>3, SameSteps
<1>5. g[k + 1] = g[k] + size
  <2>1. k + 1 \in 1 .. Len(t) /\ (k + 1) - 1 = k
    BY <1>1
  <2> QED
    BY <1>1, <1>3, <2>1
<1>6. f[k] \in Nat
  BY <1>1, <1>2
<1> QED
  BY <1>1, <1>2, <1>3, <1>4, <1>5, <1>6 DEF t
-----------------------------------------------------------------------------
(* TextMaps, and their lengths.                                                  *)

Sentence == [node : Nat, at : Nat, length : Nat]
PieceSet == [id : Nat, part : Nat, text : Seq(Sentence)]

LEMMA LengthNone == Length(<<>>) = 0
<1>1. [i \in DOMAIN <<>> |-> <<>>[i].length + (IF i > 1 THEN 1 ELSE 0)] = <<>>
  OBVIOUS
<1> QED
  BY <1>1, TotalNone DEF Length

\* A sentence more adds its length, and the space before it.
LEMMA LengthAppend ==
  ASSUME NEW prose \in Seq(Sentence), NEW s \in Sentence
  PROVE  /\ Length(prose) \in Nat
         /\ Length(Append(prose, s)) = Length(prose) + s.length + (IF prose = <<>> THEN 0 ELSE 1)
<1> DEFINE sizes == [i \in DOMAIN prose |-> prose[i].length + (IF i > 1 THEN 1 ELSE 0)]
           k == Len(prose)
           t == Append(prose, s)
           more == [i \in DOMAIN t |-> t[i].length + (IF i > 1 THEN 1 ELSE 0)]
           size == s.length + (IF prose = <<>> THEN 0 ELSE 1)
<1>1. /\ k \in Nat /\ DOMAIN prose = 1 .. k /\ DOMAIN t = 1 .. k + 1 /\ t[k + 1] = s
      /\ \A i \in 1 .. k : t[i] = prose[i] /\ prose[i] \in Sentence
      /\ prose = <<>> <=> k = 0
  OBVIOUS
<1>2. s.length \in Nat /\ size \in Nat
  BY DEF Sentence
<1> HIDE DEF t
<1>3. sizes \in Seq(Nat) /\ Len(sizes) = k
  <2>1. \A i \in 1 .. k : prose[i].length + (IF i > 1 THEN 1 ELSE 0) \in Nat
    BY <1>1 DEF Sentence
  <2> QED
    BY <1>1, <2>1
<1>4. more = Append(sizes, size)
  <2>1. /\ DOMAIN more = 1 .. k + 1 /\ DOMAIN Append(sizes, size) = 1 .. k + 1
        /\ Append(sizes, size)[k + 1] = size
        /\ \A i \in 1 .. k : Append(sizes, size)[i] = sizes[i]
    BY <1>1, <1>2, <1>3
  <2>2. \A i \in 1 .. k : more[i] = sizes[i]
    BY <1>1
  <2>3. more[k + 1] = size
    BY <1>1, <1>2
  <2>4. more = [i \in 1 .. k + 1 |-> more[i]] /\ Append(sizes, size) = [i \in 1 .. k + 1 |-> Append(sizes, size)[i]]
    BY <1>1, <1>2, <1>3
  <2> HIDE DEF more, sizes, size
  <2>5. \A i \in 1 .. k + 1 : i \in 1 .. k \/ i = k + 1
    BY <1>1
  <2> QED
    BY <2>1, <2>2, <2>3, <2>4, <2>5
<1>5. Length(prose) = Total(sizes) /\ Length(t) = Total(more)
  BY DEF Length
<1>6. Total(sizes) \in Nat /\ Total(Append(sizes, size)) = Total(sizes) + size
  <2> HIDE DEF sizes, size
  <2> QED
    BY <1>2, <1>3, TotalAppend
<1>7. Length(t) = Total(sizes) + size
  <2> HIDE DEF sizes, size, more
  <2> QED
    BY <1>4, <1>5, <1>6
<1> QED
  <2> HIDE DEF sizes, more
  <2> QED
    BY <1>2, <1>5, <1>6, <1>7 DEF t

\* A piece more adds its text.
LEMMA CharsAppend ==
  ASSUME NEW batch \in Seq(PieceSet), NEW p \in PieceSet
  PROVE  Chars(batch) \in Nat /\ Chars(Append(batch, p)) = Chars(batch) + Length(p.text)
<1> DEFINE sizes == [i \in DOMAIN batch |-> Length(batch[i].text)]
           k == Len(batch)
           t == Append(batch, p)
           more == [i \in DOMAIN t |-> Length(t[i].text)]
           size == Length(p.text)
<1>1. /\ k \in Nat /\ DOMAIN batch = 1 .. k /\ DOMAIN t = 1 .. k + 1 /\ t[k + 1] = p
      /\ \A i \in 1 .. k : t[i] = batch[i] /\ batch[i] \in PieceSet
  OBVIOUS
<1>2. \A q \in PieceSet : Length(q.text) \in Nat
  <2>1. [node |-> 0, at |-> 0, length |-> 0] \in Sentence
    BY DEF Sentence
  <2> QED
    BY <2>1, LengthAppend DEF PieceSet
<1> HIDE DEF t
<1>3. sizes \in Seq(Nat) /\ Len(sizes) = k /\ size \in Nat
  BY <1>1, <1>2
<1>4. more = Append(sizes, size)
  <2>1. /\ DOMAIN more = 1 .. k + 1 /\ DOMAIN Append(sizes, size) = 1 .. k + 1
        /\ Append(sizes, size)[k + 1] = size
        /\ \A i \in 1 .. k : Append(sizes, size)[i] = sizes[i]
    <3>1. DOMAIN more = 1 .. k + 1
      BY <1>1
    <3> HIDE DEF sizes, size
    <3> QED
      BY <1>1, <1>3, <3>1
  <2>2. \A i \in 1 .. k : more[i] = sizes[i]
    BY <1>1
  <2>3. more[k + 1] = size
    BY <1>1
  <2>4. more = [i \in 1 .. k + 1 |-> more[i]]
    BY <1>1
  <2>5. Append(sizes, size) = [i \in 1 .. k + 1 |-> Append(sizes, size)[i]]
    <3> DEFINE u == Append(sizes, size)
    <3> HIDE DEF sizes, size
    <3>1. u \in Seq(Nat) /\ Len(u) = k + 1
      BY <1>1, <1>3
    <3> HIDE DEF u
    <3>2. u = [i \in 1 .. k + 1 |-> u[i]]
      BY <3>1
    <3> QED
      BY <3>2 DEF u
  <2> HIDE DEF more, sizes, size
  <2>6. \A i \in 1 .. k + 1 : i \in 1 .. k \/ i = k + 1
    BY <1>1
  <2> QED
    BY <2>1, <2>2, <2>3, <2>4, <2>5, <2>6
<1>5. Chars(batch) = Total(sizes) /\ Chars(t) = Total(more)
  BY DEF Chars
<1>6. Total(sizes) \in Nat /\ Total(Append(sizes, size)) = Total(sizes) + size
  <2> HIDE DEF sizes, size
  <2> QED
    BY <1>3, TotalAppend
<1> QED
  BY <1>4, <1>5, <1>6 DEF t

LEMMA CharsNone == Chars(<<>>) = 0
<1>1. [i \in DOMAIN <<>> |-> Length(<<>>[i].text)] = <<>>
  OBVIOUS
<1> QED
  BY <1>1, TotalNone DEF Chars
-----------------------------------------------------------------------------
(* Sequences by their ends.                                                   *)

LEMMA SeqEqual ==
  ASSUME NEW V, NEW s \in Seq(V), NEW t \in Seq(V), Len(s) = Len(t),
         \A i \in 1 .. Len(s) : s[i] = t[i]
  PROVE  s = t
<1>1. s = [i \in 1 .. Len(s) |-> s[i]] /\ t = [i \in 1 .. Len(t) |-> t[i]]
  OBVIOUS
<1> QED
  BY <1>1

LEMMA FirstAre ==
  ASSUME NEW V, NEW s \in Seq(V), NEW k \in 0 .. Len(s)
  PROVE  /\ SubSeq(s, 1, k) \in Seq(V) /\ Len(SubSeq(s, 1, k)) = k
         /\ \A i \in 1 .. k : SubSeq(s, 1, k)[i] = s[i]
  OBVIOUS

LEMMA AppendIs ==
  ASSUME NEW V, NEW s \in Seq(V), NEW x \in V
  PROVE  /\ Append(s, x) \in Seq(V) /\ Len(Append(s, x)) = Len(s) + 1 /\ Len(s) \in Nat
         /\ Append(s, x)[Len(s) + 1] = x /\ \A i \in 1 .. Len(s) : Append(s, x)[i] = s[i]
         /\ \A i \in 1 .. Len(s) + 1 : i \in 1 .. Len(s) \/ i = Len(s) + 1
  OBVIOUS

LEMMA ConcatAgain ==
  ASSUME NEW V, NEW a \in Seq(V), NEW b \in Seq(V), NEW c \in Seq(V)
  PROVE  a \o (b \o c) = (a \o b) \o c
<1>1. /\ b \o c \in Seq(V) /\ Len(b \o c) = Len(b) + Len(c)
      /\ a \o b \in Seq(V) /\ Len(a \o b) = Len(a) + Len(b)
      /\ Len(a) \in Nat /\ Len(b) \in Nat /\ Len(c) \in Nat
  OBVIOUS
<1> DEFINE l == a \o (b \o c)
           r == (a \o b) \o c
<1>2. l \in Seq(V) /\ r \in Seq(V) /\ Len(l) = Len(r) /\ Len(l) = Len(a) + Len(b) + Len(c)
  BY <1>1
<1>3. \A i \in 1 .. Len(l) : l[i] = r[i]
  BY <1>1
<1> HIDE DEF l, r
<1>4. l = r
  BY <1>2, <1>3, SeqEqual
<1> QED
  BY <1>4 DEF l, r

LEMMA ByItsEnd ==
  ASSUME NEW V, NEW s \in Seq(V), s # <<>>
  PROVE  /\ Front(s) \in Seq(V) /\ Last(s) \in V /\ s = Append(Front(s), Last(s))
         /\ Len(s) \in Nat /\ Len(s) > 0 /\ Len(Front(s)) = Len(s) - 1 /\ Last(s) = s[Len(s)]
         /\ \A i \in 1 .. Len(s) - 1 : Front(s)[i] = s[i]
<1>1. /\ Len(s) \in Nat /\ Len(s) > 0 /\ Last(s) = s[Len(s)] /\ Last(s) \in V
  BY DEF Last
<1>2. /\ Front(s) \in Seq(V) /\ Len(Front(s)) = Len(s) - 1
      /\ \A i \in 1 .. Len(s) - 1 : Front(s)[i] = s[i]
  <2>1. Len(s) - 1 \in 0 .. Len(s)
    BY <1>1
  <2> QED
    BY <2>1, FirstAre DEF Front
<1>3. s = Append(Front(s), Last(s))
  <2> DEFINE t == Append(Front(s), Last(s))
  <2>1. t \in Seq(V) /\ Len(t) = Len(s) /\ t[Len(s)] = s[Len(s)] /\ \A i \in 1 .. Len(s) - 1 : t[i] = s[i]
    BY <1>1, <1>2
  <2> HIDE DEF t
  <2>2. \A i \in 1 .. Len(s) : t[i] = s[i]
    BY <1>1, <2>1
  <2>3. t = s
    BY <2>1, <2>2, SeqEqual
  <2> QED
    BY <2>3 DEF t
<1> QED
  BY <1>1, <1>2, <1>3

\* The first n elements.
LEMMA FirstOnes ==
  ASSUME NEW V, NEW s \in Seq(V)
  PROVE  /\ SubSeq(s, 1, 0) = <<>> /\ SubSeq(s, 1, Len(s)) = s
         /\ \A n \in 1 .. Len(s) : SubSeq(s, 1, n) = Append(SubSeq(s, 1, n - 1), s[n])
<1>1. Len(s) \in Nat
  OBVIOUS
<1>2. SubSeq(s, 1, 0) = <<>>
  OBVIOUS
<1>3. SubSeq(s, 1, Len(s)) = s
  <2> DEFINE t == SubSeq(s, 1, Len(s))
  <2>1. t \in Seq(V) /\ Len(t) = Len(s) /\ \A i \in 1 .. Len(s) : t[i] = s[i]
    BY <1>1
  <2> HIDE DEF t
  <2>2. t = s
    BY <2>1, SeqEqual
  <2> QED
    BY <2>2 DEF t
<1>4. ASSUME NEW n \in 1 .. Len(s) PROVE SubSeq(s, 1, n) = Append(SubSeq(s, 1, n - 1), s[n])
  <2> DEFINE t == SubSeq(s, 1, n)
             a == SubSeq(s, 1, n - 1)
             u == Append(a, s[n])
  <2>1. t \in Seq(V) /\ Len(t) = n /\ \A i \in 1 .. n : t[i] = s[i]
    BY <1>1
  <2>2. a \in Seq(V) /\ Len(a) = n - 1 /\ \A i \in 1 .. n - 1 : a[i] = s[i]
    BY <1>1
  <2>3. s[n] \in V
    OBVIOUS
  <2> HIDE DEF a
  <2>4. u \in Seq(V) /\ Len(u) = n /\ \A i \in 1 .. n : u[i] = s[i]
    BY <1>1, <2>2, <2>3
  <2> HIDE DEF t, u
  <2>5. t = u
    BY <2>1, <2>4, SeqEqual
  <2> QED
    BY <2>5 DEF t, u, a
<1> QED
  BY <1>2, <1>3, <1>4
-----------------------------------------------------------------------------
(* The pieces of a text that fits nowhere.                                    *)

LEMMA ChunkTyped ==
  ASSUME NEW chunks \in Seq(Seq(Sentence)), NEW s \in Sentence
  PROVE  Chunk(chunks, s) \in Seq(Seq(Sentence))
<1>1. CASE chunks # <<>> /\ Fits(Last(chunks), s)
  <2>1. Front(chunks) \in Seq(Seq(Sentence)) /\ Last(chunks) \in Seq(Sentence)
    BY <1>1, ByItsEnd
  <2>2. Append(Last(chunks), s) \in Seq(Sentence)
    BY <2>1
  <2> QED
    BY <1>1, <2>1, <2>2 DEF Chunk
<1>2. CASE ~(chunks # <<>> /\ Fits(Last(chunks), s))
  <2>1. <<s>> \in Seq(Sentence)
    OBVIOUS
  <2> QED
    BY <1>2, <2>1 DEF Chunk
<1> QED
  BY <1>1, <1>2

\* The function that Chunks is defined by: f[n] are the chunks of the first n sentences.
Cuts(f, prose, m) == f = [n \in 0 .. m |-> IF n = 0 THEN <<>> ELSE Chunk(f[n - 1], prose[n])]

LEMMA CutsIs ==
  ASSUME NEW m \in Nat, NEW f, NEW prose, Cuts(f, prose, m)
  PROVE  f[0] = <<>> /\ \A n \in 1 .. m : f[n] = Chunk(f[n - 1], prose[n])
<1>1. 0 \in 0 .. m /\ \A n \in 1 .. m : n \in 0 .. m /\ n # 0
  OBVIOUS
<1> QED
  BY <1>1 DEF Cuts

LEMMA ChunksIs ==
  ASSUME NEW prose \in Seq(Sentence)
  PROVE  \E f \in [0 .. Len(prose) -> Seq(Seq(Sentence))] :
           /\ f[0] = <<>> /\ Chunks(prose) = f[Len(prose)]
           /\ \A n \in 1 .. Len(prose) : f[n] = Chunk(f[n - 1], prose[n])
<1> DEFINE m == Len(prose)
           A == Seq(Seq(Sentence))
           G == [x \in (1 .. m) \X A |-> Chunk(x[2], prose[x[1]])]
           all == CHOOSE f : Cuts(f, prose, m)
<1>1. m \in Nat /\ <<>> \in A
  OBVIOUS
<1>2. \A n \in 1 .. m, a \in A : Chunk(a, prose[n]) \in A
  BY ChunkTyped
<1>3. /\ G \in [(1 .. m) \X A -> A]
      /\ \A n \in 1 .. m, a \in A : G[<<n, a>>] = Chunk(a, prose[n])
  BY <1>2
<1>4. Chunks(prose) = all[m]
  BY DEF Chunks, Cuts
<1> HIDE DEF m, A, G, all
<1>5. PICK f \in [0 .. m -> A] : Recurs(f, <<>>, G, m)
  BY <1>1, <1>3, RecursionIs
<1>6. f[0] = <<>> /\ \A n \in 1 .. m : f[n] = Chunk(f[n - 1], prose[n])
  <2>1. \A n \in 1 .. m : f[n - 1] \in A
    BY <1>1
  <2> QED
    BY <1>3, <1>5, <2>1 DEF Recurs
<1>7. Cuts(f, prose, m)
  <2> DEFINE g == [n \in 0 .. m |-> IF n = 0 THEN <<>> ELSE Chunk(f[n - 1], prose[n])]
  <2>1. \A n \in 0 .. m : f[n] = g[n]
    <3>1. \A n \in 0 .. m : n = 0 \/ n \in 1 .. m
      BY <1>1
    <3>2. \A n \in 0 .. m : g[n] = IF n = 0 THEN <<>> ELSE Chunk(f[n - 1], prose[n])
      OBVIOUS
    <3> HIDE DEF g
    <3> QED
      BY <3>1, <3>2, <1>6
  <2>2. f = [n \in 0 .. m |-> f[n]] /\ g = [n \in 0 .. m |-> g[n]]
    OBVIOUS
  <2>3. f = g
    <3> HIDE DEF g
    <3> QED
      BY <2>1, <2>2
  <2> QED
    BY <2>3 DEF Cuts
<1>8. PICK g : Cuts(g, prose, m) /\ Chunks(prose) = g[m]
  BY <1>4, <1>7 DEF all
<1>9. m \in Nat
  BY <1>1
<1>10. g[0] = <<>> /\ \A n \in 1 .. m : g[n] = Chunk(g[n - 1], prose[n])
  BY <1>8, <1>9, CutsIs
<1>11. g[m] = f[m]
  <2>1. g[0] = f[0] /\ \A n \in 1 .. m : g[n - 1] = f[n - 1] => g[n] = f[n]
    BY <1>6, <1>10
  <2> QED
    BY <1>9, <2>1, SameSteps
<1> QED
  BY <1>6, <1>8, <1>11 DEF m, A

\* A chunk is within the budget, unless a single sentence is not.
Bounded(chunk) == chunk # <<>> /\ (Length(chunk) <= MaxChars \/ Len(chunk) = 1)

\* A sentence more is at the end of the last chunk.
LEMMA ChunkStep ==
  ASSUME NEW chunks \in Seq(Seq(Sentence)), NEW s \in Sentence,
         \A i \in 1 .. Len(chunks) : Bounded(chunks[i])
  PROVE  /\ Joined(Chunk(chunks, s)) = Append(Joined(chunks), s)
         /\ \A i \in 1 .. Len(Chunk(chunks, s)) : Bounded(Chunk(chunks, s)[i])
<1>1. CASE chunks # <<>> /\ Fits(Last(chunks), s)
  <2> DEFINE f == Front(chunks)
             l == Last(chunks)
             t == Append(l, s)
  <2>1. /\ f \in Seq(Seq(Sentence)) /\ l \in Seq(Sentence) /\ chunks = Append(f, l)
        /\ Len(f) \in Nat /\ Len(chunks) = Len(f) + 1 /\ l = chunks[Len(chunks)]
        /\ \A i \in 1 .. Len(f) : f[i] = chunks[i]
    <3>1. /\ Front(chunks) \in Seq(Seq(Sentence)) /\ Last(chunks) \in Seq(Sentence)
          /\ chunks = Append(Front(chunks), Last(chunks))
          /\ Len(chunks) \in Nat /\ Len(chunks) > 0 /\ Len(Front(chunks)) = Len(chunks) - 1
          /\ Last(chunks) = chunks[Len(chunks)]
          /\ \A i \in 1 .. Len(chunks) - 1 : Front(chunks)[i] = chunks[i]
      BY <1>1, ByItsEnd, Zenon
    <3> HIDE DEF f, l
    <3>2. /\ f \in Seq(Seq(Sentence)) /\ l \in Seq(Sentence) /\ chunks = Append(f, l)
          /\ l = chunks[Len(chunks)] /\ Len(chunks) \in Nat /\ Len(chunks) > 0 /\ Len(f) = Len(chunks) - 1
          /\ \A i \in 1 .. Len(chunks) - 1 : f[i] = chunks[i]
      BY <3>1 DEF f, l
    <3>3. Len(f) \in Nat /\ Len(chunks) = Len(f) + 1 /\ Len(chunks) - 1 = Len(f)
      BY <3>2
    <3> QED
      BY <3>2, <3>3
  <2>2. Fits(l, s) /\ Chunk(chunks, s) = Append(f, t)
    BY <1>1 DEF Chunk
  <2> HIDE DEF f, l
  <2>3. t \in Seq(Sentence) /\ t # <<>>
    BY <2>1
  <2>4. Length(t) <= MaxChars
    <3>1. Bounded(l)
      BY <2>1
    <3>2. Length(l) \in Nat /\ Length(t) = Length(l) + s.length + 1 /\ s.length \in Nat
      BY <2>1, <3>1, LengthAppend DEF Bounded, Sentence
    <3> HIDE DEF t
    <3> QED
      BY <2>2, <3>2 DEF Fits
  <2> HIDE DEF t
  <2>5. /\ Append(f, t)[Len(f) + 1] = t /\ Len(Append(f, t)) = Len(f) + 1
        /\ \A i \in 1 .. Len(f) : Append(f, t)[i] = chunks[i] /\ Bounded(chunks[i])
    <3>1. /\ Append(f, t)[Len(f) + 1] = t /\ Len(Append(f, t)) = Len(f) + 1
          /\ \A i \in 1 .. Len(f) : Append(f, t)[i] = f[i]
      <4>1. f \in Seq(Seq(Sentence)) /\ t \in Seq(Sentence)
        BY <2>1, <2>3
      <4> HIDE <2>1, <2>2, <2>3
      <4> QED
        BY <4>1, AppendIs
    <3>2. \A i \in 1 .. Len(f) : i \in 1 .. Len(chunks)
      BY <2>1
    <3> QED
      BY <2>1, <3>1, <3>2
  <2>6. \A i \in 1 .. Len(f) + 1 : i \in 1 .. Len(f) \/ i = Len(f) + 1
    BY <2>1
  <2>7. Bounded(t)
    BY <2>3, <2>4 DEF Bounded
  <2>8. \A i \in 1 .. Len(Append(f, t)) : Bounded(Append(f, t)[i])
    BY <2>5, <2>6, <2>7
  <2>9. /\ Joined(f) \in Seq(Sentence) /\ Joined(chunks) = Joined(f) \o l
        /\ Joined(Append(f, t)) = Joined(f) \o t
    BY <2>1, <2>3, JoinedAppend
  <2>10. Joined(f) \o t = Append(Joined(f) \o l, s)
    <3> DEFINE j == Joined(f)
    <3> HIDE DEF j
    <3>1. j \in Seq(Sentence) => j \o Append(l, s) = Append(j \o l, s)
      BY <2>1
    <3> QED
      BY <2>9, <3>1 DEF j, t
  <2> QED
    BY <2>2, <2>8, <2>9, <2>10
<1>2. CASE ~(chunks # <<>> /\ Fits(Last(chunks), s))
  <2> DEFINE t == <<s>>
             k == Len(chunks)
  <2>1. t \in Seq(Sentence) /\ Len(t) = 1 /\ k \in Nat /\ t # <<>>
    OBVIOUS
  <2>2. Chunk(chunks, s) = Append(chunks, t)
    BY <1>2 DEF Chunk
  <2>3. Joined(chunks) \in Seq(Sentence) /\ Joined(Append(chunks, t)) = Joined(chunks) \o t
    <3> HIDE DEF t
    <3> QED
      BY <2>1, JoinedAppend
  <2>4. Joined(chunks) \o t = Append(Joined(chunks), s)
    <3> DEFINE j == Joined(chunks)
    <3> HIDE DEF j
    <3>1. j \in Seq(Sentence) => j \o <<s>> = Append(j, s)
      OBVIOUS
    <3> QED
      BY <2>3, <3>1 DEF j
  <2> HIDE DEF t
  <2>5. /\ Append(chunks, t)[k + 1] = t /\ Len(Append(chunks, t)) = k + 1
        /\ \A i \in 1 .. k : Append(chunks, t)[i] = chunks[i]
    BY <2>1
  <2>6. \A i \in 1 .. k + 1 : i \in 1 .. k \/ i = k + 1
    BY <2>1
  <2>7. Bounded(t)
    BY <2>1 DEF Bounded
  <2>8. \A i \in 1 .. Len(Append(chunks, t)) : Bounded(Append(chunks, t)[i])
    BY <2>5, <2>6, <2>7
  <2> QED
    BY <2>2, <2>3, <2>4, <2>8
<1> QED
  BY <1>1, <1>2

\* A text is cut into chunks that are bounded, and nothing is lost on the way.
LEMMA ChunksAreWhole ==
  ASSUME NEW prose \in Seq(Sentence)
  PROVE  /\ Chunks(prose) \in Seq(Seq(Sentence)) /\ Joined(Chunks(prose)) = prose
         /\ \A i \in 1 .. Len(Chunks(prose)) : Bounded(Chunks(prose)[i])
<1> DEFINE Good(c, n) == Joined(c) = SubSeq(prose, 1, n) /\ \A i \in 1 .. Len(c) : Bounded(c[i])
<1>1. PICK f \in [0 .. Len(prose) -> Seq(Seq(Sentence))] :
        /\ f[0] = <<>> /\ Chunks(prose) = f[Len(prose)]
        /\ \A n \in 1 .. Len(prose) : f[n] = Chunk(f[n - 1], prose[n])
  BY ChunksIs
<1> DEFINE P == {n \in 0 .. Len(prose) : Good(f[n], n)}
<1>2. Len(prose) \in Nat
  OBVIOUS
<1>3. 0 \in P
  <2>1. SubSeq(prose, 1, 0) = <<>> /\ Len(<<>>) = 0
    BY FirstOnes
  <2>2. Good(<<>>, 0)
    BY <2>1, JoinedNone
  <2> HIDE DEF Good
  <2> QED
    BY <1>1, <1>2, <2>2
<1>4. ASSUME NEW n \in 1 .. Len(prose), n - 1 \in P PROVE n \in P
  <2>1. Good(f[n - 1], n - 1) /\ n - 1 \in 0 .. Len(prose) /\ n \in 0 .. Len(prose)
    BY <1>4
  <2>2. f[n - 1] \in Seq(Seq(Sentence)) /\ prose[n] \in Sentence
    BY <2>1
  <2>3. Joined(Chunk(f[n - 1], prose[n])) = Append(SubSeq(prose, 1, n - 1), prose[n])
    BY <2>1, <2>2, ChunkStep
  <2>4. \A i \in 1 .. Len(Chunk(f[n - 1], prose[n])) : Bounded(Chunk(f[n - 1], prose[n])[i])
    BY <2>1, <2>2, ChunkStep
  <2>5. f[n] = Chunk(f[n - 1], prose[n])
    BY <1>1
  <2>6. Good(f[n], n)
    BY <2>3, <2>4, <2>5, FirstOnes
  <2> HIDE DEF Good
  <2> QED
    BY <2>1, <2>6
<1>5. \A n \in 0 .. Len(prose) : n \in P
  <2> HIDE DEF P
  <2> QED
    BY <1>2, <1>3, <1>4, UpTo
<1>6. Len(prose) \in 0 .. Len(prose)
  BY <1>2
<1>7. Good(Chunks(prose), Len(prose))
  BY <1>1, <1>5, <1>6
<1> QED
  BY <1>1, <1>6, <1>7, FirstOnes
-----------------------------------------------------------------------------
(* The text of a sequence of units or pieces.                                 *)

TextsOf(s) == [i \in DOMAIN s |-> s[i].text]

LEMMA TextsAppend ==
  ASSUME NEW S, \A x \in S : x.text \in Seq(Sentence), NEW s \in Seq(S), NEW x \in S
  PROVE  /\ TextsOf(s) \in Seq(Seq(Sentence)) /\ Len(TextsOf(s)) = Len(s)
         /\ TextsOf(Append(s, x)) = Append(TextsOf(s), x.text)
<1> DEFINE k == Len(s)
           t == Append(s, x)
           a == TextsOf(s)
           b == TextsOf(t)
           prose == x.text
           c == Append(a, prose)
<1>1. /\ k \in Nat /\ DOMAIN s = 1 .. k /\ \A i \in 1 .. k : s[i] \in S
  OBVIOUS
<1>2. /\ DOMAIN t = 1 .. k + 1 /\ t[k + 1] = x /\ \A i \in 1 .. k : t[i] = s[i]
      /\ \A i \in 1 .. k + 1 : i \in 1 .. k \/ i = k + 1
  OBVIOUS
<1>3. prose \in Seq(Sentence)
  OBVIOUS
<1>4. a \in Seq(Seq(Sentence)) /\ Len(a) = k /\ \A i \in 1 .. k : a[i] = s[i].text
  <2>1. \A i \in 1 .. k : s[i].text \in Seq(Sentence)
    BY <1>1
  <2>2. a = [i \in 1 .. k |-> s[i].text]
    BY <1>1 DEF TextsOf
  <2> HIDE DEF a
  <2> QED
    BY <1>1, <2>1, <2>2
<1> HIDE DEF t, a, prose, k
<1>5. b = [i \in 1 .. k + 1 |-> t[i].text]
  BY <1>2 DEF TextsOf
<1>6. /\ c \in Seq(Seq(Sentence)) /\ Len(c) = k + 1 /\ c[k + 1] = prose
      /\ \A i \in 1 .. k : c[i] = a[i]
  BY <1>3, <1>4, AppendIs
<1>7. \A i \in 1 .. k + 1 : b[i] = c[i]
  <2>1. b[k + 1] = prose
    <3>1. k + 1 \in 1 .. k + 1
      BY <1>1
    <3> QED
      BY <1>2, <1>5, <3>1 DEF prose
  <2>2. \A i \in 1 .. k : b[i] = s[i].text
    BY <1>1, <1>2, <1>5
  <2> HIDE DEF b, c
  <2> QED
    BY <1>2, <1>4, <1>6, <2>1, <2>2
<1>8. b = c
  <2>1. c = [i \in 1 .. k + 1 |-> c[i]]
    <3> HIDE DEF c
    <3> QED
      BY <1>6
  <2>2. b = [i \in 1 .. k + 1 |-> b[i]]
    BY <1>5
  <2> HIDE DEF b, c
  <2> QED
    BY <1>7, <2>1, <2>2
<1> QED
  BY <1>4, <1>8 DEF t, a, k, prose

\* The text of one more.
LEMMA OneMoreText ==
  ASSUME NEW S, \A x \in S : x.text \in Seq(Sentence), NEW s \in Seq(S), NEW x \in S
  PROVE  /\ Joined(TextsOf(s)) \in Seq(Sentence)
         /\ Joined(TextsOf(Append(s, x))) = Joined(TextsOf(s)) \o x.text
<1>1. TextsOf(s) \in Seq(Seq(Sentence)) /\ TextsOf(Append(s, x)) = Append(TextsOf(s), x.text)
  BY TextsAppend
<1>2. x.text \in Seq(Sentence)
  OBVIOUS
<1> QED
  BY <1>1, <1>2, JoinedAppend

LEMMA NoneText == Joined(TextsOf(<<>>)) = <<>>
<1>1. TextsOf(<<>>) = <<>>
  BY DEF TextsOf
<1> QED
  BY <1>1, JoinedNone
-----------------------------------------------------------------------------
(* A document, and the units it is read as.                                   *)

Node == [block : Nat, format : Seq(Elements), text : Seq(Sentence)]
Unit == [id : Nat, text : Seq(Sentence)]

\* A sentence knows the node it is from.
DocTyped ==
  /\ doc \in Seq(Node)
  /\ \A n \in 1 .. Len(doc) : \A i \in 1 .. Len(doc[n].text) : doc[n].text[i].node = n

\* A sentence of a unit comes from its block, and from inside its markup.
Within(s, id) ==
  /\ s.node \in 1 .. Len(doc) /\ doc[s.node].block = doc[id].block
  /\ MergesInto(doc[s.node].format, doc[id].format)

\* The units found in the first n nodes: in order, at text nodes, and with all their text.
Gathered(found, n) ==
  /\ found \in Seq(Unit)
  /\ \A i \in 1 .. Len(found) : found[i].id \in 1 .. n /\ IsText(found[i].id)
  /\ \A i, j \in 1 .. Len(found) : i < j => found[i].id < found[j].id
  /\ \A i \in 1 .. Len(found) : \A j \in 1 .. Len(found[i].text) : Within(found[i].text[j], found[i].id)
  /\ Joined(TextsOf(found)) = Joined(TextsOf(SubSeq(doc, 1, n)))

LEMMA DocIsTyped == ASSUME Extracted PROVE DocTyped
<1>1. PICK shapes \in BoundedSeq(Shapes, MaxNodes) : doc = Document(shapes)
  BY DEF Extracted, Documents
<1>2. PICK m \in 0 .. MaxNodes : shapes \in [1 .. m -> Shapes]
  BY <1>1 DEF BoundedSeq, SeqOf
<1>3. m \in Nat /\ DOMAIN shapes = 1 .. m
  BY <1>2, TextAssumption DEF TextAssumption
<1>4. ASSUME NEW n \in 1 .. m
      PROVE  /\ BlockOf(shapes, n) \in Nat /\ shapes[n].format \in Seq(Elements)
             /\ Sentences(n, shapes[n].lengths) \in Seq(Sentence)
             /\ \A i \in 1 .. Len(Sentences(n, shapes[n].lengths)) : Sentences(n, shapes[n].lengths)[i].node = n
  <2>1. BlockOf(shapes, n) \in Nat
    <3>1. IsFiniteSet(1 .. n)
      BY FS_Interval
    <3>2. IsFiniteSet({k \in 1 .. n : shapes[k].block = 1})
      BY <3>1, FS_Subset
    <3> QED
      BY <3>2, FS_CardinalityType DEF BlockOf
  <2>2. shapes[n] \in Shapes
    BY <1>2
  <2>3. shapes[n].format \in Seq(Elements)
    BY <2>2, TextAssumption DEF Shapes, TextAssumption
  <2>4. PICK k \in 0 .. MaxSentences : shapes[n].lengths \in [1 .. k -> Lengths]
    BY <2>2 DEF Shapes, BoundedSeq, SeqOf
  <2> DEFINE lengths == shapes[n].lengths
             t == Sentences(n, lengths)
  <2> HIDE DEF lengths
  <2>5. k \in Nat /\ DOMAIN lengths = 1 .. k /\ \A i \in 1 .. k : lengths[i] \in Nat
    <3>1. MaxSentences \in Nat /\ Lengths \subseteq Nat
      BY TextAssumption DEF TextAssumption
    <3>2. lengths \in [1 .. k -> Lengths]
      BY <2>4 DEF lengths
    <3>3. k \in Nat /\ DOMAIN lengths = 1 .. k
      BY <3>1, <3>2
    <3>4. \A i \in 1 .. k : lengths[i] \in Lengths
      BY <3>2
    <3> QED
      BY <3>1, <3>3, <3>4
  <2>6. t = [i \in 1 .. k |-> [node |-> n, at |-> i, length |-> lengths[i]]]
    BY <2>5 DEF Sentences
  <2>7. n \in Nat /\ \A i \in 1 .. k : [node |-> n, at |-> i, length |-> lengths[i]] \in Sentence
    BY <1>3, <2>5 DEF Sentence
  <2> HIDE DEF t
  <2>8. t \in Seq(Sentence) /\ Len(t) = k /\ \A i \in 1 .. k : t[i].node = n
    BY <2>5, <2>6, <2>7
  <2> QED
    BY <2>1, <2>3, <2>8 DEF t, lengths
<1>5. doc = [n \in 1 .. m |-> [block |-> BlockOf(shapes, n), format |-> shapes[n].format,
                               text |-> Sentences(n, shapes[n].lengths)]]
  BY <1>1, <1>3 DEF Document
<1>6. \A n \in 1 .. m : /\ doc[n] \in Node
                        /\ doc[n].text = Sentences(n, shapes[n].lengths)
  BY <1>4, <1>5 DEF Node
<1>7. doc \in Seq(Node) /\ Len(doc) = m
  <2>1. doc = [n \in 1 .. m |-> doc[n]]
    BY <1>5
  <2> QED
    BY <1>3, <1>6, <2>1
<1> QED
  BY <1>4, <1>6, <1>7 DEF DocTyped

LEMMA MergesIntoItself ==
  ASSUME NEW format \in Seq(Elements) PROVE MergesInto(format, format)
<1>1. IsPrefix(Tags(format), Tags(format))
  <2> DEFINE t == Tags(format)
  <2>1. t \in Seq({Tag[e] : e \in Elements})
    BY DEF Tags
  <2> HIDE DEF t
  <2>2. IsPrefix(t, t)
    BY <2>1 DEF IsPrefix
  <2> QED
    BY <2>2 DEF t
<1>2. \A i \in DOMAIN format : ~(i > Len(format))
  OBVIOUS
<1> QED
  BY <1>1, <1>2 DEF MergesInto, Wraps

LEMMA TextReplaced ==
  ASSUME NEW i, NEW t, NEW u
  PROVE  [[id |-> i, text |-> t] EXCEPT !.text = u] = [id |-> i, text |-> u]
  OBVIOUS

\* A unit, and what is added to its text.
LEMMA UnitWith ==
  ASSUME NEW l \in Unit, NEW more \in Seq(Sentence)
  PROVE  /\ [l EXCEPT !.text = @ \o more] = [id |-> l.id, text |-> l.text \o more]
         /\ [id |-> l.id, text |-> l.text \o more] \in Unit
<1>1. PICK id \in Nat, prose \in Seq(Sentence) : l = [id |-> id, text |-> prose]
  BY DEF Unit
<1>2. l.id = id /\ l.text = prose
  BY <1>1
<1>3. [l EXCEPT !.text = @ \o more] = [id |-> id, text |-> prose \o more]
  <2>1. [l EXCEPT !.text = @ \o more] = [l EXCEPT !.text = prose \o more]
    BY <1>2
  <2> DEFINE u == prose \o more
  <2>2. [[id |-> id, text |-> prose] EXCEPT !.text = u] = [id |-> id, text |-> u]
    <3> HIDE DEF u
    <3> QED
      BY TextReplaced
  <2>3. [l EXCEPT !.text = u] = [[id |-> id, text |-> prose] EXCEPT !.text = u]
    <3> HIDE DEF u
    <3> QED
      BY <1>1, Zenon
  <2> QED
    BY <2>1, <2>2, <2>3, Zenon
<1>4. prose \o more \in Seq(Sentence)
  OBVIOUS
<1> QED
  BY <1>2, <1>3, <1>4 DEF Unit

\* A text node more.
LEMMA GatherTyped ==
  ASSUME DocTyped, NEW found \in Seq(Unit), NEW n \in 1 .. Len(doc)
  PROVE  Gather(found, n) \in Seq(Unit)
<1>1. doc[n].text \in Seq(Sentence) /\ n \in Nat
  <2>1. doc[n] \in Node
    BY DEF DocTyped
  <2> QED
    BY <2>1 DEF Node
<1>2. CASE found # <<>> /\ Absorbs(Last(found), n)
  <2>1. Front(found) \in Seq(Unit) /\ Last(found) \in Unit
    BY <1>2, ByItsEnd
  <2>2. [Last(found) EXCEPT !.text = @ \o doc[n].text] \in Unit
    BY <1>1, <2>1, UnitWith
  <2> QED
    BY <1>2, <2>1, <2>2 DEF Gather
<1>3. CASE ~(found # <<>> /\ Absorbs(Last(found), n))
  <2>1. [id |-> n, text |-> doc[n].text] \in Unit
    BY <1>1 DEF Unit
  <2> QED
    BY <1>3, <2>1 DEF Gather
<1> QED
  BY <1>2, <1>3

LEMMA TextAdded ==
  ASSUME DocTyped, NEW n \in 1 .. Len(doc)
  PROVE  /\ Joined(TextsOf(SubSeq(doc, 1, n - 1))) \in Seq(Sentence)
         /\ Joined(TextsOf(SubSeq(doc, 1, n))) = Joined(TextsOf(SubSeq(doc, 1, n - 1))) \o doc[n].text
<1>1. doc \in Seq(Node) /\ Len(doc) \in Nat
  BY DEF DocTyped
<1>2. SubSeq(doc, 1, n) = Append(SubSeq(doc, 1, n - 1), doc[n])
  BY <1>1, FirstOnes
<1>3. n - 1 \in 0 .. Len(doc) /\ doc[n] \in Node
  BY <1>1
<1>4. SubSeq(doc, 1, n - 1) \in Seq(Node)
  BY <1>1, <1>3, FirstAre
<1>5. \A x \in Node : x.text \in Seq(Sentence)
  BY DEF Node
<1> QED
  BY <1>2, <1>3, <1>4, <1>5, OneMoreText

\* A unit with more text at its end, and a unit more.
LEMMA UnitGrows ==
  ASSUME DocTyped, NEW found \in Seq(Unit), NEW n \in 1 .. Len(doc), Gathered(found, n - 1), IsText(n),
         found # <<>>, Absorbs(Last(found), n)
  PROVE  Gathered(Gather(found, n), n)
<1> DEFINE f == Front(found)
           l == Last(found)
           more == doc[n].text
           u == [id |-> l.id, text |-> l.text \o more]
           k == Len(f)
           t == Append(f, u)
<1>1. f \in Seq(Unit) /\ l \in Unit /\ found = Append(f, l)
  BY ByItsEnd
<1>2. /\ Len(found) = k + 1 /\ k \in Nat /\ l = found[k + 1]
      /\ \A i \in 1 .. k : f[i] = found[i]
  <2>1. Len(found) \in Nat /\ Len(found) > 0 /\ k = Len(found) - 1 /\ l = found[Len(found)]
    BY ByItsEnd
  <2>2. \A i \in 1 .. Len(found) - 1 : f[i] = found[i]
    BY ByItsEnd
  <2> HIDE DEF f, l
  <2> QED
    BY <2>1, <2>2
<1>3. more \in Seq(Sentence) /\ \A i \in 1 .. Len(more) : more[i].node = n
  <2>1. doc[n] \in Node
    BY DEF DocTyped
  <2> QED
    BY <2>1 DEF Node, DocTyped
<1>4. Gather(found, n) = t
  <2>1. [l EXCEPT !.text = @ \o more] = u
    <3>1. l \in Unit /\ more \in Seq(Sentence)
      BY <1>1, <1>3
    <3> HIDE DEF l, more
    <3> QED
      BY <3>1, UnitWith
  <2> QED
    BY <2>1 DEF Gather
<1>5. doc[l.id].block = doc[n].block /\ MergesInto(doc[n].format, doc[l.id].format)
  BY DEF Absorbs
<1> HIDE DEF f, l, more
<1>6. u \in Unit /\ u.id = l.id /\ u.text = l.text \o more /\ l.text \in Seq(Sentence)
  BY <1>1, <1>3 DEF Unit
<1> HIDE DEF u
<1>7. /\ t \in Seq(Unit) /\ Len(t) = k + 1 /\ t[k + 1] = u
      /\ \A i \in 1 .. k : t[i] = found[i]
      /\ \A i \in 1 .. k + 1 : i \in 1 .. k \/ i = k + 1
  BY <1>1, <1>2, <1>6, AppendIs
<1> HIDE DEF t, k
<1>8. \A i \in 1 .. k + 1 : t[i].id = found[i].id
  BY <1>2, <1>6, <1>7
<1>9. \A i \in 1 .. k + 1 : t[i].id \in 1 .. n /\ IsText(t[i].id)
  BY <1>2, <1>8 DEF Gathered
<1>10. \A i, j \in 1 .. k + 1 : i < j => t[i].id < t[j].id
  BY <1>2, <1>8 DEF Gathered
<1>11. \A j \in 1 .. Len(u.text) : Within(u.text[j], u.id)
  <2> SUFFICES ASSUME NEW j \in 1 .. Len(u.text) PROVE Within(u.text[j], u.id)
    OBVIOUS
  <2>1. k + 1 \in 1 .. Len(found)
    BY <1>2
  <2>2. \A i \in 1 .. Len(l.text) : Within(l.text[i], l.id)
    BY <1>2, <2>1 DEF Gathered
  <2>3. /\ j \in 1 .. Len(l.text) => u.text[j] = l.text[j]
        /\ j \notin 1 .. Len(l.text) => j - Len(l.text) \in 1 .. Len(more) /\ u.text[j] = more[j - Len(l.text)]
    BY <1>3, <1>6
  <2>4. CASE j \in 1 .. Len(l.text)
    BY <1>6, <2>2, <2>3, <2>4
  <2>5. CASE j \notin 1 .. Len(l.text)
    <3>1. u.text[j].node = n
      BY <1>3, <2>3, <2>5
    <3> QED
      BY <1>5, <1>6, <3>1 DEF Within
  <2> QED
    BY <2>4, <2>5
<1>12. \A i \in 1 .. k + 1 : \A j \in 1 .. Len(t[i].text) : Within(t[i].text[j], t[i].id)
  <2>1. \A i \in 1 .. k : \A j \in 1 .. Len(found[i].text) : Within(found[i].text[j], found[i].id)
    BY <1>2 DEF Gathered
  <2> QED
    BY <1>7, <1>11, <2>1
<1>13. Joined(TextsOf(t)) = Joined(TextsOf(SubSeq(doc, 1, n)))
  <2>1. \A x \in Unit : x.text \in Seq(Sentence)
    BY DEF Unit
  <2>2. /\ Joined(TextsOf(f)) \in Seq(Sentence)
        /\ Joined(TextsOf(found)) = Joined(TextsOf(f)) \o l.text
    BY <1>1, <2>1, OneMoreText
  <2>3. Joined(TextsOf(t)) = Joined(TextsOf(f)) \o u.text
    BY <1>1, <1>6, <2>1, OneMoreText DEF t
  <2>4. Joined(TextsOf(found)) = Joined(TextsOf(SubSeq(doc, 1, n - 1)))
    BY DEF Gathered
  <2>5. Joined(TextsOf(SubSeq(doc, 1, n))) = Joined(TextsOf(SubSeq(doc, 1, n - 1))) \o more
    BY TextAdded DEF more
  <2> DEFINE j == Joined(TextsOf(f))
             old == l.text
  <2>6. j \o (old \o more) = (j \o old) \o more
    <3> HIDE DEF j, old
    <3>1. j \in Seq(Sentence) /\ old \in Seq(Sentence) /\ more \in Seq(Sentence)
      BY <1>3, <1>6, <2>2 DEF j, old
    <3> QED
      BY <3>1, ConcatAgain
  <2> QED
    BY <1>6, <2>2, <2>3, <2>4, <2>5, <2>6
<1> QED
  BY <1>4, <1>7, <1>9, <1>10, <1>12, <1>13 DEF Gathered

LEMMA UnitBegins ==
  ASSUME DocTyped, NEW found \in Seq(Unit), NEW n \in 1 .. Len(doc), Gathered(found, n - 1), IsText(n),
         ~(found # <<>> /\ Absorbs(Last(found), n))
  PROVE  Gathered(Gather(found, n), n)
<1> DEFINE prose == doc[n].text
           u == [id |-> n, text |-> prose]
           k == Len(found)
           t == Append(found, u)
<1>1. /\ prose \in Seq(Sentence) /\ \A i \in 1 .. Len(prose) : prose[i].node = n
      /\ n \in Nat /\ k \in Nat /\ doc[n].format \in Seq(Elements)
  <2>1. doc[n] \in Node
    BY DEF DocTyped
  <2> QED
    BY <2>1 DEF Node, DocTyped
<1>2. Gather(found, n) = t
  BY DEF Gather
<1> HIDE DEF prose
<1>3. u \in Unit /\ u.id = n /\ u.text = prose
  BY <1>1 DEF Unit
<1> HIDE DEF u
<1>4. /\ t \in Seq(Unit) /\ Len(t) = k + 1 /\ t[k + 1] = u
      /\ \A i \in 1 .. k : t[i] = found[i]
      /\ \A i \in 1 .. k + 1 : i \in 1 .. k \/ i = k + 1
  BY <1>3, AppendIs
<1> HIDE DEF t, k
<1>5. \A i \in 1 .. k : found[i].id \in 1 .. n - 1 /\ IsText(found[i].id)
  BY DEF Gathered, k
<1>6. \A i \in 1 .. k + 1 : t[i].id \in 1 .. n /\ IsText(t[i].id)
  <2>1. \A i \in 1 .. k : t[i].id \in 1 .. n - 1 /\ IsText(t[i].id)
    BY <1>4, <1>5
  <2>2. \A x \in 1 .. n - 1 : x \in 1 .. n
    BY <1>1
  <2>3. t[k + 1].id = n /\ n \in 1 .. n
    BY <1>1, <1>3, <1>4
  <2> QED
    BY <1>4, <2>1, <2>2, <2>3
<1>7. \A i, j \in 1 .. k + 1 : i < j => t[i].id < t[j].id
  <2>1. \A i, j \in 1 .. k : i < j => found[i].id < found[j].id
    BY DEF Gathered, k
  <2> SUFFICES ASSUME NEW i \in 1 .. k + 1, NEW j \in 1 .. k + 1, i < j PROVE t[i].id < t[j].id
    OBVIOUS
  <2>2. i \in 1 .. k
    BY <1>1
  <2>3. CASE j \in 1 .. k
    BY <1>4, <2>1, <2>2, <2>3
  <2>4. CASE j = k + 1
    <3>1. t[j].id = n
      BY <1>3, <1>4, <2>4
    <3>2. t[i].id \in 1 .. n - 1
      BY <1>4, <1>5, <2>2
    <3> QED
      BY <1>1, <3>1, <3>2
  <2> QED
    BY <1>4, <2>3, <2>4
<1>8. \A j \in 1 .. Len(u.text) : Within(u.text[j], u.id)
  <2>1. MergesInto(doc[n].format, doc[n].format)
    BY <1>1, MergesIntoItself
  <2> QED
    BY <1>1, <1>3, <2>1 DEF Within
<1>9. \A i \in 1 .. k + 1 : \A j \in 1 .. Len(t[i].text) : Within(t[i].text[j], t[i].id)
  <2>1. \A i \in 1 .. k : \A j \in 1 .. Len(found[i].text) : Within(found[i].text[j], found[i].id)
    BY DEF Gathered, k
  <2> QED
    BY <1>4, <1>8, <2>1
<1>10. Joined(TextsOf(t)) = Joined(TextsOf(SubSeq(doc, 1, n)))
  <2>1. \A x \in Unit : x.text \in Seq(Sentence)
    BY DEF Unit
  <2>2. Joined(TextsOf(t)) = Joined(TextsOf(found)) \o u.text
    BY <1>3, <2>1, OneMoreText DEF t
  <2>3. Joined(TextsOf(found)) = Joined(TextsOf(SubSeq(doc, 1, n - 1)))
    BY DEF Gathered
  <2>4. Joined(TextsOf(SubSeq(doc, 1, n))) = Joined(TextsOf(SubSeq(doc, 1, n - 1))) \o prose
    BY TextAdded DEF prose
  <2> QED
    BY <1>3, <2>2, <2>3, <2>4
<1> QED
  BY <1>2, <1>4, <1>6, <1>7, <1>9, <1>10 DEF Gathered

\* A node that is not translated is passed over.
LEMMA IslandPassed ==
  ASSUME DocTyped, NEW found \in Seq(Unit), NEW n \in 1 .. Len(doc), Gathered(found, n - 1), ~IsText(n)
  PROVE  Gathered(found, n)
<1>1. \A i \in 1 .. Len(found) : found[i].id \in 1 .. n /\ IsText(found[i].id)
  <2>1. \A x \in 1 .. n - 1 : x \in 1 .. n
    OBVIOUS
  <2> QED
    BY <2>1 DEF Gathered
<1>2. Joined(TextsOf(found)) = Joined(TextsOf(SubSeq(doc, 1, n)))
  <2>1. Joined(TextsOf(found)) = Joined(TextsOf(SubSeq(doc, 1, n - 1)))
    BY DEF Gathered
  <2>2. /\ Joined(TextsOf(SubSeq(doc, 1, n - 1))) \in Seq(Sentence)
        /\ Joined(TextsOf(SubSeq(doc, 1, n))) = Joined(TextsOf(SubSeq(doc, 1, n - 1))) \o <<>>
    BY TextAdded DEF IsText
  <2> DEFINE j == Joined(TextsOf(SubSeq(doc, 1, n - 1)))
  <2>3. j \o <<>> = j
    <3> HIDE DEF j
    <3>1. j \in Seq(Sentence)
      BY <2>2 DEF j
    <3> QED
      BY <3>1
  <2> QED
    BY <2>1, <2>2, <2>3
<1> QED
  BY <1>1, <1>2 DEF Gathered

\* The function that MergeLogicalBlocks is defined by: f[n] are the units of the first n nodes.
Finds(f, m) == f = [n \in 0 .. m |-> IF n = 0 THEN <<>> ELSE IF IsText(n) THEN Gather(f[n - 1], n) ELSE f[n - 1]]

LEMMA FindsIs ==
  ASSUME NEW m \in Nat, NEW f, Finds(f, m)
  PROVE  f[0] = <<>> /\ \A n \in 1 .. m : f[n] = IF IsText(n) THEN Gather(f[n - 1], n) ELSE f[n - 1]
<1>1. 0 \in 0 .. m /\ \A n \in 1 .. m : n \in 0 .. m /\ n # 0
  OBVIOUS
<1> QED
  BY <1>1 DEF Finds

LEMMA MergeLogicalBlocksIs ==
  ASSUME DocTyped
  PROVE  \E f \in [0 .. Len(doc) -> Seq(Unit)] :
           /\ f[0] = <<>> /\ MergeLogicalBlocks = f[Len(doc)]
           /\ \A n \in 1 .. Len(doc) : f[n] = IF IsText(n) THEN Gather(f[n - 1], n) ELSE f[n - 1]
<1> DEFINE m == Len(doc)
           A == Seq(Unit)
           G == [x \in (1 .. m) \X A |-> IF IsText(x[1]) THEN Gather(x[2], x[1]) ELSE x[2]]
           all == CHOOSE f : Finds(f, m)
<1>1. m \in Nat /\ <<>> \in A
  BY DEF DocTyped
<1>2. \A n \in 1 .. m, a \in A : (IF IsText(n) THEN Gather(a, n) ELSE a) \in A
  BY GatherTyped
<1>3. /\ G \in [(1 .. m) \X A -> A]
      /\ \A n \in 1 .. m, a \in A : G[<<n, a>>] = IF IsText(n) THEN Gather(a, n) ELSE a
  BY <1>2
<1>4. MergeLogicalBlocks = all[m]
  BY DEF MergeLogicalBlocks, Finds
<1> HIDE DEF m, A, G, all
<1>5. PICK f \in [0 .. m -> A] : Recurs(f, <<>>, G, m)
  BY <1>1, <1>3, RecursionIs
<1>6. f[0] = <<>> /\ \A n \in 1 .. m : f[n] = IF IsText(n) THEN Gather(f[n - 1], n) ELSE f[n - 1]
  <2>1. \A n \in 1 .. m : f[n - 1] \in A
    BY <1>1
  <2> QED
    BY <1>3, <1>5, <2>1 DEF Recurs
<1>7. Finds(f, m)
  <2> DEFINE g == [n \in 0 .. m |-> IF n = 0 THEN <<>> ELSE IF IsText(n) THEN Gather(f[n - 1], n) ELSE f[n - 1]]
  <2>1. \A n \in 0 .. m : f[n] = g[n]
    <3>1. \A n \in 0 .. m : n = 0 \/ n \in 1 .. m
      BY <1>1
    <3>2. \A n \in 0 .. m : g[n] = IF n = 0 THEN <<>> ELSE IF IsText(n) THEN Gather(f[n - 1], n) ELSE f[n - 1]
      OBVIOUS
    <3> HIDE DEF g
    <3> QED
      BY <3>1, <3>2, <1>6
  <2>2. f = [n \in 0 .. m |-> f[n]] /\ g = [n \in 0 .. m |-> g[n]]
    OBVIOUS
  <2>3. f = g
    <3> HIDE DEF g
    <3> QED
      BY <2>1, <2>2
  <2> QED
    BY <2>3 DEF Finds
<1>8. PICK g : Finds(g, m) /\ MergeLogicalBlocks = g[m]
  BY <1>4, <1>7 DEF all
<1>9. m \in Nat
  BY <1>1
<1>10. g[0] = <<>> /\ \A n \in 1 .. m : g[n] = IF IsText(n) THEN Gather(g[n - 1], n) ELSE g[n - 1]
  BY <1>8, <1>9, FindsIs
<1>11. g[m] = f[m]
  <2>1. g[0] = f[0] /\ \A n \in 1 .. m : g[n - 1] = f[n - 1] => g[n] = f[n]
    BY <1>6, <1>10
  <2> QED
    BY <1>9, <2>1, SameSteps
<1> QED
  BY <1>6, <1>8, <1>11 DEF m, A

LEMMA UnitsAreGathered ==
  ASSUME DocTyped PROVE Gathered(MergeLogicalBlocks, Len(doc))
<1>1. PICK f \in [0 .. Len(doc) -> Seq(Unit)] :
        /\ f[0] = <<>> /\ MergeLogicalBlocks = f[Len(doc)]
        /\ \A n \in 1 .. Len(doc) : f[n] = IF IsText(n) THEN Gather(f[n - 1], n) ELSE f[n - 1]
  BY MergeLogicalBlocksIs
<1> DEFINE P == {n \in 0 .. Len(doc) : Gathered(f[n], n)}
<1>2. Len(doc) \in Nat /\ doc \in Seq(Node)
  BY DEF DocTyped
<1>3. 0 \in P
  <2>1. SubSeq(doc, 1, 0) = <<>>
    BY <1>2, FirstOnes
  <2>2. <<>> \in Seq(Unit) /\ Len(<<>>) = 0
    OBVIOUS
  <2>3. Gathered(<<>>, 0)
    BY <2>1, <2>2 DEF Gathered
  <2> QED
    BY <1>1, <1>2, <2>3
<1>4. ASSUME NEW n \in 1 .. Len(doc), n - 1 \in P PROVE n \in P
  <2>1. Gathered(f[n - 1], n - 1) /\ n - 1 \in 0 .. Len(doc) /\ n \in 0 .. Len(doc)
    BY <1>4
  <2>2. f[n - 1] \in Seq(Unit)
    BY <2>1
  <2>3. f[n] = IF IsText(n) THEN Gather(f[n - 1], n) ELSE f[n - 1]
    BY <1>1
  <2>4. Gathered(f[n], n)
    BY <2>1, <2>2, <2>3, UnitGrows, UnitBegins, IslandPassed
  <2> QED
    BY <2>1, <2>4
<1>5. \A n \in 0 .. Len(doc) : n \in P
  <2> HIDE DEF P
  <2> QED
    BY <1>2, <1>3, <1>4, UpTo
<1> QED
  BY <1>1, <1>2, <1>5

\* The elements a sentence of a unit is in are those of the unit, and so are those of the last
\* text that was read, if no two of one tag follow one another.
Same(m, n) == Boundaries(doc[m].format) = Boundaries(doc[n].format)
LastOf(m, n) == m \in 1 .. n /\ IsText(m) /\ \A k \in m + 1 .. n : ~IsText(k)
KeptIn(found, n) ==
  ElementsApart =>
    /\ \A i \in 1 .. Len(found) : \A j \in 1 .. Len(found[i].text) : Same(found[i].text[j].node, found[i].id)
    /\ found # <<>> => \E m \in 1 .. n :
         LastOf(m, n) /\ doc[m].block = doc[Last(found).id].block /\ Same(m, Last(found).id)

LEMMA ElementsIn ==
  ASSUME DocTyped, NEW n \in 1 .. Len(doc)
  PROVE  doc[n].format \in Seq(Elements) /\ Range(doc[n].format) = {doc[n].format[i] : i \in 1 .. Len(doc[n].format)}
<1>1. doc[n] \in Node
  BY DEF DocTyped
<1>2. doc[n].format \in Seq(Elements)
  BY <1>1 DEF Node
<1> QED
  BY <1>2 DEF Range

LEMMA TagsAre ==
  ASSUME NEW f \in Seq(Elements)
  PROVE  Tags(f) \in Seq({Tag[e] : e \in Elements}) /\ Len(Tags(f)) = Len(f) /\ \A i \in 1 .. Len(f) : Tags(f)[i] = Tag[f[i]]
  BY DEF Tags

\* What a wrapped chain has of boundaries, the chain it wraps has, tag by tag; and the other way.
LEMMA WrapsAre ==
  ASSUME NEW f \in Seq(Elements), NEW g \in Seq(Elements), Wraps(f, g)
  PROVE  /\ \A i \in 1 .. Len(g) : i \in 1 .. Len(f) /\ Tag[f[i]] = Tag[g[i]]
         /\ \A i \in 1 .. Len(f) : i \in 1 .. Len(g) \/ Tag[f[i]] \in Decorative
<1> DEFINE s == Tags(f)
           t == Tags(g)
<1>1. /\ s \in Seq({Tag[e] : e \in Elements}) /\ Len(s) = Len(f) /\ \A i \in 1 .. Len(f) : s[i] = Tag[f[i]]
      /\ t \in Seq({Tag[e] : e \in Elements}) /\ Len(t) = Len(g) /\ \A i \in 1 .. Len(g) : t[i] = Tag[g[i]]
      /\ Len(f) \in Nat /\ Len(g) \in Nat
  <2>1. Len(f) \in Nat /\ Len(g) \in Nat
    OBVIOUS
  <2> QED
    BY <2>1, TagsAre
<1>2. IsPrefix(t, s)
  BY DEF Wraps
<1> HIDE DEF s, t
<1>3. Len(t) <= Len(s) /\ \A i \in 1 .. Len(t) : s[i] = t[i]
  BY <1>1, <1>2 DEF IsPrefix
<1>4. \A i \in 1 .. Len(f) : i > Len(g) => Tag[f[i]] \in Decorative
  BY DEF Wraps
<1> QED
  BY <1>1, <1>3, <1>4

\* A text that is absorbed next to one with the elements of the unit has them, too.
LEMMA SameElements ==
  ASSUME DocTyped, ElementsApart, NEW m \in 1 .. Len(doc), NEW n \in 1 .. Len(doc), NEW u \in 1 .. Len(doc),
         NextTo(m, n), Same(m, u), MergesInto(doc[n].format, doc[u].format)
  PROVE  Same(n, u)
<1> DEFINE f == doc[n].format
           g == doc[u].format
           h == doc[m].format
<1>1. /\ f \in Seq(Elements) /\ Range(f) = {f[i] : i \in 1 .. Len(f)}
      /\ g \in Seq(Elements) /\ Range(g) = {g[i] : i \in 1 .. Len(g)}
  BY ElementsIn
<1>2. Boundaries(h) = Boundaries(g)
  BY DEF Same
<1>3. \A e \in Boundaries(h), x \in Boundaries(f) : Tag[e] = Tag[x] => e = x
  <2>1. m \in DOMAIN doc /\ n \in DOMAIN doc
    BY DEF DocTyped
  <2> QED
    BY <2>1 DEF ElementsApart
<1>4. Wraps(f, g)
  BY DEF MergesInto
<1> HIDE DEF f, g, h
<1>5. /\ \A i \in 1 .. Len(g) : i \in 1 .. Len(f) /\ Tag[f[i]] = Tag[g[i]]
      /\ \A i \in 1 .. Len(f) : i \in 1 .. Len(g) \/ Tag[f[i]] \in Decorative
  BY <1>1, <1>4, WrapsAre
<1>6. ASSUME NEW x \in Boundaries(f) PROVE x \in Boundaries(g)
  <2>1. PICK i \in 1 .. Len(f) : x = f[i]
    BY <1>1 DEF Boundaries
  <2>2. Tag[x] \notin Decorative
    BY DEF Boundaries
  <2>3. i \in 1 .. Len(g) /\ Tag[g[i]] = Tag[x]
    BY <1>5, <2>1, <2>2
  <2>4. g[i] \in Boundaries(g)
    BY <1>1, <2>2, <2>3 DEF Boundaries
  <2> QED
    BY <1>2, <1>3, <2>3, <2>4
<1>7. ASSUME NEW e \in Boundaries(g) PROVE e \in Boundaries(f)
  <2>1. PICK i \in 1 .. Len(g) : e = g[i]
    BY <1>1 DEF Boundaries
  <2>2. Tag[e] \notin Decorative
    BY DEF Boundaries
  <2>3. i \in 1 .. Len(f) /\ Tag[f[i]] = Tag[e]
    BY <1>5, <2>1
  <2>4. f[i] \in Boundaries(f)
    BY <1>1, <2>2, <2>3 DEF Boundaries
  <2> QED
    BY <1>2, <1>3, <2>3, <2>4
<1>8. Boundaries(f) = Boundaries(g)
  BY <1>6, <1>7
<1> QED
  BY <1>8 DEF Same, f, g

LEMMA TextsOfNode ==
  ASSUME DocTyped, NEW n \in 1 .. Len(doc)
  PROVE  doc[n].text \in Seq(Sentence) /\ \A i \in 1 .. Len(doc[n].text) : doc[n].text[i].node = n
<1>1. doc[n] \in Node
  BY DEF DocTyped
<1> QED
  BY <1>1 DEF Node, DocTyped

LEMMA KeptGrows ==
  ASSUME DocTyped, NEW found \in Seq(Unit), NEW n \in 1 .. Len(doc), Gathered(found, n - 1), IsText(n),
         KeptIn(found, n - 1), ElementsApart, found # <<>>, Absorbs(Last(found), n)
  PROVE  KeptIn(Gather(found, n), n)
<1> DEFINE f == Front(found)
           l == Last(found)
           more == doc[n].text
           u == [id |-> l.id, text |-> l.text \o more]
           k == Len(f)
           t == Append(f, u)
<1>1. f \in Seq(Unit) /\ l \in Unit /\ found = Append(f, l)
  BY ByItsEnd
<1>2. /\ Len(found) = k + 1 /\ k \in Nat /\ l = found[k + 1]
      /\ \A i \in 1 .. k : f[i] = found[i]
  <2>1. Len(found) \in Nat /\ Len(found) > 0 /\ k = Len(found) - 1 /\ l = found[Len(found)]
    BY ByItsEnd
  <2>2. \A i \in 1 .. Len(found) - 1 : f[i] = found[i]
    BY ByItsEnd
  <2> HIDE DEF f, l
  <2> QED
    BY <2>1, <2>2
<1>3. more \in Seq(Sentence) /\ \A i \in 1 .. Len(more) : more[i].node = n
  BY TextsOfNode
<1>4. Gather(found, n) = t
  <2>1. [l EXCEPT !.text = @ \o more] = u
    <3>1. l \in Unit /\ more \in Seq(Sentence)
      BY <1>1, <1>3
    <3> HIDE DEF l, more
    <3> QED
      BY <3>1, UnitWith
  <2> QED
    BY <2>1 DEF Gather
<1>5. doc[l.id].block = doc[n].block /\ MergesInto(doc[n].format, doc[l.id].format)
  BY DEF Absorbs
<1>6. PICK m \in 1 .. n - 1 : LastOf(m, n - 1) /\ doc[m].block = doc[l.id].block /\ Same(m, l.id)
  BY DEF KeptIn
<1>7. l.id \in 1 .. n - 1
  <2>1. k + 1 \in 1 .. Len(found)
    BY <1>2
  <2> HIDE DEF l, k
  <2> QED
    BY <1>2, <2>1 DEF Gathered
<1> HIDE DEF f, l, more
<1>8. l.id \in 1 .. Len(doc) /\ m \in 1 .. Len(doc) /\ m < n /\ n \in Nat
  BY <1>7 DEF DocTyped
<1>9. NextTo(m, n)
  <2>1. m + 1 .. n - 1 = (m + 1) .. (n - 1)
    OBVIOUS
  <2> QED
    BY <1>5, <1>6, <1>8 DEF NextTo, LastOf
<1>10. Same(n, l.id)
  BY <1>5, <1>6, <1>8, <1>9, SameElements
<1>11. u \in Unit /\ u.id = l.id /\ u.text = l.text \o more /\ l.text \in Seq(Sentence)
  BY <1>1, <1>3 DEF Unit
<1> HIDE DEF u
<1>12. /\ t \in Seq(Unit) /\ Len(t) = k + 1 /\ t[k + 1] = u
       /\ \A i \in 1 .. k : t[i] = found[i]
       /\ \A i \in 1 .. k + 1 : i \in 1 .. k \/ i = k + 1
  BY <1>1, <1>2, <1>11, AppendIs
<1>13. t # <<>> /\ Last(t) = u
  BY <1>2, <1>12 DEF Last
<1> HIDE DEF t, k
<1>14. \A i \in 1 .. k + 1 : \A j \in 1 .. Len(found[i].text) : Same(found[i].text[j].node, found[i].id)
  BY <1>2 DEF KeptIn
<1>15. \A j \in 1 .. Len(u.text) : Same(u.text[j].node, u.id)
  <2> SUFFICES ASSUME NEW j \in 1 .. Len(u.text) PROVE Same(u.text[j].node, u.id)
    OBVIOUS
  <2>1. \A i \in 1 .. Len(l.text) : Same(l.text[i].node, l.id)
    BY <1>2, <1>14
  <2>2. /\ j \in 1 .. Len(l.text) => u.text[j] = l.text[j]
        /\ j \notin 1 .. Len(l.text) => j - Len(l.text) \in 1 .. Len(more) /\ u.text[j] = more[j - Len(l.text)]
    BY <1>3, <1>11
  <2>3. CASE j \in 1 .. Len(l.text)
    BY <1>11, <2>1, <2>2, <2>3
  <2>4. CASE j \notin 1 .. Len(l.text)
    <3>1. u.text[j].node = n
      BY <1>3, <2>2, <2>4
    <3> QED
      BY <1>10, <1>11, <3>1
  <2> QED
    BY <2>3, <2>4
<1>16. \A i \in 1 .. k + 1 : \A j \in 1 .. Len(t[i].text) : Same(t[i].text[j].node, t[i].id)
  BY <1>12, <1>14, <1>15
<1>17. LastOf(n, n) /\ n \in 1 .. n
  <2>1. \A x \in n + 1 .. n : FALSE
    BY <1>8
  <2> QED
    BY <1>8, <2>1 DEF LastOf
<1> QED
  BY <1>4, <1>5, <1>10, <1>11, <1>12, <1>13, <1>16, <1>17 DEF KeptIn

LEMMA KeptBegins ==
  ASSUME DocTyped, NEW found \in Seq(Unit), NEW n \in 1 .. Len(doc), IsText(n), KeptIn(found, n - 1),
         ElementsApart, ~(found # <<>> /\ Absorbs(Last(found), n))
  PROVE  KeptIn(Gather(found, n), n)
<1> DEFINE prose == doc[n].text
           u == [id |-> n, text |-> prose]
           k == Len(found)
           t == Append(found, u)
<1>1. /\ prose \in Seq(Sentence) /\ \A i \in 1 .. Len(prose) : prose[i].node = n
      /\ n \in Nat /\ k \in Nat
  BY TextsOfNode
<1>2. Gather(found, n) = t
  BY DEF Gather
<1> HIDE DEF prose
<1>3. u \in Unit /\ u.id = n /\ u.text = prose
  BY <1>1 DEF Unit
<1> HIDE DEF u
<1>4. /\ t \in Seq(Unit) /\ Len(t) = k + 1 /\ t[k + 1] = u
      /\ \A i \in 1 .. k : t[i] = found[i]
      /\ \A i \in 1 .. k + 1 : i \in 1 .. k \/ i = k + 1
  BY <1>3, AppendIs
<1>5. t # <<>> /\ Last(t) = u
  BY <1>1, <1>4 DEF Last
<1> HIDE DEF t
<1>6. \A i \in 1 .. k : \A j \in 1 .. Len(found[i].text) : Same(found[i].text[j].node, found[i].id)
  BY DEF KeptIn
<1> HIDE DEF k
<1>7. \A j \in 1 .. Len(u.text) : Same(u.text[j].node, u.id)
  BY <1>1, <1>3 DEF Same
<1>8. \A i \in 1 .. k + 1 : \A j \in 1 .. Len(t[i].text) : Same(t[i].text[j].node, t[i].id)
  BY <1>4, <1>6, <1>7
<1>9. LastOf(n, n) /\ n \in 1 .. n
  <2>1. \A x \in n + 1 .. n : FALSE
    BY <1>1
  <2> QED
    BY <1>1, <2>1 DEF LastOf
<1> QED
  BY <1>2, <1>3, <1>4, <1>5, <1>8, <1>9 DEF KeptIn, Same

LEMMA KeptPassed ==
  ASSUME DocTyped, NEW found \in Seq(Unit), NEW n \in 1 .. Len(doc), ~IsText(n), KeptIn(found, n - 1), ElementsApart
  PROVE  KeptIn(found, n)
<1>1. n \in Nat
  BY DEF DocTyped
<1>2. \A m \in 1 .. n - 1 : LastOf(m, n - 1) => m \in 1 .. n /\ LastOf(m, n)
  <2>1. \A m \in 1 .. n - 1 : m \in 1 .. n /\ \A k \in m + 1 .. n : k \in m + 1 .. n - 1 \/ k = n
    BY <1>1
  <2> QED
    BY <2>1 DEF LastOf
<1> QED
  BY <1>2 DEF KeptIn

LEMMA UnitsAreKept ==
  ASSUME DocTyped PROVE KeptIn(MergeLogicalBlocks, Len(doc))
<1> SUFFICES ASSUME ElementsApart PROVE KeptIn(MergeLogicalBlocks, Len(doc))
  BY DEF KeptIn
<1>1. PICK f \in [0 .. Len(doc) -> Seq(Unit)] :
        /\ f[0] = <<>> /\ MergeLogicalBlocks = f[Len(doc)]
        /\ \A n \in 1 .. Len(doc) : f[n] = IF IsText(n) THEN Gather(f[n - 1], n) ELSE f[n - 1]
  BY MergeLogicalBlocksIs
<1> DEFINE P == {n \in 0 .. Len(doc) : Gathered(f[n], n) /\ KeptIn(f[n], n)}
<1>2. Len(doc) \in Nat /\ doc \in Seq(Node)
  BY DEF DocTyped
<1>3. 0 \in P
  <2>1. SubSeq(doc, 1, 0) = <<>>
    BY <1>2, FirstOnes
  <2>2. <<>> \in Seq(Unit) /\ Len(<<>>) = 0
    OBVIOUS
  <2>3. Gathered(<<>>, 0) /\ KeptIn(<<>>, 0)
    BY <2>1, <2>2 DEF Gathered, KeptIn
  <2> QED
    BY <1>1, <1>2, <2>3
<1>4. ASSUME NEW n \in 1 .. Len(doc), n - 1 \in P PROVE n \in P
  <2>1. Gathered(f[n - 1], n - 1) /\ KeptIn(f[n - 1], n - 1) /\ n - 1 \in 0 .. Len(doc) /\ n \in 0 .. Len(doc)
    BY <1>4
  <2>2. f[n - 1] \in Seq(Unit)
    BY <2>1
  <2>3. f[n] = IF IsText(n) THEN Gather(f[n - 1], n) ELSE f[n - 1]
    BY <1>1
  <2>4. Gathered(f[n], n)
    BY <2>1, <2>2, <2>3, UnitGrows, UnitBegins, IslandPassed
  <2>5. KeptIn(f[n], n)
    BY <2>1, <2>2, <2>3, KeptGrows, KeptBegins, KeptPassed
  <2> QED
    BY <2>1, <2>4, <2>5
<1>5. \A n \in 0 .. Len(doc) : n \in P
  <2> HIDE DEF P
  <2> QED
    BY <1>2, <1>3, <1>4, UpTo
<1> QED
  BY <1>1, <1>2, <1>5

\* TextMaps put back at the places they are from, with nothing between them, read as they did.
LEMMA PlacedReadsOn ==
  ASSUME NEW us \in Seq(Unit), NEW place \in Seq(Seq(Sentence)),
         \A i \in 1 .. Len(us) : us[i].id \in 1 .. Len(place) /\ place[us[i].id] = us[i].text,
         \A i, j \in 1 .. Len(us) : i < j => us[i].id < us[j].id,
         \A n \in 1 .. Len(place) : (\A i \in 1 .. Len(us) : us[i].id # n) => place[n] = <<>>
  PROVE  Joined(place) = Joined(TextsOf(us))
<1> DEFINE Upto(n, k) ==
             /\ \A i \in 1 .. Len(us) : us[i].id <= n <=> i <= k
             /\ Joined(SubSeq(place, 1, n)) = Joined(TextsOf(SubSeq(us, 1, k)))
           P == {n \in 0 .. Len(place) : \E k \in 0 .. Len(us) : Upto(n, k)}
<1>1. Len(us) \in Nat /\ Len(place) \in Nat
  OBVIOUS
<1>2. 0 \in P
  <2>1. SubSeq(place, 1, 0) = <<>> /\ SubSeq(us, 1, 0) = <<>>
    BY FirstOnes
  <2>2. Joined(SubSeq(place, 1, 0)) = Joined(TextsOf(SubSeq(us, 1, 0)))
    BY <2>1, JoinedNone, NoneText
  <2>3. \A i \in 1 .. Len(us) : us[i].id <= 0 <=> i <= 0
    OBVIOUS
  <2>4. Upto(0, 0)
    BY <2>2, <2>3
  <2> HIDE DEF Upto
  <2> QED
    BY <1>1, <2>4
<1>3. ASSUME NEW n \in 1 .. Len(place), n - 1 \in P PROVE n \in P
  <2>1. PICK k \in 0 .. Len(us) : Upto(n - 1, k)
    BY <1>3
  <2> DEFINE earlier == Joined(SubSeq(place, 1, n - 1))
             prose == place[n]
  <2>2. earlier \in Seq(Sentence) /\ Joined(SubSeq(place, 1, n)) = earlier \o prose
    <3>1. SubSeq(place, 1, n) = Append(SubSeq(place, 1, n - 1), place[n])
      BY FirstOnes
    <3>2. n - 1 \in 0 .. Len(place) /\ place[n] \in Seq(Sentence)
      BY <1>1
    <3>3. SubSeq(place, 1, n - 1) \in Seq(Seq(Sentence))
      BY <3>2, FirstAre
    <3> QED
      BY <3>1, <3>2, <3>3, JoinedAppend
  <2>3. earlier = Joined(TextsOf(SubSeq(us, 1, k)))
    BY <2>1
  <2>4. CASE \A i \in 1 .. Len(us) : us[i].id # n
    <3>1. prose = <<>>
      BY <2>4
    <3>2. earlier \o prose = earlier
      <4> HIDE DEF earlier, prose
      <4> QED
        BY <2>2, <3>1
    <3>3. \A i \in 1 .. Len(us) : us[i].id <= n <=> us[i].id <= n - 1
      <4>1. \A i \in 1 .. Len(us) : us[i].id \in Nat
        BY DEF Unit
      <4> QED
        BY <1>1, <2>4, <4>1
    <3>4. Upto(n, k)
      BY <2>1, <2>2, <2>3, <3>2, <3>3
    <3> HIDE DEF Upto
    <3> QED
      BY <1>1, <3>4
  <2>5. CASE \E i \in 1 .. Len(us) : us[i].id = n
    <3>1. PICK i \in 1 .. Len(us) : us[i].id = n
      BY <2>5
    <3>2. i = k + 1
      <4>1. i > k
        BY <2>1, <3>1
      <4>2. ASSUME k + 1 < i PROVE FALSE
        <5>1. k + 1 \in 1 .. Len(us)
          BY <4>2
        <5>2. us[k + 1].id < n
          BY <4>2, <5>1, <3>1
        <5>3. us[k + 1].id \in Nat
          <6>1. us[k + 1] \in Unit
            BY <5>1
          <6> QED
            BY <6>1 DEF Unit
        <5>4. us[k + 1].id <= n - 1
          BY <5>2, <5>3
        <5> QED
          BY <2>1, <5>1, <5>4
      <4> QED
        BY <4>1, <4>2
    <3>3. k + 1 \in 1 .. Len(us) /\ us[k + 1].id = n /\ us[k + 1] \in Unit
      BY <3>1, <3>2
    <3>4. \A j \in 1 .. Len(us) : us[j].id <= n <=> j <= k + 1
      <4> SUFFICES ASSUME NEW j \in 1 .. Len(us) PROVE us[j].id <= n <=> j <= k + 1
        OBVIOUS
      <4>1. us[j].id \in Nat /\ n \in Nat
        BY <1>1 DEF Unit
      <4>2. us[j].id <= n - 1 <=> j <= k
        BY <2>1
      <4>3. k + 1 < j => n < us[j].id
        BY <3>3
      <4> QED
        BY <3>3, <4>1, <4>2, <4>3
    <3>5. Joined(TextsOf(SubSeq(us, 1, k + 1))) = Joined(TextsOf(SubSeq(us, 1, k))) \o us[k + 1].text
      <4>1. (k + 1) - 1 = k
        OBVIOUS
      <4>2. SubSeq(us, 1, k + 1) = Append(SubSeq(us, 1, k), us[k + 1])
        BY <3>3, <4>1, FirstOnes
      <4>3. SubSeq(us, 1, k) \in Seq(Unit)
        BY FirstAre
      <4>4. \A x \in Unit : x.text \in Seq(Sentence)
        BY DEF Unit
      <4> DEFINE a == SubSeq(us, 1, k)
                 u == us[k + 1]
      <4>5. a \in Seq(Unit) /\ u \in Unit
        BY <3>3, <4>3
      <4> HIDE DEF a, u
      <4>6. Joined(TextsOf(Append(a, u))) = Joined(TextsOf(a)) \o u.text
        BY <4>4, <4>5, OneMoreText
      <4> QED
        BY <4>2, <4>6 DEF a, u
    <3>6. prose = us[k + 1].text
      BY <3>3
    <3>7. Upto(n, k + 1)
      BY <2>2, <2>3, <3>4, <3>5, <3>6
    <3>8. k + 1 \in 0 .. Len(us)
      BY <3>3
    <3> HIDE DEF Upto
    <3> QED
      BY <1>1, <3>7, <3>8
  <2> QED
    BY <2>4, <2>5
<1>4. \A n \in 0 .. Len(place) : n \in P
  <2> HIDE DEF P
  <2> QED
    BY <1>1, <1>2, <1>3, UpTo
<1>5. Len(place) \in 0 .. Len(place)
  BY <1>1
<1>6. PICK k \in 0 .. Len(us) : Upto(Len(place), k)
  BY <1>4, <1>5
<1>7. k = Len(us)
  <2>1. ASSUME k < Len(us) PROVE FALSE
    <3>1. Len(us) \in 1 .. Len(us)
      BY <1>1, <2>1
    <3>2. us[Len(us)].id <= Len(place)
      BY <1>1, <3>1
    <3> QED
      BY <1>6, <2>1, <3>1, <3>2
  <2> QED
    BY <1>1, <2>1
<1>8. SubSeq(place, 1, Len(place)) = place /\ SubSeq(us, 1, Len(us)) = us
  BY FirstOnes
<1> QED
  BY <1>6, <1>7, <1>8
-----------------------------------------------------------------------------
(* The batches: how large they are, and what they ask.                        *)

LEMMA ConcatOneMore ==
  ASSUME NEW V, NEW a \in Seq(V), NEW b \in Seq(V), NEW x \in V
  PROVE  a \o b \in Seq(V) /\ a \o Append(b, x) = Append(a \o b, x)
<1>1. <<x>> \in Seq(V) /\ Append(b, x) = b \o <<x>> /\ a \o b \in Seq(V)
  OBVIOUS
<1>2. Append(a \o b, x) = (a \o b) \o <<x>>
  BY <1>1
<1>3. a \o (b \o <<x>>) = (a \o b) \o <<x>>
  BY <1>1, ConcatAgain
<1> QED
  BY <1>1, <1>2, <1>3

LEMMA JoinedConcat ==
  ASSUME NEW V, NEW a \in Seq(Seq(V)), NEW b \in Seq(Seq(V))
  PROVE  /\ a \o b \in Seq(Seq(V)) /\ Joined(a) \in Seq(V) /\ Joined(b) \in Seq(V)
         /\ Joined(a \o b) = Joined(a) \o Joined(b)
<1> DEFINE P == {n \in 0 .. Len(b) : /\ Joined(SubSeq(b, 1, n)) \in Seq(V)
                                     /\ Joined(a \o SubSeq(b, 1, n)) = Joined(a) \o Joined(SubSeq(b, 1, n))}
<1>1. Len(b) \in Nat /\ a \o <<>> = a /\ a \o b \in Seq(Seq(V))
  OBVIOUS
<1>2. Joined(a) \in Seq(V)
  <2>1. <<>> \in Seq(V)
    OBVIOUS
  <2> QED
    BY <2>1, JoinedAppend
<1>3. 0 \in P
  <2>1. SubSeq(b, 1, 0) = <<>>
    BY FirstOnes
  <2>2. Joined(a) \o <<>> = Joined(a) /\ <<>> \in Seq(V)
    BY <1>2
  <2>3. 0 \in 0 .. Len(b)
    BY <1>1
  <2> QED
    BY <1>1, <2>1, <2>2, <2>3, JoinedNone
<1>4. ASSUME NEW n \in 1 .. Len(b), n - 1 \in P PROVE n \in P
  <2> DEFINE c == SubSeq(b, 1, n - 1)
             x == b[n]
  <2>1. n - 1 \in 0 .. Len(b) /\ n \in 0 .. Len(b) /\ x \in Seq(V)
    BY <1>1
  <2>2. SubSeq(b, 1, n) = Append(c, x)
    BY FirstOnes
  <2>3. c \in Seq(Seq(V))
    BY <2>1, FirstAre
  <2>4. Joined(c) \in Seq(V) /\ Joined(a \o c) = Joined(a) \o Joined(c)
    BY <1>4
  <2> HIDE DEF c, x
  <2>5. Joined(Append(c, x)) = Joined(c) \o x /\ Joined(c) \o x \in Seq(V)
    <3>1. Joined(Append(c, x)) = Joined(c) \o x
      BY <2>1, <2>3, JoinedAppend
    <3> DEFINE jc == Joined(c)
    <3>2. jc \o x \in Seq(V)
      <4>1. jc \in Seq(V)
        BY <2>4
      <4> HIDE DEF jc
      <4> QED
        BY <2>1, <4>1
    <3> QED
      BY <3>1, <3>2
  <2>6. a \o c \in Seq(Seq(V)) /\ a \o Append(c, x) = Append(a \o c, x)
    BY <2>1, <2>3, ConcatOneMore
  <2>7. Joined(Append(a \o c, x)) = Joined(a \o c) \o x
    BY <2>1, <2>6, JoinedAppend
  <2>8. Joined(a) \o (Joined(c) \o x) = (Joined(a) \o Joined(c)) \o x
    <3> DEFINE ja == Joined(a)
               jc == Joined(c)
    <3>1. ja \in Seq(V) /\ jc \in Seq(V)
      BY <1>2, <2>4
    <3> HIDE DEF ja, jc
    <3> QED
      BY <2>1, <3>1, ConcatAgain
  <2> QED
    BY <2>1, <2>2, <2>4, <2>5, <2>6, <2>7, <2>8
<1>5. \A n \in 0 .. Len(b) : n \in P
  <2> HIDE DEF P
  <2> QED
    BY <1>1, <1>3, <1>4, UpTo
<1>6. Len(b) \in 0 .. Len(b) /\ SubSeq(b, 1, Len(b)) = b
  BY <1>1, FirstOnes
<1> QED
  BY <1>1, <1>2, <1>5, <1>6

\* Sequences of one, one after the other.
LEMMA JoinedSingles ==
  ASSUME NEW V, NEW s \in Seq(V), NEW ss \in Seq(Seq(V)), Len(ss) = Len(s),
         \A i \in 1 .. Len(s) : ss[i] = <<s[i]>>
  PROVE  Joined(ss) = s
<1> DEFINE P == {n \in 0 .. Len(s) : Joined(SubSeq(ss, 1, n)) = SubSeq(s, 1, n)}
<1>1. Len(s) \in Nat
  OBVIOUS
<1>2. 0 \in P
  <2>1. SubSeq(ss, 1, 0) = <<>> /\ SubSeq(s, 1, 0) = <<>>
    BY FirstOnes
  <2>2. 0 \in 0 .. Len(s)
    BY <1>1
  <2> QED
    BY <2>1, <2>2, JoinedNone
<1>3. ASSUME NEW n \in 1 .. Len(s), n - 1 \in P PROVE n \in P
  <2> DEFINE c == SubSeq(ss, 1, n - 1)
             d == SubSeq(s, 1, n - 1)
             x == s[n]
  <2>1. n - 1 \in 0 .. Len(s) /\ n \in 0 .. Len(s) /\ x \in V /\ <<x>> \in Seq(V) /\ ss[n] = <<x>>
    BY <1>1
  <2>2. SubSeq(ss, 1, n) = Append(c, ss[n]) /\ SubSeq(s, 1, n) = Append(d, x)
    BY FirstOnes
  <2>3. c \in Seq(Seq(V)) /\ d \in Seq(V)
    BY <2>1, FirstAre
  <2>4. Joined(c) = d
    BY <1>3
  <2> HIDE DEF c, d, x
  <2>5. Joined(Append(c, <<x>>)) = d \o <<x>>
    BY <2>1, <2>3, <2>4, JoinedAppend
  <2>6. d \o <<x>> = Append(d, x)
    BY <2>1, <2>3
  <2> QED
    BY <2>1, <2>2, <2>5, <2>6
<1>4. \A n \in 0 .. Len(s) : n \in P
  <2> HIDE DEF P
  <2> QED
    BY <1>1, <1>2, <1>3, UpTo
<1>5. Len(s) \in 0 .. Len(s) /\ SubSeq(s, 1, Len(s)) = s /\ SubSeq(ss, 1, Len(s)) = ss
  BY <1>1, FirstOnes
<1> QED
  BY <1>4, <1>5

\* A batch that may be sent: within the budget, but for a sentence that is not.
Asked(b) ==
  /\ b \in Seq(PieceSet) /\ b # <<>> /\ Len(b) <= MaxSegments
  /\ Chars(b) <= MaxChars \/ Len(Joined(TextsOf(b))) = 1

LEMMA Bounds == MaxChars \in Nat /\ MaxSegments \in Nat /\ MaxSegments >= 1
  BY TextAssumption DEF TextAssumption

LEMMA PiecesHaveText == \A x \in PieceSet : x.text \in Seq(Sentence)
  BY DEF PieceSet

LEMMA PieceAlone ==
  ASSUME NEW p \in PieceSet
  PROVE  /\ <<p>> \in Seq(PieceSet) /\ <<p>> # <<>> /\ Len(<<p>>) = 1
         /\ Chars(<<p>>) = Length(p.text) /\ Joined(TextsOf(<<p>>)) = p.text
         /\ Length(p.text) \in Nat /\ p.text \in Seq(Sentence)
<1>1. Append(<<>>, p) = <<p>> /\ <<>> \in Seq(PieceSet) /\ <<p>> \in Seq(PieceSet) /\ <<p>> # <<>>
  OBVIOUS
<1>2. p.text \in Seq(Sentence)
  BY PiecesHaveText
<1>3. Length(p.text) \in Nat
  <2>1. [node |-> 0, at |-> 0, length |-> 0] \in Sentence
    BY DEF Sentence
  <2> QED
    BY <1>2, <2>1, LengthAppend
<1>4. Chars(<<p>>) = 0 + Length(p.text)
  BY <1>1, CharsAppend, CharsNone
<1>5. Joined(TextsOf(<<p>>)) = <<>> \o p.text
  BY <1>1, PiecesHaveText, OneMoreText, NoneText
<1> QED
  BY <1>1, <1>2, <1>3, <1>4, <1>5

LEMMA AloneIsAsked ==
  ASSUME NEW p \in PieceSet, Length(p.text) <= MaxChars \/ Len(p.text) = 1
  PROVE  Asked(<<p>>)
  BY PieceAlone, Bounds DEF Asked

LEMMA PieceIs ==
  ASSUME NEW unit \in Unit, NEW part \in Nat, NEW prose \in Seq(Sentence)
  PROVE  Piece(unit, part, prose) \in PieceSet /\ Piece(unit, part, prose).id = unit.id
         /\ Piece(unit, part, prose).text = prose
  BY DEF Piece, PieceSet, Unit

\* A unit that fits nowhere goes in pieces, which have its text between them.
LEMMA PiecesAre ==
  ASSUME NEW unit \in Unit, Length(unit.text) > MaxChars
  PROVE  /\ Pieces(unit) \in Seq(Seq(PieceSet))
         /\ \A i \in 1 .. Len(Pieces(unit)) : Asked(Pieces(unit)[i])
         /\ Joined(Pieces(unit)) \in Seq(PieceSet) /\ Joined(Pieces(unit)) # <<>>
         /\ \A i \in 1 .. Len(Joined(Pieces(unit))) : Joined(Pieces(unit))[i].id = unit.id
         /\ Joined(TextsOf(Joined(Pieces(unit)))) = unit.text
<1> DEFINE prose == unit.text
           chunks == Chunks(prose)
           k == Len(chunks)
<1>1. prose \in Seq(Sentence)
  BY DEF Unit
<1>2. /\ chunks \in Seq(Seq(Sentence)) /\ Joined(chunks) = prose
      /\ \A i \in 1 .. k : Bounded(chunks[i]) /\ chunks[i] \in Seq(Sentence)
      /\ k \in Nat
  BY <1>1, ChunksAreWhole
<1>3. prose # <<>>
  BY LengthNone, Bounds
<1>4. k # 0
  <2>1. k = 0 => chunks = <<>>
    BY <1>2
  <2> QED
    BY <1>2, <1>3, <2>1, JoinedNone
<1>5. CASE k = 1
  <2> DEFINE p == Whole(unit)
  <2>1. p \in PieceSet /\ p.id = unit.id /\ p.text = prose
    BY <1>1, PieceIs DEF Whole
  <2>2. Pieces(unit) = << <<p>> >>
    BY <1>5 DEF Pieces
  <2>3. chunks = Append(<<>>, chunks[1]) /\ <<>> \in Seq(Seq(Sentence)) /\ chunks[1] \in Seq(Sentence)
    BY <1>2, <1>5
  <2>4. chunks[1] = prose
    <3>1. Joined(chunks) = Joined(<<>>) \o chunks[1]
      BY <2>3, JoinedAppend
    <3> DEFINE c == chunks[1]
    <3>2. <<>> \o c = c
      <4> HIDE DEF c
      <4> QED
        BY <2>3 DEF c
    <3> QED
      BY <1>2, <3>1, <3>2, JoinedNone
  <2>5. Len(prose) = 1
    <3>1. Bounded(prose)
      BY <1>2, <1>5, <2>4
    <3>2. ~(Length(prose) <= MaxChars)
      <4>1. Length(prose) \in Nat
        BY <2>1, PieceAlone
      <4> QED
        BY <4>1, Bounds
    <3> QED
      BY <3>1, <3>2 DEF Bounded
  <2> HIDE DEF p
  <2>6. Asked(<<p>>)
    BY <2>1, <2>5, AloneIsAsked
  <2>7. <<p>> \in Seq(PieceSet) /\ <<p>> # <<>> /\ Len(<<p>>) = 1 /\ Joined(TextsOf(<<p>>)) = prose
    BY <2>1, PieceAlone
  <2>8. << <<p>> >> \in Seq(Seq(PieceSet)) /\ Len(<< <<p>> >>) = 1 /\ << <<p>> >>[1] = <<p>>
    BY <2>7
  <2>9. Joined(<< <<p>> >>) = <<p>>
    <3>1. \A i \in 1 .. Len(<<p>>) : << <<p>> >>[i] = << <<p>>[i] >>
      BY <2>7, <2>8
    <3> QED
      BY <2>7, <2>8, <3>1, JoinedSingles
  <2>10. \A i \in 1 .. Len(<<p>>) : <<p>>[i].id = unit.id
    BY <2>1, <2>7
  <2> DEFINE b == << <<p>> >>
             q == <<p>>
  <2>11. /\ b \in Seq(Seq(PieceSet)) /\ Len(b) = 1 /\ b[1] = q /\ Joined(b) = q
         /\ q \in Seq(PieceSet) /\ q # <<>> /\ Joined(TextsOf(q)) = prose
         /\ Asked(q) /\ (\A i \in 1 .. Len(q) : q[i].id = unit.id) /\ Pieces(unit) = b
    BY <2>2, <2>6, <2>7, <2>8, <2>9, <2>10, Zenon
  <2> HIDE DEF b, q
  <2>12. \A i \in 1 .. Len(b) : Asked(b[i])
    BY <2>11
  <2> QED
    BY <2>11, <2>12
<1>6. CASE k # 1
  <2> DEFINE q == [i \in 1 .. k |-> Piece(unit, i, chunks[i])]
             b == [i \in 1 .. k |-> <<Piece(unit, i, chunks[i])>>]
  <2>1. Pieces(unit) = b
    <3>1. DOMAIN chunks = 1 .. k
      BY <1>2
    <3> QED
      BY <1>6, <3>1 DEF Pieces
  <2>2. \A i \in 1 .. k : /\ Piece(unit, i, chunks[i]) \in PieceSet
                          /\ Piece(unit, i, chunks[i]).id = unit.id
                          /\ Piece(unit, i, chunks[i]).text = chunks[i]
    BY <1>2, PieceIs
  <2>3. /\ q \in Seq(PieceSet) /\ Len(q) = k /\ q # <<>>
        /\ \A i \in 1 .. k : q[i].id = unit.id /\ q[i].text = chunks[i] /\ q[i] \in PieceSet
    BY <1>2, <1>4, <2>2
  <2>4. \A i \in 1 .. k : b[i] = <<q[i]>>
    OBVIOUS
  <2> HIDE DEF q
  <2>5. \A i \in 1 .. k : Asked(<<q[i]>>) /\ <<q[i]>> \in Seq(PieceSet)
    <3> SUFFICES ASSUME NEW i \in 1 .. k PROVE Asked(<<q[i]>>) /\ <<q[i]>> \in Seq(PieceSet)
      OBVIOUS
    <3>1. q[i] \in PieceSet /\ q[i].text = chunks[i] /\ Bounded(chunks[i])
      BY <1>2, <2>3
    <3>2. Length(q[i].text) <= MaxChars \/ Len(q[i].text) = 1
      BY <3>1 DEF Bounded
    <3> QED
      BY <3>1, <3>2, AloneIsAsked, PieceAlone
  <2>6. b \in Seq(Seq(PieceSet)) /\ Len(b) = k
    <3>1. \A i \in 1 .. k : b[i] \in Seq(PieceSet)
      BY <2>4, <2>5
    <3>2. b = [i \in 1 .. k |-> b[i]]
      OBVIOUS
    <3> HIDE DEF b
    <3> QED
      BY <1>2, <3>1, <3>2
  <2> HIDE DEF b
  <2>7. Joined(b) = q
    BY <2>3, <2>4, <2>6, JoinedSingles
  <2>8. TextsOf(q) = chunks
    <3>1. TextsOf(q) = [i \in 1 .. k |-> q[i].text]
      BY <2>3 DEF TextsOf
    <3>2. chunks = [i \in 1 .. k |-> chunks[i]]
      BY <1>2
    <3> QED
      BY <2>3, <3>1, <3>2
  <2> QED
    BY <1>2, <2>1, <2>3, <2>4, <2>5, <2>6, <2>7, <2>8
<1> QED
  BY <1>5, <1>6
-----------------------------------------------------------------------------
(* A state of makeBatches: what is put out, and the batch that is filled.     *)

Fine(s) ==
  /\ s.out \in Seq(Seq(PieceSet)) /\ s.current \in Seq(PieceSet)
  /\ s = [out |-> s.out, current |-> s.current]
  /\ \A i \in 1 .. Len(s.out) : Asked(s.out[i])
  /\ s.current # <<>> => Asked(s.current) /\ Chars(s.current) <= MaxChars
FineStates == {s \in [out : Seq(Seq(PieceSet)), current : Seq(PieceSet)] : Fine(s)}

\* All that is asked in it, and what a unit is asked as.
Gone(s) == Joined(s.out) \o s.current
AskedAs(unit) == IF Length(unit.text) > MaxChars THEN Joined(Pieces(unit)) ELSE <<Whole(unit)>>

LEMMA OutIs ==
  ASSUME NEW o, NEW c, NEW x
  PROVE  /\ [[out |-> o, current |-> c] EXCEPT !.out = x] = [out |-> x, current |-> c]
         /\ [[out |-> o, current |-> c] EXCEPT !.current = x] = [out |-> o, current |-> x]
         /\ [out |-> o, current |-> c].out = o /\ [out |-> o, current |-> c].current = c
  OBVIOUS

LEMMA FineIs ==
  ASSUME NEW s
  PROVE  s \in FineStates <=> Fine(s)
<1>1. Fine(s) => [out |-> s.out, current |-> s.current] \in [out : Seq(Seq(PieceSet)), current : Seq(PieceSet)]
  BY DEF Fine
<1> QED
  BY <1>1, Zenon DEF Fine, FineStates

\* The filled batch is put out after the others.
LEMMA FlushedIs ==
  ASSUME NEW s, Fine(s)
  PROVE  /\ Flushed(s) \in Seq(Seq(PieceSet)) /\ Joined(Flushed(s)) = Gone(s) /\ Gone(s) \in Seq(PieceSet)
         /\ \A i \in 1 .. Len(Flushed(s)) : Asked(Flushed(s)[i])
<1> DEFINE o == s.out
           c == s.current
           j == Joined(o)
<1>1. o \in Seq(Seq(PieceSet)) /\ c \in Seq(PieceSet) /\ \A i \in 1 .. Len(o) : Asked(o[i])
  BY DEF Fine
<1>2. j \in Seq(PieceSet)
  <2> HIDE DEF o
  <2>1. <<>> \in Seq(PieceSet)
    OBVIOUS
  <2> QED
    BY <1>1, <2>1, JoinedAppend
<1>3. Gone(s) = j \o c
  BY DEF Gone
<1>4. CASE c = <<>>
  <2>1. Flushed(s) = o
    BY <1>4 DEF Flushed
  <2>2. j \o <<>> = j
    <3> HIDE DEF j
    <3> QED
      BY <1>2
  <2> HIDE DEF c, o, j
  <2> QED
    BY <1>1, <1>2, <1>3, <1>4, <2>1, <2>2 DEF j
<1>5. CASE c # <<>>
  <2>1. Flushed(s) = Append(o, c) /\ Asked(c)
    BY <1>5 DEF Flushed, Fine
  <2> HIDE DEF o, c
  <2> DEFINE f == Append(o, c)
  <2>2. /\ f \in Seq(Seq(PieceSet)) /\ Len(f) = Len(o) + 1 /\ f[Len(o) + 1] = c
        /\ \A i \in 1 .. Len(o) : f[i] = o[i]
        /\ \A i \in 1 .. Len(o) + 1 : i \in 1 .. Len(o) \/ i = Len(o) + 1
    BY <1>1, AppendIs
  <2>3. Joined(f) = j \o c
    BY <1>1, JoinedAppend
  <2> HIDE DEF f
  <2>4. \A i \in 1 .. Len(f) : Asked(f[i])
    BY <1>1, <2>1, <2>2
  <2>5. j \o c \in Seq(PieceSet)
    <3> HIDE DEF j
    <3> QED
      BY <1>1, <1>2
  <2> HIDE DEF j
  <2> QED
    BY <1>3, <2>1, <2>2, <2>3, <2>4, <2>5 DEF f
<1> QED
  BY <1>4, <1>5

LEMMA WholeIs ==
  ASSUME NEW unit \in Unit
  PROVE  Whole(unit) \in PieceSet /\ Whole(unit).id = unit.id /\ Whole(unit).text = unit.text
  BY PieceIs DEF Whole, Unit

\* What a unit is asked as has its text.
LEMMA AsksAre ==
  ASSUME NEW unit \in Unit
  PROVE  /\ AskedAs(unit) \in Seq(PieceSet) /\ AskedAs(unit) # <<>>
         /\ \A i \in 1 .. Len(AskedAs(unit)) : AskedAs(unit)[i].id = unit.id
         /\ Joined(TextsOf(AskedAs(unit))) = unit.text
<1>1. CASE Length(unit.text) > MaxChars
  BY <1>1, PiecesAre DEF AskedAs
<1>2. CASE ~(Length(unit.text) > MaxChars)
  <2> DEFINE p == Whole(unit)
             q == <<p>>
  <2>1. p \in PieceSet /\ p.id = unit.id /\ p.text = unit.text
    BY WholeIs
  <2> HIDE DEF p
  <2>2. q \in Seq(PieceSet) /\ q # <<>> /\ Len(q) = 1 /\ q[1] = p /\ Joined(TextsOf(q)) = unit.text
    BY <2>1, PieceAlone
  <2>3. AskedAs(unit) = q
    BY <1>2 DEF AskedAs, p
  <2> HIDE DEF q
  <2>4. \A i \in 1 .. Len(q) : q[i].id = unit.id
    BY <2>1, <2>2
  <2> QED
    BY <2>2, <2>3, <2>4
<1> QED
  BY <1>1, <1>2

\* The batch that is filled when a unit comes: put out first, if the unit does not fit.
Ready(s, unit) == IF Full(s.current, unit) THEN [out |-> Flushed(s), current |-> <<>>] ELSE s

LEMMA ReadyIs ==
  ASSUME NEW s, Fine(s), NEW unit \in Unit
  PROVE  /\ Fine(Ready(s, unit)) /\ Gone(Ready(s, unit)) = Gone(s)
         /\ Length(unit.text) > MaxChars => Ready(s, unit).current = <<>>
         /\ Ready(s, unit).current # <<>> =>
              /\ Chars(Ready(s, unit).current) + Length(unit.text) <= MaxChars
              /\ Len(Ready(s, unit).current) < MaxSegments
<1> DEFINE c == s.current
           n == Length(unit.text)
<1>1. n \in Nat /\ MaxChars \in Nat /\ MaxSegments \in Nat
  BY WholeIs, PieceAlone, Bounds
<1>2. Chars(c) \in Nat /\ Len(c) \in Nat
  <2>1. c \in Seq(PieceSet) /\ Whole(unit) \in PieceSet
    BY WholeIs DEF Fine
  <2> HIDE DEF c
  <2> QED
    BY <2>1, CharsAppend
<1> HIDE DEF n
<1>3. CASE Full(c, unit)
  <2> DEFINE o == Flushed(s)
             t == [out |-> o, current |-> <<>>]
  <2>1. Ready(s, unit) = t
    BY <1>3 DEF Ready
  <2>2. /\ o \in Seq(Seq(PieceSet)) /\ Joined(o) = Gone(s) /\ Gone(s) \in Seq(PieceSet)
        /\ \A i \in 1 .. Len(o) : Asked(o[i])
    BY FlushedIs
  <2> HIDE DEF o
  <2>3. t.out = o /\ t.current = <<>> /\ t = [out |-> t.out, current |-> t.current]
    OBVIOUS
  <2> HIDE DEF t
  <2>4. <<>> \in Seq(PieceSet)
    OBVIOUS
  <2>5. Fine(t)
    BY <2>2, <2>3, <2>4 DEF Fine
  <2>6. Gone(t) = Gone(s)
    <3> DEFINE g == Gone(s)
    <3>1. g \o <<>> = g
      <4>1. g \in Seq(PieceSet)
        BY <2>2
      <4> HIDE DEF g
      <4> QED
        BY <4>1
    <3>2. Gone(t) = g \o <<>>
      BY <2>2, <2>3 DEF Gone
    <3> QED
      BY <3>1, <3>2
  <2> QED
    BY <2>1, <2>3, <2>5, <2>6
<1>4. CASE ~Full(c, unit)
  <2>1. Ready(s, unit) = s
    BY <1>4 DEF Ready
  <2>2. c # <<>> => ~(Chars(c) + n > MaxChars) /\ ~(Len(c) >= MaxSegments)
    BY <1>4 DEF Full, n
  <2>3. c # <<>> => Chars(c) + n <= MaxChars /\ Len(c) < MaxSegments /\ ~(n > MaxChars)
    BY <1>1, <1>2, <2>2
  <2> QED
    BY <2>1, <2>3 DEF n
<1> QED
  BY <1>3, <1>4

LEMMA BatchedCut ==
  ASSUME NEW s, Fine(s), NEW unit \in Unit, Length(unit.text) > MaxChars
  PROVE  Fine(Batched(s, unit)) /\ Gone(Batched(s, unit)) = Gone(s) \o AskedAs(unit)
<1> DEFINE t == Ready(s, unit)
           o == t.out
           p == Pieces(unit)
           both == o \o p
           r == [out |-> both, current |-> <<>>]
           jo == Joined(o)
           jp == Joined(p)
<1>1. Fine(t) /\ Gone(t) = Gone(s) /\ t.current = <<>>
  BY ReadyIs
<1>2. t = [out |-> o, current |-> <<>>] /\ o \in Seq(Seq(PieceSet)) /\ \A i \in 1 .. Len(o) : Asked(o[i])
  BY <1>1 DEF Fine
<1>3. p \in Seq(Seq(PieceSet)) /\ jp = AskedAs(unit) /\ jp \in Seq(PieceSet) /\ \A i \in 1 .. Len(p) : Asked(p[i])
  BY PiecesAre DEF AskedAs
<1>4. Batched(s, unit) = [t EXCEPT !.out = both]
  BY DEF Batched, Ready
<1> HIDE DEF t, o, p
<1>5. [t EXCEPT !.out = both] = r
  <2>1. [[out |-> o, current |-> <<>>] EXCEPT !.out = both] = r
    <3> HIDE DEF both
    <3> QED
      BY OutIs
  <2> HIDE DEF r, both
  <2> QED
    BY <1>2, <2>1, Zenon
<1>6. both \in Seq(Seq(PieceSet)) /\ jo \in Seq(PieceSet) /\ Joined(both) = jo \o jp
  BY <1>2, <1>3, JoinedConcat
<1>7. \A i \in 1 .. Len(both) : Asked(both[i])
  <2>1. \A i \in 1 .. Len(both) : \/ i \in 1 .. Len(o) /\ both[i] = o[i]
                                  \/ i - Len(o) \in 1 .. Len(p) /\ both[i] = p[i - Len(o)]
    BY <1>2, <1>3
  <2> HIDE DEF both
  <2> QED
    BY <1>2, <1>3, <2>1
<1>8. r.out = both /\ r.current = <<>> /\ r = [out |-> r.out, current |-> r.current] /\ <<>> \in Seq(PieceSet)
  BY OutIs
<1> HIDE DEF r, both
<1>9. Fine(r)
  BY <1>6, <1>7, <1>8 DEF Fine
<1>10. Gone(s) = jo \o <<>> /\ Gone(r) = (jo \o jp) \o <<>>
  BY <1>1, <1>6, <1>8 DEF Gone, o
<1> HIDE DEF jo, jp
<1>11. (jo \o jp) \o <<>> = (jo \o <<>>) \o jp
  <2>1. jo \o jp \in Seq(PieceSet)
    BY <1>3, <1>6
  <2>2. jo \o <<>> = jo
    BY <1>6
  <2> DEFINE k == jo \o jp
  <2>3. k \o <<>> = k
    <3> HIDE DEF k
    <3> QED
      BY <2>1 DEF k
  <2> QED
    BY <2>2, <2>3
<1> QED
  BY <1>3, <1>4, <1>5, <1>9, <1>10, <1>11

LEMMA BatchedWhole ==
  ASSUME NEW s, Fine(s), NEW unit \in Unit, ~(Length(unit.text) > MaxChars)
  PROVE  Fine(Batched(s, unit)) /\ Gone(Batched(s, unit)) = Gone(s) \o AskedAs(unit)
<1> DEFINE t == Ready(s, unit)
           o == t.out
           c == t.current
           p == Whole(unit)
           n == Length(unit.text)
           more == Append(c, p)
           r == [out |-> o, current |-> more]
           jo == Joined(o)
<1>1. Fine(t) /\ Gone(t) = Gone(s) /\ (c # <<>> => Chars(c) + n <= MaxChars /\ Len(c) < MaxSegments)
  BY ReadyIs
<1>2. /\ t = [out |-> o, current |-> c] /\ o \in Seq(Seq(PieceSet)) /\ c \in Seq(PieceSet)
      /\ \A i \in 1 .. Len(o) : Asked(o[i])
  BY <1>1 DEF Fine
<1>3. p \in PieceSet /\ AskedAs(unit) = <<p>> /\ p.text = unit.text /\ n \in Nat /\ ~(n > MaxChars)
  BY WholeIs, PieceAlone DEF AskedAs
<1>4. Batched(s, unit) = [t EXCEPT !.current = more]
  BY DEF Batched, Ready
<1>12. Gone(s) = jo \o c
  BY <1>1 DEF Gone
<1> HIDE DEF t, o, c, p
<1>5. [t EXCEPT !.current = more] = r
  <2>1. [[out |-> o, current |-> c] EXCEPT !.current = more] = r
    <3> HIDE DEF more
    <3> QED
      BY OutIs
  <2> HIDE DEF r, more
  <2> QED
    BY <1>2, <2>1, Zenon
<1>6. /\ more \in Seq(PieceSet) /\ more # <<>> /\ Len(more) = Len(c) + 1 /\ Len(c) \in Nat
      /\ c = <<>> <=> Len(c) = 0
  BY <1>2, <1>3
<1>7. Chars(more) = Chars(c) + n /\ Chars(c) \in Nat
  BY <1>2, <1>3, CharsAppend
<1> HIDE DEF more, n
<1>8. Asked(more) /\ Chars(more) <= MaxChars
  <2>1. MaxChars \in Nat /\ MaxSegments \in Nat /\ MaxSegments >= 1
    BY Bounds
  <2>2. CASE c = <<>>
    <3>1. Chars(more) = 0 + n /\ Len(more) = 1
      BY <1>6, <1>7, <2>2, CharsNone
    <3>2. Chars(more) <= MaxChars /\ Len(more) <= MaxSegments
      BY <1>3, <2>1, <3>1
    <3> QED
      BY <1>6, <3>2 DEF Asked
  <2>3. CASE c # <<>>
    BY <1>1, <1>6, <1>7, <2>1, <2>3 DEF Asked
  <2> QED
    BY <2>2, <2>3
<1>9. r.out = o /\ r.current = more /\ r = [out |-> r.out, current |-> r.current]
  BY OutIs
<1> HIDE DEF r
<1>10. Fine(r)
  BY <1>2, <1>6, <1>8, <1>9 DEF Fine
<1>11. Gone(r) = jo \o more
  BY <1>9 DEF Gone
<1>13. jo \o Append(c, p) = (jo \o c) \o <<p>>
  <2>1. jo \in Seq(PieceSet)
    BY <1>2, JoinedConcat
  <2>2. <<p>> \in Seq(PieceSet) /\ Append(c, p) = c \o <<p>>
    BY <1>2, <1>3
  <2> HIDE DEF jo
  <2> QED
    BY <1>2, <2>1, <2>2, ConcatAgain
<1> QED
  BY <1>3, <1>4, <1>5, <1>10, <1>11, <1>12, <1>13 DEF more

LEMMA BatchedFine ==
  ASSUME NEW s, Fine(s), NEW unit \in Unit
  PROVE  Fine(Batched(s, unit)) /\ Gone(Batched(s, unit)) = Gone(s) \o AskedAs(unit)
  BY BatchedCut, BatchedWhole

LEMMA NoneFine == [out |-> <<>>, current |-> <<>>] \in FineStates /\ Gone([out |-> <<>>, current |-> <<>>]) = <<>>
<1> DEFINE s == [out |-> <<>>, current |-> <<>>]
<1>1. s.out = <<>> /\ s.current = <<>> /\ s = [out |-> s.out, current |-> s.current]
  OBVIOUS
<1> HIDE DEF s
<1>2. <<>> \in Seq(Seq(PieceSet)) /\ <<>> \in Seq(PieceSet) /\ Len(<<>>) = 0
  OBVIOUS
<1>3. Fine(s)
  BY <1>1, <1>2 DEF Fine
<1>4. Gone(s) = <<>> \o <<>>
  BY <1>1, JoinedNone DEF Gone
<1> QED
  BY <1>3, <1>4, FineIs DEF s

\* The function that MakeBatches is defined by: f[n] is the state after n units.
Fills(f, found, m) == f = [n \in 0 .. m |-> IF n = 0 THEN [out |-> <<>>, current |-> <<>>] ELSE Batched(f[n - 1], found[n])]

LEMMA FillsIs ==
  ASSUME NEW m \in Nat, NEW f, NEW found, Fills(f, found, m)
  PROVE  f[0] = [out |-> <<>>, current |-> <<>>] /\ \A n \in 1 .. m : f[n] = Batched(f[n - 1], found[n])
<1>1. 0 \in 0 .. m /\ \A n \in 1 .. m : n \in 0 .. m /\ n # 0
  OBVIOUS
<1> QED
  BY <1>1 DEF Fills

LEMMA MakeBatchesIs ==
  ASSUME NEW found \in Seq(Unit)
  PROVE  \E f \in [0 .. Len(found) -> FineStates] :
           /\ f[0] = [out |-> <<>>, current |-> <<>>] /\ MakeBatches(found) = Flushed(f[Len(found)])
           /\ \A n \in 1 .. Len(found) : f[n] = Batched(f[n - 1], found[n])
<1> DEFINE m == Len(found)
           A == FineStates
           G == [x \in (1 .. m) \X A |-> Batched(x[2], found[x[1]])]
           all == CHOOSE f : Fills(f, found, m)
<1>1. m \in Nat /\ [out |-> <<>>, current |-> <<>>] \in A
  BY NoneFine
<1>2. \A n \in 1 .. m, a \in A : Batched(a, found[n]) \in A
  BY BatchedFine, FineIs
<1>3. /\ G \in [(1 .. m) \X A -> A]
      /\ \A n \in 1 .. m, a \in A : G[<<n, a>>] = Batched(a, found[n])
  BY <1>2
<1>4. MakeBatches(found) = Flushed(all[m])
  BY DEF MakeBatches, Fills
<1> HIDE DEF m, A, G, all
<1>5. PICK f \in [0 .. m -> A] : Recurs(f, [out |-> <<>>, current |-> <<>>], G, m)
  BY <1>1, <1>3, RecursionIs
<1>6. f[0] = [out |-> <<>>, current |-> <<>>] /\ \A n \in 1 .. m : f[n] = Batched(f[n - 1], found[n])
  <2>1. \A n \in 1 .. m : f[n - 1] \in A
    BY <1>1
  <2> QED
    BY <1>3, <1>5, <2>1 DEF Recurs
<1>7. Fills(f, found, m)
  <2> DEFINE g == [n \in 0 .. m |-> IF n = 0 THEN [out |-> <<>>, current |-> <<>>] ELSE Batched(f[n - 1], found[n])]
  <2>1. \A n \in 0 .. m : f[n] = g[n]
    <3>1. \A n \in 0 .. m : n = 0 \/ n \in 1 .. m
      BY <1>1
    <3>2. \A n \in 0 .. m : g[n] = IF n = 0 THEN [out |-> <<>>, current |-> <<>>] ELSE Batched(f[n - 1], found[n])
      OBVIOUS
    <3> HIDE DEF g
    <3> QED
      BY <3>1, <3>2, <1>6
  <2>2. f = [n \in 0 .. m |-> f[n]] /\ g = [n \in 0 .. m |-> g[n]]
    OBVIOUS
  <2>3. f = g
    <3> HIDE DEF g
    <3> QED
      BY <2>1, <2>2
  <2> QED
    BY <2>3 DEF Fills
<1>8. PICK g : Fills(g, found, m) /\ MakeBatches(found) = Flushed(g[m])
  BY <1>4, <1>7 DEF all
<1>9. m \in Nat
  BY <1>1
<1>10. g[0] = [out |-> <<>>, current |-> <<>>] /\ \A n \in 1 .. m : g[n] = Batched(g[n - 1], found[n])
  BY <1>8, <1>9, FillsIs
<1>11. g[m] = f[m]
  <2>1. g[0] = f[0] /\ \A n \in 1 .. m : g[n - 1] = f[n - 1] => g[n] = f[n]
    BY <1>6, <1>10
  <2> QED
    BY <1>9, <2>1, SameSteps
<1> QED
  BY <1>6, <1>8, <1>11 DEF m, A


\* What is asked of the first n units.
AsksOf(us, n) == [i \in 1 .. n |-> AskedAs(us[i])]

LEMMA AsksOfIs ==
  ASSUME NEW us \in Seq(Unit), NEW n \in 1 .. Len(us)
  PROVE  /\ AsksOf(us, n - 1) \in Seq(Seq(PieceSet)) /\ AsksOf(us, n) = Append(AsksOf(us, n - 1), AskedAs(us[n]))
         /\ Joined(AsksOf(us, n - 1)) \in Seq(PieceSet)
         /\ Joined(AsksOf(us, n)) = Joined(AsksOf(us, n - 1)) \o AskedAs(us[n])
<1> DEFINE a == AsksOf(us, n - 1)
           b == AsksOf(us, n)
           x == AskedAs(us[n])
           c == Append(a, x)
<1>1. Len(us) \in Nat /\ n \in Nat /\ n - 1 \in Nat /\ n \in 1 .. n /\ \A i \in 1 .. n : i \in 1 .. n - 1 \/ i = n
  OBVIOUS
<1>2. \A i \in 1 .. n : us[i] \in Unit /\ AskedAs(us[i]) \in Seq(PieceSet)
  <2>1. \A i \in 1 .. n : us[i] \in Unit
    OBVIOUS
  <2> QED
    BY <2>1, AsksAre
<1>3. a \in Seq(Seq(PieceSet)) /\ Len(a) = n - 1 /\ \A i \in 1 .. n - 1 : a[i] = AskedAs(us[i])
  <2>1. a = [i \in 1 .. n - 1 |-> AskedAs(us[i])]
    BY DEF AsksOf
  <2>2. \A i \in 1 .. n - 1 : AskedAs(us[i]) \in Seq(PieceSet)
    BY <1>1, <1>2
  <2> HIDE DEF a
  <2> QED
    BY <1>1, <2>1, <2>2
<1>4. b = [i \in 1 .. n |-> AskedAs(us[i])]
  BY DEF AsksOf
<1>5. x \in Seq(PieceSet)
  BY <1>1, <1>2
<1>6. b \in Seq(Seq(PieceSet)) /\ Len(b) = n /\ \A i \in 1 .. n : b[i] = AskedAs(us[i])
  <2> HIDE DEF b
  <2> QED
    BY <1>1, <1>2, <1>4
<1> HIDE DEF a, b
<1>7. c \in Seq(Seq(PieceSet)) /\ Len(c) = n /\ c[n] = x /\ \A i \in 1 .. n - 1 : c[i] = a[i]
  <2> HIDE DEF x
  <2>1. Len(a) + 1 = n
    BY <1>1, <1>3
  <2> QED
    BY <1>3, <1>5, <2>1, AppendIs
<1>8. b = c
  <2> HIDE DEF c
  <2>1. ASSUME NEW i \in 1 .. n PROVE b[i] = c[i]
    <3>1. b[i] = AskedAs(us[i])
      BY <1>6
    <3>2. CASE i = n
      BY <1>7, <3>1, <3>2
    <3>3. CASE i # n
      <4>1. i \in 1 .. n - 1
        BY <1>1, <3>3
      <4>2. c[i] = a[i] /\ a[i] = AskedAs(us[i])
        BY <1>3, <1>7, <4>1
      <4> QED
        BY <3>1, <4>2
    <3> QED
      BY <3>2, <3>3
  <2>2. \A i \in 1 .. Len(b) : b[i] = c[i]
    BY <1>6, <2>1
  <2> QED
    BY <1>6, <1>7, <2>2, SeqEqual
<1>9. Joined(a) \in Seq(PieceSet) /\ Joined(c) = Joined(a) \o x
  <2> HIDE DEF x
  <2> QED
    BY <1>3, <1>5, JoinedAppend
<1> QED
  BY <1>3, <1>8, <1>9 DEF a, b

\* The batches are fit to be sent, and ask for every unit in its order.
LEMMA BatchesAre ==
  ASSUME NEW us \in Seq(Unit)
  PROVE  /\ MakeBatches(us) \in Seq(Seq(PieceSet))
         /\ \A i \in 1 .. Len(MakeBatches(us)) : Asked(MakeBatches(us)[i])
         /\ Joined(MakeBatches(us)) = Joined(AsksOf(us, Len(us)))
<1>1. PICK f \in [0 .. Len(us) -> FineStates] :
        /\ f[0] = [out |-> <<>>, current |-> <<>>] /\ MakeBatches(us) = Flushed(f[Len(us)])
        /\ \A n \in 1 .. Len(us) : f[n] = Batched(f[n - 1], us[n])
  BY MakeBatchesIs
<1> DEFINE P == {n \in 0 .. Len(us) : Gone(f[n]) = Joined(AsksOf(us, n))}
<1>2. Len(us) \in Nat /\ \A n \in 0 .. Len(us) : Fine(f[n])
  <2>1. Len(us) \in Nat /\ \A n \in 0 .. Len(us) : f[n] \in FineStates
    BY <1>1
  <2> QED
    BY <2>1, FineIs
<1>3. 0 \in P
  <2>1. AsksOf(us, 0) = <<>>
    BY DEF AsksOf
  <2> QED
    BY <1>1, <1>2, <2>1, NoneFine, JoinedNone
<1>4. ASSUME NEW n \in 1 .. Len(us), n - 1 \in P PROVE n \in P
  <2>1. n - 1 \in 0 .. Len(us) /\ n \in 0 .. Len(us) /\ us[n] \in Unit
    OBVIOUS
  <2>2. Gone(f[n]) = Gone(f[n - 1]) \o AskedAs(us[n])
    BY <1>1, <1>2, <2>1, BatchedFine
  <2>3. Gone(f[n - 1]) = Joined(AsksOf(us, n - 1))
    BY <1>4
  <2>4. Joined(AsksOf(us, n)) = Joined(AsksOf(us, n - 1)) \o AskedAs(us[n])
    BY AsksOfIs
  <2> QED
    BY <2>1, <2>2, <2>3, <2>4
<1>5. \A n \in 0 .. Len(us) : n \in P
  <2> HIDE DEF P
  <2> QED
    BY <1>2, <1>3, <1>4, UpTo
<1>6. Len(us) \in 0 .. Len(us)
  BY <1>2
<1> QED
  BY <1>1, <1>2, <1>5, <1>6, FlushedIs
-----------------------------------------------------------------------------
(* The answers put together again.                                            *)

\* TextMaps by the number of their unit.
TextMaps == UNION {[D -> Seq(Sentence)] : D \in SUBSET Nat}

LEMMA TextsAre ==
  ASSUME NEW f \in TextMaps
  PROVE  /\ DOMAIN f \subseteq Nat /\ f = [x \in DOMAIN f |-> f[x]]
         /\ \A x \in DOMAIN f : f[x] \in Seq(Sentence)
<1>1. PICK D \in SUBSET Nat : f \in [D -> Seq(Sentence)]
  BY DEF TextMaps
<1> QED
  BY <1>1

LEMMA PutIs ==
  ASSUME NEW f \in TextMaps, NEW x \in Nat, NEW prose \in Seq(Sentence)
  PROVE  /\ Put(f, x, prose) \in TextMaps /\ DOMAIN Put(f, x, prose) = DOMAIN f \cup {x}
         /\ Put(f, x, prose)[x] = prose /\ \A y \in DOMAIN f : y # x => Put(f, x, prose)[y] = f[y]
<1> DEFINE D == DOMAIN f \cup {x}
           g == Put(f, x, prose)
<1>1. D \in SUBSET Nat /\ \A y \in DOMAIN f : f[y] \in Seq(Sentence)
  BY TextsAre
<1>2. g = [y \in D |-> IF y = x THEN prose ELSE f[y]]
  BY DEF Put
<1>3. \A y \in D : (IF y = x THEN prose ELSE f[y]) \in Seq(Sentence)
  BY <1>1
<1>4. g \in [D -> Seq(Sentence)]
  <2> HIDE DEF D, g
  <2> QED
    BY <1>2, <1>3
<1>5. g \in TextMaps
  <2> HIDE DEF D, g
  <2> QED
    BY <1>1, <1>4 DEF TextMaps
<1> QED
  BY <1>2, <1>5

\* What is put twice is put once.
LEMMA PutAgain ==
  ASSUME NEW f \in TextMaps, NEW x \in Nat, NEW s \in Seq(Sentence), NEW t \in Seq(Sentence)
  PROVE  Put(Put(f, x, s), x, t) = Put(f, x, t)
<1> DEFINE g == Put(f, x, s)
           h == Put(g, x, t)
           r == Put(f, x, t)
<1>1. g \in TextMaps /\ DOMAIN g = DOMAIN f \cup {x} /\ \A y \in DOMAIN f : y # x => g[y] = f[y]
  BY PutIs
<1> HIDE DEF g
<1>2. h \in TextMaps /\ DOMAIN h = DOMAIN g \cup {x} /\ h[x] = t /\ \A y \in DOMAIN g : y # x => h[y] = g[y]
  BY <1>1, PutIs
<1>3. r \in TextMaps /\ DOMAIN r = DOMAIN f \cup {x} /\ r[x] = t /\ \A y \in DOMAIN f : y # x => r[y] = f[y]
  BY PutIs
<1> HIDE DEF h, r
<1>4. DOMAIN h = DOMAIN r /\ \A y \in DOMAIN r : h[y] = r[y]
  BY <1>1, <1>2, <1>3
<1>5. h = [y \in DOMAIN h |-> h[y]] /\ r = [y \in DOMAIN r |-> r[y]]
  BY <1>2, <1>3, TextsAre
<1>6. h = r
  BY <1>4, <1>5
<1> QED
  BY <1>6 DEF h, r, g

LEMMA RejoinTyped ==
  ASSUME NEW f \in TextMaps, NEW p \in PieceSet
  PROVE  Rejoin(f, p) \in TextMaps
<1>1. p.id \in Nat /\ p.text \in Seq(Sentence)
  BY DEF PieceSet
<1> DEFINE prose == p.text
           old == f[p.id]
<1>2. CASE p.id \in DOMAIN f
  <2>1. Rejoin(f, p) = Put(f, p.id, old \o prose)
    BY <1>2 DEF Rejoin
  <2>2. old \in Seq(Sentence)
    BY <1>2, TextsAre
  <2>3. prose \in Seq(Sentence)
    BY <1>1
  <2> HIDE DEF old, prose
  <2>4. old \o prose \in Seq(Sentence)
    BY <2>2, <2>3
  <2> DEFINE new == old \o prose
             x == p.id
  <2>5. new \in Seq(Sentence) /\ x \in Nat /\ Rejoin(f, p) = Put(f, x, new)
    BY <1>1, <2>1, <2>4
  <2> HIDE DEF new, x
  <2> QED
    BY <2>5, PutIs
<1>3. CASE p.id \notin DOMAIN f
  BY <1>1, <1>3, PutIs DEF Rejoin
<1> QED
  BY <1>2, <1>3

LEMMA NoneIn == <<>> \in TextMaps /\ DOMAIN <<>> = {}
<1>1. <<>> \in [{} -> Seq(Sentence)] /\ {} \in SUBSET Nat
  OBVIOUS
<1> QED
  BY <1>1 DEF TextMaps

\* The function that MergeChunked is defined by: f[n] are the texts of the first n pieces.
Rejoins(f, pieces, m) == f = [n \in 0 .. m |-> IF n = 0 THEN <<>> ELSE Rejoin(f[n - 1], pieces[n])]

LEMMA RejoinsIs ==
  ASSUME NEW m \in Nat, NEW f, NEW pieces, Rejoins(f, pieces, m)
  PROVE  f[0] = <<>> /\ \A n \in 1 .. m : f[n] = Rejoin(f[n - 1], pieces[n])
<1>1. 0 \in 0 .. m /\ \A n \in 1 .. m : n \in 0 .. m /\ n # 0
  OBVIOUS
<1> QED
  BY <1>1 DEF Rejoins

LEMMA MergeChunkedIs ==
  ASSUME NEW pieces \in Seq(PieceSet)
  PROVE  \E f \in [0 .. Len(pieces) -> TextMaps] :
           /\ f[0] = <<>> /\ MergeChunked(pieces) = f[Len(pieces)]
           /\ \A n \in 1 .. Len(pieces) : f[n] = Rejoin(f[n - 1], pieces[n])
<1> DEFINE m == Len(pieces)
           A == TextMaps
           G == [x \in (1 .. m) \X A |-> Rejoin(x[2], pieces[x[1]])]
           all == CHOOSE f : Rejoins(f, pieces, m)
<1>1. m \in Nat /\ <<>> \in A
  BY NoneIn
<1>2. \A n \in 1 .. m, a \in A : Rejoin(a, pieces[n]) \in A
  BY RejoinTyped
<1>3. /\ G \in [(1 .. m) \X A -> A]
      /\ \A n \in 1 .. m, a \in A : G[<<n, a>>] = Rejoin(a, pieces[n])
  BY <1>2
<1>4. MergeChunked(pieces) = all[m]
  BY DEF MergeChunked, Rejoins
<1> HIDE DEF m, A, G, all
<1>5. PICK f \in [0 .. m -> A] : Recurs(f, <<>>, G, m)
  BY <1>1, <1>3, RecursionIs
<1>6. f[0] = <<>> /\ \A n \in 1 .. m : f[n] = Rejoin(f[n - 1], pieces[n])
  <2>1. \A n \in 1 .. m : f[n - 1] \in A
    BY <1>1
  <2> QED
    BY <1>3, <1>5, <2>1 DEF Recurs
<1>7. Rejoins(f, pieces, m)
  <2> DEFINE g == [n \in 0 .. m |-> IF n = 0 THEN <<>> ELSE Rejoin(f[n - 1], pieces[n])]
  <2>1. \A n \in 0 .. m : f[n] = g[n]
    <3>1. \A n \in 0 .. m : n = 0 \/ n \in 1 .. m
      BY <1>1
    <3>2. \A n \in 0 .. m : g[n] = IF n = 0 THEN <<>> ELSE Rejoin(f[n - 1], pieces[n])
      OBVIOUS
    <3> HIDE DEF g
    <3> QED
      BY <3>1, <3>2, <1>6
  <2>2. f = [n \in 0 .. m |-> f[n]] /\ g = [n \in 0 .. m |-> g[n]]
    OBVIOUS
  <2>3. f = g
    <3> HIDE DEF g
    <3> QED
      BY <2>1, <2>2
  <2> QED
    BY <2>3 DEF Rejoins
<1>8. PICK g : Rejoins(g, pieces, m) /\ MergeChunked(pieces) = g[m]
  BY <1>4, <1>7 DEF all
<1>9. m \in Nat
  BY <1>1
<1>10. g[0] = <<>> /\ \A n \in 1 .. m : g[n] = Rejoin(g[n - 1], pieces[n])
  BY <1>8, <1>9, RejoinsIs
<1>11. g[m] = f[m]
  <2>1. g[0] = f[0] /\ \A n \in 1 .. m : g[n - 1] = f[n - 1] => g[n] = f[n]
    BY <1>6, <1>10
  <2> QED
    BY <1>9, <2>1, SameSteps
<1> QED
  BY <1>6, <1>8, <1>11 DEF m, A

LEMMA MergeChunkedNone == MergeChunked(<<>>) = <<>>
<1>1. <<>> \in Seq(PieceSet) /\ Len(<<>>) = 0
  OBVIOUS
<1>2. PICK f : f[0] = <<>> /\ MergeChunked(<<>>) = f[Len(<<>>)]
  BY <1>1, MergeChunkedIs
<1> QED
  BY <1>1, <1>2

LEMMA MergeChunkedAppend ==
  ASSUME NEW pieces \in Seq(PieceSet), NEW last \in PieceSet
  PROVE  /\ MergeChunked(pieces) \in TextMaps
         /\ MergeChunked(Append(pieces, last)) = Rejoin(MergeChunked(pieces), last)
<1> DEFINE t == Append(pieces, last)
           k == Len(pieces)
<1>1. /\ t \in Seq(PieceSet) /\ Len(t) = k + 1 /\ k \in Nat /\ t[k + 1] = last
      /\ \A i \in 1 .. k : t[i] = pieces[i]
  BY AppendIs
<1> HIDE DEF t
<1>2. PICK f \in [0 .. k -> TextMaps] :
        /\ f[0] = <<>> /\ MergeChunked(pieces) = f[k]
        /\ \A n \in 1 .. k : f[n] = Rejoin(f[n - 1], pieces[n])
  BY MergeChunkedIs
<1>3. PICK g \in [0 .. Len(t) -> TextMaps] :
        /\ g[0] = <<>> /\ MergeChunked(t) = g[Len(t)]
        /\ \A n \in 1 .. Len(t) : g[n] = Rejoin(g[n - 1], t[n])
  BY <1>1, MergeChunkedIs
<1> HIDE DEF k
<1>4. f[k] = g[k]
  <2>1. \A n \in 1 .. k : n \in 1 .. Len(t)
    BY <1>1
  <2>2. \A n \in 1 .. k : g[n] = Rejoin(g[n - 1], pieces[n])
    BY <1>1, <1>3, <2>1
  <2>3. f[0] = g[0] /\ \A n \in 1 .. k : f[n - 1] = g[n - 1] => f[n] = g[n]
    BY <1>2, <1>3, <2>2
  <2> QED
    BY <1>1, <2>3, SameSteps
<1>5. g[k + 1] = Rejoin(g[k], last)
  <2>1. k + 1 \in 1 .. Len(t) /\ (k + 1) - 1 = k
    BY <1>1
  <2> QED
    BY <1>1, <1>3, <2>1
<1>6. f[k] \in TextMaps
  BY <1>1, <1>2
<1> QED
  BY <1>1, <1>2, <1>3, <1>4, <1>5, <1>6 DEF t

\* The pieces of one unit, one after the other, become its text.
LEMMA MergeOne ==
  ASSUME NEW ps \in Seq(PieceSet), NEW q \in Seq(PieceSet), NEW x \in Nat, q # <<>>,
         \A i \in 1 .. Len(q) : q[i].id = x, x \notin DOMAIN MergeChunked(ps)
  PROVE  MergeChunked(ps \o q) = Put(MergeChunked(ps), x, Joined(TextsOf(q)))
<1> DEFINE f == MergeChunked(ps)
           P == {n \in 0 .. Len(q) : n # 0 =>
                   MergeChunked(ps \o SubSeq(q, 1, n)) = Put(f, x, Joined(TextsOf(SubSeq(q, 1, n))))}
<1>1. f \in TextMaps
  <2>1. [id |-> 0, part |-> 0, text |-> <<>>] \in PieceSet
    BY DEF PieceSet
  <2> QED
    BY <2>1, MergeChunkedAppend
<1>2. Len(q) \in Nat /\ 0 \in P
  OBVIOUS
<1>3. ASSUME NEW n \in 1 .. Len(q), n - 1 \in P PROVE n \in P
  <2> DEFINE c == SubSeq(q, 1, n - 1)
             p == q[n]
             t == Joined(TextsOf(c))
             g == MergeChunked(ps \o c)
  <2>1. n - 1 \in 0 .. Len(q) /\ n \in 0 .. Len(q) /\ p \in PieceSet /\ p.id = x
    OBVIOUS
  <2>2. c \in Seq(PieceSet) /\ Len(c) = n - 1
    BY <2>1, FirstAre
  <2>3. SubSeq(q, 1, n) = Append(c, p)
    BY FirstOnes
  <2>4. p.text \in Seq(Sentence)
    BY <2>1 DEF PieceSet
  <2>5. n - 1 # 0 => g = Put(f, x, t)
    BY <1>3
  <2>6. x \notin DOMAIN f
    OBVIOUS
  <2> HIDE DEF c, p, f
  <2>7. ps \o c \in Seq(PieceSet) /\ ps \o Append(c, p) = Append(ps \o c, p)
    BY <2>1, <2>2, ConcatOneMore
  <2>8. MergeChunked(ps \o Append(c, p)) = Rejoin(g, p)
    BY <2>1, <2>7, MergeChunkedAppend
  <2>9. t \in Seq(Sentence) /\ Joined(TextsOf(Append(c, p))) = t \o p.text
    BY <2>1, <2>2, PiecesHaveText, OneMoreText
  <2>10. Rejoin(g, p) = Put(f, x, t \o p.text)
    <3>1. CASE n = 1
      <4>1. c = <<>>
        BY <2>2, <3>1
      <4>2. ps \o <<>> = ps
        OBVIOUS
      <4>3. g = f
        BY <4>1, <4>2 DEF f
      <4>4. t = <<>>
        BY <4>1, NoneText
      <4> DEFINE u == p.text
      <4>5. <<>> \o u = u
        <5> HIDE DEF u
        <5> QED
          BY <2>4 DEF u
      <4>6. Rejoin(f, p) = Put(f, x, u)
        BY <2>1, <2>6 DEF Rejoin
      <4> QED
        BY <4>3, <4>4, <4>5, <4>6
    <3>2. CASE n # 1
      <4>1. g = Put(f, x, t)
        BY <2>5, <3>2
      <4> DEFINE u == p.text
      <4> HIDE DEF t, g, u
      <4>2. x \in DOMAIN g /\ g[x] = t
        <5>1. x \in DOMAIN Put(f, x, t) /\ Put(f, x, t)[x] = t
          <6>1. f \in TextMaps /\ t \in Seq(Sentence)
            BY <1>1, <2>9 DEF f
          <6>2. DOMAIN Put(f, x, t) = DOMAIN f \cup {x} /\ Put(f, x, t)[x] = t
            BY <6>1, PutIs
          <6> QED
            BY <6>2
        <5> QED
          BY <4>1, <5>1
      <4>3. Rejoin(g, p) = Put(g, x, t \o u)
        BY <2>1, <4>2 DEF Rejoin, u
      <4>4. t \o u \in Seq(Sentence)
        BY <2>4, <2>9 DEF u
      <4>5. Put(Put(f, x, t), x, t \o u) = Put(f, x, t \o u)
        BY <1>1, <2>9, <4>4, PutAgain
      <4> QED
        BY <4>1, <4>3, <4>5 DEF u
    <3> QED
      BY <3>1, <3>2
  <2>11. MergeChunked(ps \o SubSeq(q, 1, n)) = Put(f, x, Joined(TextsOf(SubSeq(q, 1, n))))
    BY <2>3, <2>8, <2>9, <2>10
  <2> QED
    BY <2>1, <2>11
<1>4. \A n \in 0 .. Len(q) : n \in P
  <2> HIDE DEF P
  <2> QED
    BY <1>2, <1>3, UpTo
<1>5. Len(q) \in 0 .. Len(q) /\ Len(q) # 0 /\ SubSeq(q, 1, Len(q)) = q
  BY <1>2, FirstOnes
<1> QED
  BY <1>4, <1>5

\* The texts that come back are those of the units.
Back(us, f, n) ==
  /\ f \in TextMaps /\ \A x \in DOMAIN f : \E i \in 1 .. n : us[i].id = x
  /\ \A i \in 1 .. n : us[i].id \in DOMAIN f /\ f[us[i].id] = us[i].text

LEMMA AllComeBack ==
  ASSUME NEW us \in Seq(Unit), \A i, j \in 1 .. Len(us) : i < j => us[i].id < us[j].id
  PROVE  Back(us, MergeChunked(Joined(MakeBatches(us))), Len(us))
<1> DEFINE f(n) == MergeChunked(Joined(AsksOf(us, n)))
           P == {n \in 0 .. Len(us) : Back(us, f(n), n)}
<1>1. Len(us) \in Nat
  OBVIOUS
<1>2. 0 \in P
  <2>1. AsksOf(us, 0) = <<>>
    BY DEF AsksOf
  <2>2. f(0) = <<>>
    BY <2>1, JoinedNone, MergeChunkedNone
  <2>3. Back(us, <<>>, 0)
    BY NoneIn DEF Back
  <2> QED
    BY <1>1, <2>2, <2>3
<1>3. ASSUME NEW n \in 1 .. Len(us), n - 1 \in P PROVE n \in P
  <2> DEFINE ps == Joined(AsksOf(us, n - 1))
             q == AskedAs(us[n])
             x == us[n].id
             prose == us[n].text
             g == f(n - 1)
             h == f(n)
  <2>1. n \in 0 .. Len(us) /\ us[n] \in Unit /\ x \in Nat /\ prose \in Seq(Sentence)
    <3>1. n \in 0 .. Len(us) /\ us[n] \in Unit
      OBVIOUS
    <3> QED
      BY <3>1 DEF Unit
  <2>2. ps \in Seq(PieceSet) /\ Joined(AsksOf(us, n)) = ps \o q
    BY AsksOfIs
  <2>3. /\ q \in Seq(PieceSet) /\ q # <<>> /\ Joined(TextsOf(q)) = prose
        /\ \A i \in 1 .. Len(q) : q[i].id = x
    BY <2>1, AsksAre
  <2>4. Back(us, g, n - 1)
    BY <1>3
  <2>5. \A i \in 1 .. n - 1 : us[i].id < x /\ us[i].id \in Nat
    <3>1. \A i \in 1 .. n - 1 : i \in 1 .. Len(us) /\ i < n
      BY <1>1
    <3>2. \A i \in 1 .. Len(us) : us[i].id \in Nat
      <4>1. \A i \in 1 .. Len(us) : us[i] \in Unit
        OBVIOUS
      <4>2. \A u \in Unit : u.id \in Nat
        BY DEF Unit
      <4> QED
        BY <4>1, <4>2
    <3> QED
      BY <3>1, <3>2
  <2> HIDE DEF x, prose
  <2>6. x \notin DOMAIN g
    <3>1. \A y \in DOMAIN g : \E i \in 1 .. n - 1 : us[i].id = y
      BY <2>4 DEF Back
    <3>2. \A i \in 1 .. n - 1 : us[i].id # x
      BY <2>1, <2>5
    <3> QED
      BY <3>1, <3>2
  <2>7. h = Put(g, x, prose)
    <3> HIDE DEF ps, q
    <3>1. g = MergeChunked(ps) /\ h = MergeChunked(ps \o q)
      BY <2>2 DEF ps
    <3> QED
      BY <2>1, <2>2, <2>3, <2>6, <3>1, MergeOne
  <2> HIDE DEF g, h
  <2>8. /\ h \in TextMaps /\ DOMAIN h = DOMAIN g \cup {x} /\ h[x] = prose
        /\ \A y \in DOMAIN g : y # x => h[y] = g[y]
    BY <2>1, <2>4, <2>7, PutIs DEF Back
  <2>9. \A y \in DOMAIN h : \E i \in 1 .. n : us[i].id = y
    <3>1. \A y \in DOMAIN g : \E i \in 1 .. n : us[i].id = y
      <4>1. \A i \in 1 .. n - 1 : i \in 1 .. n
        OBVIOUS
      <4> QED
        BY <2>4, <4>1 DEF Back
    <3>2. n \in 1 .. n /\ us[n].id = x
      BY DEF x
    <3> QED
      BY <2>8, <3>1, <3>2
  <2>10. \A i \in 1 .. n : us[i].id \in DOMAIN h /\ h[us[i].id] = us[i].text
    <3>1. \A i \in 1 .. n : i \in 1 .. n - 1 \/ i = n
      OBVIOUS
    <3>2. \A i \in 1 .. n - 1 : us[i].id \in DOMAIN g /\ us[i].id # x /\ g[us[i].id] = us[i].text
      BY <2>4, <2>6 DEF Back
    <3>3. us[n].id = x /\ us[n].text = prose
      BY DEF x, prose
    <3> QED
      BY <2>8, <3>1, <3>2, <3>3
  <2>11. Back(us, h, n)
    BY <2>8, <2>9, <2>10 DEF Back
  <2> QED
    BY <2>1, <2>11 DEF h
<1>4. \A n \in 0 .. Len(us) : n \in P
  <2> HIDE DEF P
  <2> QED
    BY <1>1, <1>2, <1>3, UpTo
<1>5. Back(us, f(Len(us)), Len(us))
  BY <1>1, <1>4
<1> QED
  BY <1>5, BatchesAre
-----------------------------------------------------------------------------
(* The invariant.                                                             *)

\* What the document was read as, and what is asked.
Prepared ==
  /\ Gathered(units, Len(doc)) /\ batches = MakeBatches(units)
  /\ edits = [b \in DOMAIN batches |-> edits[b]]
  /\ \A b \in DOMAIN batches : edits[b] \in {<<>>, batches[b]}

\* What is built, of what came back.
Rebuilt == out = [n \in DOMAIN doc |-> IF IsText(n) /\ n \in DOMAIN values THEN values[n] ELSE <<>>]

TextInv ==
  /\ DocTyped
  /\ reached \in {"source", "asking", "merged", "built"}
  /\ reached = "source" => units = <<>> /\ batches = <<>> /\ edits = <<>>
  /\ reached # "source" => Prepared
  /\ reached \in {"merged", "built"} => values = MergeChunked(Joined(batches))
  /\ reached = "built" => Rebuilt

LEMMA PreparedIs ==
  ASSUME DocTyped, Prepared
  PROVE  /\ units \in Seq(Unit) /\ batches \in Seq(Seq(PieceSet))
         /\ \A b \in 1 .. Len(batches) : Asked(batches[b])
         /\ Back(units, MergeChunked(Joined(batches)), Len(units))
<1>1. units \in Seq(Unit) /\ \A i, j \in 1 .. Len(units) : i < j => units[i].id < units[j].id
  BY DEF Prepared, Gathered
<1>2. batches = MakeBatches(units)
  BY DEF Prepared
<1>3. Back(units, MergeChunked(Joined(MakeBatches(units))), Len(units))
  BY <1>1, AllComeBack
<1>4. /\ MakeBatches(units) \in Seq(Seq(PieceSet))
      /\ \A i \in 1 .. Len(MakeBatches(units)) : Asked(MakeBatches(units)[i])
  BY <1>1, BatchesAre
<1> QED
  BY <1>1, <1>2, <1>3, <1>4

LEMMA TextBegins == Extracted => TextInv
<1> SUFFICES ASSUME Extracted PROVE TextInv
  OBVIOUS
<1>1. DocTyped
  BY DocIsTyped
<1> QED
  BY <1>1 DEF Extracted, TextInv

\* What a step that leaves the document alone leaves alone with it.
LEMMA DocStays ==
  ASSUME doc' = doc, DocTyped
  PROVE  DocTyped'
  BY DEF DocTyped

LEMMA GatheredStays ==
  ASSUME doc' = doc, units' = units, Gathered(units, Len(doc))
  PROVE  Gathered(units, Len(doc))'
  BY DEF Gathered, Within, IsText

LEMMA PrepareKeeps ==
  ASSUME TextInv, Prepare PROVE TextInv'
<1>1. DocTyped'
  BY DocStays DEF TextInv, Prepare
<1>2. Gathered(MergeLogicalBlocks, Len(doc))
  BY UnitsAreGathered DEF TextInv
<1>3. Gathered(units, Len(doc))'
  <2>1. units' = MergeLogicalBlocks /\ doc' = doc
    BY DEF Prepare
  <2> DEFINE us == MergeLogicalBlocks
  <2> HIDE DEF us
  <2>2. Gathered(us, Len(doc))
    BY <1>2 DEF us
  <2>3. units' = us
    BY <2>1 DEF us
  <2> QED
    BY <2>1, <2>2, <2>3 DEF Gathered, Within, IsText
<1>4. /\ batches' = MakeBatches(units') /\ edits' = [b \in DOMAIN batches' |-> <<>>]
      /\ reached' = "asking"
  BY DEF Prepare
<1>5. Prepared'
  BY <1>3, <1>4 DEF Prepared
<1> QED
  BY <1>1, <1>4, <1>5 DEF TextInv

LEMMA AnswerKeeps ==
  ASSUME TextInv, NEW b \in DOMAIN batches, Answer(b) PROVE TextInv'
<1>1. /\ reached = "asking" /\ edits' = [edits EXCEPT ![b] = batches[b]]
      /\ UNCHANGED <<reached, doc, units, batches, values, out>>
  BY DEF Answer
<1>2. DocTyped' /\ Gathered(units, Len(doc))' /\ Prepared
  BY <1>1, DocStays, GatheredStays DEF TextInv, Prepared
<1>3. /\ edits' = [x \in DOMAIN batches |-> edits'[x]]
      /\ \A x \in DOMAIN batches : edits'[x] \in {<<>>, batches[x]}
  <2>1. edits = [x \in DOMAIN batches |-> edits[x]] /\ \A x \in DOMAIN batches : edits[x] \in {<<>>, batches[x]}
    BY <1>2 DEF Prepared
  <2> QED
    BY <1>1, <2>1
<1>4. Prepared'
  <2>1. batches' = MakeBatches(units')
    BY <1>1, <1>2 DEF Prepared
  <2> QED
    BY <1>1, <1>2, <1>3, <2>1 DEF Prepared
<1> QED
  BY <1>1, <1>2, <1>4 DEF TextInv

LEMMA MergeKeeps ==
  ASSUME TextInv, Merge PROVE TextInv'
<1>1. /\ reached = "asking" /\ reached' = "merged" /\ values' = MergeChunked(Joined(edits))
      /\ \A b \in DOMAIN edits : edits[b] # <<>>
      /\ UNCHANGED <<doc, units, batches, edits, out>>
  BY DEF Merge
<1>2. DocTyped' /\ Gathered(units, Len(doc))' /\ Prepared /\ DocTyped
  BY <1>1, DocStays, GatheredStays DEF TextInv, Prepared
<1>3. Prepared'
  <2>1. /\ edits = [x \in DOMAIN batches |-> edits[x]] /\ batches = MakeBatches(units)
        /\ \A x \in DOMAIN batches : edits[x] \in {<<>>, batches[x]}
    BY <1>2 DEF Prepared
  <2> QED
    BY <1>1, <1>2, <2>1 DEF Prepared
<1>4. edits = batches
  <2>1. batches \in Seq(Seq(PieceSet))
    BY <1>2, PreparedIs
  <2>2. batches = [b \in DOMAIN batches |-> batches[b]]
    BY <2>1
  <2>3. edits = [b \in DOMAIN batches |-> edits[b]] /\ \A b \in DOMAIN batches : edits[b] = batches[b]
    BY <1>1, <1>2 DEF Prepared
  <2> QED
    BY <2>2, <2>3
<1>5. values' = MergeChunked(Joined(batches'))
  BY <1>1, <1>4
<1> QED
  BY <1>1, <1>2, <1>3, <1>5 DEF TextInv

LEMMA ReinsertKeeps ==
  ASSUME TextInv, Reinsert PROVE TextInv'
<1>1. /\ reached = "merged" /\ reached' = "built"
      /\ out' = [n \in DOMAIN doc |-> IF IsText(n) /\ n \in DOMAIN values THEN values[n] ELSE <<>>]
      /\ UNCHANGED <<doc, units, batches, edits, values>>
  BY DEF Reinsert
<1>2. DocTyped' /\ Gathered(units, Len(doc))' /\ Prepared
  BY <1>1, DocStays, GatheredStays DEF TextInv, Prepared
<1>3. Prepared'
  <2>1. /\ edits = [x \in DOMAIN batches |-> edits[x]] /\ batches = MakeBatches(units)
        /\ \A x \in DOMAIN batches : edits[x] \in {<<>>, batches[x]}
    BY <1>2 DEF Prepared
  <2> QED
    BY <1>1, <1>2, <2>1 DEF Prepared
<1>4. values' = MergeChunked(Joined(batches'))
  BY <1>1 DEF TextInv
<1>5. Rebuilt'
  BY <1>1 DEF Rebuilt, IsText
<1> QED
  BY <1>1, <1>2, <1>3, <1>4, <1>5 DEF TextInv

LEMMA TextStays ==
  ASSUME TextInv, UNCHANGED way PROVE TextInv'
<1>1. UNCHANGED <<reached, doc, units, batches, edits, values, out>>
  BY DEF way
<1>2. DocTyped'
  BY <1>1, DocStays DEF TextInv
<1>3. Prepared => Prepared'
  <2> SUFFICES ASSUME Prepared PROVE Prepared'
    OBVIOUS
  <2>1. Gathered(units, Len(doc))'
    BY <1>1, GatheredStays DEF Prepared
  <2>2. /\ edits = [x \in DOMAIN batches |-> edits[x]] /\ batches = MakeBatches(units)
        /\ \A x \in DOMAIN batches : edits[x] \in {<<>>, batches[x]}
    BY DEF Prepared
  <2> QED
    BY <1>1, <2>1, <2>2 DEF Prepared
<1>4. Rebuilt => Rebuilt'
  BY <1>1 DEF Rebuilt, IsText
<1>5. reached \in {"merged", "built"} => values' = MergeChunked(Joined(batches'))
  BY <1>1 DEF TextInv
<1> QED
  BY <1>1, <1>2, <1>3, <1>4, <1>5 DEF TextInv

LEMMA TextInvHolds == TextSpec => []TextInv
<1>1. TextInv /\ [Carries]_way => TextInv'
  <2> SUFFICES ASSUME TextInv, [Carries]_way PROVE TextInv'
    OBVIOUS
  <2>1. CASE Prepare
    BY <2>1, PrepareKeeps
  <2>2. CASE \E b \in DOMAIN batches : Answer(b)
    BY <2>2, AnswerKeeps
  <2>3. CASE Merge
    BY <2>3, MergeKeeps
  <2>4. CASE Reinsert
    BY <2>4, ReinsertKeeps
  <2>5. CASE UNCHANGED way
    BY <2>5, TextStays
  <2> QED
    BY <2>1, <2>2, <2>3, <2>4, <2>5 DEF Carries
<1> QED
  BY <1>1, TextBegins, PTL DEF TextSpec

\* Every block is at a text node of its document, every batch has one to MaxSegments pieces,
\* and every batch has its place for an answer.
THEOREM TextTyped == TextSpec => []TextOK
<1>1. TextInv => TextOK
  <2> SUFFICES ASSUME TextInv PROVE TextOK
    OBVIOUS
  <2>1. CASE reached = "source"
    <3>1. units = <<>> /\ batches = <<>> /\ edits = <<>> /\ Range(<<>>) = {}
      BY <2>1 DEF TextInv, Range
    <3> QED
      BY <3>1 DEF TextInv, TextOK
  <2>2. CASE reached # "source"
    <3>1. DocTyped /\ Prepared
      BY <2>2 DEF TextInv
    <3>2. /\ units \in Seq(Unit) /\ batches \in Seq(Seq(PieceSet))
          /\ \A b \in 1 .. Len(batches) : Asked(batches[b])
      BY <3>1, PreparedIs
    <3>3. \A u \in Range(units) : u.id \in DOMAIN doc /\ IsText(u.id)
      <4>1. \A i \in 1 .. Len(units) : units[i].id \in 1 .. Len(doc) /\ IsText(units[i].id)
        BY <3>1 DEF Prepared, Gathered
      <4>2. DOMAIN doc = 1 .. Len(doc) /\ DOMAIN units = 1 .. Len(units)
        BY <3>1, <3>2 DEF DocTyped
      <4> QED
        BY <4>1, <4>2 DEF Range
    <3>4. \A b \in DOMAIN batches : Len(batches[b]) \in 1 .. MaxSegments
      <4> SUFFICES ASSUME NEW b \in DOMAIN batches PROVE Len(batches[b]) \in 1 .. MaxSegments
        OBVIOUS
      <4>1. Asked(batches[b])
        <5>1. b \in 1 .. Len(batches)
          BY <3>2
        <5> QED
          BY <3>2, <5>1
      <4> DEFINE a == batches[b]
      <4>2. a \in Seq(PieceSet) /\ a # <<>> /\ Len(a) <= MaxSegments
        BY <4>1 DEF Asked
      <4> HIDE DEF a
      <4>3. Len(a) \in Nat /\ Len(a) # 0 /\ MaxSegments \in Nat
        BY <4>2, Bounds
      <4> QED
        BY <4>2, <4>3 DEF a
    <3>5. DOMAIN edits = DOMAIN batches
      BY <3>1 DEF Prepared
    <3> QED
      BY <3>3, <3>4, <3>5 DEF TextInv, TextOK
  <2> QED
    BY <2>1, <2>2
<1> QED
  BY <1>1, TextInvHolds, PTL

LEMMA BuiltWhole ==
  ASSUME TextInv, reached = "built"
  PROVE  /\ out \in Seq(Seq(Sentence)) /\ Len(out) = Len(doc)
         /\ \A i \in 1 .. Len(units) : out[units[i].id] = units[i].text
         /\ \A n \in 1 .. Len(doc) : (\A i \in 1 .. Len(units) : units[i].id # n) => out[n] = <<>>
<1> DEFINE all == MergeChunked(Joined(batches))
<1>1. DocTyped /\ Prepared /\ values = all /\ Rebuilt
  BY DEF TextInv
<1>2. units \in Seq(Unit) /\ Back(units, all, Len(units))
  BY <1>1, PreparedIs
<1>3. doc \in Seq(Node) /\ Len(doc) \in Nat /\ DOMAIN doc = 1 .. Len(doc)
  BY <1>1 DEF DocTyped
<1> HIDE DEF all
<1>4. /\ values \in TextMaps
      /\ \A x \in DOMAIN values : \E i \in 1 .. Len(units) : units[i].id = x
      /\ \A i \in 1 .. Len(units) : units[i].id \in DOMAIN values /\ values[units[i].id] = units[i].text
  BY <1>1, <1>2 DEF Back
<1>5. /\ out = [n \in 1 .. Len(doc) |-> out[n]]
      /\ \A n \in 1 .. Len(doc) : out[n] = IF IsText(n) /\ n \in DOMAIN values THEN values[n] ELSE <<>>
  BY <1>1, <1>3 DEF Rebuilt
<1>6. \A n \in 1 .. Len(doc) : out[n] \in Seq(Sentence)
  <2>1. <<>> \in Seq(Sentence) /\ \A n \in DOMAIN values : values[n] \in Seq(Sentence)
    BY <1>4, TextsAre
  <2> QED
    BY <1>5, <2>1
<1>7. out \in Seq(Seq(Sentence)) /\ Len(out) = Len(doc)
  BY <1>3, <1>5, <1>6
<1>8. \A i \in 1 .. Len(units) : units[i].id \in 1 .. Len(doc) /\ IsText(units[i].id)
  BY <1>1 DEF Prepared, Gathered
<1>9. \A i \in 1 .. Len(units) : out[units[i].id] = units[i].text
  BY <1>4, <1>5, <1>8
<1>10. \A n \in 1 .. Len(doc) : (\A i \in 1 .. Len(units) : units[i].id # n) => out[n] = <<>>
  BY <1>4, <1>5
<1> QED
  BY <1>7, <1>9, <1>10

\* The book has every sentence of its source once and in order, whatever the document, the
\* budget, and the order of the answers: no chunk is dropped and no node is forgotten.
THEOREM WholeOnceKept == TextSpec => []WholeOnce
<1>1. TextInv => WholeOnce
  <2> SUFFICES ASSUME TextInv, reached = "built"
               PROVE  Joined(out) = Joined([n \in DOMAIN doc |-> doc[n].text])
    BY DEF WholeOnce
  <2>1. /\ out \in Seq(Seq(Sentence)) /\ Len(out) = Len(doc)
        /\ \A i \in 1 .. Len(units) : out[units[i].id] = units[i].text
        /\ \A n \in 1 .. Len(doc) : (\A i \in 1 .. Len(units) : units[i].id # n) => out[n] = <<>>
    BY BuiltWhole
  <2>2. Gathered(units, Len(doc)) /\ doc \in Seq(Node)
    BY DEF TextInv, Prepared, DocTyped
  <2>3. /\ units \in Seq(Unit) /\ \A i \in 1 .. Len(units) : units[i].id \in 1 .. Len(doc)
        /\ \A i, j \in 1 .. Len(units) : i < j => units[i].id < units[j].id
        /\ Joined(TextsOf(units)) = Joined(TextsOf(SubSeq(doc, 1, Len(doc))))
    BY <2>2 DEF Gathered
  <2>4. Joined(out) = Joined(TextsOf(units))
    BY <2>1, <2>3, PlacedReadsOn
  <2>5. SubSeq(doc, 1, Len(doc)) = doc
    BY <2>2, FirstOnes
  <2> QED
    BY <2>3, <2>4, <2>5 DEF TextsOf
<1> QED
  BY <1>1, TextInvHolds, PTL

\* No request is over the budget but for one sentence that is over it alone, and none carries
\* more blocks than may be asked at once.
THEOREM BudgetsKept == TextSpec => []WithinBudget
<1>1. TextInv => WithinBudget
  <2> SUFFICES ASSUME TextInv, NEW b \in DOMAIN batches
               PROVE  /\ Len(batches[b]) <= MaxSegments
                      /\ \/ Chars(batches[b]) <= MaxChars
                         \/ Len(Joined([i \in DOMAIN batches[b] |-> batches[b][i].text])) = 1
    BY DEF WithinBudget
  <2>1. reached # "source"
    BY DEF TextInv
  <2>2. DocTyped /\ Prepared
    BY <2>1 DEF TextInv
  <2>3. batches \in Seq(Seq(PieceSet)) /\ \A x \in 1 .. Len(batches) : Asked(batches[x])
    BY <2>2, PreparedIs
  <2>4. Asked(batches[b])
    <3>1. b \in 1 .. Len(batches)
      BY <2>3
    <3> QED
      BY <2>3, <3>1
  <2> QED
    BY <2>4 DEF Asked, TextsOf
<1> QED
  BY <1>1, TextInvHolds, PTL

\* The units of a document are what it is merged to, once it is.
UnitsStand == reached # "source" => units = MergeLogicalBlocks
LEMMA UnitsStood == TextSpec => []UnitsStand
<1>1. Extracted => UnitsStand
  BY DEF Extracted, UnitsStand
<1>2. ASSUME doc' = doc PROVE MergeLogicalBlocks' = MergeLogicalBlocks
  BY <1>2 DEF MergeLogicalBlocks, Gather, Absorbs, IsText
<1>3. UnitsStand /\ [Carries]_way => UnitsStand'
  <2> SUFFICES ASSUME UnitsStand, [Carries]_way PROVE UnitsStand'
    OBVIOUS
  <2>1. CASE Prepare
    BY <1>2, <2>1 DEF Prepare, UnitsStand
  <2>2. CASE \E b \in DOMAIN batches : Answer(b)
    BY <1>2, <2>2 DEF Answer, UnitsStand
  <2>3. CASE Merge
    BY <1>2, <2>3 DEF Merge, UnitsStand
  <2>4. CASE Reinsert
    BY <1>2, <2>4 DEF Reinsert, UnitsStand
  <2>5. CASE UNCHANGED way
    BY <1>2, <2>5 DEF way, UnitsStand
  <2> QED
    BY <2>1, <2>2, <2>3, <2>4, <2>5 DEF Carries
<1> QED
  BY <1>1, <1>3, PTL DEF TextSpec

\* A sentence of the book is in the block it was in, inside all the markup it was in but the
\* decorative, and in the very links and notes it was in, unless two of one tag follow one
\* another: no merge pulls text into a wrapper or over the edge of a block.
THEOREM PlacesKept == TextSpec => []KeepsPlace
<1>1. TextInv /\ UnitsStand => KeepsPlace
  <2> SUFFICES ASSUME TextInv, UnitsStand, reached = "built", NEW n \in DOMAIN out, NEW s \in Range(out[n])
               PROVE  /\ doc[n].block = doc[s.node].block
                      /\ Wraps(doc[s.node].format, doc[n].format)
                      /\ ElementsApart => Boundaries(doc[s.node].format) = Boundaries(doc[n].format)
    BY DEF KeepsPlace
  <2>1. /\ out \in Seq(Seq(Sentence)) /\ Len(out) = Len(doc)
        /\ \A i \in 1 .. Len(units) : out[units[i].id] = units[i].text
        /\ \A m \in 1 .. Len(doc) : (\A i \in 1 .. Len(units) : units[i].id # m) => out[m] = <<>>
    BY BuiltWhole
  <2>2. n \in 1 .. Len(doc)
    BY <2>1
  <2>3. out[n] # <<>>
    <3>1. Range(<<>>) = {}
      BY DEF Range
    <3> QED
      BY <3>1
  <2>4. PICK i \in 1 .. Len(units) : units[i].id = n
    BY <2>1, <2>2, <2>3
  <2>5. out[n] = units[i].text
    BY <2>1, <2>4
  <2>6. /\ units \in Seq(Unit)
        /\ \A j \in 1 .. Len(units[i].text) : Within(units[i].text[j], units[i].id)
    BY DEF TextInv, Prepared, Gathered
  <2>7. ElementsApart => \A j \in 1 .. Len(units[i].text) : Same(units[i].text[j].node, units[i].id)
    <3>1. KeptIn(units, Len(doc))
      BY UnitsAreKept DEF TextInv, UnitsStand
    <3> QED
      BY <3>1 DEF KeptIn
  <2> DEFINE prose == units[i].text
  <2>8. prose \in Seq(Sentence) /\ s \in Range(prose)
    <3>1. units[i] \in Unit
      BY <2>6
    <3> QED
      BY <2>5, <3>1 DEF Unit
  <2>9. \A j \in 1 .. Len(prose) : Within(prose[j], n) /\ (ElementsApart => Same(prose[j].node, n))
    BY <2>4, <2>6, <2>7
  <2> HIDE DEF prose
  <2>10. PICK j \in 1 .. Len(prose) : s = prose[j]
    BY <2>8 DEF Range
  <2>11. Within(s, n) /\ (ElementsApart => Same(s.node, n))
    BY <2>9, <2>10
  <2> QED
    BY <2>11 DEF Within, MergesInto, Same
<1> QED
  BY <1>1, TextInvHolds, UnitsStood, PTL
-----------------------------------------------------------------------------
(* Repair.                                                                    *)

NameSet == Seq(Characters)
Signs == Characters \cup {"#"}
Strings == Seq(Signs)
Bad == Ids \ Valid
TagSet == {"a", "link", "navPoint", "p", "meta", "item", "block"}
ElementSet == [key : Nat, tag : TagSet, id : NameSet, name : NameSet, path : Strings,
               at : Strings, value : NameSet, kids : Seq({"text", "block"})]
\* What an element of each kind of document has.
Proper(e) ==
    /\ e.id \in OrNone(Ids) /\ e.name \in OrNone(Ids)
    /\ e.name # Nothing => e.tag = "a" /\ kind = "page"
    /\ e.tag = "link" => kind # "package"
OriginalOK ==
    /\ kind \in {"page", "package", "ncx"}
    /\ original \in Seq(ElementSet) /\ Len(original) <= MaxElements
    /\ \A k \in DOMAIN original : original[k].key = k /\ Proper(original[k])

LEMMA ListIs ==
  ASSUME NEW V, NEW m \in Nat, NEW f, f = [i \in 1 .. m |-> f[i]], \A i \in 1 .. m : f[i] \in V
  PROVE  f \in Seq(V)
  OBVIOUS

LEMMA NamesIn == Nothing \in NameSet /\ Ids \subseteq NameSet /\ OrNone(Ids) \subseteq NameSet
<1>1. Ids \subseteq Seq(Characters)
  BY RepairAssumption
<1>2. <<>> \in Seq(Characters)
  OBVIOUS
<1> QED
  BY <1>1, <1>2 DEF NameSet, OrNone, Nothing

\* Names and references are texts.
LEMMA StringsIn ==
  /\ Nothing \in Strings /\ NameSet \subseteq Strings /\ Paths \subseteq Strings
  /\ \A x \in NameSet : Fragment(x) \in Strings /\ Fragment(x) # Nothing
<1>1. \A x \in NameSet : x \in Strings
  BY DEF NameSet, Strings, Signs
<1>2. \A x \in NameSet : Fragment(x) \in Strings /\ Fragment(x) # Nothing
  <2> SUFFICES ASSUME NEW x \in NameSet PROVE Fragment(x) \in Strings /\ Fragment(x) # Nothing
    OBVIOUS
  <2>1. <<"#">> \in Seq(Signs) /\ x \in Seq(Signs) /\ Len(<<"#">>) = 1
    BY <1>1 DEF Signs, Strings
  <2>2. <<"#">> \o x \in Seq(Signs) /\ Len(<<"#">> \o x) = 1 + Len(x) /\ Len(x) \in Nat
    BY <2>1
  <2> QED
    BY <2>2 DEF Fragment, Strings, Nothing
<1>3. \A p \in Paths : p \in Strings
  <2>1. \A p \in Paths : p \in NameSet
    BY RepairAssumption DEF NameSet
  <2> QED
    BY <1>1, <2>1
<1> QED
  BY <1>1, <1>2, <1>3 DEF Nothing, Strings

LEMMA ReferencesIn == References \subseteq Strings
<1> SUFFICES ASSUME NEW p \in Paths, NEW v \in [DOMAIN p -> Characters] PROVE v \in Strings
  BY StringsIn DEF References
<1>1. p \in Seq(Characters)
  BY RepairAssumption
<1>2. DOMAIN p = 1 .. Len(p) /\ Len(p) \in Nat
  BY <1>1
<1>3. v = [i \in 1 .. Len(p) |-> v[i]] /\ \A i \in 1 .. Len(p) : v[i] \in Signs
  BY <1>2 DEF Signs
<1> QED
  BY <1>2, <1>3, ListIs DEF Strings

LEMMA ContentsAre ==
  ASSUME kind \in DOMAIN Contents, NEW e \in Contents[kind]
  PROVE  e \in ElementSet /\ Proper(e)
<1>1. kind \in {"page", "package", "ncx"}
  BY DEF Contents
<1>2. <<>> \in Seq({"text", "block"}) /\ <<"text">> \in Seq({"text", "block"})
      /\ <<"text", "block", "text">> \in Seq({"text", "block"}) /\ 0 \in Nat
  OBVIOUS
<1>3. CASE e \in Anchors /\ kind = "page"
  <2>1. PICK i \in OrNone(Ids), n \in OrNone(Ids) : e = Anchor(i, n)
    BY <1>3 DEF Anchors
  <2>2. e.id = i /\ e.name = n /\ e.tag = "a"
    BY <2>1 DEF Element, Anchor
  <2>3. i \in NameSet /\ n \in NameSet /\ Nothing \in NameSet /\ Nothing \in Strings
    BY NamesIn, StringsIn
  <2>4. e \in ElementSet
    BY <1>2, <2>1, <2>3 DEF Element, Anchor, ElementSet, TagSet
  <2> QED
    BY <1>3, <2>2, <2>4 DEF Proper
<1>4. CASE e \in Links /\ kind # "package"
  <2>1. PICK p \in Strings, x \in Strings : e = Link(p, x)
    <3>1. OrNone(Paths) \subseteq Strings /\ Fragments \subseteq Strings
      BY StringsIn, NamesIn DEF OrNone, Fragments
    <3> QED
      BY <1>4, <3>1, ReferencesIn, StringsIn DEF Links
  <2>2. e.id = Nothing /\ e.name = Nothing /\ e.tag = "link"
    BY <2>1 DEF Element, Link
  <2>3. Nothing \in NameSet
    BY NamesIn
  <2>4. e \in ElementSet
    BY <1>2, <2>1, <2>3 DEF Element, Link, ElementSet, TagSet
  <2> QED
    BY <1>4, <2>2, <2>4 DEF Proper, OrNone
<1>5. CASE e \in Points
  BY <1>2, <1>5, NamesIn, StringsIn DEF Points, Element, ElementSet, TagSet, Proper, OrNone
<1>6. CASE e \in Paragraphs
  <2>1. PICK i \in OrNone(Ids), k \in {<<"text">>, <<"text", "block", "text">>} : e = Paragraph(i, k)
    BY <1>6 DEF Paragraphs
  <2>2. e.id = i /\ e.name = Nothing /\ e.tag = "p"
    BY <2>1 DEF Element, Paragraph
  <2>3. i \in NameSet /\ Nothing \in NameSet /\ k \in Seq({"text", "block"}) /\ Nothing \in Strings
    BY <1>2, NamesIn, StringsIn
  <2>4. e \in ElementSet
    BY <1>2, <2>1, <2>3 DEF Element, Paragraph, ElementSet, TagSet
  <2> QED
    BY <2>2, <2>4 DEF Proper, OrNone
<1>7. CASE e \in Refines
  <2>1. PICK i \in Ids : e = [Element EXCEPT !.tag = "meta", !.at = Fragment(i)]
    BY <1>7 DEF Refines
  <2>2. Fragment(i) \in Strings /\ Nothing \in NameSet /\ Nothing \in Strings
    BY NamesIn, StringsIn
  <2> QED
    BY <1>2, <2>1, <2>2 DEF Element, ElementSet, TagSet, Proper, OrNone
<1>8. CASE e \in Items
  BY <1>2, <1>8, NamesIn, StringsIn DEF Items, Element, ElementSet, TagSet, Proper, OrNone
<1> QED
  BY <1>1, <1>3, <1>4, <1>5, <1>6, <1>7, <1>8 DEF Contents

LEMMA OriginalFound == ASSUME Found PROVE OriginalOK
<1>1. PICK n \in 1 .. MaxElements : \E f \in [1 .. n -> Contents[kind]] : document = Keyed(f)
  BY DEF Found
<1>1a. PICK f \in [1 .. n -> Contents[kind]] : document = Keyed(f)
  BY <1>1
<1>2. kind \in DOMAIN Contents /\ original = document /\ MaxElements \in Nat
  BY RepairAssumption DEF Found
<1>3. kind \in {"page", "package", "ncx"}
  BY <1>2 DEF Contents
<1>4. ASSUME NEW i \in 1 .. n
      PROVE  LET e == [f[i] EXCEPT !.key = i] IN e \in ElementSet /\ e.key = i /\ Proper(e)
  <2>1. f[i] \in ElementSet /\ Proper(f[i])
    BY <1>2, <1>4, ContentsAre
  <2>2. i \in Nat
    BY <1>2
  <2> QED
    BY <2>1, <2>2 DEF ElementSet, Proper
<1>5. original = [i \in 1 .. n |-> [f[i] EXCEPT !.key = i]]
  BY <1>1a, <1>2 DEF Keyed
<1>6. \A i \in 1 .. n : original[i] \in ElementSet /\ original[i].key = i /\ Proper(original[i])
  BY <1>4, <1>5
<1>7. n \in Nat /\ n <= MaxElements
  BY <1>2
<1>8. original \in Seq(ElementSet) /\ Len(original) = n /\ DOMAIN original = 1 .. n
  BY <1>5, <1>6, <1>7
<1> QED
  BY <1>3, <1>6, <1>7, <1>8 DEF OriginalOK

\* The id that uniqueId finds is there to be found: more are tried than are taken.
LEMMA UniqueIdIs ==
  ASSUME NEW v \in Ids, NEW used, IsFiniteSet(used), Cardinality(used) <= MaxElements
  PROVE  /\ UniqueId(v, used) \notin used /\ UniqueId(v, used) \in NameSet
         /\ UniqueId(v, used) \notin Bad /\ UniqueId(v, used) # Nothing
<1> DEFINE S == {i \in DOMAIN Fresh[v] : Fresh[v][i] \notin used}
<1>1. /\ Fresh[v] \in Seq(NameSet) /\ Cardinality(Range(Fresh[v])) > MaxElements /\ MaxElements \in Nat
      /\ Range(Fresh[v]) \cap (Bad \cup {Nothing}) = {}
  BY RepairAssumption DEF Bad, NameSet
<1>2. S \subseteq Nat
  BY <1>1
<1>3. S # {}
  <2> SUFFICES ASSUME S = {} PROVE FALSE
    OBVIOUS
  <2>1. Range(Fresh[v]) \subseteq used
    BY DEF Range
  <2>2. Cardinality(Range(Fresh[v])) <= Cardinality(used) /\ Cardinality(used) \in Nat
        /\ Cardinality(Range(Fresh[v])) \in Nat
    BY <2>1, FS_Subset, FS_CardinalityType
  <2> QED
    BY <1>1, <2>2
<1>4. Min(S) \in S
  <2> HIDE DEF S
  <2> QED
    BY <1>2, <1>3, MinIsIn
<1>5. UniqueId(v, used) = Fresh[v][Min(S)]
  BY DEF UniqueId
<1>6. Fresh[v][Min(S)] \notin used /\ Fresh[v][Min(S)] \in Range(Fresh[v])
  BY <1>4 DEF Range
<1>7. Fresh[v][Min(S)] \in NameSet
  <2>1. Min(S) \in DOMAIN Fresh[v]
    BY <1>4
  <2> HIDE DEF S
  <2> QED
    BY <1>1, <2>1
<1> QED
  BY <1>1, <1>5, <1>6, <1>7
-----------------------------------------------------------------------------
\* What Renamed goes through: before the first element, and at each.
Start(es) == [used |-> IdsOf(es) \cap Valid, rewritten |-> <<>>, ids |-> [i \in DOMAIN es |-> es[i].id]]
Step(page, s, e) == GivesName(page, GivesId(s, e), e)
Renames(f, page, es, m) == f = [n \in 0 .. m |-> IF n = 0 THEN Start(es) ELSE Step(page, f[n - 1], es[n])]

LEMMA RenamesIs ==
  ASSUME NEW m \in Nat, NEW f, NEW page, NEW es, Renames(f, page, es, m)
  PROVE  f[0] = Start(es) /\ \A n \in 1 .. m : f[n] = Step(page, f[n - 1], es[n])
<1>1. 0 \in 0 .. m /\ \A n \in 1 .. m : n \in 0 .. m /\ n # 0
  OBVIOUS
<1> QED
  BY <1>1 DEF Renames

LEMMA RenamingExists ==
  ASSUME NEW m \in Nat, NEW page, NEW es
  PROVE  \E f : Renames(f, page, es, m)
<1> DEFINE P == {k \in 0 .. m : \E f : Renames(f, page, es, k)}
<1>1. 0 \in P
  <2> DEFINE g == [n \in 0 .. 0 |-> Start(es)]
  <2>1. Renames(g, page, es, 0)
    <3>1. \A n \in 0 .. 0 : n = 0
      OBVIOUS
    <3>2. g = [n \in 0 .. 0 |-> IF n = 0 THEN Start(es) ELSE Step(page, g[n - 1], es[n])]
      BY <3>1
    <3> QED
      BY <3>2 DEF Renames
  <2> QED
    BY <2>1
<1>2. ASSUME NEW k \in 1 .. m, k - 1 \in P PROVE k \in P
  <2>1. PICK f : Renames(f, page, es, k - 1)
    BY <1>2
  <2>2. k - 1 \in Nat /\ k \in 0 .. m
    OBVIOUS
  <2>3. f[0] = Start(es) /\ \A n \in 1 .. k - 1 : f[n] = Step(page, f[n - 1], es[n])
    BY <2>1, <2>2, RenamesIs
  <2> DEFINE g == [n \in 0 .. k |-> IF n = k THEN Step(page, f[k - 1], es[k]) ELSE f[n]]
             h == [n \in 0 .. k |-> IF n = 0 THEN Start(es) ELSE Step(page, g[n - 1], es[n])]
  <2>4. \A n \in 0 .. k : g[n] = h[n]
    <3> SUFFICES ASSUME NEW n \in 0 .. k PROVE g[n] = h[n]
      OBVIOUS
    <3>1. h[n] = IF n = 0 THEN Start(es) ELSE Step(page, g[n - 1], es[n])
      OBVIOUS
    <3>2. n # 0 => g[n - 1] = f[n - 1]
      OBVIOUS
    <3>3. g[n] = IF n = k THEN Step(page, f[k - 1], es[k]) ELSE f[n]
      OBVIOUS
    <3>4. n = 0 \/ n = k \/ n \in 1 .. k - 1
      OBVIOUS
    <3> HIDE DEF g, h
    <3> QED
      BY <3>1, <3>2, <3>3, <3>4, <2>3
  <2>5. g = [n \in 0 .. k |-> g[n]] /\ h = [n \in 0 .. k |-> h[n]]
    OBVIOUS
  <2>6. g = h
    <3> HIDE DEF g, h
    <3> QED
      BY <2>4, <2>5
  <2>7. Renames(g, page, es, k)
    BY <2>6 DEF Renames
  <2> QED
    BY <2>2, <2>7
<1>3. m \in P
  <2> HIDE DEF P
  <2> QED
    BY <1>1, <1>2, UpTo
<1> QED
  BY <1>3

LEMMA RenamedIs ==
  ASSUME NEW page, NEW es, Len(es) \in Nat
  PROVE  \E f : /\ f[0] = Start(es) /\ Renamed(page, es) = f[Len(es)]
                /\ \A n \in 1 .. Len(es) : f[n] = Step(page, f[n - 1], es[n])
<1> DEFINE all == CHOOSE f : Renames(f, page, es, Len(es))
<1>1. Renamed(page, es) = all[Len(es)]
  BY DEF Renamed, Renames, Start, Step
<1>2. \E f : Renames(f, page, es, Len(es))
  BY RenamingExists
<1>3. Renames(all, page, es, Len(es))
  BY <1>2
<1> HIDE DEF all
<1> QED
  BY <1>1, <1>3, RenamesIs

\* Copying entries does not change what elements are called.
LEMMA StepsAlike ==
  ASSUME NEW page, NEW s, NEW e, NEW g, e.id = g.id, e.name = g.name, e.tag = g.tag, e.key = g.key
  PROVE  Step(page, s, e) = Step(page, s, g)
<1>1. GivesId(s, e) = GivesId(s, g)
  BY DEF GivesId, Gives
<1> QED
  BY <1>1, Zenon DEF Step, GivesName, Gives

LEMMA RenamedAlike ==
  ASSUME NEW page, NEW es, NEW gs, Len(es) \in Nat, Len(gs) = Len(es),
         DOMAIN es = 1 .. Len(es), DOMAIN gs = 1 .. Len(es),
         \A k \in 1 .. Len(es) : /\ es[k].id = gs[k].id /\ es[k].name = gs[k].name
                                 /\ es[k].tag = gs[k].tag /\ es[k].key = gs[k].key
  PROVE  Renamed(page, es) = Renamed(page, gs)
<1>1. PICK f : /\ f[0] = Start(es) /\ Renamed(page, es) = f[Len(es)]
               /\ \A n \in 1 .. Len(es) : f[n] = Step(page, f[n - 1], es[n])
  BY RenamedIs
<1>2. PICK h : /\ h[0] = Start(gs) /\ Renamed(page, gs) = h[Len(gs)]
               /\ \A n \in 1 .. Len(gs) : h[n] = Step(page, h[n - 1], gs[n])
  BY RenamedIs
<1>3. Start(es) = Start(gs)
  <2>1. IdsOf(es) = IdsOf(gs)
    BY DEF IdsOf
  <2>2. [i \in DOMAIN es |-> es[i].id] = [i \in DOMAIN gs |-> gs[i].id]
    OBVIOUS
  <2> QED
    BY <2>1, <2>2 DEF Start
<1>4. \A n \in 1 .. Len(es) : \A s : Step(page, s, es[n]) = Step(page, s, gs[n])
  BY StepsAlike
<1>5. \A n \in 1 .. Len(es) : f[n - 1] = h[n - 1] => f[n] = h[n]
  BY <1>1, <1>2, <1>4
<1>6. f[0] = h[0]
  BY <1>1, <1>2, <1>3
<1>7. f[Len(es)] = h[Len(es)]
  BY <1>5, <1>6, SameSteps
<1> QED
  BY <1>1, <1>2, <1>7
-----------------------------------------------------------------------------
RewriteSet == [old : NameSet, new : NameSet]
States == [used : SUBSET NameSet, rewritten : Seq(RewriteSet), ids : [DOMAIN original -> NameSet]]
Remembers(s, x) == \E i \in DOMAIN s.rewritten : s.rewritten[i].old = x

\* The first n elements have their ids, the others what they had: ids differ, those that XML
\* allows are in use, and what is remembered of a name is the id that who had it has now.
Core(s, n) ==
    /\ s \in States
    /\ s.used = {s.ids[k] : k \in DOMAIN original} \ (Bad \cup {Nothing})
    /\ \A k \in DOMAIN original : k > n => s.ids[k] = original[k].id
    /\ \A j, k \in DOMAIN original : s.ids[j] = s.ids[k] /\ s.ids[j] # Nothing => j = k
    /\ \A i \in DOMAIN s.rewritten :
         /\ s.rewritten[i].old # s.rewritten[i].new /\ s.rewritten[i].new \notin Bad \cup {Nothing}
         /\ \E k \in DOMAIN original : k <= n /\ Calls(original[k], s.rewritten[i].old)
                                       /\ s.ids[k] = s.rewritten[i].new

\* The map w is `map` with a new name for the old one, too.
Adds(w, map, old, new) ==
    /\ w \in Seq(RewriteSet)
    /\ \A i \in DOMAIN w : (w[i].old = old /\ w[i].new = new) \/ \E j \in DOMAIN map : w[i] = map[j]
    /\ \E i \in DOMAIN w : w[i].old = old
    /\ \A j \in DOMAIN map : \E i \in DOMAIN w : w[i].old = map[j].old

LEMMA RewritesIs ==
  ASSUME NEW map \in Seq(RewriteSet), NEW old \in NameSet, NEW new \in NameSet
  PROVE  Adds(Rewrites(map, old, new), map, old, new)
<1> DEFINE all == Rewrites(map, old, new)
<1>0. [old |-> old, new |-> new] \in RewriteSet /\ \A i \in DOMAIN map : map[i] \in RewriteSet
  <2>1. [old |-> old, new |-> new] \in RewriteSet
    BY DEF RewriteSet
  <2> QED
    BY <2>1
<1>1. CASE \E i \in DOMAIN map : map[i].old = old
  <2> DEFINE g == [i \in DOMAIN map |-> IF map[i].old = old THEN [map[i] EXCEPT !.new = new] ELSE map[i]]
  <2>1. all = g
    BY <1>1 DEF Rewrites
  <2>2. ASSUME NEW i \in DOMAIN map
        PROVE  /\ g[i] \in RewriteSet /\ g[i].old = map[i].old
               /\ (g[i].old = old /\ g[i].new = new) \/ g[i] = map[i]
    <3>1. map[i] \in RewriteSet
      BY <1>0
    <3>2. [map[i] EXCEPT !.new = new] \in RewriteSet /\ [map[i] EXCEPT !.new = new].old = map[i].old
          /\ [map[i] EXCEPT !.new = new].new = new
      BY <3>1 DEF RewriteSet
    <3>3. g[i] = IF map[i].old = old THEN [map[i] EXCEPT !.new = new] ELSE map[i]
      OBVIOUS
    <3> HIDE DEF g
    <3> QED
      BY <3>1, <3>2, <3>3
  <2>3. DOMAIN g = DOMAIN map /\ g = [i \in 1 .. Len(map) |-> g[i]]
    OBVIOUS
  <2> HIDE DEF g, all
  <2>4. g \in Seq(RewriteSet)
    <3>1. Len(map) \in Nat /\ DOMAIN map = 1 .. Len(map) /\ \A i \in 1 .. Len(map) : g[i] \in RewriteSet
      BY <2>2
    <3> QED
      BY <2>3, <3>1
  <2> QED
    BY <1>1, <2>1, <2>2, <2>3, <2>4 DEF all, Adds
<1>2. CASE ~\E i \in DOMAIN map : map[i].old = old
  <2> DEFINE r == [old |-> old, new |-> new]
  <2>1. all = Append(map, r)
    BY <1>2 DEF Rewrites
  <2>2. r \in RewriteSet /\ r.old = old /\ r.new = new
    BY <1>0
  <2> HIDE DEF r, all
  <2>3. all \in Seq(RewriteSet) /\ Len(all) = Len(map) + 1 /\ all[Len(map) + 1] = r
        /\ \A i \in 1 .. Len(map) : all[i] = map[i]
    BY <2>1, <2>2
  <2>4. \A i \in DOMAIN all : i \in DOMAIN map \/ i = Len(map) + 1
    BY <2>3
  <2>5. DOMAIN map = 1 .. Len(map) /\ DOMAIN all = 1 .. Len(map) + 1 /\ Len(map) \in Nat
    BY <2>3
  <2>6. Len(map) + 1 \in DOMAIN all /\ \A i \in DOMAIN map : i \in DOMAIN all /\ all[i] = map[i]
    BY <2>3, <2>5
  <2> QED
    BY <2>2, <2>3, <2>4, <2>6 DEF all, Adds
<1> QED
  BY <1>1, <1>2

LEMMA GivesKeeps ==
  ASSUME OriginalOK, NEW n \in DOMAIN original, NEW s, Core(s, n),
         NEW old \in Ids, Calls(original[n], old),
         NEW new \in NameSet, new \notin Bad \cup {Nothing},
         s.ids[n] = new \/ (s.ids[n] \in Bad \cup {Nothing} /\ new \notin s.used)
  PROVE  LET t == Gives(s, original[n], old, new) IN
           /\ Core(t, n) /\ t.ids[n] = new
           /\ \A k \in DOMAIN original : k # n => t.ids[k] = s.ids[k]
           /\ old = new \/ Remembers(t, old)
           /\ \A x : Remembers(s, x) => Remembers(t, x)
<1> DEFINE t == Gives(s, original[n], old, new)
<1>1. /\ s \in States /\ s.ids \in [DOMAIN original -> NameSet] /\ s.rewritten \in Seq(RewriteSet)
      /\ s.used \in SUBSET NameSet
  BY DEF Core, States
<1>2. original[n].key = n /\ old \in NameSet /\ old # Nothing
  BY NamesIn DEF OriginalOK, Calls
<1>3. /\ t.used = s.used \cup {new} /\ t.ids = [s.ids EXCEPT ![n] = new]
      /\ t.rewritten = IF old = new THEN s.rewritten ELSE Rewrites(s.rewritten, old, new)
      /\ t = [used |-> t.used, rewritten |-> t.rewritten, ids |-> t.ids]
  BY <1>2 DEF Gives, Taken
<1> HIDE DEF t
<1>4. t.ids[n] = new /\ \A k \in DOMAIN original : k # n => t.ids[k] = s.ids[k]
  BY <1>1, <1>3
<1>5. /\ t.rewritten \in Seq(RewriteSet)
      /\ old = new \/ Remembers(t, old)
      /\ \A x : Remembers(s, x) => Remembers(t, x)
      /\ \A i \in DOMAIN t.rewritten :
           \/ old # new /\ t.rewritten[i].old = old /\ t.rewritten[i].new = new
           \/ \E j \in DOMAIN s.rewritten : t.rewritten[i] = s.rewritten[j]
  <2>1. CASE old = new
    BY <1>1, <1>3, <2>1 DEF Remembers
  <2>2. CASE old # new
    <3> DEFINE w == Rewrites(s.rewritten, old, new)
    <3>1. t.rewritten = w
      BY <1>3, <2>2
    <3>2. Adds(w, s.rewritten, old, new)
      BY <1>1, <1>2, RewritesIs
    <3> HIDE DEF w
    <3> QED
      BY <2>2, <3>1, <3>2 DEF Remembers, Adds
  <2> QED
    BY <2>1, <2>2
<1>6. t \in States
  BY <1>1, <1>3, <1>5 DEF States
<1>7. t.used = {t.ids[k] : k \in DOMAIN original} \ (Bad \cup {Nothing})
  <2>1. s.used = {s.ids[k] : k \in DOMAIN original} \ (Bad \cup {Nothing})
    BY DEF Core
  <2>2. \A x : x \in t.used => x \in {t.ids[k] : k \in DOMAIN original} \ (Bad \cup {Nothing})
    BY <1>3, <1>4, <2>1
  <2>3. \A x : x \in {t.ids[k] : k \in DOMAIN original} \ (Bad \cup {Nothing}) => x \in t.used
    BY <1>3, <1>4, <2>1
  <2> QED
    BY <2>2, <2>3
<1>8. \A k \in DOMAIN original : k > n => t.ids[k] = original[k].id
  <2>1. \A k \in DOMAIN original : k > n => k # n
    BY DEF OriginalOK
  <2> QED
    BY <1>4, <2>1 DEF Core
<1>9. \A j, k \in DOMAIN original : t.ids[j] = t.ids[k] /\ t.ids[j] # Nothing => j = k
  <2>1. \A j, k \in DOMAIN original : s.ids[j] = s.ids[k] /\ s.ids[j] # Nothing => j = k
    BY DEF Core
  <2>2. ASSUME NEW j \in DOMAIN original, j # n, s.ids[j] = new PROVE FALSE
    <3>1. new \in s.used
      BY <2>2 DEF Core
    <3> QED
      BY <2>1, <2>2, <3>1
  <2> QED
    BY <1>4, <2>1, <2>2
<1>10. ASSUME NEW i \in DOMAIN t.rewritten
       PROVE  /\ t.rewritten[i].old # t.rewritten[i].new /\ t.rewritten[i].new \notin Bad \cup {Nothing}
              /\ \E k \in DOMAIN original : k <= n /\ Calls(original[k], t.rewritten[i].old)
                                            /\ t.ids[k] = t.rewritten[i].new
  <2>1. CASE old # new /\ t.rewritten[i].old = old /\ t.rewritten[i].new = new
    <3>1. n <= n
      BY DEF OriginalOK
    <3> QED
      BY <1>4, <2>1, <3>1
  <2>2. CASE \E j \in DOMAIN s.rewritten : t.rewritten[i] = s.rewritten[j]
    <3>1. PICK j \in DOMAIN s.rewritten : t.rewritten[i] = s.rewritten[j]
      BY <2>2
    <3>2. /\ t.rewritten[i].old # t.rewritten[i].new /\ t.rewritten[i].new \notin Bad \cup {Nothing}
          /\ \E k \in DOMAIN original : k <= n /\ Calls(original[k], t.rewritten[i].old)
                                        /\ s.ids[k] = t.rewritten[i].new
      BY <3>1 DEF Core
    <3>3. PICK k \in DOMAIN original : k <= n /\ Calls(original[k], t.rewritten[i].old)
                                       /\ s.ids[k] = t.rewritten[i].new
      BY <3>2
    <3>4. t.ids[k] = s.ids[k]
      BY <1>4, <3>2, <3>3
    <3> QED
      BY <3>2, <3>3, <3>4
  <2> QED
    BY <1>5, <2>1, <2>2
<1>11. Core(t, n)
  BY <1>6, <1>7, <1>8, <1>9, <1>10 DEF Core
<1> QED
  BY <1>4, <1>5, <1>11 DEF t

\* There are no more ids than elements.
LEMMA UsedIsSmall ==
  ASSUME OriginalOK, NEW n, NEW s, Core(s, n)
  PROVE  IsFiniteSet(s.used) /\ Cardinality(s.used) <= MaxElements
<1> DEFINE T == {s.ids[k] : k \in DOMAIN original}
           N == Len(original)
<1>1. N \in Nat /\ DOMAIN original = 1 .. N /\ N <= MaxElements /\ MaxElements \in Nat
  BY RepairAssumption DEF OriginalOK
<1>2. s.ids \in [DOMAIN original -> NameSet] /\ s.used \subseteq T
  BY DEF Core, States
<1> HIDE DEF N
<1>3. s.ids \in Surjection(1 .. N, T)
  BY <1>1, <1>2 DEF Surjection
<1> HIDE DEF T
<1>4. IsFiniteSet(1 .. N) /\ Cardinality(1 .. N) = N
  BY <1>1, FS_Interval
<1>5. IsFiniteSet(T) /\ Cardinality(T) <= N
  BY <1>3, <1>4, FS_Surjection
<1>6. IsFiniteSet(s.used) /\ Cardinality(s.used) <= Cardinality(T)
  BY <1>2, <1>5, FS_Subset
<1>7. Cardinality(s.used) \in Nat /\ Cardinality(T) \in Nat
  BY <1>5, <1>6, FS_CardinalityType
<1> QED
  BY <1>1, <1>5, <1>6, <1>7

\* Element k is found under x: x is its id, or what is remembered of x.
Reaches(s, k, x) == x = s.ids[k] \/ Remembers(s, x)
\* The ids of the first n elements are allowed, and nobody is lost with his id, nor with his name.
Named(s, n) ==
    /\ Core(s, n)
    /\ \A k \in DOMAIN original : k <= n =>
         /\ s.ids[k] \notin Bad
         /\ original[k].id # Nothing => s.ids[k] # Nothing /\ Reaches(s, k, original[k].id)
Told(s, n) ==
    \A k \in DOMAIN original : k <= n /\ original[k].name # Nothing =>
      s.ids[k] # Nothing /\ Reaches(s, k, original[k].name)

LEMMA IdStep ==
  ASSUME OriginalOK, NEW n \in DOMAIN original, NEW s, Named(s, n - 1), Told(s, n - 1)
  PROVE  Named(GivesId(s, original[n]), n) /\ Told(GivesId(s, original[n]), n - 1)
<1>1. n \in Nat /\ DOMAIN original \subseteq Nat /\ original[n].key = n
  BY DEF OriginalOK
<1>2. \A k \in DOMAIN original : (k <= n <=> k <= n - 1 \/ k = n) /\ (k > n => k > n - 1) /\ (k <= n - 1 => k # n)
  BY <1>1
<1>3. s.ids[n] = original[n].id /\ original[n].id \in OrNone(Ids)
  BY <1>1 DEF Named, Core, OriginalOK, Proper
<1>4. Core(s, n)
  <2>1. Core(s, n - 1)
    BY DEF Named
  <2> QED
    BY <1>2, <2>1 DEF Core
<1>5. CASE original[n].id \notin Bad
  <2>1. GivesId(s, original[n]) = s
    BY <1>5 DEF GivesId, Bad
  <2> QED
    BY <1>2, <1>3, <1>4, <1>5, <2>1 DEF Named, Told, Reaches
<1>6. CASE original[n].id \in Bad
  <2> DEFINE old == original[n].id
             new == UniqueId(old, s.used)
             t == Gives(s, original[n], old, new)
  <2>1. GivesId(s, original[n]) = t /\ old \in Ids /\ old # Nothing
    BY <1>6, RepairAssumption DEF GivesId, Bad
  <2>2. IsFiniteSet(s.used) /\ Cardinality(s.used) <= MaxElements
    BY <1>4, UsedIsSmall
  <2>3. new \notin s.used /\ new \in NameSet /\ new \notin Bad /\ new # Nothing
    BY <2>1, <2>2, UniqueIdIs
  <2>4. Calls(original[n], old) /\ s.ids[n] \in Bad \cup {Nothing}
    BY <1>3, <1>6, <2>1 DEF Calls
  <2> HIDE DEF old, new
  <2>5. /\ Core(t, n) /\ t.ids[n] = new
        /\ \A k \in DOMAIN original : k # n => t.ids[k] = s.ids[k]
        /\ old = new \/ Remembers(t, old)
        /\ \A x : Remembers(s, x) => Remembers(t, x)
    BY <1>4, <2>1, <2>3, <2>4, GivesKeeps
  <2> HIDE DEF t
  <2>6. Named(t, n)
    <3> SUFFICES ASSUME NEW k \in DOMAIN original, k <= n
                 PROVE  /\ t.ids[k] \notin Bad
                        /\ original[k].id # Nothing => t.ids[k] # Nothing /\ Reaches(t, k, original[k].id)
      BY <2>5 DEF Named
    <3>1. CASE k = n
      BY <2>3, <2>5, <3>1 DEF Reaches, old
    <3>2. CASE k # n
      <4>1. t.ids[k] = s.ids[k] /\ k <= n - 1
        BY <1>2, <2>5, <3>2
      <4> QED
        BY <2>5, <4>1 DEF Named, Reaches
    <3> QED
      BY <3>1, <3>2
  <2>7. Told(t, n - 1)
    <3> SUFFICES ASSUME NEW k \in DOMAIN original, k <= n - 1, original[k].name # Nothing
                 PROVE  t.ids[k] # Nothing /\ Reaches(t, k, original[k].name)
      BY DEF Told
    <3>1. t.ids[k] = s.ids[k]
      BY <1>2, <2>5
    <3> QED
      BY <2>5, <3>1 DEF Told, Reaches
  <2> QED
    BY <2>1, <2>6, <2>7
<1> QED
  BY <1>5, <1>6

LEMMA NameStep ==
  ASSUME OriginalOK, NEW n \in DOMAIN original, NEW s, Named(s, n), Told(s, n - 1)
  PROVE  Named(GivesName(kind, s, original[n]), n) /\ Told(GivesName(kind, s, original[n]), n)
<1>1. n \in Nat /\ DOMAIN original \subseteq Nat /\ original[n].key = n /\ Proper(original[n])
  BY DEF OriginalOK
<1>2. \A k \in DOMAIN original : k <= n <=> k <= n - 1 \/ k = n
  BY <1>1
<1>3. Core(s, n) /\ s.ids[n] \notin Bad
  BY <1>1 DEF Named
<1>4. CASE original[n].name = Nothing
  <2>1. GivesName(kind, s, original[n]) = s
    BY <1>4 DEF GivesName
  <2> QED
    BY <1>2, <1>4, <2>1 DEF Told
<1>5. CASE original[n].name # Nothing
  <2> DEFINE old == original[n].name
             new == IF s.ids[n] # Nothing THEN s.ids[n] ELSE UniqueId(old, s.used)
             t == Gives(s, original[n], old, new)
  <2>1. /\ GivesName(kind, s, original[n]) = t /\ old \in Ids /\ old # Nothing
        /\ kind = "page" /\ Calls(original[n], old)
    BY <1>1, <1>5 DEF GivesName, Proper, OrNone, Calls
  <2>2. IsFiniteSet(s.used) /\ Cardinality(s.used) <= MaxElements
    BY <1>3, UsedIsSmall
  <2>3. /\ new \in NameSet /\ new \notin Bad \cup {Nothing}
        /\ s.ids[n] = new \/ (s.ids[n] \in Bad \cup {Nothing} /\ new \notin s.used)
    <3>1. CASE s.ids[n] # Nothing
      <4>1. s.ids[n] \in NameSet
        BY <1>3 DEF Core, States
      <4> QED
        BY <1>3, <3>1, <4>1
    <3>2. CASE s.ids[n] = Nothing
      <4>1. new = UniqueId(old, s.used)
        BY <3>2
      <4> QED
        BY <2>1, <2>2, <3>2, <4>1, UniqueIdIs
    <3> QED
      BY <3>1, <3>2
  <2> HIDE DEF old, new
  <2>5. /\ Core(t, n) /\ t.ids[n] = new
        /\ \A k \in DOMAIN original : k # n => t.ids[k] = s.ids[k]
        /\ old = new \/ Remembers(t, old)
        /\ \A x : Remembers(s, x) => Remembers(t, x)
    BY <1>3, <2>1, <2>3, GivesKeeps
  <2> HIDE DEF t
  <2>6. Named(t, n)
    <3> SUFFICES ASSUME NEW k \in DOMAIN original, k <= n
                 PROVE  /\ t.ids[k] \notin Bad
                        /\ original[k].id # Nothing => t.ids[k] # Nothing /\ Reaches(t, k, original[k].id)
      BY <2>5 DEF Named
    <3>1. CASE k = n
      <4>1. original[n].id # Nothing => s.ids[n] # Nothing /\ Reaches(s, n, original[n].id)
        BY <1>1 DEF Named
      <4>2. original[n].id # Nothing => new = s.ids[n]
        BY <4>1 DEF new
      <4> QED
        BY <2>3, <2>5, <3>1, <4>1, <4>2 DEF Reaches
    <3>2. CASE k # n
      <4>1. t.ids[k] = s.ids[k]
        BY <2>5, <3>2
      <4> QED
        BY <2>5, <4>1 DEF Named, Reaches
    <3> QED
      BY <3>1, <3>2
  <2>7. Told(t, n)
    <3> SUFFICES ASSUME NEW k \in DOMAIN original, k <= n, original[k].name # Nothing
                 PROVE  t.ids[k] # Nothing /\ Reaches(t, k, original[k].name)
      BY DEF Told
    <3>1. CASE k = n
      BY <2>3, <2>5, <3>1 DEF Reaches, old
    <3>2. CASE k # n
      <4>1. t.ids[k] = s.ids[k] /\ k <= n - 1
        BY <1>2, <2>5, <3>2
      <4> QED
        BY <2>5, <4>1 DEF Told, Reaches
    <3> QED
      BY <3>1, <3>2
  <2> QED
    BY <2>1, <2>6, <2>7
<1> QED
  BY <1>4, <1>5

\* To begin with nobody has a new id. Ids differ if no two elements are called the same.
Different == \A j, k \in DOMAIN original : original[j].id = original[k].id /\ original[j].id # Nothing => j = k

LEMMA StartIs ==
  ASSUME OriginalOK, Different PROVE Named(Start(original), 0) /\ Told(Start(original), 0)
<1> DEFINE s == Start(original)
<1>1. /\ s.used = IdsOf(original) \cap Valid /\ s.rewritten = <<>>
      /\ s.ids = [i \in DOMAIN original |-> original[i].id]
      /\ s = [used |-> s.used, rewritten |-> s.rewritten, ids |-> s.ids]
  BY DEF Start
<1>2. DOMAIN original \subseteq Nat \ {0} /\ \A k \in DOMAIN original : original[k].id \in OrNone(Ids)
  BY DEF OriginalOK, Proper
<1> HIDE DEF s
<1>3. s.ids \in [DOMAIN original -> NameSet] /\ \A k \in DOMAIN original : s.ids[k] = original[k].id
  BY <1>1, <1>2, NamesIn
<1>4. Valid \subseteq Ids /\ Nothing \notin Ids
  BY RepairAssumption
<1>5. s.used = {s.ids[k] : k \in DOMAIN original} \ (Bad \cup {Nothing})
  <2>1. {s.ids[k] : k \in DOMAIN original} = {original[k].id : k \in DOMAIN original}
    BY <1>3
  <2> QED
    BY <1>1, <1>2, <1>4, <2>1 DEF IdsOf, Bad, OrNone
<1>6. s.used \subseteq NameSet /\ s.rewritten \in Seq(RewriteSet)
  BY <1>1, <1>4, NamesIn
<1>7. s \in States
  BY <1>1, <1>3, <1>6 DEF States
<1>8. Core(s, 0)
  BY <1>1, <1>3, <1>5, <1>7 DEF Core, Different
<1> QED
  BY <1>2, <1>8 DEF Named, Told, s

LEMMA AllNamed ==
  ASSUME OriginalOK, Different
  PROVE  Named(Renamed(kind, original), Len(original)) /\ Told(Renamed(kind, original), Len(original))
<1> DEFINE N == Len(original)
<1>1. N \in Nat /\ DOMAIN original = 1 .. N
  BY DEF OriginalOK
<1>2. PICK f : /\ f[0] = Start(original) /\ Renamed(kind, original) = f[N]
               /\ \A n \in 1 .. N : f[n] = Step(kind, f[n - 1], original[n])
  BY <1>1, RenamedIs
<1> HIDE DEF N
<1> DEFINE P == {n \in 0 .. N : Named(f[n], n) /\ Told(f[n], n)}
<1>3. 0 \in P
  BY <1>1, <1>2, StartIs
<1>4. ASSUME NEW n \in 1 .. N, n - 1 \in P PROVE n \in P
  <2>1. Named(f[n - 1], n - 1) /\ Told(f[n - 1], n - 1) /\ n \in DOMAIN original
    BY <1>1, <1>4
  <2>2. Named(GivesId(f[n - 1], original[n]), n) /\ Told(GivesId(f[n - 1], original[n]), n - 1)
    BY <2>1, IdStep
  <2>3. Named(f[n], n) /\ Told(f[n], n)
    <3>1. f[n] = GivesName(kind, GivesId(f[n - 1], original[n]), original[n])
      BY <1>2 DEF Step
    <3> QED
      BY <2>1, <2>2, <3>1, NameStep
  <2>4. n \in 0 .. N
    BY <1>1
  <2> QED
    BY <2>3, <2>4
<1>5. N \in P
  <2>1. N \in 0 .. N
    BY <1>1
  <2> HIDE DEF P
  <2> QED
    BY <1>1, <1>3, <1>4, <2>1, UpTo
<1> QED
  BY <1>2, <1>5 DEF N
-----------------------------------------------------------------------------
\* The function that PointsTo is defined by: f[n] is where the first n names lead.
Points2(f, map, value, m) ==
    f = [n \in 0 .. m |-> IF n = 0 THEN value ELSE IF f[n - 1] = map[n].old THEN map[n].new ELSE f[n - 1]]

LEMMA Points2Is ==
  ASSUME NEW m \in Nat, NEW f, NEW map, NEW value, Points2(f, map, value, m)
  PROVE  f[0] = value /\ \A n \in 1 .. m : f[n] = IF f[n - 1] = map[n].old THEN map[n].new ELSE f[n - 1]
<1>1. 0 \in 0 .. m /\ \A n \in 1 .. m : n \in 0 .. m /\ n # 0
  OBVIOUS
<1> QED
  BY <1>1 DEF Points2

LEMMA PointsToIs ==
  ASSUME NEW map \in Seq(RewriteSet), NEW value \in NameSet
  PROVE  \E f : /\ f[0] = value /\ PointsTo(map, value) = f[Len(map)]
                /\ \A n \in 1 .. Len(map) : f[n] = IF f[n - 1] = map[n].old THEN map[n].new ELSE f[n - 1]
<1> DEFINE m == Len(map)
           G == [x \in (1 .. m) \X NameSet |-> IF x[2] = map[x[1]].old THEN map[x[1]].new ELSE x[2]]
           all == CHOOSE f : Points2(f, map, value, m)
<1>1. m \in Nat /\ \A n \in 1 .. m : map[n].new \in NameSet
  <2>1. m \in Nat /\ \A n \in 1 .. m : map[n] \in RewriteSet
    OBVIOUS
  <2> QED
    BY <2>1 DEF RewriteSet
<1>2. \A n \in 1 .. m, a \in NameSet : (IF a = map[n].old THEN map[n].new ELSE a) \in NameSet
  BY <1>1
<1>3. /\ G \in [(1 .. m) \X NameSet -> NameSet]
      /\ \A n \in 1 .. m, a \in NameSet : G[<<n, a>>] = IF a = map[n].old THEN map[n].new ELSE a
  BY <1>2
<1>4. PointsTo(map, value) = all[m]
  BY DEF PointsTo, Points2
<1> HIDE DEF m, G, all
<1>5. PICK f \in [0 .. m -> NameSet] : Recurs(f, value, G, m)
  BY <1>1, <1>3, RecursionIs
<1>6. f[0] = value /\ \A n \in 1 .. m : f[n] = IF f[n - 1] = map[n].old THEN map[n].new ELSE f[n - 1]
  <2>1. \A n \in 1 .. m : f[n - 1] \in NameSet
    BY <1>1
  <2> QED
    BY <1>3, <1>5, <2>1 DEF Recurs
<1>7. Points2(f, map, value, m)
  <2> DEFINE g == [n \in 0 .. m |-> IF n = 0 THEN value ELSE IF f[n - 1] = map[n].old THEN map[n].new ELSE f[n - 1]]
  <2>1. \A n \in 0 .. m : f[n] = g[n]
    <3>1. \A n \in 0 .. m : n = 0 \/ n \in 1 .. m
      BY <1>1
    <3>2. \A n \in 0 .. m : g[n] = IF n = 0 THEN value ELSE IF f[n - 1] = map[n].old THEN map[n].new ELSE f[n - 1]
      OBVIOUS
    <3> HIDE DEF g
    <3> QED
      BY <3>1, <3>2, <1>6
  <2>2. f = [n \in 0 .. m |-> f[n]] /\ g = [n \in 0 .. m |-> g[n]]
    OBVIOUS
  <2>3. f = g
    <3> HIDE DEF g
    <3> QED
      BY <2>1, <2>2
  <2> QED
    BY <2>3 DEF Points2
<1>8. Points2(all, map, value, m)
  BY <1>7 DEF all
<1> QED
  BY <1>1, <1>4, <1>8, Points2Is DEF m

\* Where a name leads that has become another, which itself leads nowhere.
LEMMA Followed ==
  ASSUME NEW map \in Seq(RewriteSet), NEW x \in NameSet, NEW y,
         \A i \in DOMAIN map : (map[i].old = x => map[i].new = y) /\ map[i].old # y,
         x = y \/ \E i \in DOMAIN map : map[i].old = x
  PROVE  PointsTo(map, x) = y
<1> DEFINE m == Len(map)
<1>1. m \in Nat /\ DOMAIN map = 1 .. m
  OBVIOUS
<1>2. PICK f : /\ f[0] = x /\ PointsTo(map, x) = f[m]
               /\ \A n \in 1 .. m : f[n] = IF f[n - 1] = map[n].old THEN map[n].new ELSE f[n - 1]
  BY PointsToIs
<1> DEFINE P == {n \in 0 .. m : f[n] \in {x, y} /\ ((\E i \in 1 .. n : map[i].old = x) => f[n] = y)}
<1> HIDE DEF m
<1>3. 0 \in P
  BY <1>1, <1>2
<1>4. ASSUME NEW n \in 1 .. m, n - 1 \in P PROVE n \in P
  <2>1. /\ n \in DOMAIN map /\ n \in 0 .. m /\ \A i \in 1 .. n : i = n \/ i \in 1 .. n - 1
    BY <1>1
  <2>2. f[n - 1] \in {x, y} /\ ((\E i \in 1 .. n - 1 : map[i].old = x) => f[n - 1] = y)
    BY <1>4
  <2>3. f[n] = IF f[n - 1] = map[n].old THEN map[n].new ELSE f[n - 1]
    BY <1>2
  <2>4. (map[n].old = x => map[n].new = y) /\ map[n].old # y
    BY <2>1
  <2>5. f[n] \in {x, y} /\ ((\E i \in 1 .. n : map[i].old = x) => f[n] = y)
    BY <2>1, <2>2, <2>3, <2>4
  <2> QED
    BY <2>1, <2>5
<1>5. m \in P
  <2>1. m \in 0 .. m
    BY <1>1
  <2> HIDE DEF P
  <2> QED
    BY <1>1, <1>3, <1>4, <2>1, UpTo
<1> QED
  BY <1>1, <1>2, <1>5

-----------------------------------------------------------------------------
\* Text replaced within text: ReplaceText goes through a value character by character.
Passed == [out : Strings, skip : Nat]
Advance(s, value, old, new, n) ==
    IF s.skip > 0 THEN [s EXCEPT !.skip = @ - 1]
    ELSE IF Begins(old, value, n) THEN [out |-> s.out \o new, skip |-> Len(old) - 1]
    ELSE [s EXCEPT !.out = Append(@, value[n])]
Advances(f, value, old, new, m) ==
    f = [n \in 0 .. m |-> IF n = 0 THEN [out |-> <<>>, skip |-> 0] ELSE Advance(f[n - 1], value, old, new, n)]

LEMMA AdvanceIs ==
  ASSUME NEW s \in Passed, NEW value \in Strings, NEW old \in Strings \ {Nothing}, NEW new \in Strings,
         NEW n \in 1 .. Len(value)
  PROVE  /\ Advance(s, value, old, new, n) \in Passed
         /\ s.skip > 0 => /\ Advance(s, value, old, new, n).out = s.out
                          /\ Advance(s, value, old, new, n).skip = s.skip - 1
         /\ s.skip = 0 /\ Begins(old, value, n) => /\ Advance(s, value, old, new, n).out = s.out \o new
                                                   /\ Advance(s, value, old, new, n).skip = Len(old) - 1
         /\ s.skip = 0 /\ ~Begins(old, value, n) =>
              /\ Advance(s, value, old, new, n).out = Append(s.out, value[n])
              /\ Advance(s, value, old, new, n).skip = 0
<1>1. s.out \in Strings /\ s.skip \in Nat /\ s = [out |-> s.out, skip |-> s.skip]
  BY DEF Passed
<1>2. Len(old) \in Nat /\ Len(old) # 0
  BY DEF Strings, Nothing
<1>3. value[n] \in Signs
  BY DEF Strings
<1>4. Append(s.out, value[n]) \in Strings /\ s.out \o new \in Strings
  BY <1>1, <1>3 DEF Strings
<1>4a. \A x : x \in Strings => [s EXCEPT !.out = x] = [out |-> x, skip |-> s.skip]
  BY <1>1
<1>5. CASE s.skip > 0
  <2>1. Advance(s, value, old, new, n) = [s EXCEPT !.skip = s.skip - 1]
    BY <1>5 DEF Advance
  <2>2. s.skip - 1 \in Nat
    BY <1>1, <1>5
  <2> QED
    BY <1>1, <1>5, <2>1, <2>2 DEF Passed
<1>6. CASE s.skip = 0 /\ Begins(old, value, n)
  <2>1. Advance(s, value, old, new, n) = [out |-> s.out \o new, skip |-> Len(old) - 1]
    BY <1>6 DEF Advance
  <2> QED
    BY <1>2, <1>4, <1>6, <2>1 DEF Passed
<1>7. CASE s.skip = 0 /\ ~Begins(old, value, n)
  <2>1. Advance(s, value, old, new, n) = [s EXCEPT !.out = Append(s.out, value[n])]
    BY <1>7 DEF Advance
  <2>2. Advance(s, value, old, new, n) = [out |-> Append(s.out, value[n]), skip |-> s.skip]
    BY <1>4, <1>4a, <2>1
  <2> QED
    BY <1>1, <1>4, <1>7, <2>2 DEF Passed
<1> QED
  BY <1>1, <1>5, <1>6, <1>7

LEMMA ReplaceTextIs ==
  ASSUME NEW value \in Strings, NEW old \in Strings \ {Nothing}, NEW new \in Strings
  PROVE  \E f \in [0 .. Len(value) -> Passed] :
           /\ f[0] = [out |-> <<>>, skip |-> 0] /\ ReplaceText(value, old, new) = f[Len(value)].out
           /\ \A n \in 1 .. Len(value) : f[n] = Advance(f[n - 1], value, old, new, n)
<1> DEFINE m == Len(value)
           first == [out |-> <<>>, skip |-> 0]
           G == [x \in (1 .. m) \X Passed |-> Advance(x[2], value, old, new, x[1])]
           all == CHOOSE f : Advances(f, value, old, new, m)
<1>1. m \in Nat /\ first \in Passed
  BY DEF Passed, Strings
<1>2. /\ G \in [(1 .. m) \X Passed -> Passed]
      /\ \A n \in 1 .. m, a \in Passed : G[<<n, a>>] = Advance(a, value, old, new, n)
  BY AdvanceIs
<1>3. ReplaceText(value, old, new) = all[m].out
  BY DEF ReplaceText, Advances, Advance
<1>3a. first = [out |-> <<>>, skip |-> 0]
  OBVIOUS
<1> HIDE DEF m, G, all, first
<1>4. PICK f \in [0 .. m -> Passed] : Recurs(f, first, G, m)
  BY <1>1, <1>2, RecursionIs
<1>5. f[0] = first /\ \A n \in 1 .. m : f[n] = Advance(f[n - 1], value, old, new, n)
  <2>1. \A n \in 1 .. m : f[n - 1] \in Passed
    BY <1>1
  <2> QED
    BY <1>2, <1>4, <2>1 DEF Recurs
<1>6. Advances(f, value, old, new, m)
  <2> DEFINE g == [n \in 0 .. m |-> IF n = 0 THEN first ELSE Advance(f[n - 1], value, old, new, n)]
  <2>1. \A n \in 0 .. m : f[n] = g[n]
    <3>1. \A n \in 0 .. m : n = 0 \/ n \in 1 .. m
      BY <1>1
    <3>2. \A n \in 0 .. m : g[n] = IF n = 0 THEN first ELSE Advance(f[n - 1], value, old, new, n)
      OBVIOUS
    <3> HIDE DEF g
    <3> QED
      BY <3>1, <3>2, <1>5
  <2>2. f = [n \in 0 .. m |-> f[n]] /\ g = [n \in 0 .. m |-> g[n]]
    OBVIOUS
  <2>3. f = g
    <3> HIDE DEF g
    <3> QED
      BY <2>1, <2>2
  <2> QED
    BY <1>3a, <2>3 DEF Advances
<1>7. Advances(all, value, old, new, m)
  BY <1>6 DEF all
<1>8. all = f
  <2>1. /\ 0 \in 0 .. m /\ \A n \in 1 .. m : n \in 0 .. m /\ n # 0
    BY <1>1
  <2>2. all[0] = f[0] /\ \A n \in 1 .. m : all[n] = Advance(all[n - 1], value, old, new, n)
    BY <1>3a, <1>5, <1>7, <2>1 DEF Advances
  <2>3. ASSUME NEW n \in 0 .. m PROVE all[n] = f[n]
    <3> DEFINE P == {k \in 0 .. m : all[k] = f[k]}
    <3>1. 0 \in P
      BY <2>1, <2>2
    <3>2. \A k \in 1 .. m : k - 1 \in P => k \in P
      BY <1>5, <2>1, <2>2
    <3>3. n \in P
      <4> HIDE DEF P
      <4> QED
        BY <1>1, <2>3, <3>1, <3>2, UpTo
    <3> QED
      BY <3>3
  <2>4. all = [n \in 0 .. m |-> all[n]] /\ f = [n \in 0 .. m |-> f[n]]
    BY <1>7 DEF Advances
  <2> QED
    BY <2>3, <2>4
<1> QED
  BY <1>1, <1>3, <1>3a, <1>5, <1>8 DEF m

LEMMA ReplacedIn ==
  ASSUME NEW value \in Strings, NEW old \in Strings \ {Nothing}, NEW new \in Strings
  PROVE  ReplaceText(value, old, new) \in Strings
<1>1. PICK f \in [0 .. Len(value) -> Passed] : ReplaceText(value, old, new) = f[Len(value)].out
  BY ReplaceTextIs
<1>2. Len(value) \in 0 .. Len(value)
  BY DEF Strings
<1>3. f[Len(value)] \in Passed
  BY <1>2
<1> QED
  BY <1>1, <1>3 DEF Passed

\* What is not found is not replaced.
LEMMA NotFound ==
  ASSUME NEW value \in Strings, NEW old \in Strings \ {Nothing}, NEW new \in Strings, ~Includes(value, old)
  PROVE  ReplaceText(value, old, new) = value
<1> DEFINE m == Len(value)
<1>1. PICK f \in [0 .. m -> Passed] :
        /\ f[0] = [out |-> <<>>, skip |-> 0] /\ ReplaceText(value, old, new) = f[m].out
        /\ \A n \in 1 .. m : f[n] = Advance(f[n - 1], value, old, new, n)
  BY ReplaceTextIs
<1>2. m \in Nat /\ DOMAIN value = 1 .. m /\ value \in Seq(Signs)
  BY DEF Strings
<1>3. \A n \in 1 .. m : ~Begins(old, value, n)
  BY <1>2 DEF Includes
<1> DEFINE P == {n \in 0 .. m : f[n].out = SubSeq(value, 1, n) /\ f[n].skip = 0}
<1>4. 0 \in P
  <2>1. SubSeq(value, 1, 0) = <<>> /\ 0 \in 0 .. m
    BY <1>2
  <2>2. f[0].out = <<>> /\ f[0].skip = 0
    BY <1>1
  <2> HIDE DEF m
  <2> QED
    BY <2>1, <2>2
<1> HIDE DEF m
<1>5. ASSUME NEW n \in 1 .. m, n - 1 \in P PROVE n \in P
  <2>1. n - 1 \in 0 .. m /\ n \in 0 .. m /\ n \in 1 .. Len(value)
    BY <1>2 DEF m
  <2>2. f[n - 1] \in Passed /\ f[n - 1].out = SubSeq(value, 1, n - 1) /\ f[n - 1].skip = 0
    BY <1>5, <2>1
  <2>3. f[n].out = Append(SubSeq(value, 1, n - 1), value[n]) /\ f[n].skip = 0
    <3>1. f[n] = Advance(f[n - 1], value, old, new, n)
      BY <1>1
    <3>2. ~Begins(old, value, n)
      BY <1>3
    <3>3. /\ Advance(f[n - 1], value, old, new, n).out = Append(f[n - 1].out, value[n])
          /\ Advance(f[n - 1], value, old, new, n).skip = 0
      <4> DEFINE g == f[n - 1]
      <4>1. g \in Passed /\ g.skip = 0
        BY <2>2
      <4> HIDE DEF g
      <4>2. /\ Advance(g, value, old, new, n).out = Append(g.out, value[n])
            /\ Advance(g, value, old, new, n).skip = 0
        BY <2>1, <3>2, <4>1, AdvanceIs
      <4> QED
        BY <4>2 DEF g
    <3> QED
      BY <2>2, <3>1, <3>3
  <2>4. Append(SubSeq(value, 1, n - 1), value[n]) = SubSeq(value, 1, n)
    BY <1>2, <2>1
  <2> QED
    BY <2>1, <2>3, <2>4
<1>6. m \in P
  <2>1. m \in 0 .. m
    BY <1>2
  <2> HIDE DEF P
  <2> QED
    BY <1>2, <1>4, <1>5, <2>1, UpTo
<1>7. SubSeq(value, 1, m) = value
  BY <1>2 DEF m
<1> QED
  BY <1>1, <1>6, <1>7

\* What is all there is is replaced.
LEMMA FoundWhole ==
  ASSUME NEW old \in Strings \ {Nothing}, NEW new \in Strings
  PROVE  ReplaceText(old, old, new) = new
<1> DEFINE m == Len(old)
<1>1. PICK f \in [0 .. m -> Passed] :
        /\ f[0] = [out |-> <<>>, skip |-> 0] /\ ReplaceText(old, old, new) = f[m].out
        /\ \A n \in 1 .. m : f[n] = Advance(f[n - 1], old, old, new, n)
  BY ReplaceTextIs
<1>2. m \in Nat /\ m # 0 /\ old \in Seq(Signs)
  BY DEF Strings, Nothing
<1>3. Begins(old, old, 1)
  BY <1>2 DEF Begins
<1> HIDE DEF m
<1> DEFINE P == {n \in 0 .. m : n > 0 => f[n].out = new /\ f[n].skip = m - n}
<1>4. 0 \in P
  BY <1>2
<1>5. ASSUME NEW n \in 1 .. m, n - 1 \in P PROVE n \in P
  <2>1. n - 1 \in 0 .. m /\ n \in 0 .. m /\ n \in 1 .. Len(old) /\ f[n - 1] \in Passed
    BY <1>2 DEF m
  <2>2. f[n] = Advance(f[n - 1], old, old, new, n)
    BY <1>1
  <2>3. CASE n = 1
    <3>1. f[n - 1].out = <<>> /\ f[n - 1].skip = 0
      BY <1>1, <2>3
    <3>2. f[n].out = <<>> \o new /\ f[n].skip = m - 1
      <4>1. Begins(old, old, n) /\ m = Len(old)
        BY <1>3, <2>3 DEF m
      <4>2. /\ Advance(f[n - 1], old, old, new, n).out = f[n - 1].out \o new
            /\ Advance(f[n - 1], old, old, new, n).skip = Len(old) - 1
        <5> DEFINE g == f[n - 1]
        <5>1. g \in Passed /\ g.skip = 0
          BY <2>1, <3>1
        <5> HIDE DEF g
        <5>2. /\ Advance(g, old, old, new, n).out = g.out \o new
              /\ Advance(g, old, old, new, n).skip = Len(old) - 1
          BY <2>1, <4>1, <5>1, AdvanceIs
        <5> QED
          BY <5>2 DEF g
      <4> QED
        BY <2>2, <3>1, <4>1, <4>2
    <3>3. <<>> \o new = new
      BY DEF Strings
    <3> QED
      BY <2>1, <2>3, <3>2, <3>3
  <2>4. CASE n # 1
    <3>1. f[n - 1].out = new /\ f[n - 1].skip = m - (n - 1) /\ m - (n - 1) > 0
      BY <1>2, <1>5, <2>4
    <3>2. f[n].out = f[n - 1].out /\ f[n].skip = f[n - 1].skip - 1
      BY <2>1, <2>2, <3>1, AdvanceIs
    <3>3. m - (n - 1) - 1 = m - n
      BY <1>2
    <3> QED
      BY <2>1, <3>1, <3>2, <3>3
  <2> QED
    BY <2>3, <2>4
<1>6. m \in P
  <2>1. m \in 0 .. m
    BY <1>2
  <2> HIDE DEF P
  <2> QED
    BY <1>2, <1>4, <1>5, <2>1, UpTo
<1> QED
  BY <1>1, <1>2, <1>6

LEMMA Itself == ASSUME NEW x \in Strings \ {Nothing} PROVE Includes(x, x)
<1>1. x \in Seq(Signs) /\ Len(x) \in Nat /\ Len(x) # 0
  BY DEF Strings, Nothing
<1>2. 1 \in DOMAIN x /\ Begins(x, x, 1)
  BY <1>1 DEF Begins
<1> QED
  BY <1>2 DEF Includes

\* Pairs of texts replaced one after the other.
PairSet == [old : Strings \ {Nothing}, new : Strings]
Altered(v, pair) == IF pair.old = pair.new THEN v ELSE ReplaceText(v, pair.old, pair.new)
Alters(f, value, pairs, m) ==
    f = [n \in 0 .. m |-> IF n = 0 THEN value ELSE Altered(f[n - 1], pairs[n])]

LEMMA AltersIs ==
  ASSUME NEW m \in Nat, NEW f, NEW value, NEW pairs, Alters(f, value, pairs, m)
  PROVE  f[0] = value /\ \A n \in 1 .. m : f[n] = Altered(f[n - 1], pairs[n])
<1>1. 0 \in 0 .. m /\ \A n \in 1 .. m : n \in 0 .. m /\ n # 0
  OBVIOUS
<1> QED
  BY <1>1 DEF Alters

LEMMA RewrittenIs ==
  ASSUME NEW pairs \in Seq(PairSet), NEW value \in Strings
  PROVE  \E f : /\ f[0] = value /\ Rewritten(value, pairs) = f[Len(pairs)]
                /\ \A n \in 1 .. Len(pairs) : f[n - 1] \in Strings => f[n] \in Strings
                /\ \A n \in 1 .. Len(pairs) : f[n] = Altered(f[n - 1], pairs[n])
<1> DEFINE m == Len(pairs)
           G == [x \in (1 .. m) \X Strings |-> Altered(x[2], pairs[x[1]])]
           all == CHOOSE f : Alters(f, value, pairs, m)
<1>1. m \in Nat /\ \A n \in 1 .. m : pairs[n] \in PairSet
  OBVIOUS
<1>2. \A n \in 1 .. m, a \in Strings : Altered(a, pairs[n]) \in Strings
  BY <1>1, ReplacedIn DEF PairSet, Altered
<1>3. /\ G \in [(1 .. m) \X Strings -> Strings]
      /\ \A n \in 1 .. m, a \in Strings : G[<<n, a>>] = Altered(a, pairs[n])
  BY <1>2
<1>4. Rewritten(value, pairs) = all[m]
  BY DEF Rewritten, Alters, Altered
<1> HIDE DEF m, G, all
<1>5. PICK f \in [0 .. m -> Strings] : Recurs(f, value, G, m)
  BY <1>1, <1>3, RecursionIs
<1>6. f[0] = value /\ \A n \in 1 .. m : f[n] = Altered(f[n - 1], pairs[n])
  <2>1. \A n \in 1 .. m : f[n - 1] \in Strings
    BY <1>1
  <2> QED
    BY <1>3, <1>5, <2>1 DEF Recurs
<1>7. Alters(f, value, pairs, m)
  <2> DEFINE g == [n \in 0 .. m |-> IF n = 0 THEN value ELSE Altered(f[n - 1], pairs[n])]
  <2>1. \A n \in 0 .. m : f[n] = g[n]
    <3>1. \A n \in 0 .. m : n = 0 \/ n \in 1 .. m
      BY <1>1
    <3>2. \A n \in 0 .. m : g[n] = IF n = 0 THEN value ELSE Altered(f[n - 1], pairs[n])
      OBVIOUS
    <3> HIDE DEF g
    <3> QED
      BY <3>1, <3>2, <1>6
  <2>2. f = [n \in 0 .. m |-> f[n]] /\ g = [n \in 0 .. m |-> g[n]]
    OBVIOUS
  <2>3. f = g
    <3> HIDE DEF g
    <3> QED
      BY <2>1, <2>2
  <2> QED
    BY <2>3 DEF Alters
<1>8. Alters(all, value, pairs, m)
  BY <1>7 DEF all
<1>9. all[0] = value /\ \A n \in 1 .. m : all[n] = Altered(all[n - 1], pairs[n])
  BY <1>1, <1>8, AltersIs
<1>10. \A n \in 1 .. m : all[n - 1] \in Strings => all[n] \in Strings
  BY <1>2, <1>9
<1> QED
  BY <1>4, <1>9, <1>10 DEF m

LEMMA RewrittenIn ==
  ASSUME NEW pairs \in Seq(PairSet), NEW value \in Strings PROVE Rewritten(value, pairs) \in Strings
<1> DEFINE m == Len(pairs)
<1>1. PICK f : /\ f[0] = value /\ Rewritten(value, pairs) = f[m]
               /\ \A n \in 1 .. m : f[n - 1] \in Strings => f[n] \in Strings
  BY RewrittenIs
<1>2. m \in Nat
  OBVIOUS
<1> HIDE DEF m
<1> DEFINE P == {n \in 0 .. m : f[n] \in Strings}
<1>3. 0 \in P /\ \A n \in 1 .. m : n - 1 \in P => n \in P
  BY <1>1, <1>2
<1>4. m \in P
  <2>1. m \in 0 .. m
    BY <1>2
  <2> HIDE DEF P
  <2> QED
    BY <1>2, <1>3, <2>1, UpTo
<1> QED
  BY <1>1, <1>4

\* A text that holds none of what is replaced, or is as a whole replaced by a text that holds none.
LEMMA Arrives ==
  ASSUME NEW pairs \in Seq(PairSet), NEW x \in Strings, NEW Y, Y \subseteq Strings,
         \A i \in DOMAIN pairs : pairs[i].old # pairs[i].new =>
           /\ Includes(x, pairs[i].old) => x = pairs[i].old /\ pairs[i].new \in Y
           /\ \A y \in Y : ~Includes(y, pairs[i].old),
         x \in Y \/ \E i \in DOMAIN pairs : pairs[i].old # pairs[i].new /\ pairs[i].old = x
  PROVE  Rewritten(x, pairs) \in Y
<1> DEFINE m == Len(pairs)
           Met(i) == pairs[i].old # pairs[i].new /\ pairs[i].old = x
<1>1. m \in Nat /\ DOMAIN pairs = 1 .. m /\ \A n \in 1 .. m : pairs[n] \in PairSet
  OBVIOUS
<1>2. PICK f : /\ f[0] = x /\ Rewritten(x, pairs) = f[m]
               /\ \A n \in 1 .. m : f[n] = Altered(f[n - 1], pairs[n])
  BY RewrittenIs
<1> DEFINE P == {n \in 0 .. m : f[n] \in Y \cup {x} /\ ((x \in Y \/ \E i \in 1 .. n : Met(i)) => f[n] \in Y)}
<1> HIDE DEF m
<1>3. 0 \in P
  BY <1>1, <1>2
<1>4. ASSUME NEW n \in 1 .. m, n - 1 \in P PROVE n \in P
  <2>1. n \in DOMAIN pairs /\ n \in 0 .. m /\ pairs[n] \in PairSet
    BY <1>1
  <2>2. \A i \in 1 .. n : i = n \/ i \in 1 .. n - 1
    BY <1>1
  <2>3. f[n - 1] \in Y \cup {x} /\ ((x \in Y \/ \E i \in 1 .. n - 1 : Met(i)) => f[n - 1] \in Y)
    BY <1>4
  <2>4. f[n] = Altered(f[n - 1], pairs[n]) /\ f[n - 1] \in Strings
    BY <1>2, <2>3
  <2>5. pairs[n].old \in Strings \ {Nothing} /\ pairs[n].new \in Strings
    BY <2>1 DEF PairSet
  <2>6. CASE pairs[n].old = pairs[n].new
    <3>1. f[n] = f[n - 1] /\ ~Met(n)
      BY <2>4, <2>6 DEF Altered
    <3> QED
      BY <2>1, <2>2, <2>3, <3>1
  <2>7. CASE pairs[n].old # pairs[n].new /\ ~Includes(f[n - 1], pairs[n].old)
    <3>1. f[n] = f[n - 1]
      BY <2>4, <2>5, <2>7, NotFound DEF Altered
    <3>2. f[n - 1] = x => ~Met(n)
      BY <2>5, <2>7, Itself
    <3> QED
      BY <2>1, <2>2, <2>3, <3>1, <3>2
  <2>8. CASE pairs[n].old # pairs[n].new /\ Includes(f[n - 1], pairs[n].old)
    <3>1. f[n - 1] = x /\ x = pairs[n].old /\ pairs[n].new \in Y
      BY <2>1, <2>3, <2>8
    <3>2. f[n] = pairs[n].new
      BY <2>4, <2>5, <2>8, <3>1, FoundWhole DEF Altered
    <3> QED
      BY <2>1, <3>1, <3>2
  <2> QED
    BY <2>6, <2>7, <2>8
<1>5. m \in P
  <2>1. m \in 0 .. m
    BY <1>1
  <2> HIDE DEF P
  <2> QED
    BY <1>1, <1>3, <1>4, <2>1, UpTo
<1> QED
  BY <1>1, <1>2, <1>5

\* A fragment is what it points to.
LEMMA FragmentIs ==
  ASSUME NEW x \in NameSet, NEW y \in NameSet, Fragment(x) = Fragment(y) PROVE x = y
<1>1. x \in Seq(Signs) /\ y \in Seq(Signs) /\ <<"#">> \in Seq(Signs) /\ Len(<<"#">>) = 1
  BY StringsIn DEF Strings, Signs
<1>2. Len(Fragment(x)) = 1 + Len(x) /\ Len(Fragment(y)) = 1 + Len(y) /\ Len(x) \in Nat /\ Len(y) \in Nat
  BY <1>1 DEF Fragment
<1>3. Len(x) = Len(y)
  BY <1>2
<1>4. ASSUME NEW i \in 1 .. Len(x) PROVE x[i] = y[i]
  <2>1. Fragment(x)[i + 1] = x[i] /\ Fragment(y)[i + 1] = y[i]
    BY <1>1, <1>2, <1>3 DEF Fragment
  <2> QED
    BY <2>1
<1>5. x = [i \in 1 .. Len(x) |-> x[i]] /\ y = [i \in 1 .. Len(y) |-> y[i]]
  BY <1>1
<1> QED
  BY <1>3, <1>4, <1>5

LEMMA FragmentPairsAre ==
  ASSUME NEW map \in Seq(RewriteSet)
  PROVE  /\ FragmentPairs(map) \in Seq(PairSet) /\ DOMAIN FragmentPairs(map) = DOMAIN map
         /\ \A i \in DOMAIN map : /\ FragmentPairs(map)[i].old = Fragment(map[i].old)
                                  /\ FragmentPairs(map)[i].new = Fragment(map[i].new)
<1> DEFINE all == FragmentPairs(map)
<1>1. Len(map) \in Nat /\ DOMAIN map = 1 .. Len(map)
  OBVIOUS
<1>2. all = [i \in 1 .. Len(map) |-> [old |-> Fragment(map[i].old), new |-> Fragment(map[i].new)]]
  BY <1>1 DEF FragmentPairs
<1>3. ASSUME NEW i \in 1 .. Len(map)
      PROVE  [old |-> Fragment(map[i].old), new |-> Fragment(map[i].new)] \in PairSet
  <2>1. map[i] \in RewriteSet
    OBVIOUS
  <2> QED
    BY <2>1, StringsIn DEF RewriteSet, PairSet
<1>4. all = [i \in 1 .. Len(map) |-> all[i]] /\ \A i \in 1 .. Len(map) : all[i] \in PairSet
  BY <1>2, <1>3
<1>5. DOMAIN all = DOMAIN map
  BY <1>1, <1>2
<1>6. \A i \in DOMAIN map : all[i].old = Fragment(map[i].old) /\ all[i].new = Fragment(map[i].new)
  BY <1>1, <1>2
<1> HIDE DEF all
<1>7. all \in Seq(PairSet)
  BY <1>1, <1>4, ListIs
<1> QED
  BY <1>5, <1>6, <1>7 DEF all

LEMMA PlainIs ==
  ASSUME OriginalOK, Plain, NEW j \in DOMAIN original, NEW k \in DOMAIN original,
         NEW x, Calls(original[j], x), Calls(original[k], x)
  PROVE  j = k /\ x \in Ids
<1>1. x \in Ids
  BY DEF Calls, OriginalOK, Proper, OrNone
<1> DEFINE T == Target(original, x)
           N == Len(original)
<1>2. N \in Nat /\ DOMAIN original = 1 .. N /\ original[j].key = j /\ original[k].key = k
  BY DEF OriginalOK
<1>3. j \in T /\ k \in T /\ T \subseteq 1 .. N
  BY <1>2 DEF Target, OriginalOK
<1>4. Cardinality(T) <= 1
  BY <1>1 DEF Plain
<1> HIDE DEF T, N
<1>5. IsFiniteSet(1 .. N)
  BY <1>2, FS_Interval
<1>6. IsFiniteSet(T)
  BY <1>3, <1>5, FS_Subset
<1>7. Cardinality(T) \in Nat
  BY <1>6, FS_CardinalityType
<1>8. Cardinality(T) # 0
  BY <1>3, <1>6, FS_EmptySet
<1>9. Cardinality(T) = 1
  BY <1>4, <1>7, <1>8
<1>10. \E q : T = {q}
  BY <1>6, <1>9, FS_Singleton
<1> QED
  BY <1>1, <1>3, <1>10

LEMMA PlainDiffers == ASSUME OriginalOK, Plain PROVE Different
<1> SUFFICES ASSUME NEW j \in DOMAIN original, NEW k \in DOMAIN original,
                    original[j].id = original[k].id, original[j].id # Nothing
             PROVE  j = k
  BY DEF Different
<1>1. Calls(original[j], original[j].id) /\ Calls(original[k], original[j].id)
  BY DEF Calls
<1> QED
  BY <1>1, PlainIs

\* What the names lead to, when no new one was an old one of another element.
Settled(s) ==
    /\ s.rewritten \in Seq(RewriteSet) /\ s.ids \in [DOMAIN original -> NameSet]
    /\ PointsTo(s.rewritten, Nothing) = Nothing
    /\ \A k \in DOMAIN original : PointsTo(s.rewritten, s.ids[k]) = s.ids[k] /\ s.ids[k] \notin Bad
    /\ \A k \in DOMAIN original : \A x : Calls(original[k], x) =>
         s.ids[k] # Nothing /\ PointsTo(s.rewritten, x) = s.ids[k]
    /\ \A j, k \in DOMAIN original : s.ids[j] = s.ids[k] /\ s.ids[j] # Nothing => j = k
    /\ \A i \in DOMAIN s.rewritten, k \in DOMAIN original :
         s.rewritten[i].old # s.ids[k] /\ (Calls(original[k], s.rewritten[i].old) => s.rewritten[i].new = s.ids[k])
    /\ \A k \in DOMAIN original : \A x : Calls(original[k], x) => x = s.ids[k] \/ Remembers(s, x)

LEMMA AllSettled ==
  ASSUME OriginalOK, Plain, NothingPassedOn PROVE Settled(Renamed(kind, original))
<1> DEFINE s == Renamed(kind, original)
           N == Len(original)
<1>1. Named(s, N) /\ Told(s, N)
  BY PlainDiffers, AllNamed
<1>2. \A i, j \in DOMAIN original : i # j /\ s.ids[i] # Nothing => s.ids[i] \notin {original[j].id, original[j].name}
  BY DEF NothingPassedOn
<1>3. \A k \in DOMAIN original : k <= N
  BY DEF OriginalOK
<1> HIDE DEF s, N
<1>4. /\ s.rewritten \in Seq(RewriteSet) /\ s.ids \in [DOMAIN original -> NameSet]
      /\ \A j, k \in DOMAIN original : s.ids[j] = s.ids[k] /\ s.ids[j] # Nothing => j = k
      /\ \A k \in DOMAIN original : s.ids[k] \notin Bad
      /\ \A i \in DOMAIN s.rewritten :
           /\ s.rewritten[i].old # s.rewritten[i].new
           /\ \E k \in DOMAIN original : Calls(original[k], s.rewritten[i].old) /\ s.ids[k] = s.rewritten[i].new
  <2>1. Core(s, N)
    BY <1>1 DEF Named
  <2>2. s.rewritten \in Seq(RewriteSet) /\ s.ids \in [DOMAIN original -> NameSet]
    BY <2>1 DEF Core, States
  <2>3. \A k \in DOMAIN original : s.ids[k] \notin Bad
    BY <1>1, <1>3 DEF Named
  <2> QED
    BY <2>1, <2>2, <2>3 DEF Core
<1>5. \A i \in DOMAIN s.rewritten : s.rewritten[i].old # Nothing
  BY <1>4 DEF Calls
<1>6. ASSUME NEW k \in DOMAIN original, NEW i \in DOMAIN s.rewritten PROVE s.rewritten[i].old # s.ids[k]
  <2> SUFFICES ASSUME s.rewritten[i].old = s.ids[k] PROVE FALSE
    OBVIOUS
  <2>1. PICK j \in DOMAIN original : Calls(original[j], s.ids[k]) /\ s.ids[j] = s.rewritten[i].new
    BY <1>4
  <2>2. s.ids[k] # Nothing /\ s.ids[k] \in {original[j].id, original[j].name}
    BY <2>1 DEF Calls
  <2>3. CASE j = k
    BY <1>4, <2>1, <2>3
  <2>4. CASE j # k
    BY <1>2, <2>2, <2>4
  <2> QED
    BY <2>3, <2>4
<1>7. PointsTo(s.rewritten, Nothing) = Nothing
  <2>1. \A i \in DOMAIN s.rewritten : /\ s.rewritten[i].old = Nothing => s.rewritten[i].new = Nothing
                                     /\ s.rewritten[i].old # Nothing
    BY <1>5
  <2>2. s.rewritten \in Seq(RewriteSet) /\ Nothing \in NameSet
    BY <1>4, NamesIn
  <2> QED
    BY <2>1, <2>2, Followed
<1>8. ASSUME NEW k \in DOMAIN original PROVE PointsTo(s.rewritten, s.ids[k]) = s.ids[k]
  <2>1. s.ids[k] \in NameSet
    BY <1>4
  <2>2. s.rewritten \in Seq(RewriteSet)
    BY <1>4
  <2>3. \A i \in DOMAIN s.rewritten : /\ s.rewritten[i].old = s.ids[k] => s.rewritten[i].new = s.ids[k]
                                     /\ s.rewritten[i].old # s.ids[k]
    BY <1>6
  <2> QED
    BY <2>1, <2>2, <2>3, Followed
<1>9. ASSUME NEW k \in DOMAIN original, NEW x, Calls(original[k], x)
      PROVE  /\ s.ids[k] # Nothing /\ PointsTo(s.rewritten, x) = s.ids[k]
             /\ x = s.ids[k] \/ Remembers(s, x)
  <2>1. x \in Ids /\ x \in NameSet
    BY <1>9, PlainIs, NamesIn
  <2>2. s.ids[k] # Nothing /\ Reaches(s, k, x)
    <3>1. CASE original[k].id = x
      BY <1>1, <1>3, <1>9, <3>1 DEF Named, Calls
    <3>2. CASE original[k].name = x
      BY <1>1, <1>3, <1>9, <3>2 DEF Told, Calls
    <3> QED
      BY <1>9, <3>1, <3>2 DEF Calls
  <2>3. ASSUME NEW i \in DOMAIN s.rewritten, s.rewritten[i].old = x PROVE s.rewritten[i].new = s.ids[k]
    <3>1. PICK j \in DOMAIN original : Calls(original[j], x) /\ s.ids[j] = s.rewritten[i].new
      BY <1>4, <2>3
    <3>2. j = k
      BY <1>9, <3>1, PlainIs
    <3> QED
      BY <3>1, <3>2
  <2>4. x = s.ids[k] \/ \E i \in DOMAIN s.rewritten : s.rewritten[i].old = x
    BY <2>2 DEF Reaches, Remembers
  <2>5. PointsTo(s.rewritten, x) = s.ids[k]
    <3>1. \A i \in DOMAIN s.rewritten : /\ s.rewritten[i].old = x => s.rewritten[i].new = s.ids[k]
                                       /\ s.rewritten[i].old # s.ids[k]
      BY <1>6, <2>3
    <3>2. s.rewritten \in Seq(RewriteSet)
      BY <1>4
    <3> QED
      BY <2>1, <2>4, <3>1, <3>2, Followed
  <2> QED
    BY <2>2, <2>4, <2>5 DEF Remembers
<1>10. ASSUME NEW i \in DOMAIN s.rewritten, NEW k \in DOMAIN original, Calls(original[k], s.rewritten[i].old)
       PROVE  s.rewritten[i].new = s.ids[k]
  <2>1. PICK j \in DOMAIN original : Calls(original[j], s.rewritten[i].old) /\ s.ids[j] = s.rewritten[i].new
    BY <1>4
  <2>2. j = k
    BY <1>10, <2>1, PlainIs
  <2> QED
    BY <2>1, <2>2
<1> QED
  BY <1>4, <1>6, <1>7, <1>8, <1>9, <1>10 DEF Settled, s
-----------------------------------------------------------------------------
\* What FlattenSeq of the community modules makes of parts, which is what Joined makes.
Flattens(f, parts, m) == f = [i \in 1 .. m |-> IF i = 1 THEN parts[i] ELSE f[i - 1] \o parts[i]]

LEMMA FlattensIs ==
  ASSUME NEW m \in Nat, NEW f, NEW parts, Flattens(f, parts, m)
  PROVE  \A n \in 1 .. m : f[n] = IF n = 1 THEN parts[n] ELSE f[n - 1] \o parts[n]
  BY DEF Flattens

LEMMA FlattenIs ==
  ASSUME NEW V, NEW parts \in Seq(Seq(V))
  PROVE  FlattenSeq(parts) = Joined(parts)
<1> DEFINE m == Len(parts)
           all == CHOOSE f : Flattens(f, parts, m)
<1>1. m \in Nat /\ \A n \in 1 .. m : parts[n] \in Seq(V)
  OBVIOUS
<1>2. PICK f \in [0 .. m -> Seq(V)] :
        /\ f[0] = <<>> /\ Joined(parts) = f[m]
        /\ \A n \in 1 .. m : f[n] = f[n - 1] \o parts[n]
  BY JoinedIs
<1>3. CASE m = 0
  <2>1. parts = <<>>
    BY <1>3
  <2>2. FlattenSeq(parts) = <<>>
    BY <1>3, <2>1 DEF FlattenSeq
  <2> QED
    BY <1>2, <1>3, <2>2
<1>4. CASE m # 0
  <2>1. FlattenSeq(parts) = all[m]
    BY <1>4 DEF FlattenSeq, Flattens
  <2> DEFINE g == [i \in 1 .. m |-> f[i]]
             h == [i \in 1 .. m |-> IF i = 1 THEN parts[i] ELSE g[i - 1] \o parts[i]]
  <2> HIDE DEF m, all
  <2>2. f[1] = parts[1]
    <3>1. 1 \in 1 .. m
      BY <1>1, <1>4
    <3>2. f[1] = f[0] \o parts[1]
      <4>1. f[1] = f[1 - 1] \o parts[1]
        BY <1>2, <3>1, Zenon
      <4>2. 1 - 1 = 0
        OBVIOUS
      <4> QED
        BY <4>1, <4>2, Zenon
    <3>3. parts[1] \in Seq(V)
      BY <1>1, <3>1
    <3> QED
      BY <1>2, <3>2, <3>3
  <2>3. \A n \in 1 .. m : g[n] = h[n]
    <3> SUFFICES ASSUME NEW n \in 1 .. m PROVE g[n] = h[n]
      OBVIOUS
    <3>1. g[n] = f[n] /\ (n # 1 => g[n - 1] = f[n - 1])
      BY <1>1
    <3>2. h[n] = IF n = 1 THEN parts[n] ELSE g[n - 1] \o parts[n]
      OBVIOUS
    <3>3. f[n] = f[n - 1] \o parts[n]
      BY <1>2
    <3> HIDE DEF g, h
    <3> QED
      BY <2>2, <3>1, <3>2, <3>3
  <2>4. g = [n \in 1 .. m |-> g[n]] /\ h = [n \in 1 .. m |-> h[n]]
    OBVIOUS
  <2>5. g = h
    <3> HIDE DEF g, h
    <3> QED
      BY <2>3, <2>4
  <2>6. Flattens(g, parts, m)
    BY <2>5 DEF Flattens
  <2>7. Flattens(all, parts, m)
    <3> HIDE DEF g
    <3> QED
      BY <2>6 DEF all
  <2>8. \A n \in 1 .. m : all[n] = IF n = 1 THEN parts[n] ELSE all[n - 1] \o parts[n]
    BY <1>1, <2>7, FlattensIs
  <2> DEFINE P == {0} \cup {n \in 1 .. m : all[n] = f[n]}
  <2>9. ASSUME NEW n \in 1 .. m, n - 1 \in P PROVE n \in P
    <3>1. all[n] = IF n = 1 THEN parts[n] ELSE all[n - 1] \o parts[n]
      BY <2>8
    <3>2. f[n] = f[n - 1] \o parts[n]
      BY <1>2
    <3>3. n # 1 => all[n - 1] = f[n - 1]
      BY <1>1, <2>9
    <3>4. all[n] = f[n]
      BY <2>2, <3>1, <3>2, <3>3
    <3> QED
      BY <3>4
  <2>10. m \in P
    <3>1. 0 \in P /\ m \in 0 .. m
      BY <1>1
    <3> HIDE DEF P
    <3> QED
      BY <1>1, <2>9, <3>1, UpTo
  <2> QED
    BY <1>2, <1>4, <2>1, <2>10
<1> QED
  BY <1>3, <1>4

\* Each element of sequences put together is an element of one of them, and each of theirs is there.
Holds(whole, parts, n) ==
    /\ \A i \in DOMAIN whole : \E k \in 1 .. n : \E j \in DOMAIN parts[k] : whole[i] = parts[k][j]
    /\ \A k \in 1 .. n : \A j \in DOMAIN parts[k] : \E i \in DOMAIN whole : whole[i] = parts[k][j]

LEMMA ConcatIs ==
  ASSUME NEW V, NEW a, a \in Seq(V), NEW b, b \in Seq(V)
  PROVE  /\ \A i \in DOMAIN (a \o b) : \/ i \in DOMAIN a /\ (a \o b)[i] = a[i]
                                       \/ i > Len(a) /\ i - Len(a) \in DOMAIN b /\ (a \o b)[i] = b[i - Len(a)]
         /\ \A i \in DOMAIN a : i \in DOMAIN (a \o b) /\ (a \o b)[i] = a[i]
         /\ \A i \in DOMAIN b : i + Len(a) \in DOMAIN (a \o b) /\ (a \o b)[i + Len(a)] = b[i]
<1>1. /\ DOMAIN (a \o b) = 1 .. Len(a) + Len(b) /\ DOMAIN a = 1 .. Len(a) /\ DOMAIN b = 1 .. Len(b)
      /\ Len(a) \in Nat /\ Len(b) \in Nat
  OBVIOUS
<1>2. \A i \in 1 .. Len(a) + Len(b) : (a \o b)[i] = IF i <= Len(a) THEN a[i] ELSE b[i - Len(a)]
  OBVIOUS
<1> QED
  BY <1>1, <1>2

\* They differ as those of one of the sequences, and those of two of them, do.
Apart(whole, R) == \A i, j \in DOMAIN whole : i # j => <<whole[i], whole[j]>> \notin R

LEMMA JoinedParts ==
  ASSUME NEW V, NEW parts \in Seq(Seq(V)), NEW R,
         \A k \in 1 .. Len(parts) : Apart(parts[k], R),
         \A k, l \in 1 .. Len(parts) : k # l =>
           \A i \in DOMAIN parts[k], j \in DOMAIN parts[l] : <<parts[k][i], parts[l][j]>> \notin R
  PROVE  /\ Joined(parts) \in Seq(V) /\ Holds(Joined(parts), parts, Len(parts))
         /\ Apart(Joined(parts), R)
<1> DEFINE m == Len(parts)
<1>1. PICK f \in [0 .. m -> Seq(V)] :
        /\ f[0] = <<>> /\ Joined(parts) = f[m]
        /\ \A n \in 1 .. m : f[n] = f[n - 1] \o parts[n]
  BY JoinedIs
<1>2. m \in Nat /\ \A n \in 1 .. m : parts[n] \in Seq(V)
  OBVIOUS
<1>3. /\ \A k \in 1 .. m : Apart(parts[k], R)
      /\ \A k, l \in 1 .. m : k # l =>
           \A i \in DOMAIN parts[k], j \in DOMAIN parts[l] : <<parts[k][i], parts[l][j]>> \notin R
  OBVIOUS
<1> HIDE DEF m
<1> DEFINE P == {n \in 0 .. m : Holds(f[n], parts, n) /\ Apart(f[n], R)}
<1>4. 0 \in P
  BY <1>1, <1>2 DEF Holds, Apart
<1>5. ASSUME NEW n \in 1 .. m, n - 1 \in P PROVE n \in P
  <2> DEFINE a == f[n - 1]
             b == parts[n]
             c == a \o b
  <2>1. n \in 0 .. m /\ n - 1 \in 0 .. m /\ f[n] = c
    <3>1. n \in 0 .. m /\ n - 1 \in 0 .. m
      BY <1>2
    <3>2. f[n] = c
      BY <1>1, Zenon
    <3> QED
      BY <3>1, <3>2
  <2>2. a \in Seq(V) /\ b \in Seq(V) /\ Holds(a, parts, n - 1) /\ Apart(a, R) /\ Apart(b, R)
    BY <1>2, <1>3, <1>5, <2>1
  <2>3. \A k \in 1 .. n : k = n \/ k \in 1 .. n - 1
    BY <1>2
  <2>4. n \in 1 .. n /\ \A k \in 1 .. n - 1 : k \in 1 .. n /\ k \in 1 .. m /\ k # n
    BY <1>2
  <2>4a. \A i \in DOMAIN a, j \in DOMAIN b : <<a[i], b[j]>> \notin R /\ <<b[j], a[i]>> \notin R
    <3> SUFFICES ASSUME NEW i \in DOMAIN a, NEW j \in DOMAIN b
                 PROVE  <<a[i], b[j]>> \notin R /\ <<b[j], a[i]>> \notin R
      OBVIOUS
    <3> HIDE DEF a
    <3>1. PICK k \in 1 .. n - 1 : \E q \in DOMAIN parts[k] : a[i] = parts[k][q]
      BY <2>2 DEF Holds
    <3>2. PICK q \in DOMAIN parts[k] : a[i] = parts[k][q]
      BY <3>1
    <3>3. k \in 1 .. m /\ n \in 1 .. m /\ k # n
      BY <2>4
    <3> QED
      BY <1>3, <3>2, <3>3
  <2> HIDE DEF a
  <2>5. /\ \A i \in DOMAIN c : \/ i \in DOMAIN a /\ c[i] = a[i]
                               \/ i > Len(a) /\ i - Len(a) \in DOMAIN b /\ c[i] = b[i - Len(a)]
        /\ \A i \in DOMAIN a : i \in DOMAIN c /\ c[i] = a[i]
        /\ \A i \in DOMAIN b : i + Len(a) \in DOMAIN c /\ c[i + Len(a)] = b[i]
    <3> HIDE DEF b
    <3> QED
      BY <2>2, ConcatIs
  <2>6. c \in Seq(V) /\ Len(a) \in Nat
    BY <2>2
  <2> HIDE DEF c
  <2>7. \A i \in DOMAIN c : \E k \in 1 .. n : \E j \in DOMAIN parts[k] : c[i] = parts[k][j]
    <3> SUFFICES ASSUME NEW i \in DOMAIN c PROVE \E k \in 1 .. n : \E j \in DOMAIN parts[k] : c[i] = parts[k][j]
      OBVIOUS
    <3>1. CASE i - Len(a) \in DOMAIN b /\ c[i] = b[i - Len(a)]
      BY <2>4, <3>1
    <3>2. CASE i \in DOMAIN a /\ c[i] = a[i]
      <4>1. \E k \in 1 .. n - 1 : \E j \in DOMAIN parts[k] : a[i] = parts[k][j]
        BY <2>2, <3>2 DEF Holds
      <4> QED
        BY <2>4, <3>2, <4>1
    <3> QED
      BY <2>5, <3>1, <3>2
  <2>8. \A k \in 1 .. n : \A j \in DOMAIN parts[k] : \E i \in DOMAIN c : c[i] = parts[k][j]
    <3> SUFFICES ASSUME NEW k \in 1 .. n, NEW j \in DOMAIN parts[k]
                 PROVE  \E i \in DOMAIN c : c[i] = parts[k][j]
      OBVIOUS
    <3>1. CASE k = n
      BY <2>5, <3>1
    <3>2. CASE k \in 1 .. n - 1
      BY <2>2, <2>5, <3>2 DEF Holds
    <3> QED
      BY <2>3, <3>1, <3>2
  <2>9. Apart(c, R)
    <3> SUFFICES ASSUME NEW i \in DOMAIN c, NEW j \in DOMAIN c, i # j PROVE <<c[i], c[j]>> \notin R
      BY DEF Apart
    <3> HIDE DEF b
    <3>0. i \in Nat /\ j \in Nat
      BY <2>6
    <3>1. CASE i \in DOMAIN a /\ c[i] = a[i] /\ j \in DOMAIN a /\ c[j] = a[j]
      BY <2>2, <3>1 DEF Apart
    <3>2. CASE i > Len(a) /\ i - Len(a) \in DOMAIN b /\ c[i] = b[i - Len(a)]
               /\ j > Len(a) /\ j - Len(a) \in DOMAIN b /\ c[j] = b[j - Len(a)]
      <4>1. i - Len(a) # j - Len(a)
        BY <2>6, <3>0
      <4> QED
        BY <2>2, <3>2, <4>1 DEF Apart
    <3>3. CASE i \in DOMAIN a /\ c[i] = a[i] /\ j - Len(a) \in DOMAIN b /\ c[j] = b[j - Len(a)]
      BY <2>4a, <3>3
    <3>4. CASE j \in DOMAIN a /\ c[j] = a[j] /\ i - Len(a) \in DOMAIN b /\ c[i] = b[i - Len(a)]
      BY <2>4a, <3>4
    <3> QED
      BY <2>5, <3>1, <3>2, <3>3, <3>4
  <2> QED
    BY <2>1, <2>7, <2>8, <2>9 DEF Holds
<1>6. m \in P
  <2>1. m \in 0 .. m
    BY <1>2
  <2> HIDE DEF P
  <2> QED
    BY <1>2, <1>4, <1>5, <2>1, UpTo
<1> QED
  BY <1>1, <1>2, <1>6 DEF m
-----------------------------------------------------------------------------
\* After the entries were copied: references follow them, and nothing else has changed.
Copied ==
    /\ document \in Seq(ElementSet) /\ Len(document) = Len(original)
    /\ \A k \in DOMAIN original :
         /\ document[k] = [original[k] EXCEPT !.path = document[k].path, !.at = document[k].at]
         /\ original[k].tag # "link" => document[k].at = original[k].at
         /\ PathsApart /\ original[k].tag = "link" =>
              /\ document[k].at = original[k].at
              /\ \A p \in archive : original[k].path \in Range(Spellings(p)) => document[k].path \in Range(Cleaned(p))
    /\ \A p \in archive : Clean[p] \in DOMAIN entries /\ entries[Clean[p]] = p

\* What becomes of element k, and what points where it pointed.
Becomes(s, k, e) ==
    /\ e \in ElementSet /\ e.key = k /\ e.name = Nothing /\ e.id \in {Nothing, s.ids[k]}
    /\ e.tag = "link" =>
         kind # "package" /\ original[k].tag = "link" /\ e.at = document[k].at /\ e.path = document[k].path

\* What is left of element k: one element has its id, unless it was split.
Remains(s, k, left) ==
    /\ left \in Seq(ElementSet)
    /\ \A i \in DOMAIN left : Becomes(s, k, left[i])
    /\ \A i, j \in DOMAIN left : i # j => left[i].id = Nothing
    /\ ~Splits(original[k]) /\ kind # "package" => \E i \in DOMAIN left : left[i].id = s.ids[k]

LEMMA AsLong ==
  ASSUME OriginalOK, Copied
  PROVE  /\ document \in Seq(ElementSet) /\ Len(document) = Len(original) /\ Len(original) \in Nat
         /\ DOMAIN original = 1 .. Len(original) /\ DOMAIN document = DOMAIN original
<1>1. document \in Seq(ElementSet) /\ Len(document) = Len(original)
  BY DEF Copied
<1>2. original \in Seq(ElementSet)
  BY DEF OriginalOK
<1> QED
  BY <1>1, <1>2

LEMMA SameBut ==
  ASSUME OriginalOK, Copied, NEW k \in DOMAIN original
  PROVE  /\ document[k] \in ElementSet /\ original[k] \in ElementSet
         /\ document[k].key = k /\ document[k].id = original[k].id /\ document[k].name = original[k].name
         /\ document[k].tag = original[k].tag
         /\ document[k].kids = original[k].kids /\ Splits(document[k]) = Splits(original[k])
         /\ Proper(document[k]) /\ Proper(original[k])
<1>1. DOMAIN document = DOMAIN original /\ document[k] \in ElementSet
  BY AsLong
<1>2. original[k] \in ElementSet /\ original[k].key = k /\ Proper(original[k])
  BY DEF OriginalOK
<1>3. document[k] = [original[k] EXCEPT !.path = document[k].path, !.at = document[k].at]
  BY DEF Copied
<1>4. /\ document[k].key = k /\ document[k].id = original[k].id /\ document[k].name = original[k].name
      /\ document[k].tag = original[k].tag
      /\ document[k].kids = original[k].kids
  BY <1>2, <1>3 DEF ElementSet
<1>5. Splits(document[k]) = Splits(original[k]) /\ Proper(document[k])
  BY <1>2, <1>4 DEF Splits, Proper
<1> QED
  BY <1>1, <1>2, <1>4, <1>5

LEMMA LeftIs ==
  ASSUME OriginalOK, Plain, Copied, NEW s, Settled(s), NEW k \in DOMAIN original
  PROVE  Remains(s, k, Left(s, document[k]))
<1> DEFINE e == document[k]
           left == Left(s, e)
<1>1. /\ e \in ElementSet /\ e.key = k /\ Splits(e) = Splits(original[k])
      /\ Proper(e) /\ e.id = original[k].id /\ e.tag = original[k].tag
  BY SameBut
<1>2. k \in Nat /\ s.ids[k] \in NameSet /\ Nothing \in NameSet
  BY <1>1, NamesIn DEF Settled, ElementSet
<1> HIDE DEF e
<1>3. CASE Splits(e)
  <2>1. Relabelled(s, e) = e /\ ~Dangling(s, e) /\ e.tag = "p" /\ kind = "page"
    BY <1>3 DEF Relabelled, Dangling, Splits
  <2>2. left = [i \in DOMAIN e.kids |-> Part(e, e.kids[i])]
    BY <1>3, <2>1 DEF Left, Parts
  <2>3. e.id = Nothing /\ e.name = Nothing
    BY <1>1, <1>3, <2>1 DEF Plain, Proper
  <2>4. ASSUME NEW kid \in {"text", "block"}
        PROVE  /\ Part(e, kid) \in ElementSet /\ Part(e, kid).key = k /\ Part(e, kid).name = Nothing
               /\ Part(e, kid).id = Nothing /\ Part(e, kid).tag \in {"p", "block"}
    <3>1. <<kid>> \in Seq({"text", "block"}) /\ <<>> \in Seq({"text", "block"})
      OBVIOUS
    <3>2. CASE kid = "block"
      BY <1>1, <1>2, <3>1, <3>2, StringsIn DEF Part, Element, ElementSet, TagSet
    <3>3. CASE kid # "block"
      BY <1>1, <1>2, <2>1, <2>3, <3>1, <3>3 DEF Part, ElementSet
    <3> QED
      BY <3>2, <3>3
  <2>5. e.kids \in Seq({"text", "block"})
    BY <1>1 DEF ElementSet
  <2>6. \A i \in DOMAIN e.kids : e.kids[i] \in {"text", "block"} /\ left[i] = Part(e, e.kids[i])
    BY <2>2, <2>5
  <2>7. DOMAIN left = DOMAIN e.kids /\ DOMAIN e.kids = 1 .. Len(e.kids) /\ Len(e.kids) \in Nat
        /\ left = [i \in 1 .. Len(e.kids) |-> left[i]]
    BY <2>2, <2>5
  <2> HIDE DEF left
  <2>8. \A i \in DOMAIN left : left[i] \in ElementSet /\ left[i].id = Nothing /\ Becomes(s, k, left[i])
    BY <2>4, <2>6, <2>7 DEF Becomes
  <2>9. left \in Seq(ElementSet)
    <3>1. Len(e.kids) \in Nat /\ \A i \in 1 .. Len(e.kids) : left[i] \in ElementSet
      BY <2>7, <2>8
    <3> QED
      BY <2>7, <3>1, ListIs
  <2> QED
    BY <1>1, <1>3, <2>8, <2>9 DEF left, e, Remains
<1>4. CASE ~Splits(e)
  <2> DEFINE g == Relabelled(s, e)
  <2>1. g = [e EXCEPT !.id = s.ids[k], !.name = IF kind = "page" /\ e.tag = "a" THEN Nothing ELSE e.name]
    BY <1>1, <1>4 DEF Relabelled
  <2>2. /\ g \in ElementSet /\ g.id = s.ids[k] /\ g.key = k /\ g.tag = e.tag /\ g.at = e.at
        /\ g.path = e.path /\ g.name = IF kind = "page" /\ e.tag = "a" THEN Nothing ELSE e.name
    BY <1>1, <1>2, <2>1 DEF ElementSet
  <2>3. g.name = Nothing
    BY <1>1, <2>2 DEF Proper
  <2>5. g.kids = e.kids
    BY <1>1, <2>1 DEF ElementSet
  <2>6. Parts(g) = <<g>>
    BY <1>4, <2>2, <2>5 DEF Parts, Splits
  <2>7. (left = <<>> /\ kind = "package") \/ left = <<g>>
    BY <2>6 DEF Left, Dangling
  <2>8. Becomes(s, k, g)
    BY <1>1, <2>2, <2>3 DEF Becomes, Proper, e
  <2> HIDE DEF g, left
  <2>9. CASE left = <<>> /\ kind = "package"
    BY <2>9 DEF left, e, Remains
  <2>10. CASE left = <<g>>
    <3>1. left \in Seq(ElementSet) /\ DOMAIN left = {1} /\ left[1] = g
      BY <2>2, <2>10
    <3> QED
      BY <2>2, <2>8, <3>1 DEF left, e, Remains
  <2> QED
    BY <2>7, <2>9, <2>10
<1> QED
  BY <1>3, <1>4

\* What the repaired document is like.
RepairedAs(s, d) ==
    /\ \A i \in DOMAIN d : \E k \in DOMAIN original :
         /\ d[i].key = k /\ d[i].name = Nothing /\ d[i].id \in {Nothing, s.ids[k]}
         /\ d[i].tag = "link" =>
              /\ kind # "package" /\ original[k].tag = "link"
              /\ d[i].at = Rewritten(document[k].at, FragmentPairs(s.rewritten))
              /\ d[i].path \in {document[k].path, PointsTo(s.rewritten, document[k].path)}
    /\ \A k \in DOMAIN original : ~Splits(original[k]) /\ kind # "package" =>
         \E i \in DOMAIN d : d[i].key = k /\ d[i].id = s.ids[k]
    /\ \A i, j \in DOMAIN d : d[i].id = d[j].id /\ d[i].id # Nothing => i = j

LEMMA RepairedIs ==
  ASSUME OriginalOK, Plain, NothingPassedOn, Copied, RepairXml
  PROVE  RepairedAs(Renamed(kind, original), document')
<1> DEFINE s == Renamed(kind, original)
           N == Len(original)
           parts == [k \in DOMAIN document |-> Left(s, document[k])]
           left == FlattenSeq(parts)
           R == {x \in ElementSet \X ElementSet : x[1].id = x[2].id /\ x[1].id # Nothing}
<1>1. Settled(s)
  BY AllSettled
<1>2. N \in Nat /\ DOMAIN original = 1 .. N /\ DOMAIN document = 1 .. N /\ Len(document) = N
  BY AsLong
<1>3. Renamed(kind, document) = s
  <2>1. \A k \in 1 .. N : /\ original[k].id = document[k].id /\ original[k].name = document[k].name
                          /\ original[k].tag = document[k].tag /\ original[k].key = document[k].key
    <3>1. \A k \in DOMAIN original : original[k].key = k
      BY DEF OriginalOK
    <3> QED
      BY <1>2, <3>1, SameBut
  <2> QED
    BY <1>2, <2>1, RenamedAlike
<1>4. document' = [i \in DOMAIN left |-> Pointing(s.rewritten, left[i])]
  BY <1>3 DEF RepairXml
<1> HIDE DEF s, N
<1>5. \A k \in DOMAIN original :
        /\ parts[k] \in Seq(ElementSet)
        /\ \A i \in DOMAIN parts[k] : Becomes(s, k, parts[k][i])
        /\ \A i, j \in DOMAIN parts[k] : i # j => parts[k][i].id = Nothing
        /\ ~Splits(original[k]) /\ kind # "package" => \E i \in DOMAIN parts[k] : parts[k][i].id = s.ids[k]
  <2>1. ASSUME NEW k \in DOMAIN original PROVE Remains(s, k, parts[k])
    <3>1. parts[k] = Left(s, document[k])
      BY <1>2
    <3> HIDE DEF parts
    <3> QED
      BY <1>1, <3>1, LeftIs
  <2> HIDE DEF parts
  <2> QED
    BY <2>1 DEF Remains
<1>6. parts \in Seq(Seq(ElementSet)) /\ Len(parts) = N
  <2>1. parts = [k \in 1 .. N |-> parts[k]]
    BY <1>2
  <2> HIDE DEF parts
  <2> QED
    BY <1>2, <1>5, <2>1
<1> HIDE DEF parts
<1>7. \A k \in 1 .. N : Apart(parts[k], R)
  <2> SUFFICES ASSUME NEW k \in 1 .. N, NEW i \in DOMAIN parts[k], NEW j \in DOMAIN parts[k], i # j
               PROVE  <<parts[k][i], parts[k][j]>> \notin R
    BY DEF Apart
  <2>1. parts[k][i].id = Nothing
    BY <1>2, <1>5
  <2> QED
    BY <2>1
<1>8. ASSUME NEW k \in 1 .. N, NEW l \in 1 .. N, k # l, NEW i \in DOMAIN parts[k], NEW j \in DOMAIN parts[l]
      PROVE  <<parts[k][i], parts[l][j]>> \notin R
  <2>1. parts[k][i].id \in {Nothing, s.ids[k]} /\ parts[l][j].id \in {Nothing, s.ids[l]}
    BY <1>2, <1>5 DEF Becomes
  <2>2. s.ids[k] = s.ids[l] => s.ids[k] = Nothing
    BY <1>1, <1>2, <1>8 DEF Settled
  <2> QED
    BY <2>1, <2>2
<1> HIDE DEF R
<1>9. /\ left \in Seq(ElementSet) /\ Holds(left, parts, N) /\ Apart(left, R)
  <2>1. FlattenSeq(parts) = Joined(parts)
    BY <1>6, FlattenIs
  <2>2. /\ \A k \in 1 .. Len(parts) : Apart(parts[k], R)
        /\ \A k, l \in 1 .. Len(parts) : k # l =>
             \A i \in DOMAIN parts[k], j \in DOMAIN parts[l] : <<parts[k][i], parts[l][j]>> \notin R
    BY <1>6, <1>7, <1>8
  <2>3. /\ Joined(parts) \in Seq(ElementSet) /\ Holds(Joined(parts), parts, Len(parts))
        /\ Apart(Joined(parts), R)
    BY <1>6, <2>2, JoinedParts
  <2> QED
    BY <1>6, <2>1, <2>3
<1> HIDE DEF left
<1>10. ASSUME NEW i \in DOMAIN left
       PROVE  /\ i \in DOMAIN document' /\ left[i] \in ElementSet
              /\ document'[i].key = left[i].key /\ document'[i].name = left[i].name
              /\ document'[i].tag = left[i].tag
              /\ document'[i].path \in {left[i].path, PointsTo(s.rewritten, left[i].path)}
              /\ document'[i].id = PointsTo(s.rewritten, left[i].id)
              /\ document'[i].at = Rewritten(left[i].at, FragmentPairs(s.rewritten))
  <2>1. left[i] \in ElementSet
    BY <1>9
  <2>2. document'[i] = Pointing(s.rewritten, left[i]) /\ i \in DOMAIN document'
    BY <1>4
  <2> QED
    BY <2>1, <2>2 DEF Pointing, ElementSet
<1>11. DOMAIN document' = DOMAIN left
  BY <1>4
<1>12. ASSUME NEW i \in DOMAIN left
       PROVE  \E k \in DOMAIN original : Becomes(s, k, left[i]) /\ document'[i].id = left[i].id
  <2>1. PICK k \in 1 .. N : \E j \in DOMAIN parts[k] : left[i] = parts[k][j]
    BY <1>9 DEF Holds
  <2>2. Becomes(s, k, left[i]) /\ k \in DOMAIN original
    BY <1>2, <1>5, <2>1
  <2>3. left[i].id \in {Nothing, s.ids[k]}
    BY <2>2 DEF Becomes
  <2>4. PointsTo(s.rewritten, left[i].id) = left[i].id
    BY <1>1, <2>2, <2>3 DEF Settled
  <2> QED
    BY <1>10, <2>2, <2>4
<1>13. \A i \in DOMAIN document' : \E k \in DOMAIN original :
         /\ document'[i].key = k /\ document'[i].name = Nothing /\ document'[i].id \in {Nothing, s.ids[k]}
         /\ document'[i].tag = "link" =>
              /\ kind # "package" /\ original[k].tag = "link"
              /\ document'[i].at = Rewritten(document[k].at, FragmentPairs(s.rewritten))
              /\ document'[i].path \in {document[k].path, PointsTo(s.rewritten, document[k].path)}
  <2> SUFFICES ASSUME NEW i \in DOMAIN left
               PROVE  \E k \in DOMAIN original :
         /\ document'[i].key = k /\ document'[i].name = Nothing /\ document'[i].id \in {Nothing, s.ids[k]}
         /\ document'[i].tag = "link" =>
              /\ kind # "package" /\ original[k].tag = "link"
              /\ document'[i].at = Rewritten(document[k].at, FragmentPairs(s.rewritten))
              /\ document'[i].path \in {document[k].path, PointsTo(s.rewritten, document[k].path)}
    BY <1>11
  <2>1. PICK k \in DOMAIN original : Becomes(s, k, left[i]) /\ document'[i].id = left[i].id
    BY <1>12
  <2> QED
    BY <1>10, <2>1 DEF Becomes
<1>14. ASSUME NEW k \in DOMAIN original, ~Splits(original[k]), kind # "package"
       PROVE  \E i \in DOMAIN document' : document'[i].key = k /\ document'[i].id = s.ids[k]
  <2>1. PICK j \in DOMAIN parts[k] : parts[k][j].id = s.ids[k]
    BY <1>5, <1>14
  <2>2. PICK i \in DOMAIN left : left[i] = parts[k][j]
    BY <1>2, <1>9, <2>1 DEF Holds
  <2>3. left[i].key = k /\ left[i].id = s.ids[k]
    BY <1>5, <2>1, <2>2 DEF Becomes
  <2> QED
    BY <1>10, <1>12, <2>3
<1>15. ASSUME NEW i \in DOMAIN document', NEW j \in DOMAIN document',
              document'[i].id = document'[j].id, document'[i].id # Nothing
       PROVE  i = j
  <2>1. i \in DOMAIN left /\ j \in DOMAIN left
    BY <1>11
  <2>2. left[i].id = left[j].id /\ left[i].id # Nothing /\ left[i] \in ElementSet /\ left[j] \in ElementSet
    BY <1>10, <1>12, <1>15, <2>1
  <2>3. <<left[i], left[j]>> \in R
    BY <2>2 DEF R
  <2> QED
    BY <1>9, <2>1, <2>3 DEF Apart
<1> QED
  BY <1>13, <1>14, <1>15 DEF RepairedAs, s

LEMMA IdsHold ==
  ASSUME NEW s, Settled(s), NEW d, RepairedAs(s, d)
  PROVE  IdsOf(d) \cap (Ids \ Valid) = {}
<1>1. ASSUME NEW i \in DOMAIN d, d[i].id \in Ids \ Valid PROVE FALSE
  <2>1. PICK k \in DOMAIN original : d[i].id \in {Nothing, s.ids[k]}
    BY DEF RepairedAs
  <2>2. Nothing \notin Ids /\ s.ids[k] \notin Ids \ Valid
    BY RepairAssumption DEF Settled, Bad
  <2> QED
    BY <1>1, <2>1, <2>2
<1>2. IdsOf(d) \cap (Ids \ Valid) = {}
  BY <1>1 DEF IdsOf
<1> QED
  BY <1>2

\* Where a link leads within the document, and to which entry.
LEMMA LinksHold ==
  ASSUME OriginalOK, Plain, IdsApart, PathsApart, Copied, NEW s, s = Renamed(kind, original), Settled(s),
         NEW d, RepairedAs(s, d),
         NEW i \in DOMAIN d, d[i].tag = "link", Leads(original, original[d[i].key].at) # {}
  PROVE  Leads(d, d[i].at) = Leads(original, original[d[i].key].at)
<1> DEFINE at == original[d[i].key].at
<1>1. PICK k \in DOMAIN original :
        /\ d[i].key = k /\ kind # "package" /\ original[k].tag = "link"
        /\ d[i].at = Rewritten(document[k].at, FragmentPairs(s.rewritten))
  BY DEF RepairedAs
<1>2. document[k].at = at
  BY <1>1 DEF Copied
<1>3. PICK q \in DOMAIN original : \E y \in {original[q].id, original[q].name} : at = Fragment(y) /\ Calls(original[q], y)
  BY DEF Leads
<1>4. PICK x \in {original[q].id, original[q].name} : at = Fragment(x) /\ Calls(original[q], x)
  BY <1>3
<1>5. /\ at = original[k].at /\ at \in Strings
      /\ \A j \in DOMAIN original : original[j].key = j /\ Proper(original[j]) /\ original[j].id \in NameSet
                                    /\ original[j].name \in NameSet
  <2>1. \A j \in DOMAIN original : original[j].key = j /\ Proper(original[j]) /\ original[j] \in ElementSet
    BY DEF OriginalOK
  <2> QED
    BY <1>1, <2>1 DEF ElementSet
<1> HIDE DEF at
<1>6. /\ s.rewritten \in Seq(RewriteSet) /\ s.ids \in [DOMAIN original -> NameSet]
      /\ s.ids[q] # Nothing /\ s.ids[q] \in NameSet /\ x \in NameSet
  BY <1>4, <1>5 DEF Settled
<1> DEFINE pairs == FragmentPairs(s.rewritten)
           there == Fragment(s.ids[q])
<1>7. /\ pairs \in Seq(PairSet) /\ DOMAIN pairs = DOMAIN s.rewritten
      /\ \A j \in DOMAIN s.rewritten : /\ pairs[j].old = Fragment(s.rewritten[j].old)
                                       /\ pairs[j].new = Fragment(s.rewritten[j].new)
  BY <1>6, FragmentPairsAre
<1>8. there \in Strings
  BY <1>6, StringsIn
<1>9. \A j \in DOMAIN s.rewritten : s.rewritten[j] \in RewriteSet /\ s.rewritten[j].old \in NameSet
  <2>1. \A j \in DOMAIN s.rewritten : s.rewritten[j] \in RewriteSet
    BY <1>6
  <2> QED
    BY <2>1 DEF RewriteSet
<1>10. ASSUME NEW j \in DOMAIN s.rewritten
       PROVE  /\ Includes(at, Fragment(s.rewritten[j].old)) => at = Fragment(s.rewritten[j].old)
              /\ Includes(there, Fragment(s.rewritten[j].old)) => there = Fragment(s.rewritten[j].old)
  <2>1. s.rewritten[j] \in Range(s.rewritten)
    BY DEF Range
  <2>2. /\ at \in {original[h].at : h \in DOMAIN original} \cup {Fragment(s.ids[h]) : h \in DOMAIN original}
        /\ there \in {original[h].at : h \in DOMAIN original} \cup {Fragment(s.ids[h]) : h \in DOMAIN original}
    BY <1>5
  <2> QED
    BY <2>1, <2>2 DEF IdsApart
<1> HIDE DEF there, pairs
<1>11. ASSUME NEW j \in DOMAIN pairs
       PROVE  /\ Includes(at, pairs[j].old) => at = pairs[j].old /\ pairs[j].new = there
              /\ ~Includes(there, pairs[j].old)
  <2>1. j \in DOMAIN s.rewritten /\ pairs[j].old = Fragment(s.rewritten[j].old)
        /\ pairs[j].new = Fragment(s.rewritten[j].new)
    BY <1>7
  <2>3. ASSUME Includes(there, pairs[j].old) PROVE FALSE
    <3>1. Fragment(s.ids[q]) = Fragment(s.rewritten[j].old)
      BY <1>10, <2>1, <2>3 DEF there
    <3>2. s.ids[q] = s.rewritten[j].old
      BY <1>6, <1>9, <2>1, <3>1, FragmentIs
    <3> QED
      BY <2>1, <3>2 DEF Settled
  <2>2. CASE Includes(at, pairs[j].old)
    <3>1. Fragment(x) = Fragment(s.rewritten[j].old)
      BY <1>4, <1>10, <2>1, <2>2
    <3>2. x = s.rewritten[j].old
      BY <1>6, <1>9, <2>1, <3>1, FragmentIs
    <3>3. s.rewritten[j].new = s.ids[q]
      BY <1>4, <2>1, <3>2 DEF Settled
    <3>4. at = pairs[j].old
      BY <1>10, <2>1, <2>2
    <3>5. pairs[j].new = there
      BY <2>1, <3>3 DEF there
    <3>6. ~Includes(there, pairs[j].old)
      BY <2>3
    <3> QED
      BY <3>4, <3>5, <3>6
  <2> QED
    BY <2>2, <2>3
<1>12. at = there \/ \E j \in DOMAIN pairs : pairs[j].old = at
  <2>1. x = s.ids[q] \/ \E j \in DOMAIN s.rewritten : s.rewritten[j].old = x
    BY <1>4 DEF Settled, Remembers
  <2> QED
    BY <1>4, <1>7, <2>1 DEF there
<1>13. d[i].at = there
  <2>1. at = there \/ \E j \in DOMAIN pairs : pairs[j].old # pairs[j].new /\ pairs[j].old = at
    <3>1. CASE at = there
      BY <3>1
    <3>2. CASE at # there
      <4>1. PICK j \in DOMAIN pairs : pairs[j].old = at
        BY <1>12, <3>2
      <4>2. Includes(at, pairs[j].old)
        BY <1>4, <1>6, <4>1, Itself, StringsIn
      <4>3. pairs[j].new = there
        BY <1>11, <4>2
      <4> QED
        BY <3>2, <4>1, <4>3
    <3> QED
      BY <3>1, <3>2
  <2>2. Rewritten(at, pairs) \in {there}
    <3>1. \A j \in DOMAIN pairs : /\ Includes(at, pairs[j].old) => at = pairs[j].old /\ pairs[j].new \in {there}
                                  /\ \A y \in {there} : ~Includes(y, pairs[j].old)
      BY <1>11
    <3>2. {there} \subseteq Strings /\ at \in Strings /\ pairs \in Seq(PairSet)
      BY <1>5, <1>7, <1>8
    <3>3. at \in {there} \/ \E j \in DOMAIN pairs : pairs[j].old # pairs[j].new /\ pairs[j].old = at
      BY <2>1
    <3> QED
      BY <3>1, <3>2, <3>3, Arrives
  <2> QED
    BY <1>1, <1>2, <2>2 DEF pairs
<1>14. Leads(original, at) = {q}
  <2>1. ASSUME NEW j \in DOMAIN original, NEW y \in {original[j].id, original[j].name},
               at = Fragment(y), Calls(original[j], y)
        PROVE  j = q
    <3>1. y = x
      BY <1>4, <1>5, <1>6, <2>1, FragmentIs
    <3> QED
      BY <1>4, <2>1, <3>1, PlainIs
  <2>2. \A j \in DOMAIN original :
          (\E y \in {original[j].id, original[j].name} : at = Fragment(y) /\ Calls(original[j], y)) <=> j = q
    BY <1>3, <2>1
  <2>3. \A j \in DOMAIN original : original[j].key = j
    BY <1>5
  <2> QED
    BY <2>2, <2>3 DEF Leads
<1>15. ~Splits(original[q])
  <2> SUFFICES ASSUME Splits(original[q]) PROVE FALSE
    OBVIOUS
  <2>1. original[q].id = Nothing /\ original[q].name = Nothing
    BY <1>5 DEF Plain, Splits, Proper
  <2> QED
    BY <1>4, <2>1 DEF Calls
<1>16. PICK w \in DOMAIN d : d[w].key = q /\ d[w].id = s.ids[q]
  BY <1>1, <1>15 DEF RepairedAs
<1>17. q \in Leads(d, there)
  BY <1>6, <1>16 DEF Leads, Calls, there
<1>18. ASSUME NEW j \in DOMAIN d, NEW y \in {d[j].id, d[j].name}, there = Fragment(y), Calls(d[j], y)
       PROVE  d[j].key = q
  <2>1. d[j].name = Nothing /\ d[j].id \in NameSet
    <3>1. PICK h \in DOMAIN original : d[j].name = Nothing /\ d[j].id \in {Nothing, s.ids[h]}
      BY DEF RepairedAs
    <3> QED
      BY <1>6, <3>1, NamesIn
  <2>2. y = d[j].id
    BY <1>18, <2>1 DEF Calls
  <2>3. d[j].id = s.ids[q]
    BY <1>6, <1>18, <2>1, <2>2, FragmentIs DEF there
  <2> QED
    BY <1>6, <1>16, <2>3 DEF RepairedAs
<1>19. Leads(d, there) = {q}
  BY <1>17, <1>18 DEF Leads
<1> QED
  BY <1>13, <1>14, <1>19 DEF at
-----------------------------------------------------------------------------
\* How the names of entries are spelled, and what is put in their place.
LEMMA SpellingsAre ==
  ASSUME NEW p \in Paths
  PROVE  /\ DOMAIN Spellings(p) = 1 .. 3 /\ DOMAIN Cleaned(p) = 1 .. 3
         /\ \A j \in 1 .. 3 : Spellings(p)[j] \in NameSet \ {Nothing} /\ Cleaned(p)[j] \in NameSet
<1>1. ASSUME NEW q \in Paths
      PROVE  q \in NameSet \ {Nothing} /\ Encoded(q) \in NameSet \ {Nothing} /\ Lowered(Encoded(q)) \in NameSet \ {Nothing}
  <2>1. q \in Seq(Characters) /\ q # <<>>
    BY <1>1, RepairAssumption DEF Nothing
  <2>2. Len(q) \in Nat /\ Len(q) # 0 /\ DOMAIN q = 1 .. Len(q) /\ \A i \in 1 .. Len(q) : q[i] \in Characters
    BY <2>1
  <2>3. Encode \in [Characters -> Characters] /\ Lower \in [Characters -> Characters]
    BY RepairAssumption
  <2>4. Encoded(q) = [i \in 1 .. Len(q) |-> Encode[q[i]]]
    BY <2>2 DEF Encoded
  <2>5. \A i \in 1 .. Len(q) : Encoded(q)[i] \in Characters
    BY <2>2, <2>3, <2>4
  <2>6. Encoded(q) \in Seq(Characters) /\ DOMAIN Encoded(q) = 1 .. Len(q)
    BY <2>2, <2>4, <2>5, ListIs
  <2>7. Lowered(Encoded(q)) = [i \in 1 .. Len(q) |-> Lower[Encoded(q)[i]]]
    BY <2>6 DEF Lowered
  <2>8. \A i \in 1 .. Len(q) : Lowered(Encoded(q))[i] \in Characters
    BY <2>3, <2>5, <2>7
  <2>9. Lowered(Encoded(q)) \in Seq(Characters) /\ DOMAIN Lowered(Encoded(q)) = 1 .. Len(q)
    BY <2>2, <2>7, <2>8, ListIs
  <2>10. 1 \in 1 .. Len(q) /\ DOMAIN <<>> = {}
    BY <2>2
  <2> QED
    BY <2>1, <2>6, <2>9, <2>10 DEF NameSet, Nothing
<1>2. Clean[p] \in Paths
  BY RepairAssumption
<1>3. \A j \in 1 .. 3 : j = 1 \/ j = 2 \/ j = 3
  OBVIOUS
<1>4. Spellings(p)[1] = p /\ Spellings(p)[2] = Encoded(p) /\ Spellings(p)[3] = Lowered(Encoded(p))
  BY DEF Spellings
<1>5. Cleaned(p)[1] = Clean[p] /\ Cleaned(p)[2] = Encoded(Clean[p]) /\ Cleaned(p)[3] = Encoded(Clean[p])
  BY DEF Cleaned
<1>6. DOMAIN Spellings(p) = 1 .. 3 /\ DOMAIN Cleaned(p) = 1 .. 3
  BY DEF Spellings, Cleaned
<1> QED
  BY <1>1, <1>2, <1>3, <1>4, <1>5, <1>6

LEMMA RenamingIs ==
  ASSUME NEW p \in Paths
  PROVE  /\ Renaming(p) \in Seq(PairSet) /\ DOMAIN Renaming(p) = 1 .. 3
         /\ \A j \in 1 .. 3 : Renaming(p)[j].old = Spellings(p)[j] /\ Renaming(p)[j].new = Cleaned(p)[j]
<1>1. \A j \in 1 .. 3 : Renaming(p)[j] = [old |-> Spellings(p)[j], new |-> Cleaned(p)[j]]
  BY DEF Renaming
<1>2. \A j \in 1 .. 3 : Spellings(p)[j] \in Strings \ {Nothing} /\ Cleaned(p)[j] \in Strings
  BY SpellingsAre, StringsIn
<1>3. \A j \in 1 .. 3 : Renaming(p)[j] \in PairSet
  BY <1>1, <1>2 DEF PairSet
<1>4. Renaming(p) = [j \in 1 .. 3 |-> Renaming(p)[j]] /\ DOMAIN Renaming(p) = 1 .. 3
  BY DEF Renaming
<1>5. Renaming(p) \in Seq(PairSet)
  BY <1>3, <1>4, ListIs
<1> QED
  BY <1>1, <1>4, <1>5

LEMMA CleanedSpells == ASSUME NEW p PROVE Range(Cleaned(p)) \subseteq Range(Spellings(Clean[p]))
<1>1. Range(Cleaned(p)) = {Clean[p], Encoded(Clean[p])}
  BY DEF Cleaned, Range
<1>2. Clean[p] \in Range(Spellings(Clean[p])) /\ Encoded(Clean[p]) \in Range(Spellings(Clean[p]))
  BY DEF Spellings, Range
<1> QED
  BY <1>1, <1>2

\* What is replaced, in whatever order the entries come.
AllPairs(pairs) ==
    /\ pairs \in Seq(PairSet)
    /\ \A i \in DOMAIN pairs : \E p \in archive : \E j \in 1 .. 3 : pairs[i] = Renaming(p)[j]
    /\ \A p \in archive : \A j \in 1 .. 3 : \E i \in DOMAIN pairs : pairs[i] = Renaming(p)[j]

LEMMA AllPairsAre ==
  ASSUME archive \subseteq Paths, IsFiniteSet(archive),
         NEW order \in [1 .. Cardinality(archive) -> archive], Range(order) = archive
  PROVE  AllPairs(FlattenSeq([i \in DOMAIN order |-> Renaming(order[i])]))
<1> DEFINE m == Cardinality(archive)
           parts == [i \in DOMAIN order |-> Renaming(order[i])]
<1>1. m \in Nat /\ DOMAIN order = 1 .. m
  BY FS_CardinalityType
<1> HIDE DEF m
<1>2. parts = [i \in 1 .. m |-> parts[i]] /\ \A i \in 1 .. m : parts[i] = Renaming(order[i])
  BY <1>1
<1>3. \A i \in 1 .. m : order[i] \in archive /\ parts[i] \in Seq(PairSet) /\ DOMAIN parts[i] = 1 .. 3
  <2>1. \A i \in 1 .. m : order[i] \in archive
    BY <1>1
  <2> HIDE DEF parts
  <2> QED
    BY <1>2, <2>1, RenamingIs
<1> HIDE DEF parts
<1>4. parts \in Seq(Seq(PairSet)) /\ Len(parts) = m
  <2>1. parts \in Seq(Seq(PairSet))
    BY <1>1, <1>2, <1>3, ListIs
  <2> QED
    BY <1>1, <1>2, <2>1
<1>5. FlattenSeq(parts) = Joined(parts)
  BY <1>4, FlattenIs
<1>6. Joined(parts) \in Seq(PairSet) /\ Holds(Joined(parts), parts, m)
  <2>1. \A k \in 1 .. Len(parts) : Apart(parts[k], {})
    BY DEF Apart
  <2> DEFINE R == {}
  <2>2. \A k, l \in 1 .. Len(parts) : k # l =>
          \A i \in DOMAIN parts[k], j \in DOMAIN parts[l] : <<parts[k][i], parts[l][j]>> \notin R
    OBVIOUS
  <2>2a. \A k \in 1 .. Len(parts) : Apart(parts[k], R)
    BY <2>1
  <2> HIDE DEF R
  <2>3. Joined(parts) \in Seq(PairSet) /\ Holds(Joined(parts), parts, Len(parts))
    BY <1>4, <2>2, <2>2a, JoinedParts
  <2> QED
    BY <1>4, <2>3
<1>7. \A p \in archive : \E k \in 1 .. m : order[k] = p
  BY <1>1 DEF Range
<1>8. \A i \in DOMAIN Joined(parts) : \E p \in archive : \E j \in 1 .. 3 : Joined(parts)[i] = Renaming(p)[j]
  <2> SUFFICES ASSUME NEW i \in DOMAIN Joined(parts)
               PROVE  \E p \in archive : \E j \in 1 .. 3 : Joined(parts)[i] = Renaming(p)[j]
    OBVIOUS
  <2>1. PICK k \in 1 .. m : \E j \in DOMAIN parts[k] : Joined(parts)[i] = parts[k][j]
    BY <1>6 DEF Holds
  <2>2. PICK j \in DOMAIN parts[k] : Joined(parts)[i] = parts[k][j]
    BY <2>1
  <2> QED
    BY <1>2, <1>3, <2>2
<1>9. ASSUME NEW p \in archive, NEW j \in 1 .. 3 PROVE \E i \in DOMAIN Joined(parts) : Joined(parts)[i] = Renaming(p)[j]
  <2>1. PICK k \in 1 .. m : order[k] = p
    BY <1>7
  <2>2. j \in DOMAIN parts[k] /\ parts[k][j] = Renaming(p)[j]
    BY <1>2, <1>3, <2>1
  <2> QED
    BY <1>6, <2>2 DEF Holds
<1>10. AllPairs(Joined(parts))
  BY <1>6, <1>8, <1>9 DEF AllPairs
<1> QED
  BY <1>5, <1>10 DEF parts

\* Where paths are apart, a reference to an entry follows it, and a fragment is left alone.
LEMMA PathsFollow ==
  ASSUME archive \subseteq Paths, PathsApart, NEW pairs, AllPairs(pairs),
         NEW p \in archive, NEW x \in Range(Spellings(p))
  PROVE  Rewritten(x, pairs) \in Range(Cleaned(p))
<1> DEFINE Y == Range(Cleaned(p))
<1>1. \A q \in archive : /\ Renaming(q) \in Seq(PairSet) /\ DOMAIN Renaming(q) = 1 .. 3
                         /\ \A j \in 1 .. 3 : /\ Renaming(q)[j].old = Spellings(q)[j]
                                              /\ Renaming(q)[j].new = Cleaned(q)[j]
  BY RenamingIs
<1>2. /\ DOMAIN Spellings(p) = 1 .. 3 /\ DOMAIN Cleaned(p) = 1 .. 3
      /\ \A j \in 1 .. 3 : Spellings(p)[j] \in Strings /\ Cleaned(p)[j] \in Strings
  BY SpellingsAre, StringsIn
<1>3. x \in Strings /\ Y \subseteq Strings
  BY <1>2 DEF Range
<1>4. PICK h \in 1 .. 3 : x = Spellings(p)[h]
  BY <1>2 DEF Range
<1>4a. \A j \in 1 .. 3 : Cleaned(p)[j] \in Y
  BY <1>2 DEF Range
<1> HIDE DEF Y
<1>5. ASSUME NEW i \in DOMAIN pairs, pairs[i].old # pairs[i].new
      PROVE  /\ Includes(x, pairs[i].old) => x = pairs[i].old /\ pairs[i].new \in Y
             /\ \A y \in Y : ~Includes(y, pairs[i].old)
  <2>1. PICK q \in archive : \E j \in 1 .. 3 : pairs[i] = Renaming(q)[j]
    BY DEF AllPairs
  <2>2. PICK j \in 1 .. 3 : pairs[i] = Renaming(q)[j]
    BY <2>1
  <2>3. pairs[i] \in Range(Renaming(q))
    BY <1>1, <2>2 DEF Range
  <2>4. /\ Includes(x, pairs[i].old) => x = pairs[i].old /\ q = p
        /\ \A y \in Y : ~Includes(y, pairs[i].old)
    BY <1>5, <2>3 DEF PathsApart, Y
  <2>5. q = p => pairs[i].new \in Y
    BY <1>1, <1>4a, <2>2
  <2> QED
    BY <2>4, <2>5
<1>6. x \in Y \/ \E i \in DOMAIN pairs : pairs[i].old # pairs[i].new /\ pairs[i].old = x
  <2>1. PICK i \in DOMAIN pairs : pairs[i] = Renaming(p)[h]
    BY DEF AllPairs
  <2>2. pairs[i].old = x /\ pairs[i].new \in Y
    BY <1>1, <1>4, <1>4a, <2>1
  <2> QED
    BY <2>2
<1>7. Rewritten(x, pairs) \in Y
  <2>1. pairs \in Seq(PairSet)
    BY DEF AllPairs
  <2> QED
    BY <1>3, <1>5, <1>6, <2>1, Arrives
<1> QED
  BY <1>7 DEF Y

LEMMA FragmentsStay ==
  ASSUME PathsApart, NEW pairs, AllPairs(pairs), NEW k \in DOMAIN original, original[k].at \in Strings
  PROVE  Rewritten(original[k].at, pairs) = original[k].at
<1> DEFINE at == original[k].at
<1>1. ASSUME NEW i \in DOMAIN pairs, pairs[i].old # pairs[i].new PROVE ~Includes(at, pairs[i].old)
  <2>1. PICK q \in archive : \E j \in 1 .. 3 : pairs[i] = Renaming(q)[j]
    BY DEF AllPairs
  <2>2. PICK j \in 1 .. 3 : pairs[i] = Renaming(q)[j]
    BY <2>1
  <2>3. DOMAIN Renaming(q) = 1 .. 3
    BY DEF Renaming
  <2>4. pairs[i] \in Range(Renaming(q))
    BY <2>2, <2>3 DEF Range
  <2> QED
    BY <1>1, <2>4 DEF PathsApart
<1>2. pairs \in Seq(PairSet)
  BY DEF AllPairs
<1> HIDE DEF at
<1>3. at \in Strings
  BY DEF at
<1>4. Rewritten(at, pairs) \in {at}
  BY <1>1, <1>2, <1>3, Arrives
<1> QED
  BY <1>4 DEF at
-----------------------------------------------------------------------------
\* What the repair keeps: until it is done, what the document was and where its entries went.
RepairInv ==
    /\ OriginalOK /\ archive \subseteq Paths /\ IsFiniteSet(archive)
    /\ progress = "found" => document = original /\ entries = [p \in archive |-> p]
    /\ progress = "copied" => Copied
    /\ IdsAreSound /\ LinksStand

LEMMA FoundHolds == ASSUME Found PROVE RepairInv
<1>1. OriginalOK /\ progress = "found" /\ document = original /\ archive \subseteq Paths
      /\ IsFiniteSet(archive) /\ entries = [p \in archive |-> p]
  BY OriginalFound DEF Found
<1> QED
  BY <1>1 DEF RepairInv, IdsAreSound, LinksStand

LEMMA CopyHolds == ASSUME RepairInv, Copy PROVE RepairInv'
<1>1. /\ OriginalOK /\ document = original /\ entries = [p \in archive |-> p] /\ archive \subseteq Paths
      /\ IsFiniteSet(archive)
      /\ progress' = "copied" /\ kind' = kind /\ original' = original /\ archive' = archive
  BY DEF RepairInv, Copy
<1>2. DOMAIN entries = archive /\ \A p \in archive : entries[p] = p
  BY <1>1
<1>3. /\ \A p, q \in archive : Clean[p] = Clean[q] => p = q
      /\ entries' = [c \in {Clean[p] : p \in archive} |-> CHOOSE p \in archive : Clean[p] = c]
  BY <1>2 DEF Copy, Twice
<1>3a. PICK pairs : AllPairs(pairs) /\ document' = [i \in DOMAIN original |-> Referred(pairs, original[i])]
  <2>1. PICK order \in [1 .. Cardinality(archive) -> archive] :
          /\ Range(order) = archive
          /\ LET all == FlattenSeq([i \in DOMAIN order |-> Renaming(order[i])])
             IN  document' = [i \in DOMAIN original |-> Referred(all, original[i])]
    BY <1>1, <1>2 DEF Copy
  <2>2. AllPairs(FlattenSeq([i \in DOMAIN order |-> Renaming(order[i])]))
    BY <1>1, <2>1, AllPairsAre
  <2> QED
    BY <2>1, <2>2
<1>4. OriginalOK'
  BY <1>1 DEF OriginalOK, Proper
<1>5. ASSUME NEW k \in DOMAIN original
      PROVE  LET o == original[k] e == Referred(pairs, o) IN
             /\ e \in ElementSet /\ e = [o EXCEPT !.path = e.path, !.at = e.at]
             /\ o.tag # "link" => e.at = o.at
             /\ PathsApart /\ o.tag = "link" =>
                  /\ e.at = o.at
                  /\ \A p \in archive : o.path \in Range(Spellings(p)) => e.path \in Range(Cleaned(p))
  <2> DEFINE o == original[k]
             e == Referred(pairs, o)
  <2>1. o \in ElementSet /\ o.path \in Strings /\ o.at \in Strings /\ pairs \in Seq(PairSet)
    <3>1. o \in ElementSet /\ pairs \in Seq(PairSet)
      BY <1>1, <1>3a DEF OriginalOK, AllPairs
    <3> HIDE DEF o
    <3> QED
      BY <3>1 DEF ElementSet
  <2>2. CASE o.tag # "link"
    <3>1. e = o
      BY <2>2 DEF Referred
    <3>2. [o EXCEPT !.path = o.path, !.at = o.at] = o
      BY <2>1 DEF ElementSet
    <3> HIDE DEF o, e
    <3>3. /\ e \in ElementSet /\ e = [o EXCEPT !.path = e.path, !.at = e.at] /\ e.at = o.at
      BY <2>1, <3>1, <3>2
    <3> QED
      BY <2>2, <3>3 DEF o, e
  <2>3. CASE o.tag = "link"
    <3>1. e = [o EXCEPT !.path = Rewritten(o.path, pairs), !.at = Rewritten(o.at, pairs)]
      BY <2>3 DEF Referred
    <3>2. Rewritten(o.path, pairs) \in Strings /\ Rewritten(o.at, pairs) \in Strings
      BY <2>1, RewrittenIn
    <3>3. PathsApart => /\ Rewritten(o.at, pairs) = o.at
                        /\ \A p \in archive : o.path \in Range(Spellings(p)) =>
                             Rewritten(o.path, pairs) \in Range(Cleaned(p))
      BY <1>1, <1>3a, <2>1, PathsFollow, FragmentsStay
    <3> HIDE DEF o, e
    <3>4. e \in ElementSet /\ e.path = Rewritten(o.path, pairs) /\ e.at = Rewritten(o.at, pairs)
      BY <2>1, <3>1, <3>2 DEF ElementSet
    <3>5. e = [o EXCEPT !.path = e.path, !.at = e.at]
      BY <3>1, <3>4
    <3> QED
      BY <2>3, <3>3, <3>4, <3>5 DEF o, e
  <2> QED
    BY <2>2, <2>3
<1>6. document' \in Seq(ElementSet) /\ Len(document') = Len(original)
      /\ \A k \in DOMAIN original : document'[k] = Referred(pairs, original[k])
  <2>1. Len(original) \in Nat /\ DOMAIN original = 1 .. Len(original)
    BY <1>1 DEF OriginalOK
  <2>2. \A k \in DOMAIN original : document'[k] = Referred(pairs, original[k])
    BY <1>3a
  <2>3. document' = [k \in 1 .. Len(original) |-> document'[k]]
    BY <1>3a, <2>1
  <2>4. \A k \in 1 .. Len(original) : document'[k] \in ElementSet
    BY <1>5, <2>1, <2>2
  <2>5. document' \in Seq(ElementSet)
    BY <2>1, <2>3, <2>4, ListIs
  <2>6. Len(document') = Len(original)
    BY <2>1, <2>3
  <2> QED
    BY <2>2, <2>5, <2>6
<1>7. ASSUME NEW p \in archive PROVE Clean[p] \in DOMAIN entries' /\ entries'[Clean[p]] = p
  <2>1. Clean[p] \in DOMAIN entries' /\ entries'[Clean[p]] = CHOOSE q \in archive : Clean[q] = Clean[p]
    BY <1>3
  <2>2. (CHOOSE q \in archive : Clean[q] = Clean[p]) = p
    BY <1>3
  <2> QED
    BY <2>1, <2>2
<1>8. Copied'
  <2>1. PathsApart' = PathsApart
    BY <1>1 DEF PathsApart
  <2>2. \A k \in DOMAIN original :
         /\ document'[k] = [original[k] EXCEPT !.path = document'[k].path, !.at = document'[k].at]
         /\ original[k].tag # "link" => document'[k].at = original[k].at
         /\ PathsApart /\ original[k].tag = "link" =>
              /\ document'[k].at = original[k].at
              /\ \A p \in archive : original[k].path \in Range(Spellings(p)) => document'[k].path \in Range(Cleaned(p))
    BY <1>5, <1>6
  <2> QED
    BY <1>1, <1>6, <1>7, <2>1, <2>2 DEF Copied
<1> QED
  BY <1>1, <1>4, <1>8 DEF RepairInv, IdsAreSound, LinksStand

LEMMA RepairXmlHolds == ASSUME RepairInv, RepairXml PROVE RepairInv'
<1>1. /\ OriginalOK /\ Copied /\ archive \subseteq Paths /\ IsFiniteSet(archive) /\ progress' = "repaired"
      /\ kind' = kind /\ original' = original /\ archive' = archive /\ entries' = entries
  BY DEF RepairInv, RepairXml
<1>2. OriginalOK' /\ Plain' = Plain
  BY <1>1 DEF OriginalOK, Proper, Plain, Target, Calls, Splits
<1>3. (IdsAreSound /\ LinksStand)'
  <2>1. CASE ~(Plain /\ NothingPassedOn)'
    BY <2>1 DEF IdsAreSound, LinksStand
  <2>2. CASE (Plain /\ NothingPassedOn)'
    <3> DEFINE s == Renamed(kind, original)
    <3>1. Plain /\ NothingPassedOn
      BY <1>1, <1>2, <2>2 DEF NothingPassedOn
    <3>2. Settled(s) /\ RepairedAs(s, document')
      BY <1>1, <3>1, AllSettled, RepairedIs
    <3>3. IdsAreSound'
      <4> HIDE DEF s
      <4>1. IdsOf(document') \cap (Ids \ Valid) = {}
        BY <3>2, IdsHold
      <4> QED
        BY <3>2, <4>1 DEF IdsAreSound, RepairedAs, IdsOf
    <3>4. ASSUME IdsApart, PathsApart, NEW i \in DOMAIN document', document'[i].tag = "link"
          PROVE  LET old == original[document'[i].key] IN
                   /\ \A p \in archive : old.path \in Range(Spellings(p)) =>
                        \E q \in DOMAIN entries : document'[i].path \in Range(Spellings(q)) /\ entries[q] = p
                   /\ Leads(original, old.at) # {} => Leads(document', document'[i].at) = Leads(original, old.at)
      <4>1. PICK k \in DOMAIN original :
              /\ document'[i].key = k /\ original[k].tag = "link"
              /\ document'[i].path \in {document[k].path, PointsTo(s.rewritten, document[k].path)}
        BY <3>2, <3>4 DEF RepairedAs
      <4>2. ASSUME NEW p \in archive, original[k].path \in Range(Spellings(p))
            PROVE  \E q \in DOMAIN entries : document'[i].path \in Range(Spellings(q)) /\ entries[q] = p
        <5>1. document[k].path \in Range(Cleaned(p))
          BY <1>1, <3>4, <4>1, <4>2 DEF Copied
        <5>2. Clean[p] \in DOMAIN entries /\ entries[Clean[p]] = p
          BY <1>1 DEF Copied
        <5>3. p \in Paths /\ Clean[p] \in Paths
          BY <1>1, RepairAssumption
        <5>4. document'[i].path = document[k].path
          <6>1. \A j \in DOMAIN s.rewritten : s.rewritten[j].old # document[k].path
            BY <3>4, <5>1 DEF IdsApart, Range
          <6>2. document[k].path \in NameSet /\ s.rewritten \in Seq(RewriteSet)
            BY <3>2, <5>1, <5>3, SpellingsAre DEF Range, Settled
          <6> HIDE DEF s
          <6>3. PointsTo(s.rewritten, document[k].path) = document[k].path
            BY <6>1, <6>2, Followed
          <6> QED
            BY <4>1, <6>3
        <5>5. Range(Cleaned(p)) \subseteq Range(Spellings(Clean[p]))
          BY CleanedSpells
        <5> QED
          BY <5>1, <5>2, <5>4, <5>5
      <4>3. Leads(original, original[k].at) # {} =>
              Leads(document', document'[i].at) = Leads(original, original[k].at)
        BY <1>1, <3>1, <3>2, <3>4, <4>1, LinksHold
      <4> QED
        BY <4>1, <4>2, <4>3
    <3>5. LinksStand'
      <4>1. (IdsApart /\ PathsApart)' => IdsApart /\ PathsApart
        BY <1>1 DEF IdsApart, PathsApart
      <4>2. \A at : Leads(original, at)' = Leads(original, at)
        BY <1>1 DEF Leads, Calls
      <4>3. \A i \in DOMAIN document' : Leads(document, document[i].at)' = Leads(document', document'[i].at)
        BY <1>1 DEF Leads, Calls
      <4> QED
        BY <1>1, <3>4, <4>1, <4>2, <4>3 DEF LinksStand
    <3> QED
      BY <3>3, <3>5
  <2> QED
    BY <2>1, <2>2
<1> QED
  BY <1>1, <1>2, <1>3 DEF RepairInv

LEMMA MendKeeps == RepairInv /\ [Mends]_repair => RepairInv'
<1> SUFFICES ASSUME RepairInv, [Mends]_repair PROVE RepairInv'
  OBVIOUS
<1>1. CASE Refuse
  <2>1. UNCHANGED <<kind, document, entries, original, archive>> /\ progress' = "refused"
    BY <1>1 DEF Refuse
  <2>2. OriginalOK' /\ (archive \subseteq Paths /\ IsFiniteSet(archive))'
    BY <2>1 DEF RepairInv, OriginalOK, Proper
  <2> QED
    BY <2>1, <2>2 DEF RepairInv, IdsAreSound, LinksStand
<1>2. CASE Copy
  BY <1>2, CopyHolds
<1>3. CASE RepairXml
  BY <1>3, RepairXmlHolds
<1>4. CASE UNCHANGED repair
  <2>1. /\ kind' = kind /\ document' = document /\ entries' = entries /\ original' = original
        /\ archive' = archive /\ progress' = progress
    BY <1>4 DEF repair
  <2>2. OriginalOK' /\ (archive \subseteq Paths /\ IsFiniteSet(archive))'
    BY <2>1 DEF RepairInv, OriginalOK, Proper
  <2>3. Copied' = Copied /\ IdsAreSound' = IdsAreSound /\ LinksStand' = LinksStand
    BY <2>1 DEF Copied, IdsAreSound, LinksStand, Plain, NothingPassedOn, IdsApart, PathsApart, Target, Leads,
                Calls, Splits
  <2> QED
    BY <2>1, <2>2, <2>3 DEF RepairInv
<1> QED
  BY <1>1, <1>2, <1>3, <1>4 DEF Mends

LEMMA RepairInvHolds == RepairSpec => []RepairInv
<1>1. Found => RepairInv
  BY FoundHolds
<1> QED
  BY <1>1, MendKeeps, PTL DEF RepairSpec

\* After the repair every id is one that XML allows and no two elements have the same, for any
\* document no two elements of which are called the same, if no element is given what another one
\* was called (uniqueId and repairXml, repair.ts:206-252).
THEOREM IdsStaySound == RepairSpec => []IdsAreSound
<1>1. RepairInv => IdsAreSound
  BY DEF RepairInv
<1> QED
  BY <1>1, RepairInvHolds, PTL

\* For any such document and any archive, in whatever order its entries are taken, if no id and no
\* path that is replaced is found within another reference (IdsApart, PathsApart), a link whose path
\* is written out, or escaped throughout, leads where it led: to the same element, and to the entry
\* that was copied (createRepairedEpubWorkspace and repairXml, repair.ts:88-114, 308-322, 411-458).
THEOREM LinksStillStand == RepairSpec => []LinksStand
<1>1. RepairInv => LinksStand
  BY DEF RepairInv
<1> QED
  BY <1>1, RepairInvHolds, PTL
=============================================================================
