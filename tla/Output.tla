--------------------------------- MODULE Output ---------------------------------
(* The published book after its run: rebuild zips the staging folder again, and  *)
(* repairEpub zips a copy of it whose conformance was mended, each after asking  *)
(* once that the job is at rest. Neither holds a claim while it works: what they *)
(* save at the end is the copy of the job they read at the beginning.            *)
(* Bounds: the requests in Callers, each made once; MaxRuns runs of the job.     *)
EXTENDS Naturals

CONSTANTS None,
          Callers,   \* the requests for a rebuild or a repair
          MaxRuns    \* bound: runs of the job

VARIABLES job,        \* job.json: its status, and whether a repair was accepted
          run,        \* runs begun; the staging folder holds what the last one left there
          staging,
          attention,  \* hasRunAttentionReasons: what the reports on disk say
          output,     \* output.epub
          epubcheck,  \* epubcheck-report.json
          call        \* the requests under way
vars == <<job, run, staging, attention, output, epubcheck, call>>

Built == {"completed", "needs_attention"}
Resting == Built \cup {"ready", "failed", "paused"}
Source == 0                                  \* the book before its translation
Book(rev, repaired) == [rev |-> rev, repaired |-> repaired]
Idle == [at |-> "new", op |-> None, job |-> None, book |-> None, verdict |-> None]

Init ==
  /\ job = [status |-> "ready", repaired |-> FALSE] /\ run = 0 /\ staging = Source
  /\ attention = FALSE /\ output = None /\ epubcheck = None
  /\ call = [c \in Callers |-> Idle]
----------------------------------------------------------------------------
(* The run of a job: it begins with the source and ends with a book or a pause. *)
Run ==
  /\ job.status \in Resting /\ run < MaxRuns
  /\ job' = [job EXCEPT !.status = "running"] /\ run' = run + 1 /\ staging' = Source
  /\ UNCHANGED <<attention, output, epubcheck, call>>
Status(ok) == IF attention' \/ ~ok THEN "needs_attention" ELSE "completed"
\* The checker is optional: without it there is nothing to report.
Verdicts == {"conforms", "errors", "not installed"}
Ok(v) == v # "errors"
Finish ==
  /\ job.status = "running" /\ staging' = run /\ output' = Book(run, FALSE)
  /\ attention' \in BOOLEAN /\ epubcheck' \in Verdicts
  /\ job' = [job EXCEPT !.status = Status(Ok(epubcheck'))] /\ UNCHANGED <<run, call>>
Pause ==
  /\ job.status = "running" /\ job' = [job EXCEPT !.status = "paused"]
  /\ UNCHANGED <<run, staging, attention, output, epubcheck, call>>
----------------------------------------------------------------------------
(* A request: it reads the job, builds, checks, renames, reports and saves. *)
At(c, at) == call[c].at = at
Goes(c, at) == call' = [call EXCEPT ![c].at = at]
Disk == <<run, staging, attention>>
Enter(c, op, statuses) ==
  /\ At(c, "new") /\ job.status \in statuses
  /\ call' = [call EXCEPT ![c] = [Idle EXCEPT !.at = "build", !.op = op, !.job = job]]
  /\ UNCHANGED <<job, Disk, output, epubcheck>>
Rebuild(c) == Enter(c, "rebuild", Resting)
RepairEpub(c) == Enter(c, "repair", Built)
\* createRepairedEpubWorkspace: a copy, so that the staging folder stays as it is.
Copied(c) == call[c].op = "repair" \/ call[c].job.repaired
Build(c) ==
  /\ At(c, "build")
  /\ call' = [call EXCEPT ![c].book = Book(staging, Copied(c)),
                          ![c].at = IF call[c].op = "repair" THEN "check" ELSE "publish"]
  /\ UNCHANGED <<job, Disk, output, epubcheck>>
\* A name that would be there twice, an archive that does not validate, a disk that is full.
Fails(c) ==
  /\ At(c, "build") /\ Goes(c, "failed") /\ UNCHANGED <<job, Disk, output, epubcheck>>
\* A repair is checked before it is published, and a book with errors keeps the one there was.
Check(c) ==
  /\ At(c, "check")
  /\ \E v \in Verdicts :
       call' = [call EXCEPT ![c].verdict = v, ![c].at = IF Ok(v) THEN "publish" ELSE "failed"]
  /\ UNCHANGED <<job, Disk, output, epubcheck>>
Publish(c) ==
  /\ At(c, "publish") /\ output' = call[c].book
  /\ Goes(c, IF call[c].op = "repair" THEN "report" ELSE "look")
  /\ UNCHANGED <<job, Disk, epubcheck>>
\* A rebuild is checked where it was published.
Look(c) ==
  /\ At(c, "look") /\ \E v \in Verdicts : call' = [call EXCEPT ![c].verdict = v, ![c].at = "report"]
  /\ UNCHANGED <<job, Disk, output, epubcheck>>
Report(c) ==
  /\ At(c, "report") /\ Goes(c, "save")
  /\ epubcheck' = call[c].verdict
  /\ UNCHANGED <<job, Disk, output>>
Save(c) ==
  /\ At(c, "save") /\ Goes(c, "done") /\ UNCHANGED <<Disk, output, epubcheck>>
  /\ job' = [status |-> IF attention \/ ~Ok(call[c].verdict) THEN "needs_attention" ELSE "completed",
             repaired |-> call[c].job.repaired \/ call[c].op = "repair"]
\* The process ends with its requests, and the next one pauses the job that was running.
Crash ==
  /\ call' = [c \in Callers |-> IF At(c, "new") THEN Idle ELSE [Idle EXCEPT !.at = "failed"]]
  /\ job' = IF job.status = "running" THEN [job EXCEPT !.status = "paused"] ELSE job
  /\ UNCHANGED <<Disk, output, epubcheck>>

Next ==
  \/ Run \/ Finish \/ Pause \/ Crash
  \/ \E c \in Callers : \/ Rebuild(c) \/ RepairEpub(c) \/ Build(c) \/ Fails(c) \/ Check(c)
                        \/ Publish(c) \/ Look(c) \/ Report(c) \/ Save(c)
Spec == Init /\ [][Next]_vars
----------------------------------------------------------------------------
\* A rebuild never undoes a repair of the book that is published: "A job whose output was
\* repaired is rebuilt from a repaired copy, or this would publish the unrepaired staging and
\* undo it" (job-orchestrator.ts:605-606).
RepairIsKept ==
  [][\A c \in Callers :
       (At(c, "publish") /\ call[c].op = "rebuild" /\ output' = call[c].book) =>
         (output # None /\ output.repaired => output'.repaired)]_output
=============================================================================
