----------------------------- MODULE JobDomain -----------------------------
(***************************************************************************)
(* The vocabulary of a translation job: src/shared/domain/job.ts.          *)
(*                                                                         *)
(* A job's state file is abstracted to its status and its stage.  The nine *)
(* stages are folded into four: "translation" stands for every stage in    *)
(* which a run works on batches or builds the book (translation, editing,  *)
(* audit, repair, building, validation), because no decision of the server *)
(* tells them apart.  "deleted" is the absence of the file.                *)
(***************************************************************************)

Statuses == {"created", "analyzing", "ready", "running", "stopping",
             "paused", "needs_attention", "completed", "failed"}

Stages == {"import", "analysis", "translation", "complete"}

JobState == [status : Statuses \cup {"deleted"}, stage : Stages]

\* The statuses that say work is in progress: what assertMutable, pause and
\* the start-up recovery test for.
Transient == {"running", "stopping", "analyzing"}

\* The statuses launchStart accepts.
Startable == {"ready", "paused", "completed", "failed", "needs_attention"}

\* The table of legal moves.
Moves == [created         |-> {"analyzing", "failed"},
          analyzing       |-> {"ready", "failed", "paused"},
          ready           |-> {"running", "failed"},
          running         |-> {"stopping", "paused", "needs_attention",
                               "completed", "failed"},
          stopping        |-> {"paused", "needs_attention", "failed"},
          paused          |-> {"analyzing", "running", "failed"},
          needs_attention |-> {"running", "paused", "failed"},
          completed       |-> {"running"},
          failed          |-> {"running"}]

CanTransition(from, to) == to \in Moves[from]

\* The resting states a data directory can hold when the server boots on it.
RestStates ==
    {[status |-> "created",         stage |-> "import"],
     [status |-> "ready",           stage |-> "analysis"],
     [status |-> "ready",           stage |-> "translation"],
     [status |-> "paused",          stage |-> "analysis"],
     [status |-> "paused",          stage |-> "translation"],
     [status |-> "failed",          stage |-> "analysis"],
     [status |-> "failed",          stage |-> "translation"],
     [status |-> "paused",          stage |-> "complete"],
     [status |-> "failed",          stage |-> "complete"],
     [status |-> "needs_attention", stage |-> "complete"],
     [status |-> "completed",       stage |-> "complete"]}
=============================================================================
