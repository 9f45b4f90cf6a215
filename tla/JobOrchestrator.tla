-------------------------- MODULE JobOrchestrator --------------------------
(***************************************************************************)
(* The coordinator of translation jobs: src/server/jobs/job-orchestrator.ts *)
(* with its single-slot scheduler, the start-up recovery and the API       *)
(* handlers that change a job's state file.                                *)
(*                                                                         *)
(* One Node.js process runs it all.  A step of this specification is the   *)
(* code between two awaits together with the file access it resumes from;  *)
(* handlers and the background run interleave at every await.  When the    *)
(* scheduled promise settles, the reactions attached to it run in the      *)
(* microtask queue, before any other callback: `settled' holds everything  *)
(* else back until they have run.                                          *)
(*                                                                         *)
(* A request is used once, and the run and the AbortController that a      *)
(* request creates are named after it.                                     *)
(***************************************************************************)
EXTENDS JobDomain, Naturals

CONSTANTS Jobs,        \* the jobs in the data directory
          Reqs,        \* the requests clients send in one behavior
          Ops,         \* the operations they ask for
          None,        \* "no value"
          Parallel,    \* may a run translate several batches at once?
          DiskFaults,  \* may the first save of a run, or that of its result, fail?
          MaxCrashes   \* bound: how often the process dies

\* An entry of the `active' map: whose AbortController it holds, whose promise.
Entries == [ctrl : Reqs, run : Reqs, kind : {"analysis", "translation"}]

ASSUME ConstantsAssumption ==
    /\ None \notin Jobs
    /\ None \notin Reqs
    /\ None \notin Entries /\ None \notin [id : Reqs, ok : BOOLEAN]
    /\ None \notin Ops /\ None # "pause"
    /\ Ops \subseteq {"analyze", "start", "pause", "resume", "retry",
                      "invalidate", "source", "config", "rebuild", "delete"}
    /\ Parallel \in BOOLEAN
    /\ DiskFaults \in BOOLEAN
    /\ MaxCrashes \in Nat

VARIABLES
  \* The data directory.
    state,       \* state[j]: jobs/<j>/state.json
    prepared,    \* prepared[j]: does prepared.json exist?
  \* The orchestrator's and the scheduler's memory.
    claims,      \* jobs being launched or analyzed, before they are active
    active,      \* active[j]: the entry of the `active' map
    launches,    \* launches[j]: the request whose launch others join
    slot,        \* the scheduler's only slot
    task,        \* the scheduled task: where it is and what it will save
    aborted,     \* the controllers that have been aborted
    patch,       \* patch[t]: the state patch of run t being written
    stragglers,  \* failed runs some of whose workers are still busy
    cleanups,    \* promise.finally reactions of launches
    settled,     \* the run whose reactions are being run
  \* The request handlers.
    pc, op, target, val, hold,
  \* Process life.
    recovering, crashes

disk == <<state, prepared>>
memory == <<claims, active, launches, cleanups>>
running == <<slot, task, patch, stragglers, settled>>
handlers == <<pc, op, target, val, hold>>
life == <<recovering, crashes>>
vars == <<disk, memory, running, aborted, handlers, life>>

-----------------------------------------------------------------------------

Free == [id |-> None, job |-> None]

\* A task that has nothing to save yet.
TaskAt(where) == [at |-> where, save |-> None, ok |-> FALSE]

NoTask == TaskAt("idle")

\* Run t is still executing, so its promise has not settled.
Live(t) == slot.id = t /\ slot # Free

\* JobOrchestrator.isActive
IsActive(j) == j \in claims \/ active[j] # None

\* JobOrchestrator.assertMutable
Mutable(j) == ~IsActive(j) /\ state[j].status \notin Transient

Exists(j) == state[j].status # "deleted"

WithStatus(s, status) == [status |-> status, stage |-> s.stage]

\* JobRepository.save: the whole file is replaced, whatever it holds now.
Save(j, s) == state' = [state EXCEPT ![j] = s]

\* Synchronous code resumes from an await only when no microtask is due.
MacroTask == settled = None

Goto(r, where) == pc' = [pc EXCEPT ![r] = where]

Reads(r, where) == pc[r] = where /\ MacroTask

Init ==
    /\ state \in [Jobs -> RestStates]
    /\ prepared \in [Jobs -> BOOLEAN]
    /\ \A j \in Jobs : \/ prepared[j]
                        \/ /\ state[j].status \in {"created", "failed", "paused"}
                           /\ state[j].stage \in {"import", "analysis"}
    /\ claims = {}
    /\ active = [j \in Jobs |-> None]
    /\ launches = [j \in Jobs |-> None]
    /\ slot = Free
    /\ task = NoTask
    /\ aborted = {}
    /\ patch = [r \in Reqs |-> None]
    /\ stragglers = {}
    /\ cleanups = {}
    /\ settled = None
    /\ pc = [r \in Reqs |-> "unsent"]
    /\ op = [r \in Reqs |-> None]
    /\ target = [r \in Reqs |-> None]
    /\ val = [r \in Reqs |-> None]
    /\ hold = [r \in Reqs |-> None]
    /\ recovering = {}
    /\ crashes = 0

-----------------------------------------------------------------------------
(* Analysis and launch, from the request's side. *)

\* The synchronous head of analyze: refuse a busy job, claim a free one.
\* `entry' is the job's entry in the active map.
EnterAnalyze(r, j, entry) ==
    /\ IF j \in claims \/ entry # None
       THEN Goto(r, "done") /\ UNCHANGED claims
       ELSE Goto(r, "analyzeGet") /\ claims' = claims \cup {j}
    /\ UNCHANGED launches

\* The synchronous head of start: join a pending launch, leave an active job
\* alone, or launch.
EnterStart(r, j, entry) ==
    IF launches[j] # None \/ entry # None
    THEN Goto(r, "done") /\ UNCHANGED <<claims, launches>>
    ELSE /\ Goto(r, "startGet")
         /\ claims' = claims \cup {j}
         /\ launches' = [launches EXCEPT ![j] = r]

\* Where resume and retry continue, by the stage they read.
EnterAgain(r, j, stage, entry) ==
    IF stage = "analysis" THEN EnterAnalyze(r, j, entry)
                          ELSE EnterStart(r, j, entry)

\* A client sends request r; analyze and start run their head at once.
Send(r, o, j) ==
    /\ Reads(r, "unsent") /\ recovering = {}
    /\ op' = [op EXCEPT ![r] = o]
    /\ target' = [target EXCEPT ![r] = j]
    /\ CASE o = "analyze" -> EnterAnalyze(r, j, active[j])
         [] o = "start"   -> EnterStart(r, j, active[j])
         [] o = "pause"   -> Goto(r, "pauseGet") /\ UNCHANGED <<claims, launches>>
         [] o = "resume"  -> Goto(r, "resumeGet") /\ UNCHANGED <<claims, launches>>
         [] o = "retry"   -> Goto(r, "retryGet") /\ UNCHANGED <<claims, launches>>
         [] OTHER         -> Goto(r, "mutGet") /\ UNCHANGED <<claims, launches>>
    /\ UNCHANGED <<disk, active, cleanups, running, aborted, val, hold, life>>

\* Mutant of Schedule: the run does not wait for its gate.
ScheduleUngated(r, j, at) ==
    /\ slot = Free \/ slot.job = j
    /\ IF slot = Free
       THEN /\ slot' = [id |-> r, job |-> j]
            /\ task' = TaskAt(IF at = "gated" THEN "working" ELSE at)
       ELSE UNCHANGED <<slot, task>>

\* Scheduler.schedule: take the free slot with a task that starts at `at', or
\* join the promise of the same job's task, which drops the new task.
Schedule(r, j, at) ==
    /\ slot = Free \/ slot.job = j
    /\ IF slot = Free
       THEN /\ slot' = [id |-> r, job |-> j]
            /\ task' = TaskAt(at)
       ELSE UNCHANGED <<slot, task>>

\* Scheduler.schedule throws.
SlotTaken(j) == slot # Free /\ slot.job # j

\* Mutant of Entry: the promise is read before the task is scheduled.
EntryTooEarly(r, kind) == [ctrl |-> r, run |-> slot.id, kind |-> kind]

\* The entry request r makes for the run it scheduled or joined.
Entry(r, kind) == [ctrl |-> r, run |-> slot'.id, kind |-> kind]

AnalyzeGet(r) ==
    LET j == target[r] IN
    /\ Reads(r, "analyzeGet")
    /\ claims' = claims \ {j}
    /\ \/ /\ Exists(j) /\ state[j].status \notin Transient
          /\ Schedule(r, j, "analyzing")
          /\ active' = [active EXCEPT ![j] = Entry(r, "analysis")]
          /\ hold' = [hold EXCEPT ![r] = slot'.id]
          /\ Goto(r, "analyzeWait")
       \/ /\ ~Exists(j) \/ state[j].status \in Transient \/ SlotTaken(j)
          /\ Goto(r, "done")
          /\ UNCHANGED <<slot, task, active, hold>>
    /\ UNCHANGED <<disk, launches, cleanups, patch, stragglers, settled,
                   aborted, op, target, val, life>>

\* The finally of analyze, and its catch when the run failed.
AnalyzeSettled(r) ==
    LET j == target[r] IN
    /\ pc[r] = "analyzeWait" /\ settled # None /\ settled.id = hold[r]
    /\ active' = [active EXCEPT ![j] = None]
    /\ claims' = IF settled.ok THEN claims ELSE claims \ {j}
    /\ Goto(r, "done")
    /\ UNCHANGED <<disk, launches, cleanups, running, aborted, op, target,
                   val, hold, life>>

\* Mutant of AbandonLaunch: a refused launch keeps its claim.
AbandonKeepsClaim(r) ==
    /\ UNCHANGED claims
    /\ launches' = [launches EXCEPT ![target[r]] = None]
    /\ Goto(r, "done")

\* The catch of launchStart, and the reaction that forgets the launch.
AbandonLaunch(r) ==
    /\ claims' = claims \ {target[r]}
    /\ launches' = [launches EXCEPT ![target[r]] = None]
    /\ Goto(r, "done")

StartGet(r) ==
    LET j == target[r] IN
    /\ Reads(r, "startGet")
    /\ IF Exists(j) /\ state[j].status \in Startable
       THEN /\ val' = [val EXCEPT ![r] = state[j]]
            /\ Goto(r, "startSchedule")
            /\ UNCHANGED <<claims, launches>>
       ELSE AbandonLaunch(r) /\ UNCHANGED val
    /\ UNCHANGED <<disk, active, cleanups, running, aborted, op, target, hold,
                   life>>

\* The authority holds, the fingerprint and the journals have been read: the
\* run is scheduled behind its gate.  A changed source restarts at the
\* translation stage.
StartSchedule(r) ==
    LET j == target[r] IN
    /\ Reads(r, "startSchedule")
    /\ Schedule(r, j, "gated")
    /\ active' = [active EXCEPT ![j] = Entry(r, "translation")]
    /\ hold' = [hold EXCEPT ![r] = slot'.id]
    /\ \E stage \in {val[r].stage, "translation"} :
          val' = [val EXCEPT ![r] = [status |-> "running", stage |-> stage]]
    /\ Goto(r, "startSave")
    /\ UNCHANGED <<disk, claims, launches, cleanups, patch, stragglers,
                   settled, aborted, op, target, life>>

\* The authority has lapsed, or another job holds the slot.
StartRefused(r) ==
    /\ Reads(r, "startSchedule")
    /\ AbandonLaunch(r)
    /\ UNCHANGED <<disk, active, cleanups, running, aborted, op, target, val,
                   hold, life>>

StartSave(r) ==
    /\ Reads(r, "startSave")
    /\ Save(target[r], val[r])
    /\ Goto(r, "startManifest")
    /\ UNCHANGED <<prepared, memory, running, aborted, op, target, val, hold,
                   life>>

\* Mutant of OpenGate: the gate stays shut.
NeverOpenGate(r) == UNCHANGED task

\* The gate that request r made; a joined run has no gate of its own.
OpenGate(r) ==
    task' = IF slot.id = r /\ task.at = "gated"
            THEN TaskAt("working") ELSE task

\* promise.finally of a launch: drop the entry if it still is for this run.
Forget(j, t) ==
    active' = IF active[j] # None /\ active[j].kind = "translation"
                 /\ active[j].run = t
              THEN [active EXCEPT ![j] = None] ELSE active

\* The manifest is written: unclaim, open the gate, attach the reaction (which
\* runs at once when the joined run has settled already).
StartManifest(r) ==
    LET j == target[r] IN
    /\ Reads(r, "startManifest")
    /\ claims' = claims \ {j}
    /\ OpenGate(r)
    /\ IF Live(hold[r])
       THEN /\ cleanups' = cleanups \cup {[job |-> j, run |-> hold[r]]}
            /\ UNCHANGED active
       ELSE Forget(j, hold[r]) /\ UNCHANGED cleanups
    /\ Goto(r, "startEmit")
    /\ UNCHANGED <<disk, launches, slot, patch, stragglers, settled, aborted,
                   op, target, val, hold, life>>

\* Saving the state or the manifest failed: abort, open the gate, throw.
StartFails(r) ==
    /\ DiskFaults
    /\ Reads(r, "startSave") \/ Reads(r, "startManifest")
    /\ aborted' = aborted \cup {r}
    /\ OpenGate(r)
    /\ AbandonLaunch(r)
    /\ UNCHANGED <<disk, active, cleanups, slot, patch, stragglers, settled,
                   op, target, val, hold, life>>

StartEmit(r) ==
    /\ Reads(r, "startEmit")
    /\ launches' = [launches EXCEPT ![target[r]] = None]
    /\ Goto(r, "done")
    /\ UNCHANGED <<disk, claims, active, cleanups, running, aborted, op,
                   target, val, hold, life>>

-----------------------------------------------------------------------------
(* Pause, resume, retry. *)

PauseGet(r) ==
    LET j == target[r]
        Then(where, s, c) == /\ val' = [val EXCEPT ![r] = s]
                             /\ hold' = [hold EXCEPT ![r] = c]
                             /\ Goto(r, where)
    IN
    /\ Reads(r, "pauseGet")
    /\ \/ /\ Exists(j) /\ active[j] # None
          /\ Then("pauseSave", WithStatus(state[j], "stopping"),
                  active[j].ctrl)
       \/ /\ Exists(j) /\ active[j] = None /\ state[j].status \in Transient
          /\ Then("pauseIdle", WithStatus(state[j], "paused"), None)
       \/ /\ ~Exists(j) \/ (active[j] = None /\ state[j].status \notin Transient)
          /\ Goto(r, "done") /\ UNCHANGED <<val, hold>>
    /\ UNCHANGED <<disk, memory, running, aborted, op, target, life>>

\* A job with no task behind its status is simply marked paused.
PauseIdle(r) ==
    /\ Reads(r, "pauseIdle")
    /\ Save(target[r], val[r])
    /\ Goto(r, "done")
    /\ UNCHANGED <<prepared, memory, running, aborted, op, target, val, hold,
                   life>>

PauseSave(r) ==
    /\ Reads(r, "pauseSave")
    /\ Save(target[r], val[r])
    /\ Goto(r, "pauseAbort")
    /\ UNCHANGED <<prepared, memory, running, aborted, op, target, val, hold,
                   life>>

\* Mutant of PauseAbort: the entry is dropped with the abort.
PauseAbortForgets(r) ==
    /\ Reads(r, "pauseAbort")
    /\ aborted' = aborted \cup {hold[r]}
    /\ active' = [active EXCEPT ![target[r]] = None]
    /\ Goto(r, "done")
    /\ UNCHANGED <<disk, claims, launches, cleanups, running, op, target, val,
                   hold, life>>

PauseAbort(r) ==
    /\ Reads(r, "pauseAbort")
    /\ aborted' = aborted \cup {hold[r]}
    /\ Goto(r, "done")
    /\ UNCHANGED <<disk, memory, running, op, target, val, hold, life>>

\* An aborted run is waited for before the job is started again.
ResumeGet(r) ==
    LET j == target[r]
        resumable == state[j].status = "paused" \/ IsActive(j)
        dying == active[j] # None /\ active[j].ctrl \in aborted
        waits == dying /\ Live(active[j].run)
    IN
    /\ Reads(r, "resumeGet")
    /\ \/ /\ ~(Exists(j) /\ resumable)
          /\ Goto(r, "done")
          /\ UNCHANGED <<claims, launches, active, val, hold>>
       \/ /\ Exists(j) /\ resumable /\ waits
          /\ val' = [val EXCEPT ![r] = state[j]]
          /\ hold' = [hold EXCEPT ![r] = active[j].run]
          /\ Goto(r, "resumeWait")
          /\ UNCHANGED <<claims, launches, active>>
       \/ /\ Exists(j) /\ resumable /\ ~waits
          /\ LET entry == IF dying THEN None ELSE active[j] IN
             /\ active' = [active EXCEPT ![j] = entry]
             /\ EnterAgain(r, j, state[j].stage, entry)
          /\ UNCHANGED <<val, hold>>
    /\ UNCHANGED <<disk, cleanups, running, aborted, op, target, life>>

ResumeSettled(r) ==
    LET j == target[r] IN
    /\ pc[r] = "resumeWait" /\ settled # None /\ settled.id = hold[r]
    /\ active' = [active EXCEPT ![j] = None]
    /\ EnterAgain(r, j, val[r].stage, None)
    /\ UNCHANGED <<disk, cleanups, running, aborted, op, target, val, hold,
                   life>>

RetryGet(r) ==
    LET j == target[r] IN
    /\ Reads(r, "retryGet")
    /\ IF Exists(j) /\ state[j].status \in {"failed", "needs_attention", "paused"}
       THEN EnterAgain(r, j, state[j].stage, active[j])
       ELSE Goto(r, "done") /\ UNCHANGED <<claims, launches>>
    /\ UNCHANGED <<disk, active, cleanups, running, aborted, op, target, val,
                   hold, life>>

-----------------------------------------------------------------------------
(* Handlers that change a resting job.  Each one reads the job, asks         *)
(* assertMutable, and then awaits before it saves; none takes a claim.       *)

Imported == [status |-> "created", stage |-> "import"]

\* What each handler saves, or where it goes, having read a mutable job.
Admitted(r, j) ==
    LET Then(where, s) == val' = [val EXCEPT ![r] = s] /\ Goto(r, where)
        s == state[j]
    IN
    \/ op[r] = "invalidate" /\ Then("clear", s)
    \* PUT source, or a workspace linked: a used job is invalidated first,
    \* unless the same workspace is read again.
    \/ op[r] = "source" /\ Then("mutSave", Imported)
    \/ op[r] = "source" /\ s.status # "created" /\ Then("invGet", s)
    \* PUT config: new content invalidates, a new authority does not.
    \/ op[r] = "config" /\ Then("mutSave", s)
    \/ op[r] = "config" /\ Then("invGet", s)
    \* rebuild and repair-epub.
    \/ /\ op[r] = "rebuild" /\ s.status # "created"
       /\ \E status \in {"completed", "needs_attention"} :
             Then("mutSave", [status |-> status, stage |-> "complete"])
    \/ op[r] = "delete" /\ Then("remove", s)

MutGet(r) ==
    LET j == target[r] IN
    /\ Reads(r, "mutGet")
    /\ \/ Exists(j) /\ Mutable(j) /\ Admitted(r, j)
       \/ /\ \/ ~Exists(j)
             \/ ~Mutable(j)
             \/ op[r] = "rebuild"
          /\ Goto(r, "done") /\ UNCHANGED val
    /\ UNCHANGED <<disk, memory, running, aborted, op, target, hold, life>>

\* invalidate called by another handler reads the job again.
InvGet(r) ==
    LET j == target[r] IN
    /\ Reads(r, "invGet")
    /\ IF Exists(j) /\ Mutable(j)
       THEN Goto(r, "clear") /\ val' = [val EXCEPT ![r] = state[j]]
       ELSE Goto(r, "done") /\ UNCHANGED val
    /\ UNCHANGED <<disk, memory, running, aborted, op, target, hold, life>>

\* The journals and the outputs have been removed.
Clear(r) ==
    /\ Reads(r, "clear")
    /\ val' = [val EXCEPT ![r] =
                 IF prepared[target[r]]
                 THEN [status |-> "ready", stage |-> "translation"]
                 ELSE Imported]
    /\ Goto(r, "invSave")
    /\ UNCHANGED <<disk, memory, running, aborted, op, target, hold, life>>

InvSave(r) ==
    /\ Reads(r, "invSave")
    /\ Save(target[r], val[r])
    /\ IF op[r] = "invalidate"
       THEN Goto(r, "done") /\ UNCHANGED val
       ELSE /\ Goto(r, "mutSave")
            /\ val' = IF op[r] = "source" THEN [val EXCEPT ![r] = Imported]
                                          ELSE val
    /\ UNCHANGED <<prepared, memory, running, aborted, op, target, hold, life>>

MutSave(r) ==
    /\ Reads(r, "mutSave")
    /\ Save(target[r], val[r])
    /\ Goto(r, "done")
    /\ UNCHANGED <<prepared, memory, running, aborted, op, target, val, hold,
                   life>>

Remove(r) ==
    /\ Reads(r, "remove")
    /\ Save(target[r], [status |-> "deleted", stage |-> "import"])
    /\ prepared' = [prepared EXCEPT ![target[r]] = FALSE]
    /\ Goto(r, "done")
    /\ UNCHANGED <<memory, running, aborted, op, target, val, hold, life>>

-----------------------------------------------------------------------------
(* The scheduled task. *)

At(where) == slot # Free /\ task.at = where /\ MacroTask

TaskGoes(where) ==
    task' = [at |-> where, save |-> task.save, ok |-> task.ok]

\* The task will save status (and stage) and then settle.
TaskConcludes(s, ok) == task' = [at |-> "concluding", save |-> s, ok |-> ok]

AnalysisBegins ==
    /\ At("analyzing")
    /\ Save(slot.job, [status |-> "analyzing", stage |-> "analysis"])
    /\ TaskGoes("preparing")
    /\ UNCHANGED <<prepared, memory, slot, patch, stragglers, settled, aborted,
                   handlers, life>>

\* prepareBook has finished; the abort signal is looked at once, here.
AnalysisPrepared ==
    /\ At("preparing")
    /\ prepared' = [prepared EXCEPT ![slot.job] = TRUE]
    /\ IF slot.id \in aborted
       THEN TaskConcludes([status |-> "paused", stage |-> "analysis"], FALSE)
       ELSE TaskConcludes([status |-> "ready", stage |-> "analysis"], TRUE)
    /\ UNCHANGED <<state, memory, slot, patch, stragglers, settled, aborted,
                   handlers, life>>

AnalysisFails ==
    /\ At("preparing")
    /\ TaskConcludes([status |-> IF slot.id \in aborted THEN "paused" ELSE "failed",
                      stage  |-> "analysis"], FALSE)
    /\ UNCHANGED <<disk, memory, slot, patch, stragglers, settled, aborted,
                   handlers, life>>

\* The runs whose workers still translate: the scheduled one and stragglers.
Working ==
    stragglers \cup (IF task.at = "working" THEN {slot} ELSE {})

\* applyPatch reads the job and, when it is running, prepares the next state.
PatchRead(w) ==
    /\ w \in Working /\ MacroTask
    /\ patch[w.id] = None /\ w.id \notin aborted
    /\ state[w.job].status = "running"
    /\ \E stage \in IF w = slot THEN {"analysis", "translation"}
                                ELSE {"translation"} :
          patch' = [patch EXCEPT ![w.id] =
                      [job |-> w.job,
                       save |-> [status |-> "running", stage |-> stage]]]
    /\ UNCHANGED <<disk, memory, slot, task, stragglers, settled, aborted,
                   handlers, life>>

PatchSave(t) ==
    /\ patch[t] # None /\ MacroTask
    /\ Save(patch[t].job, patch[t].save)
    /\ patch' = [patch EXCEPT ![t] = None]
    /\ UNCHANGED <<prepared, memory, slot, task, stragglers, settled, aborted,
                   handlers, life>>

\* The book is built and every worker has returned: execute re-reads the job.
RunFinishes ==
    /\ At("working") /\ patch[slot.id] = None /\ slot.id \notin aborted
    /\ Exists(slot.job)
    /\ \E status \in {"completed", "needs_attention"} :
          TaskConcludes([status |-> status, stage |-> "complete"], TRUE)
    /\ UNCHANGED <<disk, memory, slot, patch, stragglers, settled, aborted,
                   handlers, life>>

\* A batch failed or saw the abort: the first rejection ends runBook while the
\* other workers of a parallel run are still busy.  Or the run was over and its
\* result could not be saved.  execute re-reads the job.
RunStops ==
    LET j == slot.job
        status == IF slot.id \in aborted THEN "paused" ELSE "failed" IN
    /\ \/ At("working")
       \/ DiskFaults /\ At("concluding") /\ task.save.stage = "complete" /\ task.ok
    /\ IF Parallel /\ task.at = "working" THEN stragglers' \in {stragglers, stragglers \cup {slot}}
                   ELSE patch[slot.id] = None /\ UNCHANGED stragglers
    /\ IF Exists(j) THEN TaskConcludes(WithStatus(state[j], status), FALSE)
                    ELSE task' = TaskAt("closing")
    /\ UNCHANGED <<disk, memory, slot, patch, settled, aborted, handlers, life>>

\* A worker of a run that has ended returns from its last batch.
StragglerReturns(w) ==
    /\ w \in stragglers /\ patch[w.id] = None /\ MacroTask
    /\ stragglers' = stragglers \ {w}
    /\ UNCHANGED <<disk, memory, slot, task, patch, settled, aborted, handlers,
                   life>>

\* The task's last save; the manifest and an event follow before it returns.
TaskSaves ==
    /\ At("concluding")
    /\ Save(slot.job, task.save)
    /\ TaskGoes("closing")
    /\ UNCHANGED <<prepared, memory, slot, patch, stragglers, settled, aborted,
                   handlers, life>>

\* Somebody reacts when run t settles.
Awaited(t) ==
    \/ \E r \in Reqs : pc[r] \in {"analyzeWait", "resumeWait"} /\ hold[r] = t
    \/ \E c \in cleanups : c.run = t

\* The promise settles: the scheduler frees the slot first.
TaskSettles ==
    /\ At("closing") /\ (task.ok \/ Awaited(slot.id))
    /\ slot' = Free /\ task' = NoTask
    /\ settled' = [id |-> slot.id, ok |-> task.ok]
    /\ UNCHANGED <<disk, memory, patch, stragglers, aborted, handlers, life>>

LaunchSettled(c) ==
    /\ c \in cleanups /\ settled # None /\ settled.id = c.run
    /\ cleanups' = cleanups \ {c}
    /\ Forget(c.job, c.run)
    /\ UNCHANGED <<disk, claims, launches, running, aborted, handlers, life>>

\* The microtask queue is empty again.
ReactionsDone ==
    /\ settled # None /\ ~Awaited(settled.id)
    /\ settled' = None
    /\ UNCHANGED <<disk, memory, slot, task, patch, stragglers, aborted,
                   handlers, life>>

-----------------------------------------------------------------------------
(* The process ends and is started again. *)

ProcessEnds ==
    /\ claims' = {} /\ cleanups' = {}
    /\ active' = [j \in Jobs |-> None]
    /\ launches' = [j \in Jobs |-> None]
    /\ slot' = Free /\ task' = NoTask
    /\ patch' = [r \in Reqs |-> None]
    /\ stragglers' = {} /\ settled' = None /\ aborted' = {}
    /\ pc' = [r \in Reqs |-> IF pc[r] = "unsent" THEN "unsent" ELSE "done"]
    /\ val' = [r \in Reqs |-> None] /\ hold' = [r \in Reqs |-> None]
    /\ recovering' = {j \in Jobs : Exists(j)}
    /\ UNCHANGED <<disk, op, target>>

Crash ==
    /\ crashes < MaxCrashes
    /\ crashes' = crashes + 1
    /\ ProcessEnds

\* A rejected run that nobody awaits is an unhandled rejection: Node exits.
UnhandledRejection ==
    /\ At("closing") /\ ~task.ok /\ ~Awaited(slot.id)
    /\ ProcessEnds
    /\ UNCHANGED crashes

\* Mutant of Recover: a stopping job is left as it is.
RecoverMissesStopping(j) ==
    /\ j \in recovering
    /\ recovering' = recovering \ {j}
    /\ IF state[j].status \in Transient \ {"stopping"}
       THEN Save(j, WithStatus(state[j], "paused"))
       ELSE UNCHANGED state
    /\ UNCHANGED <<prepared, memory, running, aborted, handlers, crashes>>

\* recoverActiveJobs, before the server listens.
Recover(j) ==
    /\ j \in recovering
    /\ recovering' = recovering \ {j}
    /\ IF state[j].status \in Transient
       THEN Save(j, WithStatus(state[j], "paused"))
       ELSE UNCHANGED state
    /\ UNCHANGED <<prepared, memory, running, aborted, handlers, crashes>>

-----------------------------------------------------------------------------

Handler(r) ==
    \/ AnalyzeGet(r) \/ AnalyzeSettled(r)
    \/ StartGet(r) \/ StartSchedule(r) \/ StartRefused(r) \/ StartSave(r)
    \/ StartManifest(r) \/ StartFails(r) \/ StartEmit(r)
    \/ PauseGet(r) \/ PauseIdle(r) \/ PauseSave(r) \/ PauseAbort(r)
    \/ ResumeGet(r) \/ ResumeSettled(r) \/ RetryGet(r)
    \/ MutGet(r) \/ InvGet(r) \/ Clear(r) \/ InvSave(r) \/ MutSave(r)
    \/ Remove(r)

RunEnds == RunFinishes \/ RunStops

Task ==
    \/ AnalysisBegins \/ AnalysisPrepared \/ AnalysisFails
    \/ TaskSaves \/ TaskSettles \/ ReactionsDone \/ UnhandledRejection

\* Every request has been served and nothing runs.
Quiescent ==
    /\ \A r \in Reqs : pc[r] = "done"
    /\ slot = Free /\ settled = None /\ stragglers = {} /\ recovering = {}
    /\ UNCHANGED vars

\* What goes on by itself once requests were sent.
Work ==
    \/ \E r \in Reqs : Handler(r) \/ PatchSave(r)
    \/ \E w \in stragglers \cup {slot} : PatchRead(w) \/ StragglerReturns(w)
    \/ \E c \in cleanups : LaunchSettled(c)
    \/ Task \/ RunEnds
    \/ Crash
    \/ \E j \in recovering : Recover(j)

Next ==
    \/ \E r \in Reqs, o \in Ops, j \in Jobs : Send(r, o, j)
    \/ Work
    \/ Quiescent

Spec == Init /\ [][Next]_vars

\* Every await resolves: file accesses and provider calls end, and a run has
\* finitely many batches, so it cannot go on patching for ever.  Clients owe
\* nothing, and the process need not crash.
Fairness ==
    /\ \A r \in Reqs : WF_vars(Handler(r)) /\ WF_vars(PatchSave(r))
    /\ WF_vars(\E w \in stragglers : StragglerReturns(w))
    /\ WF_vars(\E c \in cleanups : LaunchSettled(c))
    /\ WF_vars(Task)
    /\ SF_vars(RunEnds)
    /\ WF_vars(\E j \in recovering : Recover(j))

FairSpec == Spec /\ Fairness

-----------------------------------------------------------------------------
(* Properties. *)

PCs == {"unsent", "done", "analyzeGet", "analyzeWait", "startGet",
        "startSchedule", "startSave", "startManifest", "startEmit",
        "pauseGet", "pauseIdle", "pauseSave", "pauseAbort", "resumeGet",
        "resumeWait", "retryGet", "mutGet", "invGet", "clear", "invSave",
        "mutSave", "remove"}

\* Every variable holds a value of its kind.
TypeOK ==
    /\ state \in [Jobs -> JobState]
    /\ prepared \in [Jobs -> BOOLEAN]
    /\ claims \subseteq Jobs
    /\ active \in [Jobs -> Entries \cup {None}]
    /\ launches \in [Jobs -> Reqs \cup {None}]
    /\ slot \in [id : Reqs, job : Jobs] \cup {Free}
    /\ task \in [at : {"idle", "analyzing", "preparing", "gated", "working",
                       "concluding", "closing"},
                 save : JobState \cup {None}, ok : BOOLEAN]
    /\ aborted \subseteq Reqs
    /\ patch \in [Reqs -> [job : Jobs, save : JobState] \cup {None}]
    /\ stragglers \subseteq [id : Reqs, job : Jobs]
    /\ cleanups \subseteq [job : Jobs, run : Reqs]
    /\ settled \in [id : Reqs, ok : BOOLEAN] \cup {None}
    /\ pc \in [Reqs -> PCs]
    /\ op \in [Reqs -> Ops \cup {None}]
    /\ target \in [Reqs -> Jobs \cup {None}]
    /\ val \in [Reqs -> JobState \cup {None}]
    /\ hold \in [Reqs -> Reqs \cup {None}]
    /\ recovering \subseteq Jobs
    /\ crashes \in 0..MaxCrashes

\* The handlers that hold a claim on their job.
Claiming == {"analyzeGet", "startGet", "startSchedule", "startSave",
             "startManifest"}

\* An executing task is always visible to isActive, whatever launches, resumes
\* and reactions interleave: assertMutable never admits a change under a run
\* in progress, and pause always finds an entry.
RunIsVisible == slot # Free => IsActive(slot.job)

\* A job is locked only while something works for it: a claim has a handler
\* that will drop it, an entry of the active map has a run that has not yet
\* settled, and a launch that others join is pending.
NoLockLeak ==
    /\ \A j \in claims : \E r \in Reqs : target[r] = j /\ pc[r] \in Claiming
    /\ \A j \in Jobs : active[j] # None =>
          \/ Live(active[j].run)
          \/ settled # None /\ settled.id = active[j].run
    /\ \A j \in Jobs : launches[j] # None =>
          /\ target[launches[j]] = j
          /\ pc[launches[j]] \in (Claiming \ {"analyzeGet"}) \cup {"startEmit"}

\* When recovery is over no job claims to be at work: the server never starts
\* to listen with a job that is falsely active.
RestAfterRecovery ==
    [][recovering # {} /\ recovering' = {} =>
         \A j \in Jobs : state'[j].status \notin Transient]_vars

\* While clients only start, resume and retry and one of them pauses once, the state
\* file never presents a job at rest while its run works (one batch at a time, so that
\* no worker outlives a run, and unless saving the first state failed). A second pause
\* may: one that found no task behind the status saves "paused" after an await, in
\* which a run may have begun (job-orchestrator.ts:391-397).
RunOwnsState ==
    /\ \A r \in Reqs : op[r] \in {"start", "pause", "resume", "retry", None}
    /\ \A q, r \in Reqs : op[q] = "pause" /\ op[r] = "pause" => q = r
    /\ ~Parallel /\ task.at = "working" /\ slot.id \notin aborted
    => state[slot.job].status \in {"running", "stopping"}

\* No request waits for ever: not at a gate, not for a run that died, not in
\* a launch that somebody else has to finish.
HandlersReturn ==
    \A r \in Reqs : pc[r] # "unsent" ~> pc[r] = "done"

\* A run whose controller was aborted ends and frees the slot.
AbortedRunEnds ==
    \A r \in Reqs : Live(r) /\ r \in aborted ~> ~Live(r)

\* The table of legal moves is what the state file goes through.
LegalMoves ==
    [][\A j \in Jobs :
         /\ state'[j].status # state[j].status
         /\ Exists(j) /\ state'[j].status # "deleted"
         => CanTransition(state[j].status, state'[j].status)]_state

\* A stopping job settles: the state is left once the work has ended.
StoppingSettles ==
    \A j \in Jobs : state[j].status = "stopping" ~> state[j].status # "stopping"

\* One job runs in the whole process: workers of two jobs never overlap.
OneJobWorks == \A v, w \in Working : v.job = w.job
=============================================================================
