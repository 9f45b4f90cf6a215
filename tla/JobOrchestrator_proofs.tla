---------------------- MODULE JobOrchestrator_proofs ----------------------
(***************************************************************************)
(* Theorems about JobOrchestrator, for every set of jobs and requests.     *)
(***************************************************************************)
EXTENDS JobOrchestrator, TLAPS

-----------------------------------------------------------------------------
(* Types. *)

\* What a handler carries across an await is there when it needs it.
HandlerData ==
    \A r \in Reqs :
      /\ pc[r] # "unsent" => target[r] \in Jobs
      /\ pc[r] \in {"startSchedule", "startSave", "pauseIdle", "pauseSave",
                    "resumeWait", "clear", "invSave", "mutSave", "remove"}
         => val[r] \in JobState
      /\ pc[r] \in {"analyzeWait", "startSave", "startManifest", "pauseSave",
                    "pauseAbort", "resumeWait"}
         => hold[r] \in Reqs

\* A task that is past its start occupies the slot, and knows what to save.
TaskData ==
    /\ task.at # "idle" => slot \in [id : Reqs, job : Jobs]
    /\ task.at = "concluding" => task.save \in JobState

\* TypeOK is not inductive alone: a save writes the value its handler carries.
WellFormed == TypeOK /\ HandlerData /\ TaskData

LEMMA WellFormedInit == Init => WellFormed
BY ConstantsAssumption
   DEF Init, WellFormed, TypeOK, HandlerData, TaskData, RestStates, JobState,
       Statuses, Stages, Free, NoTask, TaskAt, PCs

Tasks == [at : {"idle", "analyzing", "preparing", "gated", "working",
                "concluding", "closing"},
          save : JobState \cup {None}, ok : BOOLEAN]

\* Scheduling takes the slot or joins its run, and yields an entry either way.
LEMMA ScheduleTyped ==
    ASSUME slot \in [id : Reqs, job : Jobs] \cup {Free}, task \in Tasks, TaskData,
           NEW r \in Reqs, NEW j \in Jobs,
           NEW kind \in {"analysis", "translation"},
           NEW at \in {"analyzing", "gated"},
           Schedule(r, j, at)
    PROVE  /\ slot' \in [id : Reqs, job : Jobs]
           /\ slot'.id \in Reqs
           /\ task' \in Tasks
           /\ TaskData'
           /\ Entry(r, kind) \in Entries
<1>1. CASE slot = Free
  <2>1. slot' = [id |-> r, job |-> j] /\ task' = TaskAt(at)
    BY <1>1 DEF Schedule
  <2>2. slot' \in [id : Reqs, job : Jobs] /\ slot'.id = r
    BY <2>1
  <2>3. task' \in Tasks /\ task'.at # "concluding"
    BY <2>1 DEF Tasks, TaskAt
  <2> QED
    BY <2>2, <2>3 DEF Entry, Entries, TaskData
<1>2. CASE slot # Free
  <2>1. slot \in [id : Reqs, job : Jobs]
    BY <1>2
  <2> QED
    BY <1>2, <2>1 DEF Schedule, Entry, Entries, Tasks, TaskData
<1> QED
  BY <1>1, <1>2

LEMMA HandlerWellFormed ==
    ASSUME WellFormed, NEW r \in Reqs, Handler(r)
    PROVE  WellFormed'
<1> USE ConstantsAssumption DEF WellFormed, TypeOK, HandlerData, TaskData, PCs,
        disk, memory, running, handlers, life, Reads, Goto
<1>1. CASE AnalyzeGet(r)
  <2>1. target[r] \in Jobs
    BY <1>1 DEF AnalyzeGet
  <2>2. CASE Schedule(r, target[r], "analyzing")
             /\ hold' = [hold EXCEPT ![r] = slot'.id]
    <3>1. /\ slot' \in [id : Reqs, job : Jobs] /\ slot'.id \in Reqs
          /\ task' \in Tasks /\ TaskData'
          /\ Entry(r, "analysis") \in Entries
      <4> HIDE DEF TaskData
      <4> QED
        BY <2>1, <2>2, ScheduleTyped DEF Tasks
    <3> QED
      BY <1>1, <2>1, <2>2, <3>1 DEF AnalyzeGet, Tasks
  <2> QED
    BY <1>1, <2>2 DEF AnalyzeGet
<1>2. CASE AnalyzeSettled(r)
  BY <1>2 DEF AnalyzeSettled
<1>3. CASE StartGet(r)
  BY <1>3 DEF StartGet, AbandonLaunch, Exists
<1>4. CASE StartSchedule(r)
  <2>1. target[r] \in Jobs /\ val[r] \in JobState
    BY <1>4 DEF StartSchedule
  <2>2. /\ slot' \in [id : Reqs, job : Jobs] /\ slot'.id \in Reqs
        /\ task' \in Tasks /\ TaskData'
        /\ Entry(r, "translation") \in Entries
    <3> HIDE DEF TaskData
    <3> QED
      BY <1>4, <2>1, ScheduleTyped DEF StartSchedule, Tasks
  <2>3. PICK stage \in {val[r].stage, "translation"} :
           val' = [val EXCEPT ![r] = [status |-> "running", stage |-> stage]]
    BY <1>4 DEF StartSchedule
  <2>4. [status |-> "running", stage |-> stage] \in JobState
    BY <2>1, <2>3 DEF JobState, Statuses, Stages
  <2> QED
    BY <1>4, <2>1, <2>2, <2>3, <2>4 DEF StartSchedule, Tasks
<1>5. CASE StartRefused(r)
  BY <1>5 DEF StartRefused, AbandonLaunch
<1>6. CASE StartSave(r)
  BY <1>6 DEF StartSave, Save
<1>7. CASE StartManifest(r)
  BY <1>7 DEF StartManifest, OpenGate, Forget, Live, Free, TaskAt
<1>8. CASE StartFails(r)
  BY <1>8 DEF StartFails, OpenGate, AbandonLaunch, TaskAt
<1>9. CASE StartEmit(r)
  BY <1>9 DEF StartEmit
<1>10. CASE PauseGet(r)
  <2>1. target[r] \in Jobs
    BY <1>10 DEF PauseGet
  <2>2. /\ WithStatus(state[target[r]], "stopping") \in JobState
        /\ WithStatus(state[target[r]], "paused") \in JobState
    BY <2>1 DEF WithStatus, JobState, Statuses
  <2>3. active[target[r]] # None => active[target[r]].ctrl \in Reqs
    BY <2>1 DEF Entries
  <2> QED
    BY <1>10, <2>1, <2>2, <2>3 DEF PauseGet
<1>11. CASE PauseIdle(r)
  BY <1>11 DEF PauseIdle, Save
<1>12. CASE PauseSave(r)
  BY <1>12 DEF PauseSave, Save
<1>13. CASE PauseAbort(r)
  BY <1>13 DEF PauseAbort
<1>14. CASE ResumeGet(r)
  <2>1. target[r] \in Jobs
    BY <1>14 DEF ResumeGet
  <2>2. active[target[r]] # None => active[target[r]].run \in Reqs
    BY <2>1 DEF Entries
  <2>3. CASE Goto(r, "resumeWait") /\ val' = [val EXCEPT ![r] = state[target[r]]]
             /\ hold' = [hold EXCEPT ![r] = active[target[r]].run]
             /\ active[target[r]] # None /\ UNCHANGED <<claims, launches, active>>
    BY <1>14, <2>1, <2>2, <2>3 DEF ResumeGet
  <2>4. ASSUME NEW entry \in {None, active[target[r]]},
               active' = [active EXCEPT ![target[r]] = entry],
               EnterAgain(r, target[r], state[target[r]].stage, entry),
               UNCHANGED <<val, hold>>
        PROVE  WellFormed'
    BY <1>14, <2>1, <2>4 DEF ResumeGet, EnterAgain, EnterAnalyze, EnterStart
  <2>5. CASE Goto(r, "done") /\ UNCHANGED <<claims, launches, active, val, hold>>
    BY <1>14, <2>1, <2>5 DEF ResumeGet
  <2> QED
    BY <1>14, <2>3, <2>4, <2>5 DEF ResumeGet
<1>15. CASE ResumeSettled(r)
  BY <1>15 DEF ResumeSettled, EnterAgain, EnterAnalyze, EnterStart
<1>16. CASE RetryGet(r)
  BY <1>16 DEF RetryGet, EnterAgain, EnterAnalyze, EnterStart
<1>17. CASE MutGet(r)
  <2>1. target[r] \in Jobs /\ state[target[r]] \in JobState
    BY <1>17 DEF MutGet
  <2>2. Imported \in JobState
    BY DEF Imported, JobState, Statuses, Stages
  <2>3. \A status \in {"completed", "needs_attention"} :
           [status |-> status, stage |-> "complete"] \in JobState
    BY DEF JobState, Statuses, Stages
  <2>4. CASE Admitted(r, target[r])
    <3>1. PICK where \in {"clear", "mutSave", "invGet", "remove"}, s \in JobState :
             val' = [val EXCEPT ![r] = s] /\ Goto(r, where)
      BY <2>1, <2>2, <2>3, <2>4 DEF Admitted
    <3> QED
      BY <1>17, <2>1, <3>1 DEF MutGet
  <2>5. CASE Goto(r, "done") /\ UNCHANGED val
    BY <1>17, <2>1, <2>5 DEF MutGet
  <2> QED
    BY <1>17, <2>4, <2>5 DEF MutGet
<1>18. CASE InvGet(r)
  BY <1>18 DEF InvGet
<1>19. CASE Clear(r)
  BY <1>19 DEF Clear, Imported, JobState, Statuses, Stages
<1>20. CASE InvSave(r)
  BY <1>20 DEF InvSave, Save, Imported, JobState, Statuses, Stages
<1>21. CASE MutSave(r)
  BY <1>21 DEF MutSave, Save
<1>22. CASE Remove(r)
  BY <1>22 DEF Remove, Save, JobState, Statuses, Stages
<1> QED
  BY <1>1, <1>2, <1>3, <1>4, <1>5, <1>6, <1>7, <1>8, <1>9, <1>10, <1>11,
     <1>12, <1>13, <1>14, <1>15, <1>16, <1>17, <1>18, <1>19, <1>20, <1>21,
     <1>22 DEF Handler

LEMMA SendWellFormed ==
    ASSUME WellFormed, NEW r \in Reqs, NEW o \in Ops, NEW j \in Jobs,
           Send(r, o, j)
    PROVE  WellFormed'
BY ConstantsAssumption
   DEF WellFormed, TypeOK, HandlerData, TaskData, PCs, disk, memory, running,
       handlers, life, Reads, Goto, Send, EnterAnalyze, EnterStart

LEMMA ConcludingTyped ==
    ASSUME NEW s \in JobState, NEW ok \in BOOLEAN, TaskConcludes(s, ok)
    PROVE  task' \in Tasks /\ task'.save \in JobState
BY DEF TaskConcludes, Tasks

LEMMA TaskWellFormed ==
    ASSUME WellFormed, Task \/ RunEnds
    PROVE  WellFormed'
<1> USE ConstantsAssumption DEF WellFormed, TypeOK, HandlerData, TaskData, PCs,
        disk, memory, running, handlers, life, At, TaskGoes, Save
<1>1. CASE AnalysisBegins
  BY <1>1 DEF AnalysisBegins, JobState, Statuses, Stages
<1>2. CASE AnalysisPrepared
  <2>1. prepared' \in [Jobs -> BOOLEAN]
    BY <1>2 DEF AnalysisPrepared
  <2>2. /\ [status |-> "paused", stage |-> "analysis"] \in JobState
        /\ [status |-> "ready",  stage |-> "analysis"] \in JobState
    BY DEF JobState, Statuses, Stages
  <2>3. task' \in Tasks /\ task'.save \in JobState
    BY <1>2, <2>2, ConcludingTyped DEF AnalysisPrepared
  <2> QED
    BY <1>2, <2>1, <2>3 DEF AnalysisPrepared, Tasks
<1>3. CASE AnalysisFails
  <2>1. \A status \in {"paused", "failed"} :
           [status |-> status, stage |-> "analysis"] \in JobState
    BY DEF JobState, Statuses, Stages
  <2>2. task' \in Tasks /\ task'.save \in JobState
    BY <1>3, <2>1, ConcludingTyped DEF AnalysisFails
  <2> QED
    BY <1>3, <2>2 DEF AnalysisFails, Tasks
<1>4. CASE TaskSaves
  BY <1>4 DEF TaskSaves
<1>5. CASE TaskSettles
  BY <1>5 DEF TaskSettles, NoTask, TaskAt, Free
<1>6. CASE ReactionsDone
  BY <1>6 DEF ReactionsDone
<1>7. CASE UnhandledRejection
  BY <1>7 DEF UnhandledRejection, ProcessEnds, NoTask, TaskAt, Free
<1>8. CASE RunFinishes
  <2>1. \A status \in {"completed", "needs_attention"} :
           [status |-> status, stage |-> "complete"] \in JobState
    BY DEF JobState, Statuses, Stages
  <2>2. task' \in Tasks /\ task'.save \in JobState
    BY <1>8, <2>1, ConcludingTyped DEF RunFinishes
  <2> QED
    BY <1>8, <2>2 DEF RunFinishes, Tasks
<1>9. CASE RunStops
  <2>1. slot \in [id : Reqs, job : Jobs]
    BY <1>9 DEF RunStops
  <2>2. /\ WithStatus(state[slot.job], "paused") \in JobState
        /\ WithStatus(state[slot.job], "failed") \in JobState
    BY <2>1 DEF WithStatus, JobState, Statuses
  <2>3. stragglers' \subseteq [id : Reqs, job : Jobs]
    BY <1>9, <2>1 DEF RunStops
  <2>4. /\ task' \in Tasks
        /\ task'.at = "concluding" => task'.save \in JobState
    <3>1. CASE TaskConcludes(WithStatus(state[slot.job], "paused"), FALSE)
      BY <2>2, <3>1, ConcludingTyped
    <3>2. CASE TaskConcludes(WithStatus(state[slot.job], "failed"), FALSE)
      BY <2>2, <3>2, ConcludingTyped
    <3>3. CASE task' = TaskAt("closing")
      BY <3>3 DEF Tasks, TaskAt
    <3> QED
      BY <1>9, <3>1, <3>2, <3>3 DEF RunStops
  <2> QED
    BY <1>9, <2>1, <2>3, <2>4 DEF RunStops, Tasks
<1> QED
  BY <1>1, <1>2, <1>3, <1>4, <1>5, <1>6, <1>7, <1>8, <1>9 DEF Task, RunEnds

LEMMA WorkerWellFormed ==
    ASSUME WellFormed, NEW w \in stragglers \cup {slot},
           PatchRead(w) \/ StragglerReturns(w)
    PROVE  WellFormed'
<1> USE DEF WellFormed, TypeOK, HandlerData, TaskData, disk, memory, handlers,
        life
<1>1. CASE PatchRead(w)
  <2>1. w \in [id : Reqs, job : Jobs]
    BY <1>1 DEF PatchRead, Working
  <2>2. PICK stage \in {"analysis", "translation"} :
           patch' = [patch EXCEPT ![w.id] =
                       [job |-> w.job,
                        save |-> [status |-> "running", stage |-> stage]]]
    BY <1>1 DEF PatchRead
  <2>3. [status |-> "running", stage |-> stage] \in JobState
    BY DEF JobState, Statuses, Stages
  <2> QED
    BY <1>1, <2>1, <2>2, <2>3 DEF PatchRead
<1>2. CASE StragglerReturns(w)
  BY <1>2 DEF StragglerReturns
<1> QED
  BY <1>1, <1>2

\* The steps that belong to no handler and no task.
LEMMA OtherWellFormed ==
    ASSUME WellFormed,
           \/ \E r \in Reqs : PatchSave(r)
           \/ \E c \in cleanups : LaunchSettled(c)
           \/ Crash
           \/ \E j \in recovering : Recover(j)
           \/ UNCHANGED vars
    PROVE  WellFormed'
<1> USE ConstantsAssumption DEF WellFormed, TypeOK, HandlerData, TaskData, PCs,
        disk, memory, running, handlers, life, Save
<1>1. ASSUME NEW r \in Reqs, PatchSave(r) PROVE WellFormed'
  BY <1>1 DEF PatchSave
<1>2. ASSUME NEW c \in cleanups, LaunchSettled(c) PROVE WellFormed'
  BY <1>2 DEF LaunchSettled, Forget
<1>3. CASE Crash
  BY <1>3 DEF Crash, ProcessEnds, NoTask, TaskAt, Free
<1>4. ASSUME NEW j \in recovering, Recover(j) PROVE WellFormed'
  <2>1. WithStatus(state[j], "paused") \in JobState
    BY DEF WithStatus, JobState, Statuses
  <2> QED
    BY <1>4, <2>1 DEF Recover
<1>5. CASE UNCHANGED vars
  BY <1>5 DEF vars
<1> QED
  BY <1>1, <1>2, <1>3, <1>4, <1>5

LEMMA WellFormedKept ==
    ASSUME WellFormed, [Next]_vars
    PROVE  WellFormed'
BY HandlerWellFormed, SendWellFormed, TaskWellFormed, WorkerWellFormed,
   OtherWellFormed DEF Next, Work, Quiescent

LEMMA WellFormedAlways == Spec => []WellFormed
<1>1. Init => WellFormed
  BY WellFormedInit
<1>2. WellFormed /\ [Next]_vars => WellFormed'
  BY WellFormedKept
<1> QED
  BY <1>1, <1>2, PTL DEF Spec

\* Every value the orchestrator reads or writes is of its kind: in particular
\* no save ever writes a state that its handler has not read or built.
THEOREM TypeCorrect == Spec => []TypeOK
<1>1. WellFormed => TypeOK
  BY DEF WellFormed
<1> QED
  BY <1>1, WellFormedAlways, PTL

-----------------------------------------------------------------------------
(* Mutual exclusion between runs and changes. *)

\* The reactions to a settled run see a free slot, and the slot's run is the
\* one its job's entry is for.
SlotOwned ==
    /\ settled # None => slot = Free
    /\ slot # Free => /\ active[slot.job] # None
                      /\ active[slot.job].run = slot.id

LEMMA ScheduleOwned ==
    ASSUME WellFormed, SlotOwned, NEW r \in Reqs, NEW j \in Jobs,
           NEW kind \in {"analysis", "translation"},
           NEW at \in {"analyzing", "gated"},
           Schedule(r, j, at),
           active' = [active EXCEPT ![j] = Entry(r, kind)],
           settled = None, UNCHANGED settled
    PROVE  SlotOwned'
<1>1. slot'.job = j /\ Entry(r, kind).run = slot'.id
  BY DEF Schedule, Entry
<1>2. Entry(r, kind) # None
  BY ScheduleTyped, ConstantsAssumption DEF WellFormed, TypeOK, Tasks
<1>3. active'[j] = Entry(r, kind)
  BY DEF WellFormed, TypeOK
<1> QED
  BY <1>1, <1>2, <1>3 DEF SlotOwned

LEMMA HandlerOwned ==
    ASSUME WellFormed, SlotOwned, NEW r \in Reqs, Handler(r)
    PROVE  SlotOwned'
<1> USE DEF SlotOwned, Reads, MacroTask
<1>1. WellFormed /\ active \in [Jobs -> Entries \cup {None}]
  BY DEF WellFormed, TypeOK
<1>2. slot # Free => slot \in [id : Reqs, job : Jobs]
  BY DEF WellFormed, TypeOK
<1>3. pc[r] # "unsent" => target[r] \in Jobs
  BY DEF WellFormed, HandlerData
<1>4. CASE AnalyzeGet(r)
  <2>1. CASE Schedule(r, target[r], "analyzing")
             /\ active' = [active EXCEPT ![target[r]] = Entry(r, "analysis")]
    <3>1. target[r] \in Jobs /\ settled = None /\ UNCHANGED settled
      BY <1>3, <1>4 DEF AnalyzeGet
    <3> QED
      BY <2>1, <3>1, ScheduleOwned
  <2>2. CASE UNCHANGED <<slot, active>>
    BY <1>4, <2>2 DEF AnalyzeGet
  <2> QED
    BY <1>4, <2>1, <2>2 DEF AnalyzeGet
<1>5. CASE StartSchedule(r)
  <2>1. /\ target[r] \in Jobs /\ settled = None /\ UNCHANGED settled
        /\ Schedule(r, target[r], "gated")
        /\ active' = [active EXCEPT ![target[r]] = Entry(r, "translation")]
    BY <1>3, <1>5 DEF StartSchedule
  <2> QED
    BY <2>1, ScheduleOwned
\* Reactions drop entries only while the slot is free.
<1>6. CASE AnalyzeSettled(r) \/ ResumeSettled(r)
  BY <1>6 DEF AnalyzeSettled, ResumeSettled, running
\* A launch or a resume that drops an entry has found its run not live.
<1>7. CASE StartManifest(r)
  BY <1>1, <1>2, <1>3, <1>7 DEF StartManifest, Forget, Live
<1>8. CASE ResumeGet(r)
  BY <1>1, <1>2, <1>3, <1>8 DEF ResumeGet, Live, running
<1>9. CASE UNCHANGED <<active, slot, settled>>
  BY <1>9
<1> QED
  BY <1>4, <1>5, <1>6, <1>7, <1>8, <1>9
     DEF Handler, memory, running, StartGet, StartRefused, StartSave,
         StartFails, StartEmit, PauseGet, PauseIdle, PauseSave, PauseAbort,
         RetryGet, MutGet, InvGet, Clear, InvSave, MutSave, Remove

LEMMA OwnedStays ==
    ASSUME WellFormed, SlotOwned, [Next]_vars
    PROVE  SlotOwned'
<1> USE DEF SlotOwned
<1>1. ASSUME NEW r \in Reqs, Handler(r) PROVE SlotOwned'
  BY <1>1, HandlerOwned
<1>2. CASE TaskSettles \/ UnhandledRejection \/ Crash
  BY <1>2 DEF TaskSettles, UnhandledRejection, Crash, ProcessEnds
<1>3. ASSUME NEW c \in cleanups, LaunchSettled(c) PROVE SlotOwned'
  BY <1>3 DEF LaunchSettled, running
<1>4. CASE ReactionsDone
  BY <1>4 DEF ReactionsDone, memory
<1>5. CASE UNCHANGED <<active, slot, settled>>
  BY <1>5
<1> QED
  BY <1>1, <1>2, <1>3, <1>4, <1>5
     DEF Next, Work, Send, PatchSave, PatchRead, StragglerReturns, Task, RunEnds,
         AnalysisBegins, AnalysisPrepared, AnalysisFails, TaskSaves,
         RunFinishes, RunStops, Recover, Quiescent, vars, memory, running

\* An executing run is visible to isActive at every instant: assertMutable
\* admits no change under it and pause finds its entry.
THEOREM RunAlwaysVisible == Spec => []RunIsVisible
<1>1. Init => SlotOwned
  BY DEF Init, SlotOwned
<1>2. WellFormed /\ SlotOwned /\ [Next]_vars => SlotOwned'
  BY OwnedStays
<1>3. SlotOwned => RunIsVisible
  BY DEF SlotOwned, RunIsVisible, IsActive
<1> QED
  BY <1>1, <1>2, <1>3, WellFormedAlways, PTL DEF Spec

-----------------------------------------------------------------------------
(* Locks. *)

\* The steps of a handler at which hold[r] is a run.
Bound == {"analyzeWait", "resumeWait", "startSave", "startManifest"}

\* The steps of a launch that others may join.
Launching == (Claiming \ {"analyzeGet"}) \cup {"startEmit"}

\* A run is for the job of the request it is named after.
Named ==
    /\ slot # Free => slot.job = target[slot.id] /\ pc[slot.id] # "unsent"
    /\ settled # None => pc[settled.id] # "unsent"
    /\ \A r \in Reqs : pc[r] \in Bound =>
         target[hold[r]] = target[r] /\ pc[hold[r]] # "unsent"
    /\ \A c \in cleanups : c.job = target[c.run] /\ pc[c.run] # "unsent"

\* A reaction that drops an entry of this kind comes when run t settles.
Dropped(t, kind) ==
    \/ \E r \in Reqs : pc[r] \in {"analyzeWait", "resumeWait"} /\ hold[r] = t
    \/ kind = "translation" /\ \E c \in cleanups : c.run = t

\* There is an entry for the scheduled run, and for one whose reactions are under way
\* as long as one of them is to drop it.
Entered ==
    \A j \in Jobs : active[j] # None =>
      \/ slot # Free /\ j = slot.job /\ active[j].run = slot.id
      \/ /\ settled # None /\ j = target[settled.id] /\ active[j].run = settled.id
         /\ Dropped(settled.id, active[j].kind)

\* The entry of the scheduled run will be dropped: a reaction is there, or its launch has
\* still to attach one and holds the gate, or the launch failed and the run is aborted, so
\* that its rejection finds a reaction or ends the process.
Held ==
    slot # Free =>
      \/ Dropped(slot.id, active[slot.job].kind)
      \/ /\ active[slot.job].kind = "translation"
         /\ \/ /\ task.at = "gated" /\ pc[slot.id] \in {"startSave", "startManifest"}
               /\ hold[slot.id] = slot.id
            \/ task.at # "gated" /\ slot.id \in aborted /\ ~task.ok

Claimed == \A j \in claims : \E r \in Reqs : target[r] = j /\ pc[r] \in Claiming
Launched == \A j \in Jobs : launches[j] # None =>
               target[launches[j]] = j /\ pc[launches[j]] \in Launching

Locks == SlotOwned /\ Named /\ Entered /\ Held /\ Claimed /\ Launched

\* Request r goes from one step to another, and no entry is made for it.
Goes(r, to) == pc' = [pc EXCEPT ![r] = to] /\ to # "unsent"
Others(r, x, y) == \A q \in Reqs \ {r} : y[q] = x[q]

\* A step of a handler that does not hold a run leaves the runs and their entries alone.
LEMMA AsideKeepsRuns ==
    ASSUME WellFormed, Locks, NEW r \in Reqs, NEW to \in PCs \ Bound, Goes(r, to),
           pc[r] \notin Bound,
           Others(r, hold, hold'), Others(r, target, target'),
           pc[r] = "unsent" \/ UNCHANGED target, aborted \subseteq aborted',
           UNCHANGED <<active, cleanups, slot, task, settled>>
    PROVE  Named' /\ Entered' /\ Held'
<1> USE DEF WellFormed, TypeOK, Goes, Others
<1>1. Named'
  <2>1. \A t \in Reqs : pc[t] # "unsent" => target'[t] = target[t] /\ pc'[t] # "unsent"
    OBVIOUS
  <2>2. \A q \in Reqs : pc'[q] \in Bound =>
          pc[q] \in Bound /\ hold'[q] = hold[q] /\ hold[q] \in Reqs /\ pc[q] # "unsent"
    BY DEF HandlerData, Bound
  <2> QED
    BY <2>1, <2>2 DEF Locks, Named
<1>2. \A t \in Reqs, kind \in {"analysis", "translation"} : Dropped(t, kind) => Dropped(t, kind)'
  BY DEF Dropped, Bound
<1>3. \A j \in Jobs : active[j] # None => active[j].kind \in {"analysis", "translation"}
  BY DEF Entries
<1>4. Entered'
  BY <1>2, <1>3 DEF Locks, Entered, Named
<1>5. Held'
  <2>1. slot # Free => slot.id \in Reqs /\ slot.job \in Jobs /\ active[slot.job] # None
    BY DEF Locks, SlotOwned
  <2> QED
    BY <1>2, <1>3, <2>1 DEF Locks, Held, Bound
<1> QED
  BY <1>1, <1>4, <1>5

\* A step of a handler that is in no launch leaves claims and launches alone.
LEMMA AsideKeepsClaims ==
    ASSUME WellFormed, Locks, NEW r \in Reqs, NEW to \in PCs, Goes(r, to),
           pc[r] \notin Claiming \cup Launching,
           Others(r, target, target'), UNCHANGED <<claims, launches>>
    PROVE  Claimed' /\ Launched'
<1> USE DEF WellFormed, TypeOK, Goes, Others
<1>1. Claimed'
  BY DEF Locks, Claimed
<1>2. Launched'
  BY DEF Locks, Launched
<1> QED
  BY <1>1, <1>2

\* A handler that enters an analysis or a launch takes its claim, one that leaves drops it.
LEMMA EnteringKeepsClaims ==
    ASSUME WellFormed, Locks, NEW r \in Reqs, NEW j \in Jobs, target'[r] = j,
           Others(r, target, target'), pc[r] \notin Claiming \cup Launching,
           NEW entry, EnterAnalyze(r, j, entry) \/ EnterStart(r, j, entry)
    PROVE  /\ Claimed' /\ Launched'
           /\ \E to \in {"done", "analyzeGet", "startGet"} : Goes(r, to)
<1> USE DEF WellFormed, TypeOK, Goes, Goto, Others
<1>1. CASE EnterAnalyze(r, j, entry)
  <2>1. /\ UNCHANGED launches /\ claims' \subseteq claims \cup {j}
        /\ \E to \in {"done", "analyzeGet"} :
             pc' = [pc EXCEPT ![r] = to] /\ (to = "done" => UNCHANGED claims)
    BY <1>1 DEF EnterAnalyze
  <2>2. PICK to \in {"done", "analyzeGet"} :
          pc' = [pc EXCEPT ![r] = to] /\ (to = "done" => UNCHANGED claims)
    BY <2>1
  <2>3. Claimed'
    BY <2>1, <2>2 DEF Locks, Claimed, Claiming
  <2>4. Launched'
    BY <2>1, <2>2 DEF Locks, Launched
  <2> QED
    BY <2>2, <2>3, <2>4
<1>2. CASE EnterStart(r, j, entry)
  <2>1. CASE pc' = [pc EXCEPT ![r] = "done"] /\ UNCHANGED <<claims, launches>>
    BY <2>1 DEF Locks, Claimed, Launched
  <2>2. CASE /\ pc' = [pc EXCEPT ![r] = "startGet"] /\ claims' = claims \cup {j}
             /\ launches' = [launches EXCEPT ![j] = r]
    <3>1. Claimed'
      BY <2>2 DEF Locks, Claimed, Claiming
    <3>2. Launched'
      BY <2>2 DEF Locks, Launched, Launching, Claiming
    <3> QED
      BY <2>2, <3>1, <3>2
  <2> QED
    BY <1>2, <2>1, <2>2 DEF EnterStart
<1> QED
  BY <1>1, <1>2

LEMMA LeavingKeepsClaims ==
    ASSUME WellFormed, Locks, NEW r \in Reqs, NEW to \in PCs, Goes(r, to), pc[r] # "unsent",
           claims' = claims \ {target[r]}, UNCHANGED target,
           \/ launches' = [launches EXCEPT ![target[r]] = None]
           \/ UNCHANGED launches /\ (pc[r] \in Launching => to \in Launching)
    PROVE  Claimed' /\ Launched'
<1> USE DEF WellFormed, TypeOK, Goes
<1>1. Claimed'
  BY DEF Locks, Claimed
<1>2. Launched'
  BY DEF Locks, Launched, HandlerData
<1> QED
  BY <1>1, <1>2

\* An entry that is there is for the run in the slot, if no reactions are under way.
LEMMA EntriesAreLive ==
    ASSUME Locks, settled = None, NEW j \in Jobs, active[j] # None
    PROVE  slot # Free /\ j = slot.job /\ Live(active[j].run)
BY DEF Locks, Entered, Live

\* A new entry is for the run that was scheduled or joined, and is dropped by the analysis
\* that waits for it or by the launch that holds its gate, or as the joined run's was.
LEMMA ScheduleKeepsRuns ==
    ASSUME WellFormed, Locks, NEW r \in Reqs, settled = None, pc[r] \notin Bound \cup {"unsent"},
           NEW j \in Jobs, target[r] = j,
           NEW kind \in {"analysis", "translation"},
           NEW at \in {"analyzing", "gated"}, NEW to \in {"analyzeWait", "startSave"},
           (kind = "analysis" /\ to = "analyzeWait") \/ (kind = "translation" /\ to = "startSave" /\ at = "gated"),
           Schedule(r, j, at), Goes(r, to), active' = [active EXCEPT ![j] = Entry(r, kind)],
           hold' = [hold EXCEPT ![r] = slot'.id],
           UNCHANGED <<target, cleanups, aborted, settled>>
    PROVE  Named' /\ Entered' /\ Held'
<1> USE ConstantsAssumption DEF Goes
<1>1. /\ pc \in [Reqs -> PCs] /\ hold \in [Reqs -> Reqs \cup {None}]
      /\ active \in [Jobs -> Entries \cup {None}] /\ slot \in [id : Reqs, job : Jobs] \cup {Free}
      /\ cleanups \subseteq [job : Jobs, run : Reqs]
      /\ \A q \in Reqs : pc[q] \in {"analyzeWait", "startSave", "startManifest", "resumeWait"} => hold[q] \in Reqs
  BY DEF WellFormed, TypeOK, HandlerData
<1>2. slot' \in [id : Reqs, job : Jobs] /\ slot'.id \in Reqs /\ Entry(r, kind) \in Entries
  BY ScheduleTyped DEF WellFormed, TypeOK, Tasks
<1>3. /\ slot'.job = j /\ target[slot'.id] = j /\ pc'[slot'.id] # "unsent"
      /\ slot = Free => slot'.id = r
      /\ slot # Free => slot' = slot /\ task' = task /\ slot.job = j
  BY <1>1, <1>2 DEF Schedule, Locks, Named
<1>4. \A q \in Reqs \ {r} : pc'[q] = pc[q] /\ hold'[q] = hold[q]
  BY <1>1
<1>5. pc'[r] = to /\ hold'[r] = slot'.id
  BY <1>1
<1>6. slot' # Free
  BY <1>2 DEF Free
<1>7. Named'
  <2>1. \A q \in Reqs : pc[q] # "unsent" => pc'[q] # "unsent"
    BY <1>4, <1>5
  <2>2. \A q \in Reqs : pc'[q] \in Bound => target'[hold'[q]] = target'[q] /\ pc'[hold'[q]] # "unsent"
    BY <1>1, <1>3, <1>4, <1>5, <2>1 DEF Locks, Named, Bound
  <2>3. \A c \in cleanups' : c.job = target'[c.run] /\ pc'[c.run] # "unsent"
    BY <1>1, <2>1 DEF Locks, Named
  <2> QED
    BY <1>3, <2>2, <2>3 DEF Named
<1>8. active'[j] = Entry(r, kind) /\ \A k \in Jobs \ {j} : active'[k] = active[k]
  BY <1>1
<1>9. Entered'
  <2>1. \A k \in Jobs \ {j} : active[k] = None
    BY <1>3, EntriesAreLive
  <2>2. active'[j].run = slot'.id
    BY <1>8 DEF Entry
  <2> QED
    BY <1>3, <1>6, <1>8, <2>1, <2>2 DEF Entered
<1>10. Held'
  <2>1. active'[slot'.job].kind = kind
    BY <1>3, <1>8 DEF Entry
  <2>2. CASE kind = "analysis"
    <3>1. pc'[r] \in {"analyzeWait", "resumeWait"} /\ hold'[r] = slot'.id
      BY <2>2, <1>5
    <3> QED
      BY <3>1 DEF Held, Dropped
  <2>3. CASE kind = "translation" /\ slot = Free
    <3>1. task'.at = "gated" /\ slot'.id = r /\ pc'[r] = "startSave" /\ hold'[r] = r
      BY <2>3, <1>3, <1>5 DEF Schedule, TaskAt
    <3> QED
      BY <2>1, <2>3, <3>1 DEF Held
  <2>4. CASE kind = "translation" /\ slot # Free
    <3>1. /\ slot' = slot /\ task' = task /\ UNCHANGED <<cleanups, aborted>> /\ slot.id \in Reqs
      BY <2>4, <1>1, <1>3
    <3>2. \A q \in Reqs : pc[q] \in {"analyzeWait", "resumeWait"} => pc'[q] = pc[q] /\ hold'[q] = hold[q]
      BY <1>4 DEF Bound
    <3>3. Dropped(slot.id, active[slot.job].kind) =>
            \/ \E q \in Reqs : pc'[q] \in {"analyzeWait", "resumeWait"} /\ hold'[q] = slot'.id
            \/ \E c \in cleanups' : c.run = slot'.id
      BY <2>4, <3>1, <3>2 DEF Dropped
    <3>4. pc[slot.id] \in {"startSave", "startManifest"} => pc'[slot.id] \in {"startSave", "startManifest"}
      BY <1>4, <3>1 DEF Bound
    <3>5. CASE Dropped(slot.id, active[slot.job].kind)
      BY <2>1, <2>4, <3>3, <3>5 DEF Held, Dropped
    <3>6. CASE ~Dropped(slot.id, active[slot.job].kind)
      BY <2>1, <2>4, <3>1, <3>4, <3>6 DEF Locks, Held
    <3> QED
      BY <3>5, <3>6
  <2> QED
    BY <2>2, <2>3, <2>4
<1> QED
  BY <1>7, <1>9, <1>10

\* A launch that is read, refused or announced.
LEMMA LaunchKeepsLocks ==
    ASSUME WellFormed, Locks, NEW r \in Reqs, StartGet(r) \/ StartRefused(r) \/ StartEmit(r)
    PROVE  Named' /\ Entered' /\ Held' /\ Claimed' /\ Launched'
<1>1. /\ UNCHANGED <<active, cleanups, slot, task, settled, aborted, hold, target>>
      /\ pc[r] \in {"startGet", "startSchedule", "startEmit"}
  BY DEF StartGet, StartRefused, StartEmit, Reads, running, memory
<1>2. \E to \in {"startSchedule", "done"} :
        /\ pc' = [pc EXCEPT ![r] = to]
        /\ \/ to = "startSchedule" /\ pc[r] = "startGet" /\ UNCHANGED <<claims, launches>>
           \/ /\ to = "done" /\ launches' = [launches EXCEPT ![target[r]] = None]
              /\ \/ claims' = claims \ {target[r]}
                 \/ pc[r] = "startEmit" /\ UNCHANGED claims
  BY DEF StartGet, StartRefused, StartEmit, AbandonLaunch, Goto, Reads
<1>3. PICK to \in {"startSchedule", "done"} :
        /\ pc' = [pc EXCEPT ![r] = to]
        /\ \/ to = "startSchedule" /\ pc[r] = "startGet" /\ UNCHANGED <<claims, launches>>
           \/ /\ to = "done" /\ launches' = [launches EXCEPT ![target[r]] = None]
              /\ \/ claims' = claims \ {target[r]}
                 \/ pc[r] = "startEmit" /\ UNCHANGED claims
  BY <1>2
<1>4. to \in PCs \ Bound /\ pc[r] \notin Bound \cup {"unsent"} /\ to # "unsent"
  BY <1>1 DEF PCs, Bound
<1>5. Goes(r, to) /\ Others(r, hold, hold') /\ Others(r, target, target') /\ aborted \subseteq aborted'
  BY <1>1, <1>3, <1>4 DEF Goes, Others
<1>6. Named' /\ Entered' /\ Held'
  BY <1>1, <1>4, <1>5, AsideKeepsRuns
<1>7. /\ pc \in [Reqs -> PCs] /\ launches \in [Jobs -> Reqs \cup {None}]
  BY DEF WellFormed, TypeOK
<1>8. Claimed'
  BY <1>1, <1>3, <1>7 DEF Locks, Claimed, Claiming
<1>9. Launched'
  BY <1>1, <1>3, <1>7 DEF Locks, Launched, Launching, Claiming
<1> QED
  BY <1>6, <1>8, <1>9

\* A launch that has scheduled its run saves the job, writes the manifest and attaches its
\* reaction, or fails and aborts the run.
LEMMA GateKeepsLocks ==
    ASSUME WellFormed, Locks, NEW r \in Reqs, StartSave(r) \/ StartManifest(r) \/ StartFails(r)
    PROVE  Named' /\ Entered' /\ Held' /\ Claimed' /\ Launched'
<1> USE ConstantsAssumption
<1>1. /\ pc \in [Reqs -> PCs] /\ launches \in [Jobs -> Reqs \cup {None}]
      /\ active \in [Jobs -> Entries \cup {None}] /\ slot \in [id : Reqs, job : Jobs] \cup {Free}
      /\ cleanups \subseteq [job : Jobs, run : Reqs]
      /\ hold[r] \in Reqs /\ target[r] \in Jobs
  BY DEF WellFormed, TypeOK, HandlerData, StartSave, StartManifest, StartFails, Reads
<1>2. /\ settled = None /\ UNCHANGED <<settled, hold, target, slot>>
      /\ pc[r] \in {"startSave", "startManifest"}
      /\ aborted \subseteq aborted' /\ cleanups \subseteq cleanups'
  BY DEF StartSave, StartManifest, StartFails, Reads, MacroTask, running, memory
<1>3. \A q \in Reqs \ {r} : pc'[q] = pc[q]
  BY <1>1 DEF StartSave, StartManifest, StartFails, Goto, AbandonLaunch
<1>4. pc'[r] \in {"startManifest", "startEmit", "done"}
  BY <1>1 DEF StartSave, StartManifest, StartFails, Goto, AbandonLaunch
<1>5. \A c \in cleanups' \ cleanups : c.job = target[r] /\ c.run = hold[r]
  BY <1>1 DEF StartSave, StartManifest, StartFails, memory
<1>6. UNCHANGED active
  <2>1. active[target[r]] # None => Live(active[target[r]].run)
    BY <1>1, <1>2, EntriesAreLive
  <2> QED
    BY <2>1 DEF StartSave, StartManifest, StartFails, Forget, memory
<1>7. Named'
  <2>1. \A q \in Reqs : pc[q] # "unsent" => pc'[q] # "unsent"
    BY <1>3, <1>4
  <2>2. \A q \in Reqs : pc'[q] \in Bound => pc[q] \in Bound
    BY <1>2, <1>3 DEF Bound
  <2>3. \A c \in cleanups' : c.job = target[c.run] /\ pc[c.run] # "unsent"
    BY <1>1, <1>2, <1>5 DEF Locks, Named, Bound
  <2>4. \A q \in Reqs : pc[q] \in Bound => hold[q] \in Reqs
    BY DEF WellFormed, HandlerData, Bound
  <2>5. slot' # Free => slot'.job = target'[slot'.id] /\ pc'[slot'.id] # "unsent"
    BY <1>1, <1>2, <2>1 DEF Locks, Named
  <2>6. settled' # None => pc'[settled'.id] # "unsent"
    BY <1>2
  <2>7. \A q \in Reqs : pc'[q] \in Bound => target'[hold'[q]] = target'[q] /\ pc'[hold'[q]] # "unsent"
    BY <1>2, <2>1, <2>2, <2>4 DEF Locks, Named
  <2>8. \A c \in cleanups' : c.job = target'[c.run] /\ pc'[c.run] # "unsent"
    <3>1. \A c \in cleanups' : c.run \in Reqs
      BY <1>1, <1>5
    <3> QED
      BY <1>2, <2>1, <2>3, <3>1
  <2> QED
    BY <2>5, <2>6, <2>7, <2>8 DEF Named
<1>8. Entered'
  BY <1>2, <1>6 DEF Locks, Entered
<1>9. \A t \in Reqs, kind \in {"analysis", "translation"} : Dropped(t, kind) => Dropped(t, kind)'
  BY <1>2, <1>3 DEF Dropped
<1>10. Held'
  <2> SUFFICES ASSUME slot # Free PROVE Held'
    BY <1>2 DEF Held
  <2>1. slot.id \in Reqs /\ active[slot.job].kind \in {"analysis", "translation"}
    BY <1>1 DEF Locks, SlotOwned, Entries
  <2>2. CASE Dropped(slot.id, active[slot.job].kind)
    BY <1>2, <1>6, <1>9, <2>1, <2>2 DEF Held
  <2>3. CASE /\ active[slot.job].kind = "translation"
             /\ task.at = "gated" /\ pc[slot.id] \in {"startSave", "startManifest"}
             /\ hold[slot.id] = slot.id
    <3>1. CASE slot.id # r
      <4>1. UNCHANGED task
        BY <3>1 DEF StartSave, StartManifest, StartFails, OpenGate, running
      <4> QED
        BY <1>2, <1>3, <1>6, <2>1, <2>3, <3>1, <4>1 DEF Held
    <3>2. CASE slot.id = r /\ StartSave(r)
      <4>1. UNCHANGED task
        BY <3>2 DEF StartSave, running
      <4>2. pc'[r] = "startManifest"
        BY <1>1, <3>2 DEF StartSave, Goto
      <4> QED
        BY <1>2, <1>6, <2>3, <3>2, <4>1, <4>2 DEF Held
    <3>3. CASE slot.id = r /\ StartManifest(r)
      <4>1. [job |-> target[r], run |-> r] \in cleanups'
        BY <2>3, <3>3 DEF StartManifest, Live
      <4> QED
        BY <1>2, <1>6, <2>3, <3>3, <4>1 DEF Held, Dropped
    <3>4. CASE slot.id = r /\ StartFails(r)
      <4>1. r \in aborted' /\ task'.at = "working" /\ task'.ok = FALSE
        BY <2>3, <3>4 DEF StartFails, OpenGate, TaskAt
      <4> QED
        BY <1>2, <1>6, <2>3, <3>4, <4>1 DEF Held
    <3> QED
      BY <3>1, <3>2, <3>3, <3>4
  <2>4. CASE /\ active[slot.job].kind = "translation"
             /\ task.at # "gated" /\ slot.id \in aborted /\ ~task.ok
    <3>1. UNCHANGED task
      BY <2>4 DEF StartSave, StartManifest, StartFails, OpenGate, running
    <3> QED
      BY <1>2, <1>6, <2>4, <3>1 DEF Held
  <2> QED
    BY <2>2, <2>3, <2>4 DEF Locks, Held
<1>11. Claimed' /\ Launched'
  <2>1. CASE StartSave(r)
    <3>1. pc' = [pc EXCEPT ![r] = "startManifest"] /\ UNCHANGED <<claims, launches>>
      BY <2>1 DEF StartSave, Goto, memory
    <3>2. Claimed'
      BY <1>1, <1>2, <3>1 DEF Locks, Claimed, Claiming
    <3>3. Launched'
      BY <1>1, <1>2, <3>1 DEF Locks, Launched, Launching, Claiming
    <3> QED
      BY <3>2, <3>3
  <2>2. CASE StartManifest(r)
    <3>1. Goes(r, "startEmit") /\ claims' = claims \ {target[r]} /\ UNCHANGED launches
      BY <2>2 DEF StartManifest, Goto, Goes
    <3> QED
      BY <1>2, <3>1, LeavingKeepsClaims DEF PCs, Launching
  <2>3. CASE StartFails(r)
    <3>1. /\ Goes(r, "done") /\ claims' = claims \ {target[r]}
          /\ launches' = [launches EXCEPT ![target[r]] = None]
      BY <2>3 DEF StartFails, AbandonLaunch, Goto, Goes
    <3> QED
      BY <1>2, <3>1, LeavingKeepsClaims DEF PCs
  <2> QED
    BY <2>1, <2>2, <2>3
<1> QED
  BY <1>7, <1>8, <1>10, <1>11

\* The analyses and launches that schedule a run.
LEMMA SchedulingKeepsLocks ==
    ASSUME WellFormed, Locks, NEW r \in Reqs, AnalyzeGet(r) \/ StartSchedule(r)
    PROVE  Named' /\ Entered' /\ Held' /\ Claimed' /\ Launched'
<1> USE ConstantsAssumption
<1>1. /\ pc \in [Reqs -> PCs] /\ launches \in [Jobs -> Reqs \cup {None}] /\ target[r] \in Jobs
  BY DEF WellFormed, TypeOK, HandlerData, AnalyzeGet, StartSchedule, Reads
<1>2. CASE StartSchedule(r)
  <2>1. /\ settled = None /\ pc[r] = "startSchedule" /\ Schedule(r, target[r], "gated")
        /\ active' = [active EXCEPT ![target[r]] = Entry(r, "translation")]
        /\ hold' = [hold EXCEPT ![r] = slot'.id]
        /\ UNCHANGED <<target, cleanups, aborted, settled, claims, launches>>
    BY <1>2 DEF StartSchedule, Reads, MacroTask
  <2>2. Goes(r, "startSave")
    BY <1>2 DEF StartSchedule, Goto, Goes
  <2>3. pc[r] \notin Bound \cup {"unsent"}
    BY <2>1 DEF Bound
  <2>4. Named' /\ Entered' /\ Held'
    BY <1>1, <2>1, <2>2, <2>3, ScheduleKeepsRuns
  <2>5. Claimed'
    BY <1>1, <2>1, <2>2 DEF Locks, Claimed, Claiming, Goes
  <2>6. Launched'
    BY <1>1, <2>1, <2>2 DEF Locks, Launched, Launching, Claiming, Goes
  <2> QED
    BY <2>4, <2>5, <2>6
<1>3. CASE AnalyzeGet(r)
  <2>1. /\ settled = None /\ pc[r] = "analyzeGet" /\ claims' = claims \ {target[r]}
        /\ UNCHANGED <<target, cleanups, aborted, settled, launches>>
    BY <1>3 DEF AnalyzeGet, Reads, MacroTask
  <2>2. pc[r] \notin Bound \cup {"unsent"} \cup Launching
    BY <2>1 DEF Bound, Launching, Claiming
  <2>3. \/ /\ Schedule(r, target[r], "analyzing") /\ Goes(r, "analyzeWait")
           /\ active' = [active EXCEPT ![target[r]] = Entry(r, "analysis")]
           /\ hold' = [hold EXCEPT ![r] = slot'.id]
        \/ Goes(r, "done") /\ UNCHANGED <<slot, task, active, hold>>
    BY <1>3 DEF AnalyzeGet, Goto, Goes
  <2>4. Named' /\ Entered' /\ Held'
    <3>1. CASE /\ Schedule(r, target[r], "analyzing") /\ Goes(r, "analyzeWait")
               /\ active' = [active EXCEPT ![target[r]] = Entry(r, "analysis")]
               /\ hold' = [hold EXCEPT ![r] = slot'.id]
      BY <1>1, <2>1, <2>2, <3>1, ScheduleKeepsRuns
    <3>2. CASE Goes(r, "done") /\ UNCHANGED <<slot, task, active, hold>>
      <4>1. "done" \in PCs \ Bound /\ Others(r, hold, hold') /\ Others(r, target, target')
        BY <2>1, <3>2 DEF PCs, Bound, Others
      <4> QED
        BY <2>1, <2>2, <3>2, <4>1, AsideKeepsRuns
    <3> QED
      BY <2>3, <3>1, <3>2
  <2>5. PICK to \in PCs : Goes(r, to)
    BY <2>3 DEF PCs
  <2>6. Claimed' /\ Launched'
    BY <2>1, <2>2, <2>5, LeavingKeepsClaims
  <2> QED
    BY <2>4, <2>6
<1> QED
  BY <1>2, <1>3

\* The reactions of an analysis and of a resume find the entry of the run that settled.
LEMMA ReactionKeepsLocks ==
    ASSUME WellFormed, Locks, NEW r \in Reqs, AnalyzeSettled(r) \/ ResumeSettled(r)
    PROVE  Named' /\ Entered' /\ Held' /\ Claimed' /\ Launched'
<1> USE ConstantsAssumption
<1>1. /\ pc \in [Reqs -> PCs] /\ launches \in [Jobs -> Reqs \cup {None}] /\ target[r] \in Jobs
      /\ active \in [Jobs -> Entries \cup {None}]
  BY DEF WellFormed, TypeOK, HandlerData, AnalyzeSettled, ResumeSettled
<1>2. /\ settled # None /\ settled.id = hold[r] /\ pc[r] \in {"analyzeWait", "resumeWait"}
      /\ active' = [active EXCEPT ![target[r]] = None]
      /\ UNCHANGED <<hold, target, slot, settled, cleanups>>
  BY DEF AnalyzeSettled, ResumeSettled, running
<1>3. slot = Free
  BY <1>2 DEF Locks, SlotOwned
<1>4. Claimed' /\ Launched' /\ \E to \in {"done", "analyzeGet", "startGet"} : Goes(r, to)
  <2>1. pc[r] \notin Claiming \cup Launching
    BY <1>2 DEF Claiming, Launching
  <2>2. CASE AnalyzeSettled(r)
    <3>1. Goes(r, "done") /\ UNCHANGED launches /\ claims' \subseteq claims
      BY <2>2 DEF AnalyzeSettled, Goto, Goes
    <3>2. Claimed'
      BY <1>1, <1>2, <2>1, <3>1 DEF Locks, Claimed, Goes
    <3>3. Launched'
      BY <1>1, <1>2, <2>1, <3>1 DEF Locks, Launched, Goes
    <3> QED
      BY <3>1, <3>2, <3>3
  <2>3. CASE ResumeSettled(r)
    <3>1. EnterAnalyze(r, target[r], None) \/ EnterStart(r, target[r], None)
      BY <2>3 DEF ResumeSettled, EnterAgain
    <3> QED
      BY <1>1, <1>2, <2>1, <3>1, EnteringKeepsClaims DEF Others
  <2> QED
    BY <2>2, <2>3
<1>5. PICK to \in {"done", "analyzeGet", "startGet"} : Goes(r, to)
  BY <1>4
<1>6. target[settled.id] = target[r]
  BY <1>2 DEF Locks, Named, Bound
<1>7. Entered'
  <2>1. \A j \in Jobs : active'[j] # None => j # target[r] /\ active[j] # None
    BY <1>1, <1>2
  <2> QED
    BY <1>3, <1>6, <2>1 DEF Locks, Entered
<1>8. Held'
  BY <1>2, <1>3 DEF Held
<1>9. Named'
  <2>1. \A q \in Reqs : pc[q] # "unsent" => pc'[q] # "unsent"
    BY <1>1, <1>5 DEF Goes
  <2>2. \A q \in Reqs : pc'[q] \in Bound => pc[q] \in Bound /\ hold[q] \in Reqs
    BY <1>1, <1>5 DEF Goes, Bound, WellFormed, HandlerData
  <2>3. settled.id \in Reqs /\ \A c \in cleanups : c.run \in Reqs
    BY <1>2 DEF WellFormed, TypeOK
  <2> QED
    BY <1>2, <1>3, <2>1, <2>2, <2>3 DEF Locks, Named
<1> QED
  BY <1>4, <1>7, <1>8, <1>9

\* A resume waits for the run that dies, joins what is there, or enters again.
LEMMA ResumeKeepsLocks ==
    ASSUME WellFormed, Locks, NEW r \in Reqs, ResumeGet(r)
    PROVE  Named' /\ Entered' /\ Held' /\ Claimed' /\ Launched'
<1> USE ConstantsAssumption
<1>1. /\ pc \in [Reqs -> PCs] /\ launches \in [Jobs -> Reqs \cup {None}] /\ target[r] \in Jobs
      /\ active \in [Jobs -> Entries \cup {None}] /\ hold \in [Reqs -> Reqs \cup {None}]
  BY DEF WellFormed, TypeOK, HandlerData, ResumeGet, Reads
<1>2. /\ settled = None /\ pc[r] = "resumeGet"
      /\ UNCHANGED <<target, slot, task, settled, cleanups, aborted>>
  BY DEF ResumeGet, Reads, MacroTask, running
<1>3. active[target[r]] # None => slot # Free /\ target[r] = slot.job /\ Live(active[target[r]].run)
  BY <1>1, <1>2, EntriesAreLive
<1>4. pc[r] \notin Claiming \cup Launching \cup Bound \cup {"unsent"}
  BY <1>2 DEF Claiming, Launching, Bound
<1>5. \/ Goes(r, "done") /\ UNCHANGED <<claims, launches, active, hold>>
      \/ /\ active[target[r]] # None /\ hold' = [hold EXCEPT ![r] = active[target[r]].run]
         /\ Goes(r, "resumeWait") /\ UNCHANGED <<claims, launches, active>>
      \/ /\ UNCHANGED <<active, hold>>
         /\ \E entry \in {active[target[r]]} :
              EnterAnalyze(r, target[r], entry) \/ EnterStart(r, target[r], entry)
  <2>1. CASE Goto(r, "done") /\ UNCHANGED <<claims, launches, active, val, hold>>
    BY <2>1 DEF Goto, Goes
  <2>2. CASE /\ active[target[r]] # None /\ hold' = [hold EXCEPT ![r] = active[target[r]].run]
             /\ Goto(r, "resumeWait") /\ UNCHANGED <<claims, launches, active>>
    BY <2>2 DEF Goto, Goes
  <2>3. ASSUME NEW entry \in {active[target[r]], None}, entry = None => active[target[r]] = None,
               active' = [active EXCEPT ![target[r]] = entry],
               EnterAgain(r, target[r], state[target[r]].stage, entry), UNCHANGED <<val, hold>>
        PROVE  /\ UNCHANGED <<active, hold>>
               /\ EnterAnalyze(r, target[r], active[target[r]])
                  \/ EnterStart(r, target[r], active[target[r]])
    <3>1. entry = active[target[r]]
      BY <2>3
    <3>2. UNCHANGED active
      BY <1>1, <2>3, <3>1
    <3>3. EnterAnalyze(r, target[r], entry) \/ EnterStart(r, target[r], entry)
      BY <2>3 DEF EnterAgain
    <3> QED
      BY <2>3, <3>1, <3>2, <3>3
  <2> QED
    BY <1>3, <2>1, <2>2, <2>3 DEF ResumeGet
<1>6. CASE Goes(r, "done") /\ UNCHANGED <<claims, launches, active, hold>>
  <2>1. "done" \in PCs \ Bound /\ Others(r, hold, hold') /\ Others(r, target, target')
    BY <1>2, <1>6 DEF PCs, Bound, Others
  <2> QED
    BY <1>2, <1>4, <1>6, <2>1, AsideKeepsRuns, AsideKeepsClaims
<1>7. CASE /\ active[target[r]] # None /\ hold' = [hold EXCEPT ![r] = active[target[r]].run]
           /\ Goes(r, "resumeWait") /\ UNCHANGED <<claims, launches, active>>
  <2>1. Claimed' /\ Launched'
    BY <1>2, <1>4, <1>7, AsideKeepsClaims DEF PCs, Others
  <2>2. slot # Free /\ active[target[r]].run = slot.id /\ slot.id \in Reqs
    BY <1>1, <1>3, <1>7 DEF Live, Entries
  <2>3. /\ \A q \in Reqs \ {r} : pc'[q] = pc[q] /\ hold'[q] = hold[q]
        /\ pc'[r] = "resumeWait" /\ hold'[r] = slot.id
    BY <1>1, <1>7, <2>2 DEF Goes
  <2>4. Named'
    <3>1. \A q \in Reqs : pc[q] # "unsent" => pc'[q] # "unsent"
      BY <2>3
    <3>2. \A q \in Reqs : pc'[q] \in Bound => target[hold'[q]] = target[q] /\ pc'[hold'[q]] # "unsent"
      <4>1. target[slot.id] = target[r] /\ pc[slot.id] # "unsent"
        BY <1>3, <1>7, <2>2 DEF Locks, Named
      <4>2. \A q \in Reqs : pc[q] \in Bound => hold[q] \in Reqs
        BY DEF WellFormed, HandlerData, Bound
      <4> QED
        BY <2>2, <2>3, <3>1, <4>1, <4>2 DEF Locks, Named
    <3>3. \A c \in cleanups : c.job = target[c.run] /\ pc'[c.run] # "unsent"
      BY <3>1 DEF Locks, Named, WellFormed, TypeOK
    <3>4. pc'[slot.id] # "unsent" /\ slot.job = target[slot.id]
      BY <2>2, <3>1 DEF Locks, Named
    <3> QED
      BY <1>2, <3>2, <3>3, <3>4 DEF Named
  <2>5. Entered'
    BY <1>2, <1>7 DEF Locks, Entered
  <2>6. Held'
    BY <1>2, <2>3 DEF Held, Dropped
  <2> QED
    BY <2>1, <2>4, <2>5, <2>6
<1>8. ASSUME UNCHANGED <<active, hold>>, NEW entry,
             EnterAnalyze(r, target[r], entry) \/ EnterStart(r, target[r], entry)
      PROVE  Named' /\ Entered' /\ Held' /\ Claimed' /\ Launched'
  <2>1. Others(r, hold, hold') /\ Others(r, target, target')
    BY <1>2, <1>8 DEF Others
  <2>2. Claimed' /\ Launched' /\ \E to \in {"done", "analyzeGet", "startGet"} : Goes(r, to)
    BY <1>1, <1>2, <1>4, <1>8, <2>1, EnteringKeepsClaims
  <2>3. PICK to \in {"done", "analyzeGet", "startGet"} : Goes(r, to)
    BY <2>2
  <2>4. to \in PCs \ Bound
    BY DEF PCs, Bound
  <2> QED
    BY <1>2, <1>4, <1>8, <2>1, <2>2, <2>3, <2>4, AsideKeepsRuns
<1> QED
  BY <1>5, <1>6, <1>7, <1>8

\* Pauses, retries and the handlers that change a resting job.
LEMMA OthersKeepLocks ==
    ASSUME WellFormed, Locks, NEW r \in Reqs,
           \/ PauseGet(r) \/ PauseIdle(r) \/ PauseSave(r) \/ PauseAbort(r) \/ RetryGet(r)
           \/ MutGet(r) \/ InvGet(r) \/ Clear(r) \/ InvSave(r) \/ MutSave(r) \/ Remove(r)
    PROVE  Named' /\ Entered' /\ Held' /\ Claimed' /\ Launched'
<1> DEFINE Idle == {"pauseGet", "pauseIdle", "pauseSave", "pauseAbort", "retryGet", "mutGet",
                    "invGet", "clear", "invSave", "mutSave", "remove"}
<1>1. /\ UNCHANGED <<active, cleanups, slot, task, settled, target>> /\ aborted \subseteq aborted'
      /\ pc[r] \in Idle
  BY DEF PauseGet, PauseIdle, PauseSave, PauseAbort, RetryGet, MutGet, InvGet, Clear, InvSave,
         MutSave, Remove, Reads, memory, running
<1>2. pc[r] \notin Claiming \cup Launching \cup Bound \cup {"unsent"}
  BY <1>1 DEF Claiming, Launching, Bound
<1>3. Others(r, hold, hold') /\ Others(r, target, target')
  <2>1. UNCHANGED hold \/ \E c : hold' = [hold EXCEPT ![r] = c]
    BY DEF PauseGet, PauseIdle, PauseSave, PauseAbort, RetryGet, MutGet, InvGet, Clear, InvSave,
           MutSave, Remove
  <2> QED
    BY <1>1, <2>1 DEF Others, WellFormed, TypeOK
<1>4. CASE RetryGet(r)
  <2>1. \/ \E entry : EnterAnalyze(r, target[r], entry) \/ EnterStart(r, target[r], entry)
        \/ Goes(r, "done") /\ UNCHANGED <<claims, launches>>
    BY <1>4 DEF RetryGet, EnterAgain, Goto, Goes
  <2>2. target[r] \in Jobs
    BY <1>2, <1>4 DEF RetryGet, Reads, WellFormed, HandlerData
  <2>3. /\ Claimed' /\ Launched'
        /\ \E to \in {"done", "analyzeGet", "startGet"} : Goes(r, to)
    BY <1>1, <1>2, <1>3, <2>1, <2>2, EnteringKeepsClaims, AsideKeepsClaims DEF PCs
  <2>4. PICK to \in {"done", "analyzeGet", "startGet"} : Goes(r, to)
    BY <2>3
  <2>5. to \in PCs \ Bound
    BY DEF PCs, Bound
  <2> QED
    BY <1>1, <1>2, <1>3, <2>3, <2>4, <2>5, AsideKeepsRuns
<1>5. CASE ~RetryGet(r)
  <2>1. UNCHANGED <<claims, launches>>
    BY <1>5 DEF PauseGet, PauseIdle, PauseSave, PauseAbort, MutGet, InvGet, Clear, InvSave,
                MutSave, Remove, memory
  <2>2. \E to \in Idle \cup {"done"} : pc' = [pc EXCEPT ![r] = to]
    BY <1>5 DEF PauseGet, PauseIdle, PauseSave, PauseAbort, MutGet, Admitted, InvGet, Clear,
                InvSave, MutSave, Remove, Goto
  <2>3. PICK to \in Idle \cup {"done"} : pc' = [pc EXCEPT ![r] = to]
    BY <2>2
  <2>4. to \in PCs \ Bound /\ to \in PCs /\ Goes(r, to)
    BY <2>3 DEF PCs, Bound, Goes
  <2>5. Named' /\ Entered' /\ Held'
    BY <1>1, <1>2, <1>3, <2>4, AsideKeepsRuns
  <2>6. Claimed' /\ Launched'
    BY <1>2, <1>3, <2>1, <2>4, AsideKeepsClaims
  <2> QED
    BY <2>5, <2>6
<1> QED
  BY <1>4, <1>5

LEMMA SendKeepsLocks ==
    ASSUME WellFormed, Locks, NEW r \in Reqs, NEW o \in Ops, NEW j \in Jobs, Send(r, o, j)
    PROVE  Named' /\ Entered' /\ Held' /\ Claimed' /\ Launched'
<1>1. /\ pc[r] = "unsent" /\ target' = [target EXCEPT ![r] = j]
      /\ UNCHANGED <<active, cleanups, slot, task, settled, hold, aborted>>
  BY DEF Send, Reads, running
<1>2. /\ target'[r] = j /\ Others(r, target, target') /\ Others(r, hold, hold')
      /\ pc[r] \notin Claiming \cup Launching \cup Bound
  BY <1>1 DEF WellFormed, TypeOK, Others, Claiming, Launching, Bound
<1>3. \/ EnterAnalyze(r, j, active[j]) \/ EnterStart(r, j, active[j])
      \/ /\ \E to \in {"pauseGet", "resumeGet", "retryGet", "mutGet"} : Goes(r, to)
         /\ UNCHANGED <<claims, launches>>
  BY DEF Send, Goto, Goes
<1>4. /\ Claimed' /\ Launched'
      /\ \E to \in {"done", "analyzeGet", "startGet", "pauseGet", "resumeGet", "retryGet", "mutGet"} :
           Goes(r, to)
  <2>1. CASE EnterAnalyze(r, j, active[j]) \/ EnterStart(r, j, active[j])
    BY <1>2, <2>1, EnteringKeepsClaims
  <2>2. ASSUME NEW to \in {"pauseGet", "resumeGet", "retryGet", "mutGet"}, Goes(r, to),
               UNCHANGED <<claims, launches>>
        PROVE  Claimed' /\ Launched'
    <3>1. to \in PCs
      BY DEF PCs
    <3> QED
      BY <1>2, <2>2, <3>1, AsideKeepsClaims
  <2> QED
    BY <1>3, <2>1, <2>2
<1>5. PICK to \in {"done", "analyzeGet", "startGet", "pauseGet", "resumeGet", "retryGet", "mutGet"} :
        Goes(r, to)
  BY <1>4
<1>6. to \in PCs \ Bound
  BY DEF PCs, Bound
<1> QED
  BY <1>1, <1>2, <1>4, <1>5, <1>6, AsideKeepsRuns

LEMMA HandlerKeepsLocks ==
    ASSUME WellFormed, Locks, NEW r \in Reqs, Handler(r)
    PROVE  Named' /\ Entered' /\ Held' /\ Claimed' /\ Launched'
BY LaunchKeepsLocks, GateKeepsLocks, SchedulingKeepsLocks, ReactionKeepsLocks, ResumeKeepsLocks,
   OthersKeepLocks DEF Handler

\* A task that goes on: it can succeed only if its run was not aborted.
LEMMA TaskKeepsLocks ==
    ASSUME WellFormed, Locks, AnalysisBegins \/ AnalysisPrepared \/ AnalysisFails \/ TaskSaves \/ RunEnds
    PROVE  Named' /\ Entered' /\ Held' /\ Claimed' /\ Launched'
<1>1. UNCHANGED <<claims, active, launches, cleanups, slot, settled, aborted, pc, hold, target>>
  BY DEF AnalysisBegins, AnalysisPrepared, AnalysisFails, TaskSaves, RunEnds, RunFinishes, RunStops,
         memory, handlers
<1>2. /\ task.at # "gated" /\ task'.at # "gated"
      /\ slot.id \in aborted /\ ~task.ok => ~task'.ok
  BY DEF AnalysisBegins, AnalysisPrepared, AnalysisFails, TaskSaves, RunEnds, RunFinishes, RunStops,
         At, TaskGoes, TaskConcludes, TaskAt
<1>3. Held'
  BY <1>1, <1>2 DEF Locks, Held, Dropped
<1> QED
  BY <1>1, <1>3 DEF Locks, Named, Entered, Dropped, Claimed, Launched

\* The run settles, and somebody is there to drop its entry.
LEMMA SettlingKeepsLocks ==
    ASSUME WellFormed, Locks, TaskSettles
    PROVE  Named' /\ Entered' /\ Held' /\ Claimed' /\ Launched'
<1>1. /\ UNCHANGED <<claims, active, launches, cleanups, aborted, pc, hold, target>>
      /\ slot' = Free /\ settled' = [id |-> slot.id, ok |-> task.ok]
      /\ slot # Free /\ settled = None /\ task.at = "closing" /\ (task.ok \/ Awaited(slot.id))
  BY DEF TaskSettles, At, MacroTask, memory, handlers
<1>2. slot \in [id : Reqs, job : Jobs] /\ active[slot.job] \in Entries
  BY <1>1 DEF WellFormed, TypeOK, Locks, SlotOwned
<1>3. Dropped(slot.id, active[slot.job].kind)
  <2>1. CASE task.ok
    BY <1>1, <2>1 DEF Locks, Held
  <2>2. CASE Awaited(slot.id)
    <3>1. \/ Dropped(slot.id, active[slot.job].kind)
          \/ active[slot.job].kind = "translation" /\ slot.id \in aborted
      BY <1>1 DEF Locks, Held
    <3> QED
      BY <2>2, <3>1 DEF Awaited, Dropped
  <2> QED
    BY <1>1, <2>1, <2>2
<1>4. slot.job = target[slot.id] /\ pc[slot.id] # "unsent"
  BY <1>1 DEF Locks, Named
<1>5. Named'
  BY <1>1, <1>4 DEF Locks, Named, Free
<1>6. Entered'
  <2> SUFFICES ASSUME NEW j \in Jobs, active[j] # None
               PROVE  /\ settled' # None /\ j = target[slot.id] /\ active[j].run = slot.id
                      /\ Dropped(slot.id, active[j].kind)
    BY <1>1 DEF Entered, Dropped
  <2>1. j = slot.job /\ active[j].run = slot.id
    BY <1>1 DEF Locks, Entered
  <2>2. settled' # None
    BY <1>1, <1>2, ConstantsAssumption DEF WellFormed, TypeOK
  <2> QED
    BY <1>3, <1>4, <2>1, <2>2
<1>7. Held'
  BY <1>1 DEF Held
<1>8. Claimed' /\ Launched'
  BY <1>1 DEF Locks, Claimed, Launched
<1> QED
  BY <1>5, <1>6, <1>7, <1>8

\* A launch's reaction drops the entry of its run.
LEMMA CleanupKeepsLocks ==
    ASSUME WellFormed, Locks, NEW c \in cleanups, LaunchSettled(c)
    PROVE  Named' /\ Entered' /\ Held' /\ Claimed' /\ Launched'
<1>1. /\ UNCHANGED <<claims, launches, slot, task, settled, aborted, pc, hold, target>>
      /\ cleanups' = cleanups \ {c} /\ settled # None /\ settled.id = c.run
      /\ Forget(c.job, c.run)
  BY DEF LaunchSettled, running, handlers
<1>2. slot = Free
  BY <1>1 DEF Locks, SlotOwned
<1>3. c.job = target[settled.id] /\ c.job \in Jobs
  BY <1>1 DEF Locks, Named, WellFormed, TypeOK
<1>4. active \in [Jobs -> Entries \cup {None}]
  BY DEF WellFormed, TypeOK
<1>5. Entered'
  <2> SUFFICES ASSUME NEW j \in Jobs, active'[j] # None
               PROVE  /\ j = target[settled.id] /\ active'[j].run = settled.id
                      /\ \E r \in Reqs : pc[r] \in {"analyzeWait", "resumeWait"} /\ hold[r] = settled.id
    BY <1>1 DEF Entered, Dropped
  <2>1. active[j] # None /\ active'[j] = active[j]
    BY <1>1, <1>3, <1>4, ConstantsAssumption DEF Forget
  <2>2. j = target[settled.id] /\ active[j].run = settled.id /\ Dropped(settled.id, active[j].kind)
    BY <1>1, <1>2, <2>1 DEF Locks, Entered
  <2>3. active[j].kind # "translation"
    BY <1>1, <1>3, <1>4, <2>1, <2>2 DEF Forget
  <2> QED
    BY <2>1, <2>2, <2>3 DEF Dropped
<1>6. Named'
  BY <1>1 DEF Locks, Named
<1>7. Held'
  BY <1>1, <1>2 DEF Held
<1>8. Claimed' /\ Launched'
  BY <1>1 DEF Locks, Claimed, Launched
<1> QED
  BY <1>5, <1>6, <1>7, <1>8

\* The last reaction has run: no entry is left.
LEMMA RestKeepsLocks ==
    ASSUME WellFormed, Locks, ReactionsDone
    PROVE  Named' /\ Entered' /\ Held' /\ Claimed' /\ Launched'
<1>1. /\ UNCHANGED <<claims, active, launches, cleanups, slot, task, aborted, pc, hold, target>>
      /\ settled # None /\ ~Awaited(settled.id) /\ settled' = None
  BY DEF ReactionsDone, memory, handlers
<1>2. slot = Free
  BY <1>1 DEF Locks, SlotOwned
<1>3. \A j \in Jobs : active[j] = None
  BY <1>1, <1>2 DEF Locks, Entered, Dropped, Awaited
<1>4. Entered'
  BY <1>1, <1>3 DEF Entered
<1>5. Named'
  BY <1>1 DEF Locks, Named
<1>6. Held'
  BY <1>1, <1>2 DEF Held
<1>7. Claimed' /\ Launched'
  BY <1>1 DEF Locks, Claimed, Launched
<1> QED
  BY <1>4, <1>5, <1>6, <1>7

\* Memory is gone with the process.
LEMMA EndKeepsLocks ==
    ASSUME WellFormed, ProcessEnds
    PROVE  Named' /\ Entered' /\ Held' /\ Claimed' /\ Launched'
<1>1. /\ claims' = {} /\ cleanups' = {} /\ slot' = Free /\ settled' = None
      /\ \A j \in Jobs : active'[j] = None /\ launches'[j] = None
      /\ \A r \in Reqs : pc'[r] \notin Bound
  BY DEF ProcessEnds, Bound
<1> QED
  BY <1>1 DEF Named, Entered, Held, Claimed, Launched

LEMMA LocksKept ==
    ASSUME WellFormed, Locks, [Next]_vars
    PROVE  Locks'
<1>1. SlotOwned'
  BY OwnedStays DEF Locks
<1>2. ASSUME UNCHANGED <<claims, active, launches, cleanups, slot, task, settled, aborted, pc, hold, target>>
      PROVE  Named' /\ Entered' /\ Held' /\ Claimed' /\ Launched'
  <2>1. Named' /\ Entered'
    BY <1>2 DEF Locks, Named, Entered, Dropped
  <2>2. Held'
    BY <1>2 DEF Locks, Held, Dropped
  <2>3. Claimed' /\ Launched'
    BY <1>2 DEF Locks, Claimed, Launched
  <2> QED
    BY <2>1, <2>2, <2>3
<1>3. CASE \/ \E r \in Reqs : PatchSave(r)
           \/ \E w \in stragglers \cup {slot} : PatchRead(w) \/ StragglerReturns(w)
           \/ \E j \in recovering : Recover(j)
           \/ UNCHANGED vars
  <2>1. UNCHANGED <<claims, active, launches, cleanups, slot, task, settled, aborted, pc, hold, target>>
    BY <1>3 DEF PatchSave, PatchRead, StragglerReturns, Recover, vars, memory, running, handlers
  <2> QED
    BY <1>1, <1>2, <2>1 DEF Locks
<1>4. CASE \E r \in Reqs : Handler(r) \/ \E o \in Ops, j \in Jobs : Send(r, o, j)
  BY <1>1, <1>4, HandlerKeepsLocks, SendKeepsLocks DEF Locks
<1>5. CASE Task \/ RunEnds \/ Crash
  <2>1. CASE Crash \/ UnhandledRejection
    BY <1>1, <2>1, EndKeepsLocks DEF Locks, Crash, UnhandledRejection
  <2> QED
    BY <1>1, <1>5, <2>1, TaskKeepsLocks, SettlingKeepsLocks, RestKeepsLocks DEF Locks, Task
<1>6. CASE \E c \in cleanups : LaunchSettled(c)
  BY <1>1, <1>6, CleanupKeepsLocks DEF Locks
<1> QED
  BY <1>3, <1>4, <1>5, <1>6 DEF Next, Work, Quiescent

\* No lock outlives its holder, whatever launches, pauses, failures and crashes overlap
\* (job-orchestrator.ts: every claim, entry and pending launch is given back by the
\* finally, the catch or the reaction that belongs to it).
THEOREM NoLocksLeak == Spec => []NoLockLeak
<1>1. Init => Locks
  BY DEF Init, Locks, SlotOwned, Named, Entered, Held, Claimed, Launched, Bound
<1>2. WellFormed /\ Locks /\ [Next]_vars => Locks'
  BY LocksKept
<1>3. Locks => NoLockLeak
  BY DEF Locks, Entered, Claimed, Launched, Launching, NoLockLeak, Live
<1> QED
  BY <1>1, <1>2, <1>3, WellFormedAlways, PTL DEF Spec

-----------------------------------------------------------------------------
(* Recovery. *)

\* Until recovery is over nothing else runs, and the jobs it has yet to visit
\* include every job that claims to be at work.
Booting ==
    recovering # {} =>
      /\ \A r \in Reqs : pc[r] \in {"unsent", "done"} /\ patch[r] = None
      /\ slot = Free /\ task = NoTask /\ settled = None
      /\ stragglers = {} /\ cleanups = {}
      /\ \A j \in Jobs : state[j].status \in Transient => j \in recovering

\* While it lasts, the server only recovers jobs or dies.
LEMMA OnlyRecovers ==
    ASSUME Booting, recovering # {}, [Next]_vars
    PROVE  (\E j \in recovering : Recover(j)) \/ Crash \/ UNCHANGED vars
<1> USE DEF Booting
<1>1. \A r \in Reqs : ~Handler(r) /\ ~PatchSave(r)
  BY DEF Handler, PatchSave, Reads, AnalyzeGet, AnalyzeSettled, StartGet,
         StartSchedule, StartRefused, StartSave, StartManifest, StartFails,
         StartEmit, PauseGet, PauseIdle, PauseSave, PauseAbort, ResumeGet,
         ResumeSettled, RetryGet, MutGet, InvGet, Clear, InvSave, MutSave,
         Remove
<1>2. ~Task /\ ~RunEnds
  BY DEF Task, RunEnds, At, AnalysisBegins, AnalysisPrepared, AnalysisFails,
         TaskSaves, TaskSettles, ReactionsDone, UnhandledRejection,
         RunFinishes, RunStops
<1>3. \A w \in stragglers \cup {slot} : ~PatchRead(w) /\ ~StragglerReturns(w)
  BY DEF PatchRead, StragglerReturns, Working, NoTask, TaskAt
<1>4. \A r \in Reqs, o \in Ops, j \in Jobs : ~Send(r, o, j)
  BY DEF Send
<1> QED
  BY <1>1, <1>2, <1>3, <1>4 DEF Next, Work, Quiescent

LEMMA HandlerKeepsLife ==
    ASSUME NEW r \in Reqs, Handler(r)
    PROVE  UNCHANGED recovering
BY DEF Handler, life, AnalyzeGet, AnalyzeSettled, StartGet, StartSchedule,
       StartRefused, StartSave, StartManifest, StartFails, StartEmit, PauseGet,
       PauseIdle, PauseSave, PauseAbort, ResumeGet, ResumeSettled, RetryGet,
       MutGet, InvGet, Clear, InvSave, MutSave, Remove

LEMMA CrashBoots ==
    ASSUME WellFormed, ProcessEnds
    PROVE  /\ Booting'
           /\ \A j \in Jobs : state'[j].status \in Transient => j \in recovering'
BY DEF WellFormed, TypeOK, ProcessEnds, Booting, Exists, Transient, disk

LEMMA RecoverStep ==
    ASSUME WellFormed, Booting, NEW j \in recovering, Recover(j)
    PROVE  /\ Booting'
           /\ \A k \in Jobs : state'[k].status \in Transient => k \in recovering'
<1>1. \A k \in Jobs : state'[k].status \in Transient => k \in recovering'
  BY DEF WellFormed, TypeOK, Booting, Recover, Save, WithStatus, Transient
<1> QED
  BY <1>1 DEF Booting, Recover, memory, running, handlers

\* It ends with every job at rest.
LEMMA BootingKept ==
    ASSUME WellFormed, Booting, [Next]_vars
    PROVE  /\ Booting'
           /\ recovering # {} /\ recovering' = {} =>
                 \A j \in Jobs : state'[j].status \notin Transient
<1>1. CASE Crash \/ UnhandledRejection
  BY <1>1, CrashBoots DEF Crash, UnhandledRejection
<1>2. ASSUME NEW j \in recovering, Recover(j)
      PROVE  /\ Booting'
             /\ recovering' = {} =>
                   \A k \in Jobs : state'[k].status \notin Transient
  BY <1>2, RecoverStep
<1>3. CASE UNCHANGED vars
  BY <1>3 DEF Booting, vars, disk, running, memory, handlers, life
<1>4. CASE recovering # {}
  BY <1>1, <1>2, <1>3, <1>4, OnlyRecovers
<1>5. CASE recovering = {} /\ UNCHANGED recovering
  BY <1>5 DEF Booting
<1> QED
  BY <1>1, <1>2, <1>3, <1>4, <1>5, HandlerKeepsLife
     DEF Next, Work, Send, life, PatchSave, PatchRead, StragglerReturns, Task,
         LaunchSettled, RunEnds, AnalysisBegins, AnalysisPrepared,
         AnalysisFails, TaskSaves, TaskSettles, ReactionsDone, RunFinishes,
         RunStops, Quiescent

\* When recovery is over no job claims to be at work.
THEOREM RecoveryRests == Spec => RestAfterRecovery
<1>1. Init => Booting
  BY DEF Init, Booting
<1>2. WellFormed /\ Booting /\ [Next]_vars => Booting'
  BY BootingKept
<1>3. [](WellFormed /\ Booting) /\ [][Next]_vars => RestAfterRecovery
  <2>1. WellFormed /\ Booting /\ [Next]_vars =>
          [recovering # {} /\ recovering' = {} =>
             \A j \in Jobs : state'[j].status \notin Transient]_vars
    BY BootingKept
  <2> QED
    BY <2>1, PTL DEF RestAfterRecovery
<1> QED
  BY <1>1, <1>2, <1>3, WellFormedAlways, PTL DEF Spec

-----------------------------------------------------------------------------
(* The state file of a running job. *)

Plain == {"start", "pause", "resume", "retry", None}

\* The histories RunOwnsState is about.
Orderly ==
    /\ \A r \in Reqs : op[r] \in Plain
    /\ \A q, r \in Reqs : op[q] = "pause" /\ op[r] = "pause" => q = r
    /\ ~Parallel

Changing == {"mutGet", "invGet", "clear", "invSave", "mutSave", "remove"}
Pausing == {"pauseGet", "pauseIdle", "pauseSave", "pauseAbort"}

\* A handler does what its request asked for, and what it will save is settled.
Asked ==
    /\ \A r \in Reqs :
         /\ pc[r] = "unsent" => op[r] = None
         /\ pc[r] \in Changing => op[r] \notin Plain
         /\ pc[r] \in Pausing => op[r] = "pause"
         /\ pc[r] = "pauseSave" => val[r].status = "stopping"
         /\ pc[r] = "startSave" => val[r].status = "running"
    /\ task.at = "concluding" => task.save.status \notin Transient

\* Of a job only one launch is pending.
OneLaunch == \A r \in Reqs : pc[r] \in Launching => launches[target[r]] = r

\* Without parallel batches a patch is written by the run in the slot, while it works.
Patching ==
    ~Parallel =>
      /\ stragglers = {}
      /\ \A t \in Reqs : patch[t] # None =>
           /\ slot # Free /\ task.at = "working" /\ t = slot.id
           /\ patch[t].job = slot.job /\ patch[t].save.status = "running"

\* No launch of job j has been admitted and not yet saved.
Launchless(j) == \A r \in Reqs : target[r] = j => pc[r] \notin {"startSchedule", "startSave"}

AtWork(j) == slot # Free /\ slot.job = j /\ task.at # "closing"

\* The pause, if one was sent, has not read its job.
PauseUnread == \A r \in Reqs : op[r] = "pause" => pc[r] = "pauseGet"

\* Before the pause has read its job, a status that claims work is behind a run, or
\* was left by a launch that joined a run and saved after its end.
NoPauseYet ==
    Orderly /\ PauseUnread /\ recovering = {} =>
      \A j \in Jobs : ~AtWork(j) /\ state[j].status \in Transient => Launchless(j)

\* A pause that found no task finds none when it saves: the status it read admits
\* neither a launch nor an analysis.
IdlePause ==
    Orderly => \A r \in Reqs : pc[r] = "pauseIdle" =>
      /\ active[target[r]] = None
      /\ state[target[r]].status \in Transient
      /\ Launchless(target[r])

\* The run in the slot works and is not aborted, or its launch has saved the job and holds
\* the gate.
Showing ==
    /\ slot # Free
    /\ \/ task.at = "working" /\ slot.id \notin aborted
       \/ task.at = "gated" /\ pc[slot.id] = "startManifest"

\* The first save comes before the gate opens, and nothing at rest is saved after it.
Shown == Orderly /\ Showing => state[slot.job].status \in {"running", "stopping"}

\* Where a handler goes from where, and what it carries.
LEMMA HandlerGoes ==
    ASSUME WellFormed, NEW r \in Reqs, Handler(r)
    PROVE  /\ UNCHANGED <<op, target, recovering>> /\ pc[r] # "unsent"
           /\ Others(r, val, val') /\ Others(r, pc, pc')
           /\ pc'[r] \notin {"unsent", "pauseGet", "resumeGet", "retryGet", "mutGet"}
           /\ pc'[r] \in Changing => pc[r] \in Changing
           /\ pc'[r] \in Pausing => pc[r] = "pauseGet" \/ (pc[r] = "pauseSave" /\ pc'[r] = "pauseAbort")
           /\ pc'[r] = "pauseSave" => val'[r].status = "stopping"
           /\ pc'[r] = "startSave" => StartSchedule(r) /\ val'[r].status = "running"
           /\ pc'[r] = "startManifest" => StartSave(r)
           /\ pc'[r] = "startSchedule" => StartGet(r) /\ state[target[r]].status \in Startable
           /\ pc'[r] = "pauseIdle" => PauseGet(r) /\ active[target[r]] = None
                                        /\ state[target[r]].status \in Transient
<1> USE DEF Others, Changing, Pausing, Goto, Reads
<1>0. /\ pc \in [Reqs -> PCs] /\ val \in [Reqs -> JobState \cup {None}]
  BY DEF WellFormed, TypeOK
<1>1. UNCHANGED recovering
  BY HandlerKeepsLife
<1>2. CASE AnalyzeGet(r) \/ AnalyzeSettled(r)
  BY <1>0, <1>1, <1>2 DEF AnalyzeGet, AnalyzeSettled
<1>3. CASE StartGet(r)
  BY <1>0, <1>1, <1>3 DEF StartGet, AbandonLaunch
<1>4. CASE StartSchedule(r)
  <2>1. pc[r] = "startSchedule" /\ UNCHANGED <<op, target>> /\ pc' = [pc EXCEPT ![r] = "startSave"]
    BY <1>4 DEF StartSchedule
  <2>2. PICK stage \in {val[r].stage, "translation"} :
          val' = [val EXCEPT ![r] = [status |-> "running", stage |-> stage]]
    BY <1>4 DEF StartSchedule
  <2>3. Others(r, val, val') /\ val'[r].status = "running"
    BY <1>0, <2>2
  <2>4. pc'[r] = "startSave" /\ Others(r, pc, pc')
    BY <1>0, <2>1
  <2> HIDE DEF Goto, Reads
  <2> QED
    BY <1>1, <1>4, <2>1, <2>3, <2>4
<1>5. CASE StartRefused(r) \/ StartSave(r) \/ StartManifest(r) \/ StartFails(r) \/ StartEmit(r)
  BY <1>0, <1>1, <1>5 DEF StartRefused, StartSave, StartManifest, StartFails, StartEmit, AbandonLaunch
<1>6. CASE PauseGet(r)
  BY <1>0, <1>1, <1>6 DEF PauseGet, WithStatus
<1>7. CASE PauseIdle(r) \/ PauseSave(r) \/ PauseAbort(r)
  BY <1>0, <1>1, <1>7 DEF PauseIdle, PauseSave, PauseAbort
<1>8. CASE ResumeGet(r) \/ ResumeSettled(r) \/ RetryGet(r)
  BY <1>0, <1>1, <1>8 DEF ResumeGet, ResumeSettled, RetryGet, EnterAgain, EnterAnalyze, EnterStart
<1>9. CASE MutGet(r) \/ InvGet(r) \/ Clear(r) \/ InvSave(r) \/ MutSave(r) \/ Remove(r)
  <2>1. UNCHANGED <<op, target>> /\ pc[r] \in Changing
    BY <1>9 DEF MutGet, InvGet, Clear, InvSave, MutSave, Remove
  <2>2. \E to \in (Changing \ {"mutGet"}) \cup {"done"} : pc' = [pc EXCEPT ![r] = to]
    BY <1>9 DEF MutGet, Admitted, InvGet, Clear, InvSave, MutSave, Remove
  <2>3. \A q \in Reqs \ {r} : val'[q] = val[q]
    BY <1>0, <1>9 DEF MutGet, Admitted, InvGet, Clear, InvSave, MutSave, Remove
  <2> QED
    BY <1>0, <1>1, <2>1, <2>2, <2>3
<1> QED
  BY <1>2, <1>3, <1>4, <1>5, <1>6, <1>7, <1>8, <1>9 DEF Handler

\* Outside of the handlers a request only begins, or dies with the process.
LEMMA BeginsOrDies ==
    ASSUME WellFormed, [Next]_vars, ~(\E r \in Reqs : Handler(r))
    PROVE  \/ UNCHANGED <<pc, op, target, val>>
           \/ (Crash \/ UnhandledRejection) /\ ProcessEnds
           \/ \E r \in Reqs, o \in Ops, j \in Jobs :
                /\ Send(r, o, j) /\ Others(r, pc, pc') /\ Others(r, op, op') /\ Others(r, target, target')
                /\ op'[r] = o /\ target'[r] = j /\ pc[r] = "unsent" /\ UNCHANGED val
                /\ pc'[r] \in {"done", "analyzeGet", "startGet", "pauseGet", "resumeGet", "retryGet", "mutGet"}
                /\ pc'[r] = "pauseGet" => o = "pause"
                /\ pc'[r] = "mutGet" => o \notin {"start", "pause", "resume", "retry"}
<1>1. ASSUME NEW r \in Reqs, NEW o \in Ops, NEW j \in Jobs, Send(r, o, j)
      PROVE  /\ Others(r, pc, pc') /\ Others(r, op, op') /\ Others(r, target, target')
             /\ op'[r] = o /\ target'[r] = j /\ pc[r] = "unsent" /\ UNCHANGED val
             /\ pc'[r] \in {"done", "analyzeGet", "startGet", "pauseGet", "resumeGet", "retryGet", "mutGet"}
             /\ pc'[r] = "pauseGet" => o = "pause"
             /\ pc'[r] = "mutGet" => o \notin {"start", "pause", "resume", "retry"}
  BY <1>1 DEF WellFormed, TypeOK, Send, Reads, Others, Goto, EnterAnalyze, EnterStart
<1>2. CASE Crash \/ UnhandledRejection
  BY <1>2 DEF Crash, UnhandledRejection
<1>3. CASE /\ ~(Crash \/ UnhandledRejection)
           /\ ~(\E r \in Reqs, o \in Ops, j \in Jobs : Send(r, o, j))
  BY <1>3 DEF Next, Work, handlers, vars, PatchSave, PatchRead, StragglerReturns, Task, LaunchSettled, RunEnds,
         AnalysisBegins, AnalysisPrepared, AnalysisFails, TaskSaves, TaskSettles, ReactionsDone,
         RunFinishes, RunStops, Recover, Quiescent
<1> QED
  BY <1>1, <1>2, <1>3

LEMMA AskedKept ==
    ASSUME WellFormed, Asked, [Next]_vars
    PROVE  Asked'
<1>1. task'.at = "concluding" => task'.save.status \notin Transient
  <2>1. UNCHANGED task => (task'.at = "concluding" => task'.save.status \notin Transient)
    BY DEF Asked
  <2>2. ASSUME NEW r \in Reqs, Handler(r) PROVE UNCHANGED task \/ task'.at # "concluding"
    BY <2>2 DEF Handler, AnalyzeGet, AnalyzeSettled, StartGet, StartSchedule, Schedule, TaskAt, OpenGate,
         StartRefused, StartSave, StartManifest, StartFails, StartEmit, PauseGet, PauseIdle, PauseSave,
         PauseAbort, ResumeGet, ResumeSettled, RetryGet, MutGet, InvGet, Clear, InvSave, MutSave,
         Remove, running
  <2>3. CASE Task \/ RunEnds
    BY <2>3, <2>1 DEF Task, RunEnds, AnalysisBegins, AnalysisPrepared, AnalysisFails, TaskSaves,
         TaskSettles, ReactionsDone, UnhandledRejection, RunFinishes, RunStops, TaskGoes,
         TaskConcludes, WithStatus, Transient, TaskAt, NoTask, ProcessEnds
  <2>4. CASE Crash
    BY <2>4 DEF Crash, ProcessEnds, NoTask, TaskAt
  <2>5. CASE ~(\E r \in Reqs : Handler(r)) /\ ~Task /\ ~RunEnds /\ ~Crash
    <3>1. UNCHANGED task
      BY <2>5 DEF Next, Work, vars, running, Send, PatchSave, PatchRead, StragglerReturns,
           LaunchSettled, Recover, Quiescent
    <3> QED
      BY <2>1, <3>1
  <2> QED
    BY <2>1, <2>2, <2>3, <2>4, <2>5
<1>2. SUFFICES ASSUME NEW q \in Reqs
               PROVE  /\ pc'[q] = "unsent" => op'[q] = None
                      /\ pc'[q] \in Changing => op'[q] \notin Plain
                      /\ pc'[q] \in Pausing => op'[q] = "pause"
                      /\ pc'[q] = "pauseSave" => val'[q].status = "stopping"
                      /\ pc'[q] = "startSave" => val'[q].status = "running"
  BY <1>1 DEF Asked
<1>3. ASSUME NEW r \in Reqs, Handler(r)
      PROVE  /\ pc'[q] = "unsent" => op'[q] = None
             /\ pc'[q] \in Changing => op'[q] \notin Plain
             /\ pc'[q] \in Pausing => op'[q] = "pause"
             /\ pc'[q] = "pauseSave" => val'[q].status = "stopping"
             /\ pc'[q] = "startSave" => val'[q].status = "running"
  BY <1>3, HandlerGoes DEF Asked, Others, Pausing
<1>4. CASE UNCHANGED <<pc, op, target, val>>
  BY <1>4 DEF Asked
<1>5. CASE ProcessEnds
  BY <1>5 DEF ProcessEnds, Asked, Changing, Pausing
<1>6. ASSUME NEW r \in Reqs, NEW o \in Ops, NEW j \in Jobs,
             Others(r, pc, pc') /\ Others(r, op, op') /\ op'[r] = o /\ UNCHANGED val,
             pc'[r] \in {"done", "analyzeGet", "startGet", "pauseGet", "resumeGet", "retryGet", "mutGet"},
             pc'[r] = "pauseGet" => o = "pause",
             pc'[r] = "mutGet" => o \notin {"start", "pause", "resume", "retry"}
      PROVE  /\ pc'[q] = "unsent" => op'[q] = None
             /\ pc'[q] \in Changing => op'[q] \notin Plain
             /\ pc'[q] \in Pausing => op'[q] = "pause"
             /\ pc'[q] = "pauseSave" => val'[q].status = "stopping"
             /\ pc'[q] = "startSave" => val'[q].status = "running"
  BY <1>6, ConstantsAssumption DEF Asked, Others, Changing, Pausing, Plain
<1> QED
  BY <1>3, <1>4, <1>5, <1>6, BeginsOrDies

LEMMA OneLaunchKept ==
    ASSUME WellFormed, OneLaunch, [Next]_vars
    PROVE  OneLaunch'
<1> USE ConstantsAssumption
<1>0. /\ pc \in [Reqs -> PCs] /\ launches \in [Jobs -> Reqs \cup {None}]
      /\ \A r \in Reqs : pc[r] # "unsent" => target[r] \in Jobs
  BY DEF WellFormed, TypeOK, HandlerData
<1>1. \A r \in Reqs : pc[r] \in Launching => pc[r] # "unsent"
  BY DEF Launching, Claiming
\* A request that joins no launch makes one of its own, or none.
<1>2. ASSUME NEW r \in Reqs, Others(r, pc, pc'), Others(r, target, target'),
             pc'[r] \notin Launching, UNCHANGED launches
      PROVE  OneLaunch'
  BY <1>2 DEF OneLaunch, Others
<1>3. ASSUME NEW r \in Reqs, NEW j \in Jobs, NEW entry, Others(r, target, target'), target'[r] = j,
             EnterAnalyze(r, j, entry) \/ EnterStart(r, j, entry)
      PROVE  OneLaunch'
  <2>1. CASE EnterAnalyze(r, j, entry)
    BY <1>0, <1>2, <1>3, <2>1 DEF EnterAnalyze, Goto, Others, Launching, Claiming
  <2>2. CASE EnterStart(r, j, entry)
    <3>1. CASE launches[j] # None \/ entry # None
      BY <1>0, <1>2, <1>3, <2>2, <3>1 DEF EnterStart, Goto, Others, Launching, Claiming
    <3>2. CASE ~(launches[j] # None \/ entry # None)
      <4>1. launches[j] = None /\ launches' = [launches EXCEPT ![j] = r] /\ pc' = [pc EXCEPT ![r] = "startGet"]
        BY <2>2, <3>2 DEF EnterStart, Goto
      <4> QED
        BY <1>0, <1>1, <1>3, <4>1 DEF OneLaunch, Others
    <3> QED
      BY <3>1, <3>2
  <2> QED
    BY <1>3, <2>1, <2>2
<1>4. ASSUME NEW r \in Reqs, pc[r] \in Launching, pc' = [pc EXCEPT ![r] = "done"], UNCHANGED target,
             launches' = [launches EXCEPT ![target[r]] = None]
      PROVE  OneLaunch'
  BY <1>0, <1>1, <1>4 DEF OneLaunch, Launching, Claiming
<1>5. ASSUME NEW r \in Reqs, Handler(r) PROVE OneLaunch'
  <2>0. /\ UNCHANGED target /\ Others(r, pc, pc') /\ Others(r, target, target')
        /\ target[r] \in Jobs
    BY <1>0, <1>5, HandlerGoes DEF Others
  <2>1. CASE AnalyzeGet(r) \/ AnalyzeSettled(r) \/ PauseGet(r) \/ PauseIdle(r) \/ PauseSave(r) \/ PauseAbort(r)
    BY <1>0, <1>2, <2>0, <2>1 DEF AnalyzeGet, AnalyzeSettled, PauseGet, PauseIdle, PauseSave, PauseAbort,
         Goto, memory, Launching, Claiming
  <2>2. CASE MutGet(r) \/ InvGet(r) \/ Clear(r) \/ InvSave(r) \/ MutSave(r) \/ Remove(r)
    <3>1. UNCHANGED launches /\ pc[r] \in Changing
      BY <2>2 DEF MutGet, InvGet, Clear, InvSave, MutSave, Remove, memory, Reads, Changing
    <3>2. \E to \in Changing \cup {"done"} : pc' = [pc EXCEPT ![r] = to]
      BY <2>2 DEF MutGet, Admitted, InvGet, Clear, InvSave, MutSave, Remove, Goto, Changing
    <3>3. pc'[r] \notin Launching
      BY <1>0, <3>2 DEF Changing, Launching, Claiming
    <3> QED
      BY <1>2, <2>0, <3>1, <3>3
  <2>3. CASE StartGet(r) \/ StartSchedule(r) \/ StartSave(r) \/ StartManifest(r)
    <3>1. pc[r] \in Launching
      BY <2>3 DEF StartGet, StartSchedule, StartSave, StartManifest, Reads, Launching, Claiming
    <3>2. \/ UNCHANGED launches
          \/ pc' = [pc EXCEPT ![r] = "done"] /\ launches' = [launches EXCEPT ![target[r]] = None]
      BY <2>3 DEF StartGet, StartSchedule, StartSave, StartManifest, AbandonLaunch, Goto, memory
    <3>3. CASE UNCHANGED launches
      BY <2>0, <3>1, <3>3 DEF OneLaunch, Others
    <3> QED
      BY <1>4, <2>0, <3>1, <3>2, <3>3
  <2>4. CASE StartRefused(r) \/ StartFails(r) \/ StartEmit(r)
    <3>1. /\ pc[r] \in Launching /\ pc' = [pc EXCEPT ![r] = "done"]
          /\ launches' = [launches EXCEPT ![target[r]] = None]
      BY <2>4 DEF StartRefused, StartFails, StartEmit, AbandonLaunch, Goto, Reads, Launching, Claiming
    <3> QED
      BY <1>4, <2>0, <3>1
  <2>5. CASE ResumeGet(r)
    <3>1. \/ UNCHANGED launches /\ pc'[r] \in {"done", "resumeWait"}
          \/ \E entry \in {active[target[r]], None} :
               EnterAnalyze(r, target[r], entry) \/ EnterStart(r, target[r], entry)
      BY <1>0, <2>5 DEF ResumeGet, EnterAgain, Goto
    <3> QED
      BY <1>2, <1>3, <2>0, <3>1 DEF Launching, Claiming
  <2>6. CASE ResumeSettled(r)
    BY <1>3, <2>0, <2>6 DEF ResumeSettled, EnterAgain
  <2>7. CASE RetryGet(r)
    <3>1. \/ UNCHANGED launches /\ pc'[r] = "done"
          \/ EnterAnalyze(r, target[r], active[target[r]]) \/ EnterStart(r, target[r], active[target[r]])
      BY <1>0, <2>7 DEF RetryGet, EnterAgain, Goto
    <3> QED
      BY <1>2, <1>3, <2>0, <3>1 DEF Launching, Claiming
  <2> QED
    BY <1>5, <2>1, <2>2, <2>3, <2>4, <2>5, <2>6, <2>7 DEF Handler
<1>6. ASSUME NEW r \in Reqs, NEW o \in Ops, NEW j \in Jobs, Send(r, o, j),
             Others(r, pc, pc'), Others(r, target, target'), target'[r] = j
      PROVE  OneLaunch'
  <2>1. \/ EnterAnalyze(r, j, active[j]) \/ EnterStart(r, j, active[j])
        \/ pc'[r] \in {"pauseGet", "resumeGet", "retryGet", "mutGet"} /\ UNCHANGED launches
    BY <1>0, <1>6 DEF Send, Goto
  <2> QED
    BY <1>2, <1>3, <1>6, <2>1 DEF Launching, Claiming
<1>7. CASE ProcessEnds
  BY <1>7 DEF ProcessEnds, OneLaunch, Launching, Claiming
<1>8. CASE UNCHANGED <<pc, op, target, val>> /\ ~(\E r \in Reqs : Handler(r))
           /\ ~Crash /\ ~UnhandledRejection
           /\ ~(\E r \in Reqs, o \in Ops, j \in Jobs : Send(r, o, j))
  <2>1. UNCHANGED launches
    BY <1>8 DEF Next, Work, vars, memory, PatchSave, PatchRead, StragglerReturns, Task, LaunchSettled,
         RunEnds, AnalysisBegins, AnalysisPrepared, AnalysisFails, TaskSaves, TaskSettles,
         ReactionsDone, RunFinishes, RunStops, Recover, Quiescent
  <2> QED
    BY <1>8, <2>1 DEF OneLaunch
<1>9. CASE ~(\E r \in Reqs : Handler(r))
  <2>1. CASE Crash \/ UnhandledRejection
    BY <1>7, <2>1 DEF Crash, UnhandledRejection
  <2>2. CASE \E r \in Reqs, o \in Ops, j \in Jobs : Send(r, o, j)
    <3>1. PICK r \in Reqs, o \in Ops, j \in Jobs : Send(r, o, j)
      BY <2>2
    <3>2. Others(r, pc, pc') /\ Others(r, target, target') /\ target'[r] = j
      BY <3>1 DEF WellFormed, TypeOK, Send, Others, Goto, EnterAnalyze, EnterStart
    <3> QED
      BY <1>6, <3>1, <3>2
  <2> QED
    BY <1>8, <1>9, <2>1, <2>2, BeginsOrDies
<1> QED
  BY <1>5, <1>9

\* What a handler does to the slot and its task: it takes the free slot, or opens the gate
\* of the run it launched.
LEMMA HandlerSlot ==
    ASSUME WellFormed, NEW r \in Reqs, Handler(r)
    PROVE  /\ UNCHANGED <<stragglers, patch, settled>> /\ aborted \subseteq aborted'
           /\ \/ UNCHANGED <<slot, task>>
              \/ /\ slot = Free /\ slot' = [id |-> r, job |-> target[r]]
                 /\ \/ AnalyzeGet(r) /\ task' = TaskAt("analyzing")
                    \/ StartSchedule(r) /\ task' = TaskAt("gated")
              \/ /\ slot' = slot /\ slot.id = r /\ task.at = "gated" /\ task' = TaskAt("working")
                 /\ pc[r] = "startManifest" \/ r \in aborted'
<1>1. CASE AnalyzeGet(r) \/ StartSchedule(r)
  BY <1>1 DEF AnalyzeGet, StartSchedule, Schedule
<1>2. CASE StartManifest(r) \/ StartFails(r)
  BY <1>2 DEF StartManifest, StartFails, OpenGate, Reads
<1>3. CASE ~AnalyzeGet(r) /\ ~StartSchedule(r) /\ ~StartManifest(r) /\ ~StartFails(r)
  BY <1>3 DEF Handler, running, AnalyzeSettled, StartGet, StartRefused,
       StartSave, StartEmit, PauseGet, PauseIdle, PauseSave, PauseAbort,
       ResumeGet, ResumeSettled, RetryGet, MutGet, InvGet, Clear, InvSave, MutSave, Remove
<1> QED
  BY <1>1, <1>2, <1>3

LEMMA PatchingKept ==
    ASSUME WellFormed, Patching, [Next]_vars
    PROVE  Patching'
<1> SUFFICES ASSUME ~Parallel
             PROVE  /\ stragglers' = {}
                    /\ \A t \in Reqs : patch'[t] # None =>
                         /\ slot' # Free /\ task'.at = "working" /\ t = slot'.id
                         /\ patch'[t].job = slot'.job /\ patch'[t].save.status = "running"
  BY DEF Patching
<1> DEFINE Goal == /\ stragglers' = {}
                   /\ \A t \in Reqs : patch'[t] # None =>
                        /\ slot' # Free /\ task'.at = "working" /\ t = slot'.id
                        /\ patch'[t].job = slot'.job /\ patch'[t].save.status = "running"
<1>1. /\ stragglers = {}
      /\ \A t \in Reqs : patch[t] # None =>
           /\ slot # Free /\ task.at = "working" /\ t = slot.id
           /\ patch[t].job = slot.job /\ patch[t].save.status = "running"
  BY DEF Patching
<1>2. /\ patch \in [Reqs -> [job : Jobs, save : JobState] \cup {None}]
      /\ task.at # "idle" => slot.id \in Reqs
  BY DEF WellFormed, TypeOK, TaskData
<1>3. CASE UNCHANGED <<stragglers, patch, slot, task>>
  BY <1>1, <1>3
\* No patch is being written when the task is not at work.
<1>4. CASE UNCHANGED <<stragglers, patch>> /\ task.at # "working"
  BY <1>1, <1>4
<1>5. CASE UNCHANGED <<stragglers, patch>> /\ task.at = "working" /\ patch[slot.id] = None
  BY <1>1, <1>5
<1>6. ASSUME NEW r \in Reqs, Handler(r) PROVE Goal
  <2>1. UNCHANGED <<stragglers, patch>> /\ (task.at = "working" => UNCHANGED <<slot, task>>)
    BY <1>2, <1>6, HandlerSlot, ConstantsAssumption DEF Free
  <2> QED
    BY <1>3, <1>4, <2>1
<1>7. ASSUME NEW r \in Reqs, PatchSave(r) PROVE Goal
  BY <1>1, <1>2, <1>7 DEF PatchSave
<1>8. ASSUME NEW w \in stragglers \cup {slot}, PatchRead(w) PROVE Goal
  <2>1. w = slot /\ task.at = "working" /\ slot.id \in Reqs /\ UNCHANGED <<stragglers, slot, task>>
    BY <1>1, <1>2, <1>8 DEF PatchRead, Working
  <2>2. slot # Free
    BY <2>1, ConstantsAssumption DEF Free
  <2>3. PICK stage : patch' = [patch EXCEPT ![slot.id] =
                                 [job |-> slot.job, save |-> [status |-> "running", stage |-> stage]]]
    BY <1>8, <2>1 DEF PatchRead
  <2> QED
    BY <1>1, <1>2, <2>1, <2>2, <2>3
<1>9. CASE RunEnds
  <2>1. task.at \in {"working", "concluding"} /\ patch[slot.id] = None
        /\ UNCHANGED <<stragglers, patch>>
    BY <1>9 DEF RunEnds, RunFinishes, RunStops, At
  <2> QED
    BY <1>4, <1>5, <2>1
<1>10. CASE Task \/ Crash
  <2>1. CASE ReactionsDone
    BY <1>3, <2>1 DEF ReactionsDone
  <2>2. CASE UnhandledRejection \/ Crash
    BY <2>2 DEF UnhandledRejection, Crash, ProcessEnds
  <2>3. CASE AnalysisBegins \/ AnalysisPrepared \/ AnalysisFails \/ TaskSaves \/ TaskSettles
    BY <1>4, <2>3 DEF AnalysisBegins, AnalysisPrepared, AnalysisFails, TaskSaves, TaskSettles, At
  <2> QED
    BY <1>10, <2>1, <2>2, <2>3 DEF Task
<1>11. ASSUME NEW w \in stragglers \cup {slot}, StragglerReturns(w) PROVE Goal
  BY <1>1, <1>11 DEF StragglerReturns
<1>12. CASE \/ \E c \in cleanups : LaunchSettled(c)
            \/ \E j \in recovering : Recover(j)
            \/ \E r \in Reqs, o \in Ops, j \in Jobs : Send(r, o, j)
            \/ UNCHANGED vars
  BY <1>3, <1>12 DEF LaunchSettled, Recover, Send, vars, running
<1> QED
  BY <1>6, <1>7, <1>8, <1>9, <1>10, <1>11, <1>12 DEF Next, Work, Quiescent

\* A history that is orderly after a step was so before.
LEMMA OrderlyBefore ==
    ASSUME WellFormed, Asked, [Next]_vars, Orderly'
    PROVE  Orderly
<1> USE ConstantsAssumption
<1>1. CASE UNCHANGED op
  BY <1>1 DEF Orderly
<1>2. ASSUME NEW r \in Reqs, pc[r] = "unsent", Others(r, op, op')
      PROVE  Orderly
  <2>1. op[r] = None
    BY <1>2 DEF Asked
  <2> QED
    BY <1>2, <2>1 DEF Orderly, Others, Plain
<1>3. CASE \E r \in Reqs : Handler(r)
  BY <1>1, <1>3, HandlerGoes
<1>4. CASE ~(\E r \in Reqs : Handler(r))
  BY <1>1, <1>2, <1>4, BeginsOrDies DEF ProcessEnds
<1> QED
  BY <1>3, <1>4

\* Who writes the state file of job j in such a history, and what.
Writes(j) ==
    \/ \E r \in Reqs : StartSave(r) /\ target[r] = j /\ state'[j].status = "running"
    \/ \E r \in Reqs : PauseIdle(r) /\ target[r] = j /\ op[r] = "pause"
    \/ \E r \in Reqs : PauseSave(r) /\ op[r] = "pause" /\ state'[j].status = "stopping"
    \/ task.at = "analyzing" /\ AtWork(j) /\ AtWork(j)'
    \/ task.at = "concluding" /\ AtWork(j) /\ state'[j].status \notin Transient
    \/ AtWork(j) /\ AtWork(j)' /\ state'[j].status = "running"
    \/ recovering # {}

LEMMA Writers ==
    ASSUME WellFormed, Asked, Orderly, Patching, [Next]_vars,
           NEW j \in Jobs, state'[j] # state[j]
    PROVE  Writes(j)
<1>0. /\ state \in [Jobs -> JobState] /\ \A r \in Reqs : pc[r] # "unsent" => target[r] \in Jobs
      /\ slot # Free => slot.job \in Jobs
  BY DEF WellFormed, TypeOK, HandlerData
<1>1. ASSUME NEW r \in Reqs, Handler(r) PROVE Writes(j)
  <2>1. pc[r] \notin Changing
    BY DEF Asked, Orderly
  <2>2. CASE StartSave(r)
    <3>1. target[r] \in Jobs /\ state' = [state EXCEPT ![target[r]] = val[r]] /\ pc[r] = "startSave"
      BY <1>0, <2>2 DEF StartSave, Save, Reads
    <3>2. j = target[r] /\ state'[j] = val[r]
      BY <1>0, <3>1
    <3> QED
      BY <2>2, <3>1, <3>2 DEF Asked, Writes
  <2>3. CASE PauseIdle(r)
    <3>1. target[r] \in Jobs /\ state' = [state EXCEPT ![target[r]] = val[r]] /\ pc[r] = "pauseIdle"
      BY <1>0, <2>3 DEF PauseIdle, Save, Reads
    <3>2. j = target[r]
      BY <1>0, <3>1
    <3> QED
      BY <2>3, <3>1, <3>2 DEF Asked, Writes, Pausing
  <2>4. CASE PauseSave(r)
    <3>1. target[r] \in Jobs /\ state' = [state EXCEPT ![target[r]] = val[r]] /\ pc[r] = "pauseSave"
      BY <1>0, <2>4 DEF PauseSave, Save, Reads
    <3>2. j = target[r] /\ state'[j] = val[r]
      BY <1>0, <3>1
    <3> QED
      BY <2>4, <3>1, <3>2 DEF Asked, Writes, Pausing
  <2>5. CASE ~StartSave(r) /\ ~PauseIdle(r) /\ ~PauseSave(r)
    <3>1. UNCHANGED state
      BY <1>1, <2>1, <2>5 DEF Handler, disk, Reads, Changing, AnalyzeGet, AnalyzeSettled, StartGet,
           StartSchedule, StartRefused, StartManifest, StartFails, StartEmit, PauseGet, PauseAbort,
           ResumeGet, ResumeSettled, RetryGet, MutGet, InvGet, Clear, InvSave, MutSave, Remove
    <3> QED
      BY <3>1
  <2> QED
    BY <2>2, <2>3, <2>4, <2>5
<1>2. CASE AnalysisBegins
  <2>1. slot # Free /\ UNCHANGED slot /\ task.at = "analyzing" /\ task'.at = "preparing"
    BY <1>2 DEF AnalysisBegins, At, TaskGoes
  <2>2. slot.job = j
    BY <1>0, <1>2, <2>1 DEF AnalysisBegins, Save
  <2> QED
    BY <2>1, <2>2 DEF Writes, AtWork
<1>3. CASE TaskSaves
  <2>1. slot # Free /\ task.at = "concluding" /\ state' = [state EXCEPT ![slot.job] = task.save]
    BY <1>3 DEF TaskSaves, At, Save
  <2>2. slot.job = j /\ state'[j] = task.save
    BY <1>0, <2>1
  <2> QED
    BY <2>1, <2>2 DEF Writes, AtWork, Asked
<1>4. ASSUME NEW t \in Reqs, PatchSave(t) PROVE Writes(j)
  <2>1. /\ slot # Free /\ task.at = "working" /\ UNCHANGED <<slot, task>>
        /\ patch[t].job = slot.job /\ patch[t].save.status = "running"
        /\ state' = [state EXCEPT ![slot.job] = patch[t].save]
    BY <1>4 DEF PatchSave, Save, Patching, Orderly
  <2>2. slot.job = j /\ state'[j] = patch[t].save
    BY <1>0, <2>1
  <2> QED
    BY <2>1, <2>2 DEF Writes, AtWork
<1>5. CASE \E k \in recovering : Recover(k)
  BY <1>5 DEF Writes
<1>6. CASE /\ ~(\E r \in Reqs : Handler(r) \/ PatchSave(r)) /\ ~AnalysisBegins /\ ~TaskSaves
           /\ ~(\E k \in recovering : Recover(k))
  <2>1. UNCHANGED state
    BY <1>6 DEF Next, Work, vars, disk, PatchRead, StragglerReturns, Task, LaunchSettled,
         RunEnds, AnalysisPrepared, AnalysisFails, TaskSettles, UnhandledRejection, Crash, ProcessEnds,
         ReactionsDone, RunFinishes, RunStops, Send, Quiescent
  <2> QED
    BY <2>1
<1> QED
  BY <1>1, <1>2, <1>3, <1>4, <1>5, <1>6

\* A launch is admitted by a job that is at rest.
LEMMA LaunchAppears ==
    ASSUME WellFormed, [Next]_vars, NEW r \in Reqs, pc'[r] \in {"startSchedule", "startSave"}
    PROVE  /\ target'[r] = target[r] /\ pc[r] # "unsent"
           /\ pc[r] \in {"startSchedule", "startSave"} \/ state[target[r]].status \in Startable
<1>1. ASSUME NEW q \in Reqs, Handler(q)
      PROVE  /\ target'[r] = target[r] /\ pc[r] # "unsent"
             /\ pc[r] \in {"startSchedule", "startSave"} \/ state[target[r]].status \in Startable
  <2>1. CASE q # r
    BY <1>1, <2>1, HandlerGoes DEF Others
  <2>2. CASE q = r
    BY <1>1, <2>2, HandlerGoes DEF StartSchedule, Reads
  <2> QED
    BY <2>1, <2>2
<1>2. CASE ~(\E q \in Reqs : Handler(q))
  BY <1>2, BeginsOrDies DEF Others, ProcessEnds
<1> QED
  BY <1>1, <1>2

LEMMA StaysLaunchless ==
    ASSUME WellFormed, [Next]_vars, NEW j \in Jobs, Launchless(j), state[j].status \in Transient
    PROVE  Launchless(j)'
BY LaunchAppears DEF Launchless, Transient, Startable

\* A job gets an entry from an analysis or a launch that was admitted.
LEMMA EntryAppears ==
    ASSUME WellFormed, [Next]_vars, NEW j \in Jobs, active[j] = None, active'[j] # None
    PROVE  state[j].status \notin Transient \/ ~Launchless(j)
<1>0. active \in [Jobs -> Entries \cup {None}] /\ \A r \in Reqs : pc[r] # "unsent" => target[r] \in Jobs
  BY DEF WellFormed, TypeOK, HandlerData
<1>1. ASSUME NEW r \in Reqs, Handler(r)
      PROVE  state[j].status \notin Transient \/ ~Launchless(j)
  <2>0. target[r] \in Jobs
    BY <1>0, <1>1, HandlerGoes
  <2>1. CASE AnalyzeGet(r)
    BY <1>0, <2>0, <2>1 DEF AnalyzeGet
  <2>2. CASE StartSchedule(r)
    BY <1>0, <2>0, <2>2 DEF StartSchedule, Launchless, Reads
  <2>3. CASE AnalyzeSettled(r) \/ ResumeSettled(r) \/ StartManifest(r) \/ ResumeGet(r)
    BY <1>0, <2>0, <2>3 DEF AnalyzeSettled, ResumeSettled, StartManifest, Forget, ResumeGet
  <2>4. CASE /\ ~AnalyzeGet(r) /\ ~StartSchedule(r) /\ ~AnalyzeSettled(r) /\ ~ResumeSettled(r)
             /\ ~StartManifest(r) /\ ~ResumeGet(r)
    <3>1. UNCHANGED active
      BY <1>1, <2>4 DEF Handler, memory, StartGet, StartRefused, StartSave, StartFails, StartEmit,
           PauseGet, PauseIdle, PauseSave, PauseAbort, RetryGet, MutGet, InvGet, Clear, InvSave,
           MutSave, Remove
    <3> QED
      BY <3>1
  <2> QED
    BY <2>1, <2>2, <2>3, <2>4
<1>2. ASSUME NEW c \in cleanups, LaunchSettled(c) PROVE FALSE
  BY <1>0, <1>2 DEF LaunchSettled, Forget, WellFormed, TypeOK
<1>3. CASE Crash \/ UnhandledRejection
  BY <1>3 DEF Crash, UnhandledRejection, ProcessEnds
<1>4. CASE /\ ~(\E r \in Reqs : Handler(r)) /\ ~(\E c \in cleanups : LaunchSettled(c))
           /\ ~Crash /\ ~UnhandledRejection
  <2>1. UNCHANGED active
    BY <1>4 DEF Next, Work, vars, memory, PatchSave, PatchRead, StragglerReturns, Task,
         RunEnds, AnalysisBegins, AnalysisPrepared, AnalysisFails, TaskSaves, TaskSettles,
         ReactionsDone, RunFinishes, RunStops, Recover, Send, Quiescent
  <2> QED
    BY <2>1
<1> QED
  BY <1>1, <1>2, <1>3, <1>4

\* Work on a job ends with a status at rest, or with the process.
LEMMA WorkEnds ==
    ASSUME WellFormed, Asked, Orderly, [Next]_vars, NEW j \in Jobs, AtWork(j), ~AtWork(j)'
    PROVE  state'[j].status \notin Transient \/ ProcessEnds
<1>0. state \in [Jobs -> JobState]
  BY DEF WellFormed, TypeOK
<1>1. ASSUME NEW r \in Reqs, Handler(r) PROVE FALSE
  BY <1>1, HandlerSlot DEF AtWork, TaskAt
<1>2. CASE TaskSaves
  <2>1. task.save.status \notin Transient
    BY <1>2 DEF TaskSaves, At, Asked
  <2> QED
    BY <1>0, <1>2, <2>1 DEF TaskSaves, Save, AtWork
<1>3. CASE RunStops
  <2>1. ~Exists(j) /\ UNCHANGED state
    BY <1>3 DEF RunStops, TaskConcludes, AtWork, disk
  <2> QED
    BY <2>1 DEF Exists, Transient
<1>4. CASE TaskSettles \/ ReactionsDone
  BY <1>4 DEF TaskSettles, ReactionsDone, At, AtWork
<1>5. CASE AnalysisBegins \/ AnalysisPrepared \/ AnalysisFails \/ RunFinishes
  BY <1>5 DEF AnalysisBegins, AnalysisPrepared, AnalysisFails, RunFinishes, TaskGoes, TaskConcludes, AtWork
<1>6. CASE Crash \/ UnhandledRejection
  BY <1>6 DEF Crash, UnhandledRejection
<1>7. CASE ~(\E r \in Reqs : Handler(r)) /\ ~Task /\ ~RunEnds /\ ~Crash
  <2>1. UNCHANGED <<slot, task>>
    BY <1>7 DEF Next, Work, vars, running, Send, PatchSave, PatchRead, StragglerReturns,
         LaunchSettled, Recover, Quiescent
  <2> QED
    BY <2>1 DEF AtWork
<1> QED
  BY <1>1, <1>2, <1>3, <1>4, <1>5, <1>6, <1>7 DEF Task, RunEnds

LEMMA UnreadBefore ==
    ASSUME WellFormed, Asked, [Next]_vars, PauseUnread'
    PROVE  PauseUnread
<1> USE ConstantsAssumption
<1>1. ASSUME NEW r \in Reqs, Handler(r) PROVE PauseUnread
  BY <1>1, HandlerGoes DEF PauseUnread, Others
<1>2. CASE ProcessEnds
  BY <1>2 DEF PauseUnread, ProcessEnds
<1>3. CASE UNCHANGED <<pc, op>>
  BY <1>3 DEF PauseUnread
<1>4. ASSUME NEW r \in Reqs, pc[r] = "unsent", Others(r, pc, pc'), Others(r, op, op') PROVE PauseUnread
  BY <1>4 DEF PauseUnread, Others, Asked
<1> QED
  BY <1>1, <1>2, <1>3, <1>4, BeginsOrDies

LEMMA NoPauseYetKept ==
    ASSUME WellFormed, Asked, OneLaunch, Patching, Booting, NoPauseYet, [Next]_vars
    PROVE  NoPauseYet'
<1> SUFFICES ASSUME Orderly', recovering' = {}, PauseUnread',
                    NEW j \in Jobs, ~AtWork(j)', state'[j].status \in Transient
             PROVE  Launchless(j)'
  BY DEF NoPauseYet
<1>1. Orderly /\ PauseUnread
  BY OrderlyBefore, UnreadBefore
<1>2. recovering = {}
  BY BootingKept
<1>3. ~ProcessEnds
  BY CrashBoots
<1>4. ~AtWork(j)
  BY <1>1, <1>3, WorkEnds
<1>5. CASE state'[j] = state[j]
  <2>1. Launchless(j)
    BY <1>1, <1>2, <1>4, <1>5 DEF NoPauseYet
  <2> QED
    BY <1>5, <2>1, StaysLaunchless
<1>6. CASE state'[j] # state[j]
  <2>1. \A q \in Reqs : ~PauseIdle(q) /\ ~PauseSave(q)
    BY <1>1 DEF PauseIdle, PauseSave, Reads, PauseUnread, Asked, Pausing
  <2>2. PICK r \in Reqs : StartSave(r) /\ target[r] = j
    BY <1>1, <1>2, <1>4, <1>6, <2>1, Writers DEF Writes
  <2>3. pc[r] = "startSave" /\ pc' = [pc EXCEPT ![r] = "startManifest"] /\ UNCHANGED target
    BY <2>2 DEF StartSave, Reads, Goto
  <2> QED
    BY <2>2, <2>3 DEF Launchless, OneLaunch, Launching, Claiming, WellFormed, TypeOK
<1> QED
  BY <1>5, <1>6

LEMMA IdlePauseKept ==
    ASSUME WellFormed, SlotOwned, Asked, Patching, Booting, NoPauseYet, IdlePause, [Next]_vars
    PROVE  IdlePause'
<1> SUFFICES ASSUME Orderly', NEW r \in Reqs, pc'[r] = "pauseIdle",
                    NEW j \in Jobs, target'[r] = j
             PROVE  active'[j] = None /\ state'[j].status \in Transient /\ Launchless(j)'
  <2>1. (\A r \in Reqs : pc[r] = "pauseIdle" => target[r] \in Jobs)'
    BY WellFormedKept DEF WellFormed, HandlerData
  <2> QED
    BY <2>1 DEF IdlePause, Launchless
<1>1. Orderly
  BY OrderlyBefore
<1>2. /\ target[r] = j /\ pc[r] # "unsent"
      /\ pc[r] = "pauseIdle" \/ PauseGet(r)
  <2>1. ASSUME NEW q \in Reqs, Handler(q)
        PROVE  target[r] = j /\ pc[r] # "unsent" /\ (pc[r] = "pauseIdle" \/ PauseGet(r))
    BY <2>1, HandlerGoes DEF Others
  <2>2. CASE ~(\E q \in Reqs : Handler(q))
    BY <2>2, BeginsOrDies DEF Others, ProcessEnds
  <2> QED
    BY <2>1, <2>2
<1>3. recovering = {}
  BY <1>2 DEF Booting, PauseGet, Reads
<1>4. active[j] = None /\ state[j].status \in Transient /\ Launchless(j)
  <2>1. CASE pc[r] = "pauseIdle"
    BY <1>1, <1>2, <2>1 DEF IdlePause
  <2>2. CASE PauseGet(r)
    <3>1. active[j] = None /\ state[j].status \in Transient /\ pc[r] = "pauseGet" /\ op[r] = "pause"
      BY <2>2, HandlerGoes DEF Handler, PauseGet, Reads, Asked, Pausing
    <3>2. PauseUnread
      BY <1>1, <3>1 DEF Orderly, PauseUnread
    <3>3. ~AtWork(j)
      BY <3>1 DEF SlotOwned, AtWork
    <3> QED
      BY <1>1, <1>2, <1>3, <3>1, <3>2, <3>3 DEF NoPauseYet
  <2> QED
    BY <1>2, <2>1, <2>2
<1>5. active'[j] = None /\ Launchless(j)'
  BY <1>2, <1>4, EntryAppears, StaysLaunchless
<1>6. state'[j].status \in Transient
  <2>1. CASE state'[j] = state[j]
    BY <1>4, <2>1
  <2>2. CASE state'[j] # state[j]
    <3>1. ~AtWork(j)
      BY <1>4 DEF SlotOwned, AtWork
    <3>2. ASSUME NEW q \in Reqs, PauseIdle(q) PROVE FALSE
      <4>1. Handler(q) /\ pc[q] = "pauseIdle" /\ pc'[q] = "done" /\ op[q] = "pause"
        BY <3>2 DEF Handler, PauseIdle, Goto, Reads, WellFormed, TypeOK, Asked, Pausing
      <4>2. op[r] = "pause"
        BY <1>2, <4>1 DEF Asked, Pausing, PauseGet, Reads
      <4> QED
        BY <1>1, <4>1, <4>2 DEF Orderly
    <3> QED
      BY <1>1, <1>2, <1>3, <2>2, <3>1, <3>2, Writers DEF Writes, Transient
  <2> QED
    BY <2>1, <2>2
<1> QED
  BY <1>5, <1>6

LEMMA ShowingBefore ==
    ASSUME WellFormed, [Next]_vars, Showing'
    PROVE  slot' = slot /\ (Showing \/ (StartSave(slot.id) /\ slot # Free))
<1> USE ConstantsAssumption
<1>0. /\ slot # Free => slot.id \in Reqs
      /\ task.at # "idle" => slot.id \in Reqs
  BY DEF WellFormed, TypeOK, TaskData
<1>1. ASSUME NEW r \in Reqs, Handler(r)
      PROVE  slot' = slot /\ (Showing \/ (StartSave(slot.id) /\ slot # Free))
  <2>1. aborted \subseteq aborted' /\ Others(r, pc, pc') /\ (pc'[r] = "startManifest" => StartSave(r))
    BY <1>1, HandlerSlot, HandlerGoes
  <2>2. CASE UNCHANGED <<slot, task>>
    BY <1>0, <2>1, <2>2 DEF Showing, Others
  <2>3. CASE /\ slot = Free /\ slot' = [id |-> r, job |-> target[r]]
             /\ \/ AnalyzeGet(r) /\ task' = TaskAt("analyzing")
                \/ StartSchedule(r) /\ task' = TaskAt("gated")
    <3>1. task'.at = "gated" /\ pc'[r] = "startManifest" /\ StartSchedule(r)
      BY <2>3 DEF Showing, TaskAt
    <3> QED
      BY <3>1 DEF StartSchedule, Goto, WellFormed, TypeOK
  <2>4. CASE /\ slot' = slot /\ slot.id = r /\ task.at = "gated" /\ task' = TaskAt("working")
             /\ pc[r] = "startManifest" \/ r \in aborted'
    BY <2>4 DEF Showing, TaskAt
  <2> QED
    BY <1>1, <2>2, <2>3, <2>4, HandlerSlot
<1>2. CASE Task \/ RunEnds \/ Crash
  <2>1. CASE TaskSettles \/ ReactionsDone
    BY <2>1 DEF TaskSettles, ReactionsDone, Showing, handlers
  <2>2. CASE UnhandledRejection \/ Crash
    BY <2>2 DEF UnhandledRejection, Crash, ProcessEnds, Showing
  <2>3. CASE AnalysisBegins \/ AnalysisPrepared \/ AnalysisFails \/ TaskSaves \/ RunEnds
    <3>1. task'.at \notin {"working", "gated"}
      BY <2>3 DEF AnalysisBegins, AnalysisPrepared, AnalysisFails, TaskSaves, RunEnds, RunFinishes,
           RunStops, TaskGoes, TaskConcludes, TaskAt
    <3> QED
      BY <3>1 DEF Showing
  <2> QED
    BY <1>2, <2>1, <2>2, <2>3 DEF Task
<1>3. CASE ~(\E r \in Reqs : Handler(r)) /\ ~Task /\ ~RunEnds /\ ~Crash
  <2>1. UNCHANGED <<slot, task, aborted>>
    BY <1>3 DEF Next, Work, vars, running, Send, PatchSave, PatchRead, StragglerReturns,
         LaunchSettled, Recover, Quiescent
  <2>2. slot # Free => (pc'[slot.id] = "startManifest" => pc[slot.id] = "startManifest")
    BY <1>0, <1>3, BeginsOrDies DEF Others, ProcessEnds
  <2> QED
    BY <2>1, <2>2 DEF Showing
<1> QED
  BY <1>1, <1>2, <1>3

LEMMA ShownKept ==
    ASSUME WellFormed, SlotOwned, Named, Asked, Patching, Booting, IdlePause, Shown, [Next]_vars
    PROVE  Shown'
<1> SUFFICES ASSUME Orderly', Showing'
             PROVE  state'[slot'.job].status \in {"running", "stopping"}
  BY DEF Shown
<1>1. Orderly
  BY OrderlyBefore
<1>2. slot' = slot /\ (Showing \/ (StartSave(slot.id) /\ slot # Free))
  BY ShowingBefore
<1>3. PICK j \in Jobs : slot.job = j
  BY <1>2 DEF Showing, WellFormed, TypeOK
<1>4. CASE Showing
  <2>1. state[j].status \in {"running", "stopping"}
    BY <1>1, <1>3, <1>4 DEF Shown
  <2>2. task.at \in {"working", "gated"} /\ slot # Free
    BY <1>4 DEF Showing
  <2>3. CASE state'[j] # state[j]
    <3>1. recovering = {}
      BY <2>2 DEF Booting
    <3>2. \A q \in Reqs : PauseIdle(q) => target[q] # j
      BY <1>1, <1>3, <2>2 DEF PauseIdle, Reads, IdlePause, SlotOwned
    <3> QED
      BY <1>1, <1>2, <1>3, <2>2, <2>3, <3>1, <3>2, Writers DEF Writes
  <2> QED
    BY <1>2, <1>3, <2>1, <2>3
<1>5. CASE StartSave(slot.id) /\ slot # Free
  <2>1. slot.id \in Reqs /\ target[slot.id] = j /\ state' = [state EXCEPT ![j] = val[slot.id]]
    BY <1>3, <1>5 DEF Named, StartSave, Save, WellFormed, TypeOK
  <2>2. state'[j] = val[slot.id] /\ val[slot.id].status = "running"
    BY <1>5, <2>1 DEF StartSave, Reads, Asked, WellFormed, TypeOK
  <2> QED
    BY <1>2, <1>3, <2>2
<1> QED
  BY <1>2, <1>4, <1>5

\* While clients start, resume and retry and one of them pauses once, the state file never
\* presents a job at rest while its run works (job-orchestrator.ts:339-362 and 372-398):
\* the launch saves before it opens the gate, and the idle pause finds no run.
THEOREM RunOwnsItsState == Spec => []RunOwnsState
<1> DEFINE Inv == Asked /\ OneLaunch /\ Patching /\ NoPauseYet /\ IdlePause /\ Shown
<1>1. Init => Locks /\ Booting
  BY DEF Init, Locks, SlotOwned, Named, Entered, Held, Claimed, Launched, Bound, Booting
<1>2. Init => Inv
  <2> SUFFICES ASSUME Init PROVE Inv
    OBVIOUS
  <2>1. /\ \A r \in Reqs : pc[r] = "unsent" /\ op[r] = None /\ patch[r] = None
        /\ slot = Free /\ task = NoTask /\ stragglers = {}
    BY DEF Init
  <2> QED
    BY <2>1 DEF Asked, OneLaunch, Patching, NoPauseYet, IdlePause, Shown, Showing, Launchless, Changing,
         Pausing, Launching, Claiming, NoTask, TaskAt
<1>3. WellFormed /\ Locks /\ Booting /\ Inv /\ [Next]_vars => Locks' /\ Booting' /\ Inv'
  BY LocksKept, BootingKept, AskedKept, OneLaunchKept, PatchingKept, NoPauseYetKept, IdlePauseKept,
     ShownKept DEF Locks
<1>4. WellFormed /\ Inv => RunOwnsState
  <2>1. WellFormed /\ task.at = "working" => slot # Free
    BY ConstantsAssumption DEF WellFormed, TaskData, Free
  <2> QED
    BY <2>1 DEF Shown, Showing, Orderly, Plain, RunOwnsState
<1> QED
  BY <1>1, <1>2, <1>3, <1>4, WellFormedAlways, PTL DEF Spec
=============================================================================
