----------------------------- MODULE Authority -----------------------------
(***************************************************************************)
(* Paid runs under a delegation: src/server/mcp/authority.ts, the paid     *)
(* tools of src/server/mcp/server.ts, and the server's check before every  *)
(* model call (src/server/workspace/authority.ts).                         *)
(*                                                                         *)
(* Each client is one call of a tool by an agent: translate_workspace, or  *)
(* retry or resume of a job.  A call that names the delegation books its   *)
(* worst case in the ledger, authority/trucheman.jsonl, under the budget   *)
(* lock, and then drives the job through the HTTP API.  A booking is named *)
(* after its client, and so is the job that translate_workspace creates.   *)
(* The author may end the delegation or edit it at any time, and people    *)
(* start jobs from the screen.                                             *)
(***************************************************************************)
EXTENDS Naturals, FiniteSets

CONSTANTS Clients,
          Old,          \* a job that is there from the start
          Amount,       \* Amount[c]: the worst case of what c asks for
          Limits,       \* the spending limits the author may set
          None,
          Callers,      \* model calls a job has in flight
          MaxEdits,     \* bound: edits of the delegation
          MaxFaults     \* bound: crashed clients, failed and lost answers

ASSUME ConstantsAssumption ==
    /\ IsFiniteSet(Clients) /\ {Old, None, "direct"} \cap Clients = {}
    /\ Amount \in [Clients -> Nat \ {0}] /\ Limits \subseteq Nat
    /\ Callers \in Nat \ {0} /\ MaxEdits \in Nat /\ MaxFaults \in Nat

Jobs == Clients \cup {Old}
Tools == {"translate", "retry", "resume"}
Sources == {"author", "delegation", "nobody"}  \* of the authority of a call
Locked == {"check", "append", "unlock", "refuse"}
Appending == {"append", "release", "journal"}
Steps == {"idle", "lock", "break", "prepare", "authority", "launch", "done",
          "dead"} \cup Locked \cup Appending

VARIABLES
    grant,     \* the delegation: is it in force, its limit, its hash
    booked,    \* bookings in the ledger
    settled,   \* bookings settled at zero
    tail,      \* the ledger ends in a torn line
    corrupt,   \* the ledger has a line that is not a record
    lock,      \* authority/.budget.lock: its creator, or None
    stale,     \* the lock is older than 30 s
    pc,        \* where client c is
    call,      \* its tool and who authorizes it
    target,    \* the job it works on
    hash,      \* the delegation's hash as it read it
    status, authority,   \* of each job; authority is a booking or "direct"
    grantHash, \* authority.delegation_hash
    checked,   \* calls of each job that were checked and not yet sent
    faults,
  \* History.
    made,      \* bookings that were reported as made
    raced,     \* a lock was broken while its creator was at work
    ceiling,   \* the highest limit there has been
    late,      \* calls sent since the authority of the job lapsed
    paid,      \* bookings under which a call was sent
    excused    \* bookings whose answer was lost, or whose job was launched
               \* by somebody else

ledger == <<booked, settled, tail, corrupt>>
mutex == <<lock, stale>>
args == <<call, target>>
job == <<status, authority, grantHash, checked>>
history == <<made, raced, ceiling, late, paid, excused>>
vars == <<grant, ledger, mutex, pc, args, hash, job, faults, history>>

Delegated(c) == call[c].by = "delegation"
Move(c, p, q) == pc[c] = p /\ pc' = [pc EXCEPT ![c] = q]

\* spentUnder throws on a line that is not a record.
Legible == ~corrupt /\ ~tail

\* What the bookings in S add up to, counted unit by unit.
Total(S) == Cardinality(UNION {{c} \X (1..Amount[c]) : c \in S})

\* spentUnder: open bookings at their whole amount, settled ones at zero.
Spent == Total(booked \ settled)

\* authorize, with nothing to spend.
Covers == grant.valid /\ Legible

\* authorityLapse returns null.
Holds(j) == authority[j] # "direct" => Covers /\ grantHash[j] = grant.hash

\* journal: an append after a torn tail is glued to it.
AppendLine(lines) ==
    IF tail THEN corrupt' = TRUE /\ tail' = FALSE /\ UNCHANGED <<booked, settled>>
            ELSE lines /\ UNCHANGED <<tail, corrupt>>
-----------------------------------------------------------------------------
Init ==
    /\ grant \in [valid : {TRUE}, limit : Limits, hash : {0}]
    /\ booked = {} /\ settled = {} /\ tail = FALSE /\ corrupt = FALSE
    /\ lock = None /\ stale = FALSE
    /\ pc = [c \in Clients |-> "idle"]
    /\ call \in [Clients -> [tool : Tools, by : Sources]]
    /\ target = [c \in Clients |-> None]
    /\ hash = [c \in Clients |-> 0]
    /\ status = [j \in Jobs |-> IF j = Old THEN "paused" ELSE "none"]
    /\ authority = [j \in Jobs |-> "direct"]
    /\ grantHash = [j \in Jobs |-> 0]
    /\ checked = [j \in Jobs |-> 0]
    /\ faults = 0
    /\ made = {} /\ raced = FALSE /\ ceiling = grant.limit
    /\ late = [j \in Jobs |-> 0] /\ paid = {} /\ excused = {}

\* Where a call goes once its authority is settled.
Authorized(c) == IF call[c].tool = "translate" THEN "prepare" ELSE "authority"

\* A tool is called.  reserve first looks at the delegation without the lock.
\* A call nobody authorizes only describes what it would do, but for resume.
Begin(c) ==
    /\ Move(c, "idle", CASE call[c].by = "author" -> Authorized(c)
                         [] Delegated(c) -> IF Covers THEN "lock" ELSE "done"
                         [] OTHER -> IF call[c].tool = "resume" THEN "launch"
                                     ELSE "done")
    /\ \E j \in IF call[c].tool = "translate" THEN {c}
                ELSE {i \in Jobs : status[i] # "none"} :
            target' = [target EXCEPT ![c] = j]
    /\ UNCHANGED <<grant, ledger, mutex, call, hash, job, faults, history>>

\* Mutant of Acquire: mkdir, being recursive, succeeds on a lock that is there.
AcquireAnyway(c) ==
    /\ Move(c, "lock", "check")
    /\ lock' = c /\ stale' = FALSE
    /\ UNCHANGED <<grant, ledger, args, hash, job, faults, history>>

\* withBudgetLock: mkdir succeeds; or the lock is there and old; or it has
\* been there for 10 s.
Acquire(c) ==
    /\ Move(c, "lock", "check")
    /\ lock = None /\ lock' = c /\ stale' = FALSE
    /\ UNCHANGED <<grant, ledger, args, hash, job, faults, history>>

SeeStale(c) ==
    /\ Move(c, "lock", "break")
    /\ lock # None /\ stale
    /\ UNCHANGED <<grant, ledger, mutex, args, hash, job, faults, history>>

GiveUp(c) ==
    /\ Move(c, "lock", "done")
    /\ lock # None
    /\ UNCHANGED <<grant, ledger, mutex, args, hash, job, faults, history>>

\* rm removes the lock, whosever it is by now.
RemoveLock(c) ==
    /\ lock' = None /\ stale' = FALSE
    /\ raced' = (raced \/ (lock \notin {None, c} /\ pc[lock] \in Locked))
    /\ UNCHANGED <<made, ceiling, late, paid, excused>>

Break(c) ==
    /\ Move(c, "break", "lock")
    /\ RemoveLock(c)
    /\ UNCHANGED <<grant, ledger, args, hash, job, faults>>

\* authorize once more, now for the whole amount.
Check(c) ==
    /\ Move(c, "check", IF Covers /\ Spent + Amount[c] <= grant.limit
                        THEN "append" ELSE "refuse")
    /\ hash' = [hash EXCEPT ![c] = grant.hash]
    /\ UNCHANGED <<grant, ledger, mutex, args, job, faults, history>>

Reserve(c) ==
    /\ Move(c, "append", "unlock")
    /\ AppendLine(booked' = booked \cup {c} /\ UNCHANGED settled)
    /\ made' = made \cup {c}
    /\ UNCHANGED <<grant, mutex, args, hash, job, faults, raced, ceiling, late,
                   paid, excused>>

Unlock(c) ==
    /\ Move(c, "unlock", Authorized(c)) \/ Move(c, "refuse", "done")
    /\ RemoveLock(c)
    /\ UNCHANGED <<grant, ledger, args, hash, job, faults>>
-----------------------------------------------------------------------------
(* Driving the job.  A request takes effect and is answered, or takes      *)
(* effect and its answer is lost, or is refused.                           *)

\* The catch clauses: what was booked for a start or a retry is released.
\* resume has none.
Failed(c) == IF Delegated(c) /\ call[c].tool # "resume" THEN "release" ELSE "done"

Answered(c, p, q, others) ==
    \/ Move(c, p, q) /\ UNCHANGED faults /\ excused' = excused \cup others
    \/ /\ Move(c, p, Failed(c))
       /\ faults < MaxFaults /\ faults' = faults + 1
       /\ excused' = excused \cup others \cup {c}

\* POST /jobs, PUT workspace and PUT config.
Prepare(c) ==
    /\ Answered(c, "prepare", "authority", {})
    /\ status' = [status EXCEPT ![c] = "created"]
    /\ UNCHANGED <<grant, ledger, mutex, args, hash, authority, grantHash,
                   checked, made, raced, ceiling, late, paid>>

\* PUT authority, for a job that is not active.
PutAuthority(c) ==
    LET j == target[c]
    IN  /\ Answered(c, "authority", "launch", {})
        /\ status[j] # "running"
        /\ authority' = [authority EXCEPT ![j] = IF Delegated(c) THEN c ELSE "direct"]
        /\ grantHash' = [grantHash EXCEPT ![j] = hash[c]]
        /\ late' = [late EXCEPT ![j] = 0]
        /\ UNCHANGED <<grant, ledger, mutex, args, hash, status, checked, made,
                       raced, ceiling, paid>>

\* What launchStart asks: the slot is free and the authority holds.
Launchable(j) == (\A i \in Jobs : status[i] # "running") /\ Holds(j)

From(t) == CASE t = "translate" -> {"created"}
             [] t = "resume" -> {"paused"}
             [] t = "retry" -> {"paused", "failed"}

\* analyze and start, resume, or retry.  Only calls under a delegation are
\* journaled.
Launch(c) ==
    LET j == target[c]
    IN  /\ Answered(c, "launch", IF Delegated(c) THEN "journal" ELSE "done",
                    {authority[j]} \ {c, "direct"})
        /\ status[j] \in From(call[c].tool) /\ Launchable(j)
        /\ status' = [status EXCEPT ![j] = "running"]
        /\ UNCHANGED <<grant, ledger, mutex, args, hash, authority, grantHash,
                       checked, made, raced, ceiling, late, paid>>

\* A request fails, because of the state of the job or of the connection.
Refused(c) ==
    /\ \/ /\ pc[c] = "authority" /\ status[target[c]] = "running"
          /\ UNCHANGED faults
       \/ /\ pc[c] = "launch"
          /\ ~(status[target[c]] \in From(call[c].tool) /\ Launchable(target[c]))
          /\ UNCHANGED faults
       \/ /\ pc[c] \in {"prepare", "authority", "launch"}
          /\ faults < MaxFaults /\ faults' = faults + 1
    /\ pc' = [pc EXCEPT ![c] = Failed(c)]
    /\ UNCHANGED <<grant, ledger, mutex, args, hash, job, history>>

Release(c) ==
    /\ Move(c, "release", "done")
    /\ AppendLine(settled' = settled \cup {c} /\ UNCHANGED booked)
    /\ UNCHANGED <<grant, mutex, args, hash, job, faults, history>>

\* Mutant of Journal: a failing journal is caught like a failing request.
JournalInTry(c) ==
    /\ \/ Move(c, "journal", "done") /\ UNCHANGED faults
       \/ /\ Move(c, "journal", "release")
          /\ faults < MaxFaults /\ faults' = faults + 1
    /\ AppendLine(UNCHANGED <<booked, settled>>)
    /\ UNCHANGED <<grant, mutex, args, hash, job, history>>

Journal(c) ==
    /\ Move(c, "journal", "done")
    /\ AppendLine(UNCHANGED <<booked, settled>>)
    /\ UNCHANGED <<grant, mutex, args, hash, job, faults, history>>

\* The agent's process ends, perhaps in the middle of a line.
Crash(c) ==
    /\ pc[c] \notin {"idle", "done", "dead"}
    /\ faults < MaxFaults /\ faults' = faults + 1
    /\ \/ UNCHANGED ledger
       \/ /\ pc[c] \in Appending
          /\ AppendLine(tail' = TRUE /\ UNCHANGED <<booked, settled, corrupt>>)
    /\ pc' = [pc EXCEPT ![c] = "dead"]
    /\ UNCHANGED <<grant, mutex, args, hash, job, history>>

ClientStep(c) ==
    \/ Begin(c)
    \/ Acquire(c) \/ SeeStale(c) \/ GiveUp(c) \/ Break(c)
    \/ Check(c) \/ Reserve(c) \/ Unlock(c)
    \/ Prepare(c) \/ PutAuthority(c) \/ Launch(c) \/ Refused(c)
    \/ Release(c) \/ Journal(c) \/ Crash(c)
-----------------------------------------------------------------------------
Age ==
    /\ lock # None /\ ~stale /\ stale' = TRUE
    /\ UNCHANGED <<grant, ledger, lock, pc, args, hash, job, faults, history>>

\* The delegation expires or is revoked.
Lapse ==
    /\ grant.valid /\ grant' = [grant EXCEPT !.valid = FALSE]
    /\ UNCHANGED <<ledger, mutex, pc, args, hash, job, faults, history>>

Edit ==
    /\ grant.hash < MaxEdits
    /\ \E l \in Limits :
        /\ grant' = [grant EXCEPT !.limit = l, !.hash = @ + 1]
        /\ ceiling' = IF l > ceiling THEN l ELSE ceiling
    /\ UNCHANGED <<ledger, mutex, pc, args, hash, job, faults, made, raced, late,
                   paid, excused>>

\* Somebody starts or resumes job j from the screen.
UserLaunch(j) ==
    /\ status[j] \notin {"none", "running"} /\ Launchable(j)
    /\ status' = [status EXCEPT ![j] = "running"]
    /\ excused' = excused \cup ({authority[j]} \ {"direct"})
    /\ UNCHANGED <<grant, ledger, mutex, pc, args, hash, authority, grantHash,
                   checked, faults, made, raced, ceiling, late, paid>>

\* Mutant of CheckCall: the authority is checked when the job is launched.
CheckCallNever(j) ==
    /\ status[j] = "running" /\ checked[j] < Callers
    /\ checked' = [checked EXCEPT ![j] = @ + 1]
    /\ UNCHANGED <<grant, ledger, mutex, pc, args, hash, status, authority,
                   grantHash, faults, history>>

\* Before every model call: assertAuthority.
CheckCall(j) ==
    /\ status[j] = "running" /\ checked[j] < Callers
    /\ Holds(j)
    /\ checked' = [checked EXCEPT ![j] = @ + 1]
    /\ UNCHANGED <<grant, ledger, mutex, pc, args, hash, status, authority,
                   grantHash, faults, history>>

SendCall(j) ==
    /\ status[j] = "running" /\ checked[j] > 0
    /\ checked' = [checked EXCEPT ![j] = @ - 1]
    /\ late' = IF Holds(j) THEN late ELSE [late EXCEPT ![j] = @ + 1]
    /\ paid' = paid \cup ({authority[j]} \ {"direct"})
    /\ UNCHANGED <<grant, ledger, mutex, pc, args, hash, status, authority,
                   grantHash, faults, made, raced, ceiling, excused>>

\* The run completes, is paused, or fails: a call that is refused fails it.
Stop(j) ==
    /\ status[j] = "running"
    /\ \E s \in {"paused", "failed", "completed"} : status' = [status EXCEPT ![j] = s]
    /\ checked' = [checked EXCEPT ![j] = 0]
    /\ UNCHANGED <<grant, ledger, mutex, pc, args, hash, authority, grantHash,
                   faults, history>>

Next == \/ \E c \in Clients : ClientStep(c)
        \/ \E j \in Jobs : UserLaunch(j) \/ CheckCall(j) \/ SendCall(j) \/ Stop(j)
        \/ Age \/ Lapse \/ Edit

Spec == Init /\ [][Next]_vars
-----------------------------------------------------------------------------
TypeOK ==
    /\ grant \in [valid : BOOLEAN, limit : Limits, hash : Nat]
    /\ booked \cup settled \cup made \cup paid \cup excused \subseteq Clients
    /\ {tail, corrupt, stale, raced} \subseteq BOOLEAN
    /\ lock \in Clients \cup {None} /\ (stale => lock # None)
    /\ pc \in [Clients -> Steps]
    /\ call \in [Clients -> [tool : Tools, by : Sources]]
    /\ \A c \in Clients : pc[c] \in Steps \ {"idle"} => target[c] \in Jobs
    /\ hash \in [Clients -> Nat] /\ grantHash \in [Jobs -> Nat]
    /\ status \in [Jobs -> {"none", "created", "running", "paused", "failed",
                            "completed"}]
    /\ \A j \in Jobs : authority[j] = "direct" \/ authority[j] \in made
    /\ checked \in [Jobs -> 0..Callers] /\ late \in [Jobs -> Nat]
    /\ faults \in Nat /\ ceiling \in Limits

\* All bookings that were made, save those released, stay within the highest
\* limit the author has set, however calls overlap and crash, as long as no
\* lock is broken under a process that is still at work (withBudgetLock and
\* reserve, src/server/mcp/authority.ts:112-235).
WithinLimit == ~raced => Total(made \ settled) <= ceiling

\* Once the authority of a job has lapsed, the job sends only those calls that
\* had been checked already (assertAuthority before every model call,
\* src/server/jobs/book-pipeline.ts:312-315).
LapseStopsCalls == \A j \in Jobs : late[j] <= Callers

\* A booking is settled at zero only when nothing was dispatched under it, and
\* nothing is afterwards, unless the answer to its own request was lost or
\* somebody else launched the job (src/server/mcp/server.ts:271-274, 482-485).
SettledUnpaid == settled \cap paid \subseteq excused

\* The comment of reserve (src/server/mcp/authority.ts:216-219): what is booked
\* is never settled lower, "only to zero when nothing was dispatched".
SettledMeansUnpaid == settled \cap paid = {}
=============================================================================
