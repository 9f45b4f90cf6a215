--------------------------- MODULE Authority_proofs ---------------------------
(***************************************************************************)
(* Theorems about Authority, for every set of clients, limit and number of *)
(* edits, faults and calls in flight.                                      *)
(***************************************************************************)
EXTENDS Authority, FiniteSetTheorems, TLAPS

\* Where a call is before its job was created.
Early == {"idle", "lock", "break", "prepare"} \cup Locked

Typed ==
    /\ grant \in [valid : BOOLEAN, limit : Limits, hash : Nat]
    /\ pc \in [Clients -> Steps]
    /\ call \in [Clients -> [tool : Tools, by : Sources]]
    /\ target \in [Clients -> Jobs \cup {None}]
    /\ hash \in [Clients -> Nat] /\ grantHash \in [Jobs -> Nat]
    /\ status \in [Jobs -> {"none", "created", "running", "paused", "failed",
                            "completed"}]
    /\ authority \in [Jobs -> Clients \cup {"direct"}]
    /\ checked \in [Jobs -> Nat] /\ late \in [Jobs -> Nat]

\* A call works on a job, and on one of its own only once that is there.
Aimed ==
    \A c \in Clients :
      /\ pc[c] \notin {"idle"} => target[c] \in Jobs
      /\ pc[c] \in Early => status[c] = "none"

\* Nobody knows a version of the delegation that is yet to come.
Past == /\ \A c \in Clients : hash[c] <= grant.hash
        /\ \A j \in Jobs : grantHash[j] <= grant.hash

\* Calls were sent too late only by a job whose authority is gone for good, and
\* those were checked before: together they are no more than are in flight.
Counted(j) ==
    /\ late[j] > 0 => ~Holds(j)
    /\ late[j] + checked[j] <= Callers
    /\ status[j] # "running" => checked[j] = 0

IInv == Typed /\ Aimed /\ Past /\ \A j \in Jobs : Counted(j)

\* Nothing was sent.
LEMMA InitHolds == Init => IInv
<1> SUFFICES ASSUME Init PROVE IInv
  OBVIOUS
<1> USE ConstantsAssumption DEF ConstantsAssumption, Init, Jobs
<1>1. Typed
  <2>1. grant \in [valid : BOOLEAN, limit : Limits, hash : Nat]
    <3>1. grant = [valid |-> grant.valid, limit |-> grant.limit, hash |-> grant.hash]
          /\ grant.valid = TRUE /\ grant.limit \in Limits /\ grant.hash = 0
      OBVIOUS
    <3>2. grant.valid \in BOOLEAN
      BY <3>1, Zenon
    <3> QED
      BY <3>1, <3>2
  <2>2. pc \in [Clients -> Steps] /\ target \in [Clients -> Jobs \cup {None}]
    BY DEF Steps
  <2> QED
    BY <2>1, <2>2 DEF Typed
<1>2. Aimed
  BY DEF Aimed, Early, Locked
<1>3. Past /\ \A j \in Jobs : Counted(j)
  BY DEF Past, Counted
<1> QED
  BY <1>1, <1>2, <1>3 DEF IInv

\* A ledger that cannot be read stays so: no line is ever removed.
LEMMA StaysIllegible ==
    ASSUME [Next]_vars, ~Legible
    PROVE  ~Legible'
<1>1. ASSUME NEW c \in Clients, ClientStep(c) PROVE ~Legible'
  <2>1. CASE Reserve(c) \/ Release(c) \/ Journal(c) \/ Crash(c)
    BY <2>1 DEF AppendLine, Reserve, Release, Journal, Crash, Legible, ledger
  <2>2. CASE UNCHANGED ledger
    BY <2>2 DEF Legible, ledger
  <2> QED
    BY <1>1, <2>1, <2>2
    DEF ClientStep, Begin, Acquire, SeeStale, GiveUp, Break, Check, Unlock,
        Prepare, PutAuthority, Launch, Refused
<1>2. ASSUME NEW j \in Jobs, UserLaunch(j) \/ CheckCall(j) \/ SendCall(j) \/ Stop(j)
      PROVE  ~Legible'
  BY <1>2 DEF UserLaunch, CheckCall, SendCall, Stop, Legible, ledger
<1>3. CASE Age \/ Lapse \/ Edit \/ UNCHANGED vars
  <2>1. UNCHANGED ledger
    BY <1>3 DEF Age, Lapse, Edit, vars
  <2> QED
    BY <2>1 DEF Legible, ledger
<1> QED
  BY <1>1, <1>2, <1>3 DEF Next

\* A lapse is for good: a delegation that ended does not begin again, and an
\* edit gives it a hash that no job has.
LEMMA StaysLapsed ==
    ASSUME IInv, [Next]_vars, NEW j \in Jobs, ~Holds(j),
           authority'[j] = authority[j], grantHash'[j] = grantHash[j]
    PROVE  ~Holds(j)'
<1>1. CASE ~Legible
  BY <1>1, StaysIllegible DEF Holds, Covers
<1>2. CASE UNCHANGED grant /\ Legible
  BY <1>2 DEF Holds, Covers
<1>3. CASE Lapse
  <2>1. ~grant'.valid
    BY <1>3 DEF Lapse, IInv, Typed
  <2> QED
    BY <2>1 DEF Holds, Covers
<1>4. CASE Edit
  <2>1. grantHash[j] <= grant.hash /\ grant'.hash = grant.hash + 1
    BY <1>4 DEF Edit, IInv, Typed, Past
  <2>2. grantHash'[j] # grant'.hash
    BY <2>1 DEF IInv, Typed
  <2> QED
    BY <2>2 DEF Holds
<1>5. ASSUME NEW c \in Clients, ClientStep(c) PROVE UNCHANGED grant
  BY <1>5 DEF ClientStep, Begin, Acquire, SeeStale, GiveUp, Break, Check, Reserve,
              Unlock, Prepare, PutAuthority, Launch, Refused, Release, Journal, Crash
<1>6. ASSUME NEW i \in Jobs, UserLaunch(i) \/ CheckCall(i) \/ SendCall(i) \/ Stop(i)
      PROVE  UNCHANGED grant
  BY <1>6 DEF UserLaunch, CheckCall, SendCall, Stop
<1>7. CASE Age \/ UNCHANGED vars
  <2>1. UNCHANGED grant
    BY <1>7 DEF Age, vars
  <2> QED
    BY <1>1, <1>2, <2>1
<1> QED
  BY <1>1, <1>2, <1>3, <1>4, <1>5, <1>6, <1>7 DEF Next

\* A step that leaves the jobs and their calls alone.
LEMMA JobsStay ==
    ASSUME IInv, [Next]_vars, UNCHANGED <<job, late>>
    PROVE  \A j \in Jobs : Counted(j)'
BY StaysLapsed DEF IInv, Typed, Counted, job

\* A call goes on, and never back to where its job was not there.
Moved(c) ==
    \E q \in Steps \ {"idle"} :
      pc' = [pc EXCEPT ![c] = q] /\ pc[c] # "idle" /\ (q \in Early => pc[c] \in Early)

\* Such a step keeps what is known of jobs and hashes.
LEMMA MovedHolds ==
    ASSUME IInv, NEW c \in Clients, Moved(c),
           UNCHANGED <<grant, call, target, hash, status, authority, grantHash, checked, late>>
    PROVE  Typed' /\ Aimed' /\ Past'
BY DEF IInv, Typed, Aimed, Past, Moved, Steps

\* The steps of a client: most leave the jobs alone, three do not.
LEMMA ClientHolds ==
    ASSUME IInv, [Next]_vars, NEW c \in Clients, ClientStep(c)
    PROVE  IInv'
<1> USE ConstantsAssumption DEF Jobs
<1>1. CASE UNCHANGED <<job, late>>
  <2>1. CASE Begin(c)
    <3>1. \E q \in Steps \ {"idle"} : pc' = [pc EXCEPT ![c] = q] /\ pc[c] = "idle"
      <4> DEFINE q == CASE call[c].by = "author" -> Authorized(c)
                        [] Delegated(c) -> IF Covers THEN "lock" ELSE "done"
                        [] OTHER -> IF call[c].tool = "resume" THEN "launch" ELSE "done"
      <4>1. q \in Steps \ {"idle"}
        BY DEF Steps, Authorized
      <4>2. pc' = [pc EXCEPT ![c] = q] /\ pc[c] = "idle"
        BY <2>1 DEF Begin, Move
      <4> QED
        BY <4>1, <4>2
    <3>2. \E i \in Jobs : target' = [target EXCEPT ![c] = i]
      BY <2>1 DEF Begin
    <3>3. UNCHANGED <<grant, call, hash>>
      BY <2>1 DEF Begin
    <3>4. Typed' /\ Aimed' /\ Past'
      BY <1>1, <3>1, <3>2, <3>3 DEF IInv, Typed, Aimed, Past, Early, Steps, job
    <3> QED
      BY <1>1, <3>4, JobsStay DEF IInv
  <2>2. CASE Check(c)
    <3>1. Moved(c) /\ UNCHANGED <<grant, call, target>> /\ hash' = [hash EXCEPT ![c] = grant.hash]
      BY <2>2 DEF Check, Move, Moved, Steps, Early, Locked, args, Appending
    <3>2. Typed' /\ Aimed' /\ Past'
      BY <1>1, <3>1 DEF IInv, Typed, Aimed, Past, Moved, Steps, job
    <3> QED
      BY <1>1, <3>2, JobsStay DEF IInv
  <2>3. CASE ~Begin(c) /\ ~Check(c)
    <3>1. Moved(c)
      <4> USE DEF Move, Moved, Steps, Early, Locked, Appending
      <4>1. CASE Acquire(c) \/ SeeStale(c) \/ GiveUp(c) \/ Break(c) \/ Reserve(c)
        BY <4>1 DEF Acquire, SeeStale, GiveUp, Break, Reserve
      <4>2. CASE Unlock(c)
        BY <4>2 DEF Unlock, Authorized
      <4>3. CASE Release(c) \/ Journal(c) \/ Crash(c)
        BY <4>3 DEF Release, Journal, Crash
      <4>4. Failed(c) \in {"release", "done"}
        BY DEF Failed
      <4>5. CASE Refused(c)
        BY <4>4, <4>5 DEF Refused
      <4>6. CASE Prepare(c) \/ PutAuthority(c) \/ Launch(c)
        BY <4>4, <4>6 DEF Prepare, PutAuthority, Launch, Answered
      <4> QED
        BY <2>3, <4>1, <4>2, <4>3, <4>5, <4>6 DEF ClientStep
    <3>2. UNCHANGED <<grant, call, target, hash>>
      BY <2>3 DEF ClientStep, Acquire, SeeStale, GiveUp, Break, Reserve, Unlock, Refused, Release,
                  Journal, Crash, Prepare, PutAuthority, Launch, args
    <3> QED
      BY <1>1, <3>1, <3>2, MovedHolds, JobsStay DEF IInv, job
  <2> QED
    BY <2>1, <2>2, <2>3
<1>2. Failed(c) \in {"release", "done"}
  BY DEF Failed
<1>3. CASE Prepare(c)
  <2>1. Moved(c) /\ pc'[c] \notin Early /\ pc[c] \in Early
    BY <1>2, <1>3 DEF Prepare, Answered, Move, Moved, Steps, Early, Locked, Appending, IInv, Typed
  <2>2. /\ status' = [status EXCEPT ![c] = "created"]
        /\ UNCHANGED <<grant, call, target, hash, authority, grantHash, checked, late>>
    BY <1>3 DEF Prepare, args
  <2>3. Typed' /\ Aimed' /\ Past'
    BY <2>1, <2>2 DEF IInv, Typed, Aimed, Past, Moved, Steps
  <2>4. checked[c] = 0
    BY <2>1 DEF IInv, Aimed, Counted
  <2>5. \A j \in Jobs : Counted(j)'
    BY <2>2, <2>4, StaysLapsed DEF IInv, Typed, Counted
  <2> QED
    BY <2>3, <2>5 DEF IInv
<1>4. CASE PutAuthority(c)
  <2>1. Moved(c) /\ target[c] \in Jobs
    BY <1>2, <1>4 DEF PutAuthority, Answered, Move, Moved, Steps, Early, Locked, Appending,
                      IInv, Aimed
  <2>2. /\ status[target[c]] # "running"
        /\ authority' = [authority EXCEPT ![target[c]] = IF Delegated(c) THEN c ELSE "direct"]
        /\ grantHash' = [grantHash EXCEPT ![target[c]] = hash[c]]
        /\ late' = [late EXCEPT ![target[c]] = 0]
        /\ UNCHANGED <<grant, call, target, hash, status, checked>>
    BY <1>4 DEF PutAuthority, args
  <2>3. Typed' /\ Aimed' /\ Past'
    BY <2>1, <2>2 DEF IInv, Typed, Aimed, Past, Moved, Steps
  <2>4. ASSUME NEW j \in Jobs, j = target[c] PROVE Counted(j)'
    BY <2>1, <2>2, <2>4 DEF IInv, Typed, Counted
  <2>5. ASSUME NEW j \in Jobs, j # target[c] PROVE Counted(j)'
    BY <2>2, <2>5, StaysLapsed DEF IInv, Typed, Counted
  <2> QED
    BY <2>3, <2>4, <2>5 DEF IInv
<1>5. CASE Launch(c)
  <2>1. Moved(c) /\ pc'[c] \notin Early /\ target[c] \in Jobs
    BY <1>2, <1>5 DEF Launch, Answered, Move, Moved, Steps, Early, Locked, Appending,
                      IInv, Typed, Aimed
  <2>2. /\ status[target[c]] # "none"
        /\ status' = [status EXCEPT ![target[c]] = "running"]
        /\ UNCHANGED <<grant, call, target, hash, authority, grantHash, checked, late>>
    BY <1>5 DEF Launch, args, From, IInv, Typed, Tools
  <2>3. Typed' /\ Aimed' /\ Past'
    BY <2>1, <2>2 DEF IInv, Typed, Aimed, Past, Moved, Steps
  <2>4. \A j \in Jobs : Counted(j)'
    BY <2>1, <2>2, StaysLapsed DEF IInv, Typed, Counted
  <2> QED
    BY <2>3, <2>4 DEF IInv
<1>6. CASE ~(Prepare(c) \/ PutAuthority(c) \/ Launch(c))
  BY <1>1, <1>6 DEF ClientStep, Begin, Acquire, SeeStale, GiveUp, Break, Check, Reserve, Unlock,
                    RemoveLock, Refused, Release, Journal, Crash, history
<1> QED
  BY <1>3, <1>4, <1>5, <1>6

\* The jobs themselves: launched from the screen, calling a model, at an end.
LEMMA JobHolds ==
    ASSUME IInv, [Next]_vars, NEW j \in Jobs,
           UserLaunch(j) \/ CheckCall(j) \/ SendCall(j) \/ Stop(j)
    PROVE  IInv'
<1> USE ConstantsAssumption DEF ConstantsAssumption
<1>1. UNCHANGED <<grant, pc, call, target, hash, authority, grantHash>>
  BY DEF UserLaunch, CheckCall, SendCall, Stop, args
<1>2. \A i \in Jobs : ~Holds(i) => ~Holds(i)'
  BY <1>1, StaysLapsed
<1>3. CASE UserLaunch(j)
  <2>1. /\ status[j] # "none" /\ status' = [status EXCEPT ![j] = "running"]
        /\ UNCHANGED <<checked, late>>
    BY <1>3 DEF UserLaunch
  <2> QED
    BY <1>1, <1>2, <2>1 DEF IInv, Typed, Aimed, Past, Counted
<1>4. CASE CheckCall(j)
  <2>1. /\ status[j] = "running" /\ checked[j] < Callers /\ Holds(j)
        /\ checked' = [checked EXCEPT ![j] = @ + 1] /\ UNCHANGED <<status, late>>
    BY <1>4 DEF CheckCall, history
  <2>2. late[j] = 0
    BY <2>1 DEF IInv, Typed, Counted
  <2> QED
    BY <1>1, <1>2, <2>1, <2>2 DEF IInv, Typed, Aimed, Past, Counted
<1>5. CASE SendCall(j)
  <2>1. /\ status[j] = "running" /\ checked[j] > 0
        /\ checked' = [checked EXCEPT ![j] = @ - 1] /\ UNCHANGED status
        /\ \/ late' = late /\ Holds(j)
           \/ late' = [late EXCEPT ![j] = @ + 1] /\ ~Holds(j)
    <3>1. CASE Holds(j)
      BY <1>5, <3>1 DEF SendCall
    <3>2. CASE ~Holds(j)
      BY <1>5, <3>2 DEF SendCall
    <3> QED
      BY <3>1, <3>2
  <2> QED
    BY <1>1, <1>2, <2>1 DEF IInv, Typed, Aimed, Past, Counted
<1>6. CASE Stop(j)
  <2>1. /\ status[j] = "running" /\ checked' = [checked EXCEPT ![j] = 0] /\ UNCHANGED late
        /\ \E s \in {"paused", "failed", "completed"} : status' = [status EXCEPT ![j] = s]
    BY <1>6 DEF Stop, history
  <2> QED
    BY <1>1, <1>2, <2>1 DEF IInv, Typed, Aimed, Past, Counted
<1> QED
  BY <1>3, <1>4, <1>5, <1>6

\* The delegation and the lock grow older.
LEMMA TimeHolds ==
    ASSUME IInv, [Next]_vars, Age \/ Lapse \/ Edit \/ UNCHANGED vars
    PROVE  IInv'
<1> USE ConstantsAssumption DEF ConstantsAssumption
<1>1. UNCHANGED <<pc, call, target, hash, job, late>>
  BY DEF Age, Lapse, Edit, vars, args, history
<1>2. grant' \in [valid : BOOLEAN, limit : Limits, hash : Nat] /\ grant'.hash >= grant.hash
  <2>1. CASE UNCHANGED grant
    BY <2>1 DEF IInv, Typed
  <2>2. CASE Lapse
    <3>1. grant' = [valid |-> FALSE, limit |-> grant.limit, hash |-> grant.hash]
      BY <2>2 DEF Lapse, IInv, Typed
    <3> QED
      BY <3>1 DEF IInv, Typed
  <2>3. CASE Edit
    <3>1. \E l \in Limits : grant' = [valid |-> grant.valid, limit |-> l, hash |-> grant.hash + 1]
      BY <2>3 DEF Edit, IInv, Typed
    <3> QED
      BY <3>1 DEF IInv, Typed
  <2> QED
    BY <2>1, <2>2, <2>3 DEF Age, vars
<1>3. Typed' /\ Aimed' /\ Past'
  BY <1>1, <1>2 DEF IInv, Typed, Aimed, Past, job
<1> QED
  BY <1>1, <1>3, JobsStay DEF IInv

\* IInv is inductive.
LEMMA StepHolds == IInv /\ [Next]_vars => IInv'
BY ClientHolds, JobHolds, TimeHolds DEF Next

\* Once the authority of a job has lapsed, it sends no more calls than it had in
\* flight: the check before every call (book-pipeline.ts) lets nothing else by,
\* whoever edits the delegation, restarts the job or tears the ledger.
THEOREM LapseStops == Spec => []LapseStopsCalls
<1>1. IInv => LapseStopsCalls
  BY ConstantsAssumption DEF ConstantsAssumption, IInv, Typed, Counted, LapseStopsCalls
<1> QED
  BY <1>1, InitHolds, StepHolds, PTL DEF Spec
-----------------------------------------------------------------------------
(* Settling at zero. *)

Started(c) == c \in paid \/ \E j \in Jobs : status[j] = "running" /\ authority[j] = c

\* A client that has the answer to what it asked for, and nobody else to blame,
\* is past the catch clauses once something runs or was paid under its booking,
\* and at its end once it has released it.
Settling(c) ==
    c \notin excused =>
      /\ c \in settled => pc[c] = "done" /\ ~Started(c)
      /\ Started(c) => pc[c] \in {"journal", "done", "dead"}

\* A step of a client that settles nothing, starts nothing and sends nothing.
LEMMA QuietSettles ==
    ASSUME IInv, \A d \in Clients : Settling(d), NEW c \in Clients,
           pc[c] \notin {"done", "dead"}, NEW q,
           pc' = [pc EXCEPT ![c] = q], pc[c] = "journal" => q \in {"done", "dead"},
           UNCHANGED <<settled, status, authority, paid, excused>>
    PROVE  \A d \in Clients : Settling(d)'
BY DEF IInv, Typed, Settling, Started

\* One case per step of a client, in the order of a call.
LEMMA ClientSettles ==
    ASSUME IInv, \A d \in Clients : Settling(d), NEW c \in Clients, ClientStep(c)
    PROVE  \A d \in Clients : Settling(d)'
<1> USE DEF Move
<1>1. CASE Begin(c)
  <2>1. PICK q : pc' = [pc EXCEPT ![c] = q] /\ pc[c] = "idle"
    BY <1>1 DEF Begin
  <2>2. UNCHANGED <<settled, status, authority, paid, excused>>
    BY <1>1 DEF Begin, ledger, job, history
  <2> QED
    BY <2>1, <2>2, QuietSettles
<1>2. CASE Acquire(c) \/ SeeStale(c) \/ GiveUp(c) \/ Break(c) \/ Check(c) \/ Reserve(c) \/ Unlock(c)
  <2>1. \E q : pc' = [pc EXCEPT ![c] = q] /\ pc[c] \notin {"done", "dead", "journal"}
    BY <1>2 DEF Acquire, SeeStale, GiveUp, Break, Check, Reserve, Unlock
  <2>2. UNCHANGED <<settled, status, authority, paid, excused>>
    BY <1>2 DEF Acquire, SeeStale, GiveUp, Break, Check, Reserve, Unlock, RemoveLock, AppendLine,
                ledger, job, history
  <2> QED
    BY <2>1, <2>2, QuietSettles
<1>3. CASE Refused(c) \/ Journal(c) \/ Crash(c)
  <2>1. \E q : /\ pc' = [pc EXCEPT ![c] = q] /\ pc[c] \notin {"done", "dead"}
               /\ pc[c] = "journal" => q \in {"done", "dead"}
    BY <1>3 DEF Refused, Journal, Crash
  <2>2. UNCHANGED <<settled, status, authority, paid, excused>>
    BY <1>3 DEF Refused, Journal, Crash, AppendLine, ledger, job, history
  <2> QED
    BY <2>1, <2>2, QuietSettles
<1>4. CASE Release(c)
  <2>1. /\ pc[c] = "release" /\ pc' = [pc EXCEPT ![c] = "done"]
        /\ settled' \subseteq settled \cup {c}
        /\ UNCHANGED <<status, authority, paid, excused>>
    BY <1>4 DEF Release, AppendLine, job, history
  <2> QED
    BY <2>1 DEF IInv, Typed, Settling, Started
\* A request may be answered, or its answer may be lost: then it is excused.
<1>5. CASE Prepare(c)
  <2>1. /\ \E q : pc' = [pc EXCEPT ![c] = q] /\ pc[c] = "prepare"
        /\ status' = [status EXCEPT ![c] = "created"]
        /\ excused \subseteq excused'
        /\ UNCHANGED <<settled, authority, paid>>
    BY <1>5 DEF Prepare, Answered, ledger
  <2> QED
    BY <2>1 DEF IInv, Typed, Settling, Started
<1>6. CASE PutAuthority(c)
  <2>1. /\ \E q : pc' = [pc EXCEPT ![c] = q] /\ pc[c] = "authority"
        /\ status[target[c]] # "running" /\ excused \subseteq excused'
        /\ \E a : authority' = [authority EXCEPT ![target[c]] = a]
        /\ UNCHANGED <<settled, status, paid>>
    BY <1>6 DEF PutAuthority, Answered, ledger
  <2> QED
    BY <2>1 DEF IInv, Typed, Settling, Started
<1>7. CASE Launch(c)
  <2>1. /\ pc[c] = "launch" /\ target[c] \in Jobs
        /\ status' = [status EXCEPT ![target[c]] = "running"]
        /\ UNCHANGED <<settled, authority, paid>>
    BY <1>7 DEF Launch, Answered, ledger, IInv, Aimed
  \* Whoever else the job is charged to is excused, and c itself if its answer is lost.
  <2>2. /\ excused \cup ({authority[target[c]]} \ {c, "direct"}) \subseteq excused'
        /\ \E q : /\ pc' = [pc EXCEPT ![c] = q]
                  /\ c \in excused' \/ q \in {"journal", "done"}
    BY <1>7 DEF Launch, Answered
  <2> QED
    BY <2>1, <2>2, ConstantsAssumption DEF ConstantsAssumption, IInv, Typed, Settling, Started
<1> QED
  BY <1>1, <1>2, <1>3, <1>4, <1>5, <1>6, <1>7 DEF ClientStep

\* A launch by the user excuses whoever the job is charged to.
LEMMA OthersSettle ==
    ASSUME IInv, \A d \in Clients : Settling(d), [Next]_vars,
           ~\E c \in Clients : ClientStep(c)
    PROVE  \A d \in Clients : Settling(d)'
<1>1. ASSUME NEW j \in Jobs, UserLaunch(j) PROVE \A d \in Clients : Settling(d)'
  <2>1. /\ status' = [status EXCEPT ![j] = "running"]
        /\ excused \cup ({authority[j]} \ {"direct"}) \subseteq excused'
        /\ UNCHANGED <<pc, settled, authority, paid>>
    BY <1>1 DEF UserLaunch, ledger
  <2> QED
    BY <2>1, ConstantsAssumption DEF ConstantsAssumption, IInv, Typed, Settling, Started
<1>2. ASSUME NEW j \in Jobs, SendCall(j) PROVE \A d \in Clients : Settling(d)'
  <2>1. /\ status[j] = "running" /\ paid' \subseteq paid \cup {authority[j]}
        /\ UNCHANGED <<pc, settled, status, authority, excused>>
    BY <1>2 DEF SendCall, ledger
  <2> QED
    BY <2>1 DEF Settling, Started
<1>3. ASSUME NEW j \in Jobs, CheckCall(j) \/ Stop(j) PROVE \A d \in Clients : Settling(d)'
  <2>1. /\ \A i \in Jobs : status'[i] = "running" => status[i] = "running"
        /\ UNCHANGED <<pc, settled, authority, paid, excused>>
    BY <1>3 DEF CheckCall, Stop, ledger, history, IInv, Typed
  <2> QED
    BY <2>1 DEF Settling, Started
<1>4. CASE Age \/ Lapse \/ Edit \/ UNCHANGED vars
  <2>1. UNCHANGED <<pc, settled, status, authority, paid, excused>>
    BY <1>4 DEF Age, Lapse, Edit, vars, ledger, job, history
  <2> QED
    BY <2>1 DEF Settling, Started
<1> QED
  BY <1>1, <1>2, <1>3, <1>4 DEF Next

\* Only the client of a booking settles it.
LEMMA OnlyClientsSettle ==
    ASSUME [Next]_vars, settled \subseteq Clients
    PROVE  settled' \subseteq Clients
<1>1. ASSUME NEW c \in Clients, ClientStep(c) PROVE settled' \subseteq Clients
  <2>1. CASE Release(c)
    BY <2>1 DEF Release, AppendLine
  <2>2. CASE Reserve(c) \/ Journal(c) \/ Crash(c)
    BY <2>2 DEF Reserve, Journal, Crash, AppendLine, ledger
  <2>3. CASE UNCHANGED ledger
    BY <2>3 DEF ledger
  <2> QED
    BY <1>1, <2>1, <2>2, <2>3
    DEF ClientStep, Begin, Acquire, SeeStale, GiveUp, Break, Check, Unlock,
        Prepare, PutAuthority, Launch, Refused
<1>2. CASE ~\E c \in Clients : ClientStep(c)
  <2>1. UNCHANGED settled
    BY <1>2 DEF Next, UserLaunch, CheckCall, SendCall, Stop, Age, Lapse, Edit, vars, ledger
  <2> QED
    BY <2>1
<1> QED
  BY <1>1, <1>2

\* A booking is settled at zero only when nothing was dispatched under it and
\* nothing will be, but for an answer that was lost and jobs that somebody else
\* launched: a release comes only from a catch clause (server.ts), and a catch
\* clause only before a launch was answered.
THEOREM SettledAreUnpaid == Spec => []SettledUnpaid
<1> DEFINE Inv == IInv /\ settled \subseteq Clients /\ \A d \in Clients : Settling(d)
<1>1. Init => Inv
  BY InitHolds DEF Init, Settling, Started
<1>2. Inv /\ [Next]_vars => Inv'
  BY StepHolds, ClientSettles, OthersSettle, OnlyClientsSettle
<1>3. Inv => SettledUnpaid
  BY DEF Settling, Started, SettledUnpaid
<1> QED
  BY <1>1, <1>2, <1>3, PTL DEF Spec
-----------------------------------------------------------------------------
(* Bookings within the limit. *)

Units(S) == UNION {{c} \X (1..Amount[c]) : c \in S}

\* Finitely many bookings are finitely many units.
LEMMA UnitsFinite == \A S \in SUBSET Clients : IsFiniteSet(Units(S))
<1> USE ConstantsAssumption DEF ConstantsAssumption
<1> SUFFICES ASSUME NEW S \in SUBSET Clients PROVE IsFiniteSet(Units(S))
  OBVIOUS
<1> DEFINE Own(c) == {c} \X (1..Amount[c])
           Parts == {Own(c) : c \in S}
<1>1. IsFiniteSet(S)
  BY FS_Subset
<1>2. [c \in S |-> Own(c)] \in Surjection(S, Parts)
  BY DEF Surjection
<1>3. IsFiniteSet(Parts)
  <2> HIDE DEF Parts
  <2> QED
    BY <1>1, <1>2, FS_Surjection
<1>4. ASSUME NEW c \in S PROVE IsFiniteSet(Own(c))
  <2>1. Amount[c] \in Int
    BY <1>4
  <2>2. IsFiniteSet(1..Amount[c])
    BY <2>1, FS_Interval
  <2>3. IsFiniteSet({c})
    BY FS_Singleton
  <2> QED
    BY <2>2, <2>3, FS_Product
<1>5. \A P \in Parts : IsFiniteSet(P)
  BY <1>4
<1>6. IsFiniteSet(UNION Parts)
  <2> HIDE DEF Parts
  <2> QED
    BY <1>3, <1>5, FS_UNION
<1> QED
  BY <1>6 DEF Units

\* More bookings add up to more.
LEMMA TotalGrows ==
    ASSUME NEW T \in SUBSET Clients, NEW S \in SUBSET T
    PROVE  Total(S) \in Nat /\ Total(T) \in Nat /\ Total(S) <= Total(T)
<1>1. IsFiniteSet(Units(S)) /\ IsFiniteSet(Units(T))
  BY UnitsFinite
<1>2. Units(S) \in SUBSET Units(T)
  BY DEF Units
<1>3. Cardinality(Units(S)) <= Cardinality(Units(T))
  BY <1>1, <1>2, FS_Subset
<1>4. Cardinality(Units(S)) \in Nat /\ Cardinality(Units(T)) \in Nat
  BY <1>1, FS_CardinalityType
<1> QED
  BY <1>3, <1>4 DEF Total, Units

\* One more booking adds no more than its amount.
LEMMA TotalAdds ==
    ASSUME NEW S \in SUBSET Clients, NEW c \in Clients
    PROVE  Total(S \cup {c}) <= Total(S) + Amount[c]
<1> USE ConstantsAssumption DEF ConstantsAssumption
<1> DEFINE own == {c} \X (1..Amount[c])
<1>1. IsFiniteSet(1..Amount[c]) /\ Cardinality(1..Amount[c]) = Amount[c]
  BY FS_Interval
<1>2. IsFiniteSet({c}) /\ Cardinality({c}) = 1
  BY FS_Singleton
<1>3. IsFiniteSet(own) /\ Cardinality(own) = Amount[c] /\ Amount[c] \in Nat
  <2>1. IsFiniteSet(own) /\ Cardinality(own) = 1 * Amount[c]
    BY <1>1, <1>2, FS_Product
  <2> QED
    BY <2>1
<1>4. IsFiniteSet(Units(S)) /\ IsFiniteSet(Units(S) \cap own)
  BY UnitsFinite, FS_Intersection
<1>5. Units(S \cup {c}) = Units(S) \cup own
  BY DEF Units
<1> HIDE DEF own
<1>6. Cardinality(Units(S) \cup own)
          = Cardinality(Units(S)) + Cardinality(own) - Cardinality(Units(S) \cap own)
  BY <1>3, <1>4, FS_Union
<1>7. Cardinality(Units(S)) \in Nat /\ Cardinality(Units(S) \cap own) \in Nat
  BY <1>4, FS_CardinalityType
<1> HIDE DEF Units
<1>8. Cardinality(Units(S \cup {c})) <= Cardinality(Units(S)) + Amount[c]
  <2>1. \A u, a, m \in Nat : u + a - m <= u + a
    OBVIOUS
  <2> QED
    BY <1>3, <1>5, <1>6, <1>7, <2>1
<1> QED
  BY <1>8 DEF Total, Units

\* The ledger holds every booking that was reported as made, unless it has a
\* line that is not a record; and then nothing more is authorized.
Recorded == /\ made \cup settled \subseteq Clients
            /\ ~corrupt => made = booked

\* Who checks or books holds the lock.  A booking that has been checked still
\* fits when it is made: nobody else has booked since.
Exclusive == \A c \in Clients : pc[c] \in Locked => lock = c
Fits(c) == Total((made \cup {c}) \ settled) <= ceiling
Limited == /\ ceiling \in Nat /\ grant.limit <= ceiling
           /\ ~raced => /\ Exclusive /\ Total(made \ settled) <= ceiling
                        /\ \A c \in Clients : pc[c] = "append" => Fits(c)

LedgerInv == IInv /\ Recorded /\ Limited
\* Nothing is booked yet.
LEMMA InitLimited == Init => LedgerInv
<1> SUFFICES ASSUME Init PROVE Recorded /\ Limited
  BY InitHolds DEF LedgerInv
<1> USE ConstantsAssumption DEF ConstantsAssumption, Init
<1>1. Total({}) = 0
  BY FS_EmptySet DEF Total
<1>2. grant.limit \in Nat
  OBVIOUS
<1>3. made \ settled = {} /\ \A c \in Clients : pc[c] = "idle"
  OBVIOUS
<1> QED
  BY <1>1, <1>2, <1>3 DEF Recorded, Limited, Exclusive, Locked

\* A step that books nothing and lets nobody book.
LEMMA QuietLimits ==
    ASSUME LedgerInv, UNCHANGED made, settled \subseteq settled', settled' \subseteq Clients,
           ceiling' \in Nat, ceiling <= ceiling', grant'.limit <= ceiling',
           ~corrupt' => ~corrupt /\ UNCHANGED booked,
           ~raced' => ~raced /\ Exclusive',
           \A d \in Clients : pc'[d] = "append" => pc[d] = "append"
    PROVE  Recorded' /\ Limited'
<1>1. Recorded'
  BY DEF LedgerInv, Recorded
<1>2. ASSUME NEW S \in SUBSET Clients, Total(S \ settled) <= ceiling
      PROVE  Total(S \ settled') <= ceiling'
  <2>1. Total(S \ settled') <= Total(S \ settled)
        /\ Total(S \ settled') \in Nat /\ Total(S \ settled) \in Nat
    BY TotalGrows
  <2> QED
    BY <1>2, <2>1 DEF LedgerInv, Limited
<1>3. ASSUME NEW d \in Clients, Fits(d) PROVE Fits(d)'
  BY <1>2, <1>3 DEF Fits, LedgerInv, Recorded
<1>4. Total(made \ settled) <= ceiling => Total(made \ settled)' <= ceiling'
  BY <1>2 DEF LedgerInv, Recorded
<1> QED
  BY <1>1, <1>3, <1>4 DEF LedgerInv, Limited

\* A client that is not at the lock moves on elsewhere.
LEMMA AwayLimits ==
    ASSUME LedgerInv, NEW c \in Clients, UNCHANGED <<grant, lock, made, ceiling>>,
           settled \subseteq settled', settled' \subseteq Clients,
           ~corrupt' => ~corrupt /\ UNCHANGED booked, raced => raced',
           NEW q, q \notin Locked, pc' = [pc EXCEPT ![c] = q]
    PROVE  Recorded' /\ Limited'
<1>1. \A d \in Clients : pc'[d] \in Locked => pc[d] \in Locked /\ pc'[d] = pc[d]
  BY DEF LedgerInv, IInv, Typed
<1>2. ~raced' => ~raced /\ Exclusive'
  BY <1>1 DEF LedgerInv, Limited, Exclusive
<1>3. \A d \in Clients : pc'[d] = "append" => pc[d] = "append"
  BY <1>1 DEF Locked
<1>4. ceiling' \in Nat /\ ceiling <= ceiling' /\ grant'.limit <= ceiling'
  BY DEF LedgerInv, Limited
<1> QED
  BY <1>2, <1>3, <1>4, QuietLimits

\* The lock is taken by nobody, or removed: but not from under its holder.
LEMMA LockLimits ==
    ASSUME LedgerInv, NEW c \in Clients, Acquire(c) \/ SeeStale(c) \/ GiveUp(c) \/ Break(c) \/ Unlock(c)
    PROVE  Recorded' /\ Limited'
<1> USE ConstantsAssumption DEF ConstantsAssumption
<1>1. UNCHANGED <<grant, ledger, made, ceiling>>
  BY DEF Acquire, SeeStale, GiveUp, Break, Unlock, RemoveLock, history
<1>2. CASE Acquire(c)
  <2>1. lock = None /\ lock' = c /\ UNCHANGED raced /\ pc' = [pc EXCEPT ![c] = "check"]
    BY <1>2 DEF Acquire, Move, history
  <2>2. ~raced => \A d \in Clients : pc[d] \notin Locked
    BY <2>1 DEF LedgerInv, Limited, Exclusive
  <2>3. ~raced' => Exclusive'
    BY <2>1, <2>2 DEF LedgerInv, IInv, Typed, Exclusive
  <2>4. \A d \in Clients : pc'[d] = "append" => pc[d] = "append"
    BY <2>1 DEF LedgerInv, IInv, Typed
  <2> QED
    BY <1>1, <2>1, <2>3, <2>4, QuietLimits DEF ledger, LedgerInv, Recorded, Limited
<1>3. CASE SeeStale(c) \/ GiveUp(c)
  <2>1. /\ UNCHANGED <<lock, raced>>
        /\ \E q \in {"break", "done"} : pc' = [pc EXCEPT ![c] = q]
    BY <1>3 DEF SeeStale, GiveUp, Move, mutex, history
  <2> QED
    BY <1>1, <2>1, AwayLimits DEF Locked, ledger, LedgerInv, Recorded
<1>4. CASE Break(c) \/ Unlock(c)
  <2>1. PICK q : q \notin Locked /\ pc' = [pc EXCEPT ![c] = q]
    BY <1>4 DEF Break, Unlock, Move, Authorized, Locked
  <2>2. raced' = (raced \/ (lock \notin {None, c} /\ pc[lock] \in Locked))
    BY <1>4 DEF Break, Unlock, RemoveLock
  <2>3. ~raced' => ~raced /\ Exclusive'
    BY <2>1, <2>2 DEF LedgerInv, IInv, Typed, Limited, Exclusive
  <2>4. \A d \in Clients : pc'[d] = "append" => pc[d] = "append"
    BY <2>1 DEF LedgerInv, IInv, Typed, Locked
  <2> QED
    BY <1>1, <2>3, <2>4, QuietLimits DEF ledger, LedgerInv, Recorded, Limited
<1> QED
  BY <1>2, <1>3, <1>4

\* What is checked fits: the ledger is legible, so it holds all that was made.
LEMMA CheckLimits ==
    ASSUME LedgerInv, NEW c \in Clients, Check(c)
    PROVE  Recorded' /\ Limited'
<1> USE ConstantsAssumption DEF ConstantsAssumption
<1>1. UNCHANGED <<grant, ledger, lock, made, raced, ceiling>>
  BY DEF Check, mutex, history
<1>2. Recorded'
  BY <1>1 DEF LedgerInv, Recorded, ledger
<1>3. PICK q \in {"append", "refuse"} :
        /\ pc' = [pc EXCEPT ![c] = q] /\ pc[c] = "check"
        /\ q = "append" => Covers /\ Spent + Amount[c] <= grant.limit
  BY DEF Check, Move
<1>4. q = "append" => Fits(c)
  <2> SUFFICES ASSUME q = "append" PROVE Fits(c)
    OBVIOUS
  <2>1. made = booked /\ Spent = Total(made \ settled)
    BY <1>3 DEF Covers, Legible, LedgerInv, Recorded, Spent
  <2>2. /\ (made \cup {c}) \ settled \in SUBSET ((made \ settled) \cup {c})
        /\ (made \ settled) \cup {c} \in SUBSET Clients
    BY DEF LedgerInv, Recorded
  <2>3. /\ Total((made \cup {c}) \ settled) <= Total((made \ settled) \cup {c})
        /\ Total((made \cup {c}) \ settled) \in Nat
        /\ Total((made \ settled) \cup {c}) \in Nat
    BY <2>2, TotalGrows
  <2>4. Total((made \ settled) \cup {c}) <= Total(made \ settled) + Amount[c]
    BY <2>2, TotalAdds
  <2>5. Total(made \ settled) \in Nat /\ Amount[c] \in Nat /\ grant.limit \in Nat
    BY <2>2, TotalGrows DEF LedgerInv, IInv, Typed, Recorded
  <2> QED
    BY <1>3, <2>1, <2>3, <2>4, <2>5 DEF Fits, LedgerInv, Limited
<1>5. ~raced => Exclusive'
  BY <1>1, <1>3 DEF LedgerInv, IInv, Typed, Limited, Exclusive, Locked
<1>6. ASSUME NEW d \in Clients, ~raced, pc'[d] = "append" PROVE Fits(d)'
  <2>1. Fits(d)
    BY <1>3, <1>4, <1>6 DEF LedgerInv, IInv, Typed, Limited
  <2> QED
    BY <1>1, <2>1 DEF Fits, ledger
<1> QED
  BY <1>1, <1>2, <1>5, <1>6 DEF LedgerInv, Limited, ledger

\* What was checked still fits when it is booked, and nobody else is at it.
LEMMA ReserveLimits ==
    ASSUME LedgerInv, NEW c \in Clients, Reserve(c)
    PROVE  Recorded' /\ Limited'
<1>1. /\ UNCHANGED <<grant, settled, lock, raced, ceiling>> /\ made' = made \cup {c}
      /\ pc[c] = "append" /\ pc' = [pc EXCEPT ![c] = "unlock"]
      /\ ~corrupt' => ~corrupt /\ booked' = booked \cup {c}
  BY DEF Reserve, AppendLine, Move, mutex
<1>2. Recorded'
  BY <1>1 DEF LedgerInv, Recorded
<1>3. ~raced => Total(made \ settled)' <= ceiling'
  BY <1>1 DEF LedgerInv, Limited, Fits
<1>4. ~raced => Exclusive' /\ \A d \in Clients : pc'[d] # "append"
  BY <1>1 DEF LedgerInv, IInv, Typed, Limited, Exclusive, Locked
<1> QED
  BY <1>1, <1>2, <1>3, <1>4 DEF LedgerInv, Limited

\* Every other step of a client.
LEMMA RequestLimits ==
    ASSUME LedgerInv, NEW c \in Clients,
           Begin(c) \/ Prepare(c) \/ PutAuthority(c) \/ Launch(c) \/ Refused(c)
             \/ Release(c) \/ Journal(c) \/ Crash(c)
    PROVE  Recorded' /\ Limited'
<1>1. UNCHANGED <<grant, lock, made, ceiling, raced>>
  BY DEF Begin, Prepare, PutAuthority, Launch, Refused, Release, Journal, Crash, mutex, history
<1>2. \E q : q \notin Locked /\ pc' = [pc EXCEPT ![c] = q]
  <2>1. CASE Begin(c)
    <3> DEFINE q == CASE call[c].by = "author" -> Authorized(c)
                      [] Delegated(c) -> IF Covers THEN "lock" ELSE "done"
                      [] OTHER -> IF call[c].tool = "resume" THEN "launch" ELSE "done"
    <3>1. q \notin Locked
      BY DEF Locked, Authorized
    <3>2. pc' = [pc EXCEPT ![c] = q]
      BY <2>1 DEF Begin, Move
    <3> QED
      BY <3>1, <3>2
  <2>2. CASE ~Begin(c)
    BY <2>2 DEF Prepare, PutAuthority, Launch, Refused, Release, Journal, Crash, Move, Answered,
                Failed, Locked
  <2> QED
    BY <2>1, <2>2
<1>3. /\ settled \subseteq settled' /\ settled' \subseteq Clients
      /\ ~corrupt' => ~corrupt /\ UNCHANGED booked
  <2>1. CASE UNCHANGED ledger
    BY <2>1 DEF ledger, LedgerInv, Recorded
  <2>2. CASE Release(c)
    BY <2>2 DEF Release, AppendLine, LedgerInv, Recorded
  <2>3. CASE Journal(c) \/ Crash(c)
    BY <2>3 DEF Journal, Crash, AppendLine, LedgerInv, Recorded, ledger
  <2> QED
    BY <2>1, <2>2, <2>3 DEF Begin, Prepare, PutAuthority, Launch, Refused
<1> QED
  BY <1>1, <1>2, <1>3, AwayLimits

\* The delegation and the jobs: an edit can only raise the highest limit.
LEMMA OthersLimit ==
    ASSUME LedgerInv, \/ \E j \in Jobs : UserLaunch(j) \/ CheckCall(j) \/ SendCall(j) \/ Stop(j)
                \/ Age \/ Lapse \/ Edit \/ UNCHANGED vars
    PROVE  Recorded' /\ Limited'
<1> USE ConstantsAssumption DEF ConstantsAssumption
<1>1. UNCHANGED <<pc, ledger, made, raced, lock>>
  BY DEF UserLaunch, CheckCall, SendCall, Stop, Age, Lapse, Edit, vars, mutex, history
<1>2. ceiling' \in Nat /\ ceiling <= ceiling' /\ grant'.limit <= ceiling'
  <2>1. CASE Edit
    <3>1. PICK l \in Limits : /\ grant' = [grant EXCEPT !.limit = l, !.hash = @ + 1]
                              /\ ceiling' = IF l > ceiling THEN l ELSE ceiling
      BY <2>1 DEF Edit
    <3>2. grant'.limit = l
      BY <3>1 DEF LedgerInv, IInv, Typed
    <3> QED
      BY <3>1, <3>2 DEF LedgerInv, Limited
  <2>2. CASE Lapse
    <3>1. grant'.limit = grant.limit /\ UNCHANGED ceiling
      BY <2>2 DEF Lapse, LedgerInv, IInv, Typed, history
    <3> QED
      BY <3>1 DEF LedgerInv, Limited
  <2>3. CASE UNCHANGED <<grant, ceiling>>
    BY <2>3 DEF LedgerInv, Limited
  <2> QED
    BY <2>1, <2>2, <2>3 DEF UserLaunch, CheckCall, SendCall, Stop, Age, vars, history
<1>3. ~raced' => ~raced /\ Exclusive'
  BY <1>1 DEF LedgerInv, Limited, Exclusive
<1> QED
  BY <1>1, <1>2, <1>3, QuietLimits DEF ledger, LedgerInv, Recorded

\* All bookings that were made and not released stay within the highest limit
\* the author has set, for any number of clients, amounts and edits, as long as
\* no lock is broken under a process that is still at work: a booking is checked
\* and made under the budget lock, and only against a ledger that can be read
\* (reserve and withBudgetLock, src/server/mcp/authority.ts).
THEOREM BookingsFit == Spec => []WithinLimit
<1>1. LedgerInv /\ [Next]_vars => LedgerInv'
  BY StepHolds, LockLimits, CheckLimits, ReserveLimits, RequestLimits, OthersLimit
  DEF LedgerInv, Next, ClientStep
<1>2. LedgerInv => WithinLimit
  BY DEF LedgerInv, Limited, WithinLimit
<1> QED
  BY <1>1, <1>2, InitLimited, PTL DEF Spec
===============================================================================
