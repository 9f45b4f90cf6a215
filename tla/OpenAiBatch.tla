----------------------------- MODULE OpenAiBatch -----------------------------
(* One request sent through OpenAI's Batch API: upload, create, poll, download,*)
(* with the record of the remote batch kept in a file so that a paused or      *)
(* restarted run finds it again, and the retries of processBatch around it.    *)
EXTENDS Naturals, Sequences

CONSTANTS None,
          MaxRetries,  \* of processBatch
          MaxRuns,     \* bound: runs of the job
          MaxBatches,  \* bound: batches OpenAI is asked to create
          ErrorFiles   \* a completed batch may have an error file and no output

ASSUME BatchAssumption ==
  /\ None \notin Nat
  /\ {MaxRetries, MaxRuns, MaxBatches} \subseteq Nat
  /\ ErrorFiles \in BOOLEAN

VARIABLES pc, attempt, kind,  \* the call of the run that works, if one does
          mine,               \* the record in memory
          record,               \* openai-batches/<key>.json: 0 is an uploaded input without a batch
          output,             \* <key>.output.jsonl is there
          remote,             \* what became of each batch OpenAI created
          aborted, runs,
          answered,           \* processBatch returned
          kept                \* history: batches whose id was saved
batchVars == <<pc, attempt, kind, mine, record, output, remote, aborted, runs, answered, kept>>

Created == DOMAIN remote
Bad == {"garbled", "failed", "expired"}
Ends == {"good"} \cup Bad \cup (IF ErrorFiles THEN {"errors only"} ELSE {})

BatchInit ==
  /\ pc = "idle" /\ attempt = 0 /\ kind = None /\ mine = None /\ record = None
  /\ output = FALSE /\ remote = <<>> /\ aborted = FALSE /\ runs = 0 /\ answered = FALSE
  /\ kept = {}

Job == UNCHANGED <<attempt, aborted, runs, answered>>
Files == UNCHANGED <<record, output, kept>>
----------------------------------------------------------------------------
(* A run begins, and calls complete. *)
Begin ==
  /\ pc = "idle" /\ ~answered /\ runs < MaxRuns
  /\ runs' = runs + 1 /\ pc' = "look" /\ attempt' = 0 /\ aborted' = FALSE
  /\ UNCHANGED <<kind, mine, remote, answered>> /\ Files

Settle == pc' = "idle" /\ kind' = None /\ mine' = None
Look ==
  /\ pc = "look"
  /\ IF output
     THEN Settle /\ answered' = TRUE
     ELSE /\ mine' = record
          /\ pc' = CASE record = None -> "upload" [] record = 0 -> "create" [] OTHER -> "poll"
          /\ UNCHANGED <<kind, answered>>
  /\ UNCHANGED <<attempt, aborted, runs, remote>> /\ Files

Throws(k) == pc' = "caught" /\ kind' = k /\ UNCHANGED mine
\* A request is refused, or the signal cuts it off.
Refusals == {"temporary", "configuration", "request_too_large", "invalid_response"}
Refused ==
  /\ pc \in {"upload", "create", "poll", "download"}
  /\ \/ \E k \in Refusals : Throws(k)
     \/ aborted /\ Throws(None)
  /\ UNCHANGED remote /\ Job /\ Files

Upload ==
  /\ pc = "upload" /\ ~aborted
  /\ pc' = "create" /\ mine' = 0 /\ record' = 0
  /\ UNCHANGED <<kind, output, remote, kept>> /\ Job

\* OpenAI creates the batch; its answer is still on the way.
Create ==
  /\ pc = "create" /\ ~aborted /\ Len(remote) < MaxBatches
  /\ remote' = Append(remote, "running") /\ pc' = "created"
  /\ UNCHANGED <<kind, mine>> /\ Job /\ Files
AnswerLost ==
  /\ pc = "created"
  /\ Throws(IF aborted THEN None ELSE "temporary")
  /\ UNCHANGED remote /\ Job /\ Files
SaveId ==
  /\ pc = "created"
  /\ pc' = "poll" /\ mine' = Len(remote) /\ record' = Len(remote) /\ kept' = kept \cup {Len(remote)}
  /\ UNCHANGED <<kind, output, remote>> /\ Job

\* Mutant: a batch that expired is waited for.
PollMissesExpired ==
  /\ pc = "poll" /\ ~aborted
  /\ CASE remote[mine] \in {"good", "garbled"} -> pc' = "download" /\ UNCHANGED <<kind, mine>> /\ Files
       [] remote[mine] = "failed" ->
            /\ \E k \in {"request_too_large", "configuration"} : Throws(k)
            /\ record' = None /\ UNCHANGED <<output, kept>>
       [] OTHER -> pc' = "delay" /\ UNCHANGED <<kind, mine>> /\ Files
  /\ UNCHANGED remote /\ Job
\* The status check: done with an output, over without one, or not yet.
Poll ==
  /\ pc = "poll" /\ ~aborted
  /\ CASE remote[mine] \in {"good", "garbled"} ->
            pc' = "download" /\ UNCHANGED <<kind, mine>> /\ Files
       [] remote[mine] \in {"failed", "expired"} ->
            /\ \E k \in IF remote[mine] = "expired" THEN {"temporary"}
                        ELSE {"request_too_large", "configuration"} : Throws(k)
            /\ record' = None /\ UNCHANGED <<output, kept>>
       [] OTHER -> pc' = "delay" /\ UNCHANGED <<kind, mine>> /\ Files
  /\ UNCHANGED remote /\ Job
PollAgain ==
  /\ pc = "delay"
  /\ IF aborted THEN Throws(None) ELSE pc' = "poll" /\ UNCHANGED <<kind, mine>>
  /\ UNCHANGED remote /\ Job /\ Files

Download ==
  /\ pc = "download" /\ remote[mine] = "good"
  /\ Settle /\ output' = TRUE /\ answered' = TRUE
  /\ UNCHANGED <<attempt, aborted, runs, remote, record, kept>>
DownloadGarbled ==
  /\ pc = "download" /\ remote[mine] = "garbled"
  /\ \E k \in Refusals : Throws(k)
  /\ record' = None
  /\ UNCHANGED <<output, remote, kept>> /\ Job
----------------------------------------------------------------------------
(* processBatch around it, for one segment: retry or give up. *)
Budget == CASE kind = "temporary" -> MaxRetries + 2
            [] kind \in {"invalid_response", None} -> MaxRetries
            [] OTHER -> 0
Retry ==
  /\ pc = "caught" /\ attempt < Budget /\ ~aborted
  /\ pc' = "look" /\ attempt' = attempt + 1 /\ kind' = None
  /\ UNCHANGED <<mine, remote, aborted, runs, answered>> /\ Files
\* Mutant: a run that ends starts over the next time.
StopAndForget ==
  /\ pc = "caught" /\ (attempt >= Budget \/ aborted)
  /\ Settle /\ record' = None
  /\ UNCHANGED <<remote, output, kept>> /\ Job
Stop ==
  /\ pc = "caught" /\ (attempt >= Budget \/ aborted)
  /\ Settle
  /\ UNCHANGED remote /\ Job /\ Files

(* The outside: OpenAI, the user, the death of the process. *)
Finish ==
  /\ \E b \in Created, end \in Ends :
       remote[b] = "running" /\ remote' = [remote EXCEPT ![b] = end]
  /\ UNCHANGED <<pc, kind, mine>> /\ Job /\ Files
Abort ==
  /\ pc # "idle" /\ ~aborted /\ aborted' = TRUE
  /\ UNCHANGED <<pc, kind, mine, attempt, runs, answered, remote>> /\ Files
Crash ==
  /\ pc # "idle" /\ Settle
  /\ UNCHANGED <<remote, attempt, aborted, runs, answered>> /\ Files

Call == \/ Look \/ Refused \/ Upload \/ Create \/ AnswerLost \/ SaveId \/ Poll \/ PollAgain
        \/ Download \/ DownloadGarbled \/ Retry \/ Stop
BatchNext == Begin \/ Call \/ Finish \/ Abort \/ Crash
BatchSpec == BatchInit /\ [][BatchNext]_batchVars
\* Requests settle, the poll timer fires, and a batch ends within its 24 hours.
FairSpec == BatchSpec /\ WF_batchVars(Call) /\ WF_batchVars(Finish)
----------------------------------------------------------------------------
BatchOK ==
  /\ pc \in {"idle", "look", "upload", "create", "created", "poll", "delay", "download", "caught"}
  /\ kind \in Refusals \cup {None} /\ attempt \in 0 .. MaxRetries + 2 /\ runs \in 0 .. MaxRuns
  /\ {mine, record} \subseteq 0 .. Len(remote) \cup {None}
  /\ {output, aborted, answered} \subseteq BOOLEAN
  /\ kept \subseteq Created

\* Only a batch whose identifier never reached the disk can be paid for in vain:
\* among the others at most one gives a usable answer.
PaidOnceIfKept ==
  \A a, b \in kept : remote[a] = "good" /\ remote[b] = "good" => a = b

\* A call to the Batch API ends, with an answer or an error.
CallEnds == (pc # "idle") ~> (pc = "idle")
=============================================================================
