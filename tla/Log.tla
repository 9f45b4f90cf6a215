-------------------------------- MODULE Log --------------------------------
(***************************************************************************)
(* What callers of src/server/storage/ndjson-journal.ts may count on: a    *)
(* log of whole records.  Appends are served one at a time, in the order   *)
(* they were asked for.  A record is readable before it is acknowledged    *)
(* and safe once it is.  The records of a batch are dropped by rewriting   *)
(* the log, which is not atomic: readers see it empty and growing again,   *)
(* and until the next acknowledgment a power loss may cut it short or      *)
(* bring the old one back.                                                 *)
(***************************************************************************)
EXTENDS Naturals, Sequences, SequencesExt

CONSTANTS Records, Batches, Batch   \* Batch[r]: the batch r belongs to

VARIABLES
    log,        \* what a reader gets
    saved,      \* log as of the last acknowledgment or power loss
    queue,      \* appends asked for and not answered, oldest first
    landed,     \* the oldest of them is readable
    rest,       \* what the rewrite in progress has still to put back
    rewritten   \* the log was rewritten after saved

vars == <<log, saved, queue, landed, rest, rewritten>>

Init == /\ log \in Seq(Records)
        /\ saved = log
        /\ queue = <<>> /\ landed = FALSE
        /\ rest = <<>> /\ rewritten = FALSE

Request(r) == /\ rest = <<>>
              /\ queue' = Append(queue, r)
              /\ UNCHANGED <<log, saved, landed, rest, rewritten>>

Land == /\ queue # <<>> /\ ~landed
        /\ log' = Append(log, Head(queue))
        /\ landed' = TRUE
        /\ UNCHANGED <<saved, queue, rest, rewritten>>

Acknowledge == /\ landed
               /\ queue' = Tail(queue) /\ landed' = FALSE
               /\ saved' = log /\ rewritten' = FALSE
               /\ UNCHANGED <<log, rest>>

\* One append fails; it may have left its record.  Those behind it go on.
Reject == /\ queue # <<>>
          /\ queue' = Tail(queue) /\ landed' = FALSE
          /\ UNCHANGED <<log, saved, rest, rewritten>>

\* The records that are not of the batches bs.
Kept(records, bs) ==
    LET kept[n \in 0..Len(records)] ==
          IF n = 0 THEN <<>>
          ELSE IF Batch[records[n]] \in bs THEN kept[n - 1]
          ELSE Append(kept[n - 1], records[n])
    IN  kept[Len(records)]

Drop(bs) == /\ queue = <<>> /\ rest = <<>>
            /\ log' = <<>>
            /\ rest' = Kept(log, bs)
            /\ rewritten' = TRUE
            /\ UNCHANGED <<saved, queue, landed>>

PutBack == /\ rest # <<>>
           /\ log' = Append(log, Head(rest)) /\ rest' = Tail(rest)
           /\ UNCHANGED <<saved, queue, landed, rewritten>>

\* The rewrite fails midway.
Abandon == /\ rest # <<>>
           /\ rest' = <<>>
           /\ UNCHANGED <<log, saved, queue, landed, rewritten>>

\* The process ends: what is unanswered is forgotten.
Kill == /\ queue' = <<>> /\ landed' = FALSE /\ rest' = <<>>
        /\ UNCHANGED <<log, saved, rewritten>>

PowerLoss == /\ \/ log' = saved
                \/ log' \in Prefixes(log) /\ (~rewritten => IsPrefix(saved, log'))
             /\ saved' = log' /\ rewritten' = FALSE
             /\ queue' = <<>> /\ landed' = FALSE /\ rest' = <<>>

Next == \/ \E r \in Records : Request(r)
        \/ \E bs \in SUBSET Batches : Drop(bs)
        \/ Land \/ Acknowledge \/ Reject \/ PutBack \/ Abandon
        \/ Kill \/ PowerLoss

Spec == Init /\ [][Next]_vars
=============================================================================
