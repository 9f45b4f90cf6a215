------------------------------- MODULE Calls -------------------------------
(* How a batch of segments becomes provider calls: processBatch with its      *)
(* retries, its halving, the recovery of empty answers and the adaptive split *)
(* of an oversized text; under it UsageTrackingProvider, whose journal writes *)
(* form one chain, and the chat transport, whose cooldown every worker shares.*)
(* processChunk calls itself: a worker keeps its pending invocations on a     *)
(* stack. A text is a sequence of characters <<kind, position>>; the answer   *)
(* to a text is what a faithful translation covers: all of it but the spaces. *)
EXTENDS Integers, FiniteSets, SequencesExt

CONSTANTS Workers,      \* the pool of one run
          None,
          Inputs,       \* the batches the pool may be given, [Workers -> Seq(text)]
          Modes,        \* "translation", "editing"
          MaxSegments,  \* MAX_BATCH_SEGMENTS
          MaxRetries,
          MaxFaults,    \* bound: failed writes of the usage journal
          MaxTime       \* bound: how often a provider asks everyone to wait

\* A character, and the place it has in the text it comes from.
Chars == {"letter", "space", "stop"} \X Nat

\* Text that is nothing but spaces is no segment.
ASSUME CallsAssumption ==
  /\ Inputs \subseteq [Workers -> Seq(Seq(Chars))]
  /\ \A given \in Inputs : \A w \in Workers : \A i \in DOMAIN given[w] :
       \E j \in DOMAIN given[w][i] : given[w][i][j][1] # "space"
  /\ MaxSegments \in Nat \ {0}
  /\ MaxRetries \in Nat /\ MaxFaults \in Nat /\ MaxTime \in Nat
  /\ Modes \subseteq {"translation", "editing"}

VARIABLES batch, mode,   \* the input of this behaviour
          call,          \* what each worker is doing with its batch
          aborted,       \* the signal of the run
          lapsed,        \* the delegation no longer holds
          chain,         \* the promise every usage write is chained to
          now, cooldownUntil,
          lost           \* history: an answer was paid for and thrown away
vars == <<batch, mode, call, aborted, lapsed, chain, now, cooldownUntil, lost>>
----------------------------------------------------------------------------
(* Texts. *)
IsSpace(c) == c[1] = "space"
IsStop(c) == c[1] = "stop"
Solid(text) == {i \in DOMAIN text : ~IsSpace(text[i])}
\* The elements of s at the positions in G, in their order.
Selected(s, G) ==
  LET some[n \in 0 .. Len(s)] ==
        IF n = 0 THEN <<>> ELSE IF n \in G THEN Append(some[n - 1], s[n]) ELSE some[n - 1]
  IN some[Len(s)]
Covered(text) == Selected(text, Solid(text))
TrimEnd(text) == IF Solid(text) = {} THEN <<>> ELSE SubSeq(text, 1, Max(Solid(text)))
TrimStart(text) == IF Solid(text) = {} THEN <<>> ELSE SubSeq(text, Min(Solid(text)), Len(text))

\* Where a text may be cut: before a space or after the end of a sentence.
Cuts(text) == {i \in 1 .. Len(text) - 1 : IsSpace(text[i + 1]) \/ IsStop(text[i])}
Distance(i, j) == IF i < j THEN j - i ELSE i - j
Boundary(text) ==
  LET middle == Len(text) \div 2
  IN IF Cuts(text) = {} THEN middle
     ELSE CHOOSE i \in Cuts(text) : \A j \in Cuts(text) :
            \/ Distance(i, middle) < Distance(j, middle)
            \/ Distance(i, middle) = Distance(j, middle) /\ i <= j
LeftOf(text) == TrimEnd(SubSeq(text, 1, Boundary(text)))
RightOf(text) == TrimStart(SubSeq(text, Boundary(text) + 1, Len(text)))
Splits(text) == Len(text) >= 2 /\ LeftOf(text) # <<>> /\ RightOf(text) # <<>>

(* Segments, pieces of them, and invocations of processChunk. *)
Piece(id, text) == [id |-> id, text |-> text]
Segments(w) == [i \in DOMAIN batch[w] |-> Piece(<<i>>, batch[w][i])]
Answer(piece) == [piece EXCEPT !.text = Covered(@)]
Answers(chunk) == [i \in DOMAIN chunk |-> Answer(chunk[i])]
Slice(w, from) ==
  LET last == IF from + MaxSegments > Len(batch[w]) THEN Len(batch[w]) ELSE from + MaxSegments - 1
  IN SubSeq(Segments(w), from, last)
\* An invocation: the attempt it is at, what the last one was refused with, and,
\* once it has invoked itself, the plan for the answers (got) still to come.
Invocation(chunk) ==
  [chunk |-> chunk, at |-> "ask", attempt |-> 0, wake |-> 0, kind |-> None, empty |-> {},
   plan |-> None, got |-> <<>>, rest |-> <<>>]

Idle == [stack |-> <<>>, answers |-> <<>>, attempts |-> 0, outcome |-> "done"]
Given(w) == [stack |-> <<Invocation(Slice(w, 1))>>, answers |-> <<>>, attempts |-> 0,
             outcome |-> "working"]

Init ==
  /\ batch \in Inputs /\ mode \in Modes
  /\ call = [w \in Workers |-> IF batch[w] = <<>> THEN Idle ELSE Given(w)]
  /\ aborted = FALSE /\ lapsed = FALSE /\ chain = 0 /\ lost = FALSE
  /\ now = 0 /\ cooldownUntil = 0
----------------------------------------------------------------------------
(* The invocation that runs, and what it does next. *)
Top(w) == Last(call[w].stack)
At(w, at) == call[w].stack # <<>> /\ Top(w).at = at
Becomes(s, frame) == [s EXCEPT !.stack = Append(Front(@), frame)]
Goes(w, at) == call' = [call EXCEPT ![w] = Becomes(@, [Top(w) EXCEPT !.at = at])]
Caught(w, kind, empty) ==
  call' = [call EXCEPT ![w] =
             Becomes(@, [Top(w) EXCEPT !.at = "caught", !.kind = kind, !.empty = empty])]
\* The running invocation waits for another one of itself.
Invokes(w, frame, chunk) ==
  call' = [call EXCEPT ![w].stack = Front(@) \o <<[frame EXCEPT !.at = "child"], Invocation(chunk)>>]
\* Its answer goes to the invocation that waits for it, or ends a slice.
Returns(w, answers) ==
  LET s == call[w]  below == Front(s.stack)  got == s.answers \o answers IN
  call' = [call EXCEPT ![w] =
    IF below # <<>>
    THEN [s EXCEPT !.stack = Append(Front(below),
                               [Last(below) EXCEPT !.at = "back", !.got = Append(@, answers)])]
    ELSE IF Len(got) < Len(batch[w])
    THEN [s EXCEPT !.answers = got, !.stack = <<Invocation(Slice(w, Len(got) + 1))>>]
    ELSE [s EXCEPT !.answers = got, !.stack = <<>>, !.outcome = "done"]]
Throws(w) == call' = [call EXCEPT ![w].stack = <<>>, ![w].outcome = "failed"]

Fixed == UNCHANGED <<batch, mode>>
Same == Fixed /\ UNCHANGED <<aborted, lapsed, chain, now, cooldownUntil, lost>>
----------------------------------------------------------------------------
(* One attempt: the guard, the cooldown, the request. An error that is not a  *)
(* ProviderError carries no kind.                                             *)
Counted(w) == [call EXCEPT ![w].attempts = @ + 1]
AskedTo(w, at) ==
  call' = [Counted(w) EXCEPT ![w] = Becomes(@, [Top(w) EXCEPT !.at = at, !.kind = None, !.empty = {},
                                                             !.wake = cooldownUntil])]
Ask(w) ==
  /\ At(w, "ask")
  /\ AskedTo(w, IF lapsed \/ aborted THEN "caught" ELSE IF cooldownUntil > now THEN "cool" ELSE "sent")
  /\ Same
Cooled(w) == At(w, "cool") /\ ~aborted /\ now >= Top(w).wake /\ Goes(w, "sent") /\ Same
CutShort(w) ==
  /\ aborted
  /\ At(w, "cool") \/ At(w, "sent")
  /\ Caught(w, None, {})
  /\ Same

(* What comes back is recorded before it is used. A write that fails rejects  *)
(* the chain, and with it the promise of every later write.                   *)
Recorded(f) == f \in BOOLEAN /\ (f => chain < MaxFaults) /\ chain' = IF f THEN chain + 1 ELSE chain
Broken == chain' > 0
Answered(w, fault) ==
  /\ At(w, "sent") /\ Recorded(fault)
  /\ IF Broken THEN Caught(w, None, {}) ELSE Returns(w, Answers(Top(w).chunk))
  /\ lost' = (lost \/ Broken)
  /\ Fixed /\ UNCHANGED <<aborted, lapsed, now, cooldownUntil>>

Kinds == {"temporary", "configuration", "request_too_large", "invalid_response"}
\* Only a translation comes back with empty segments: an empty edit is replaced
\* by its input before the answer is validated.
Empties(w, kind) ==
  IF kind = "invalid_response" /\ mode = "translation" THEN SUBSET DOMAIN Top(w).chunk ELSE {{}}
Refused(w, fault, kind, pause) ==
  /\ At(w, "sent") /\ Recorded(fault)
  /\ pause => kind = "temporary" /\ now < MaxTime
  /\ \E empty \in Empties(w, kind) :
       IF Broken THEN Caught(w, None, {}) ELSE Caught(w, kind, empty)
  /\ cooldownUntil' = IF pause THEN now + 1 ELSE cooldownUntil
  /\ Fixed /\ UNCHANGED <<aborted, lapsed, now, lost>>
----------------------------------------------------------------------------
(* The catch block: the first case that applies, in the order of the code.    *)
Halved(w) ==
  LET f == Top(w)  middle == (Len(f.chunk) + 1) \div 2
  IN Invokes(w, [f EXCEPT !.plan = "halves", !.rest = SubSeq(f.chunk, middle + 1, Len(f.chunk))],
             SubSeq(f.chunk, 1, middle))
Recoverable(f) == f.empty # {} /\ f.empty # DOMAIN f.chunk
Oversized(f) ==
  /\ f.kind = "request_too_large"
  /\ Len(f.chunk) > 1 \/ (mode = "translation" /\ Splits(f.chunk[1].text))
\* retryDecision: an error without a kind counts as an invalid response.
Budget(f) ==
  CASE f.kind = "temporary" -> MaxRetries + 2
    [] f.kind \in {"invalid_response", None} -> MaxRetries
    [] OTHER -> 0
\* Mutant: one attempt too many.
MayRetryOnceMore(f) == f.attempt <= Budget(f)
MayRetry(f) == f.attempt < Budget(f)

\* Mutant: the whole chunk is asked for again.
AllOnes(f) == f.chunk
EmptyOnes(f) == Selected(f.chunk, f.empty)
Recover(w) ==
  /\ At(w, "caught") /\ Recoverable(Top(w))
  /\ Invokes(w, [Top(w) EXCEPT !.plan = "recover"], EmptyOnes(Top(w)))
  /\ Same
HalveOversized(w) ==
  /\ At(w, "caught") /\ ~Recoverable(Top(w)) /\ Oversized(Top(w)) /\ Len(Top(w).chunk) > 1
  /\ Halved(w)
  /\ Same
SplitText(w) ==
  /\ At(w, "caught") /\ Oversized(Top(w)) /\ Len(Top(w).chunk) = 1
  /\ LET f == Top(w)  piece == f.chunk[1] IN
     Invokes(w, [f EXCEPT !.plan = "split", !.rest = <<Piece(Append(piece.id, 2), RightOf(piece.text))>>],
             <<Piece(Append(piece.id, 1), LeftOf(piece.text))>>)
  /\ Same
Otherwise(w) == At(w, "caught") /\ ~Recoverable(Top(w)) /\ ~Oversized(Top(w))
Retry(w) ==
  /\ Otherwise(w) /\ MayRetry(Top(w))
  /\ IF aborted THEN Throws(w) ELSE Goes(w, "delay")
  /\ Same
HalveInvalid(w) ==
  /\ Otherwise(w) /\ ~MayRetry(Top(w))
  /\ Top(w).kind \in {"invalid_response", None} /\ Len(Top(w).chunk) > 1
  /\ Halved(w)
  /\ Same
GiveUp(w) ==
  /\ Otherwise(w) /\ ~MayRetry(Top(w))
  /\ Top(w).kind \notin {"invalid_response", None} \/ Len(Top(w).chunk) = 1
  /\ Throws(w)
  /\ Same

(* The delay before the next attempt. *)
Wake(w) ==
  /\ At(w, "delay") /\ ~aborted
  /\ call' = [call EXCEPT ![w] = Becomes(@, [Top(w) EXCEPT !.at = "ask", !.attempt = @ + 1])]
  /\ Same
\* Mutant: the timer is cleared and nothing rejects the promise.
DelayHangs(w) == At(w, "delay") /\ aborted /\ Goes(w, "delay") /\ Same
DelayAborted(w) == At(w, "delay") /\ aborted /\ Throws(w) /\ Same

(* An invocation gets the answer it waited for. *)
Merged(f) ==
  [i \in DOMAIN f.chunk |->
     IF i \in f.empty
     THEN f.got[1][CHOOSE j \in DOMAIN f.got[1] : f.got[1][j].id = f.chunk[i].id]
     ELSE Answer(f.chunk[i])]
\* Mutant: the half that was answered last comes first.
JoinedTailFirst(f) ==
  IF f.plan = "halves" THEN f.got[2] \o f.got[1]
  ELSE <<Piece(f.chunk[1].id, f.got[1][1].text \o f.got[2][1].text)>>
Joined(f) ==
  IF f.plan = "halves" THEN f.got[1] \o f.got[2]
  ELSE <<Piece(f.chunk[1].id, f.got[1][1].text \o f.got[2][1].text)>>
Resume(w) ==
  /\ At(w, "back")
  /\ LET f == Top(w) IN
     CASE f.plan = "recover" -> Returns(w, Merged(f))
       [] f.plan # "recover" /\ Len(f.got) = 1 -> Invokes(w, f, f.rest)
       [] OTHER -> Returns(w, Joined(f))
  /\ Same

(* The outside: a pause, the end of the delegation, time. *)
Abort ==
  /\ ~aborted /\ aborted' = TRUE
  /\ Fixed /\ UNCHANGED <<call, lapsed, chain, now, cooldownUntil, lost>>
Lapse ==
  /\ ~lapsed /\ lapsed' = TRUE
  /\ Fixed /\ UNCHANGED <<call, aborted, chain, now, cooldownUntil, lost>>
Tick ==
  /\ now < cooldownUntil /\ now' = now + 1
  /\ Fixed /\ UNCHANGED <<call, aborted, lapsed, chain, cooldownUntil, lost>>

Step(w) ==
  \/ Ask(w) \/ Cooled(w) \/ CutShort(w)
  \/ \E fault \in BOOLEAN : Answered(w, fault)
  \/ \E fault, pause \in BOOLEAN, kind \in Kinds : Refused(w, fault, kind, pause)
  \/ Recover(w) \/ HalveOversized(w) \/ SplitText(w)
  \/ Retry(w) \/ HalveInvalid(w) \/ GiveUp(w)
  \/ Wake(w) \/ DelayAborted(w) \/ Resume(w)
Next == Abort \/ Lapse \/ Tick \/ \E w \in Workers : Step(w)
Spec == Init /\ [][Next]_vars
\* Awaits settle: a request ends by its timeout, timers fire, time passes.
FairSpec == Spec /\ WF_vars(Tick) /\ \A w \in Workers : WF_vars(Step(w))
----------------------------------------------------------------------------
(* Types. *)
Points == {"ask", "cool", "sent", "caught", "delay", "child", "back"}
TypeOK ==
  /\ mode \in Modes /\ {aborted, lapsed, lost} \subseteq BOOLEAN
  /\ chain \in 0 .. MaxFaults /\ now \in 0 .. MaxTime /\ cooldownUntil \in 0 .. MaxTime
  /\ \A w \in Workers :
       /\ call[w].outcome \in {"working", "done", "failed"}
       /\ (call[w].stack = <<>>) = (call[w].outcome # "working")
       /\ \A k \in DOMAIN call[w].stack :
            /\ call[w].stack[k].at \in Points
            /\ (call[w].stack[k].at = "child") = (k < Len(call[w].stack))

\* Whatever was halved, split, recovered or retried on the way, a batch that ends
\* well has one answer per segment, in the order asked, and each covers its whole
\* segment once (translation-service.ts, "without dropping any source characters").
AnsweredInOrder ==
  \A w \in Workers : call[w].outcome = "done" => call[w].answers = Answers(Segments(w))

\* A batch never costs more than one invocation per node of a binary tree over its
\* indivisible parts, each with its retries: halving and splitting do not multiply.
Size(m, piece) == IF m = "translation" THEN Len(Covered(piece.text)) ELSE 1
Load(m, chunk) ==
  LET sum[n \in 0 .. Len(chunk)] == IF n = 0 THEN 0 ELSE sum[n - 1] + Size(m, chunk[n])
  IN sum[Len(chunk)]
Parts(w) == Load(mode, Segments(w))
SlicesOf(w) == (Len(batch[w]) + MaxSegments - 1) \div MaxSegments
CallsBounded ==
  \A w \in Workers : call[w].attempts <= (MaxRetries + 3) * (2 * Parts(w) - SlicesOf(w))

\* What was answered is never asked for again, however the invocations nest: a
\* second half, the empty ones of a chunk or the rest of a text are asked for
\* without what came back before them (translation-service.ts:104). Only a refusal
\* of the whole answer is retried whole.
Characters(pieces) == UNION {{<<p.id[1], c>> : c \in Range(p.text)} : p \in Range(pieces)}
CameBack(f) ==
  UNION {Characters(answers) : answers \in Range(f.got)}
  \cup IF f.plan = "recover"
       THEN Characters(Answers(Selected(f.chunk, DOMAIN f.chunk \ f.empty))) ELSE {}
AnsweredNotAskedAgain ==
  \A w \in Workers : At(w, "sent") =>
    Characters(Answers(Top(w).chunk))
      \cap (Characters(call[w].answers) \cup UNION {CameBack(f) : f \in Range(call[w].stack)}) = {}

\* Every batch ends, well or not.
BatchesEnd == \A w \in Workers : <>(call[w].outcome # "working")
=============================================================================
