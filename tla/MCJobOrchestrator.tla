------------------------- MODULE MCJobOrchestrator -------------------------
(* Small instances of JobOrchestrator for TLC. *)
EXTENDS JobOrchestrator, FiniteSets, TLC

Requests == Permutations(Reqs)

ControlOps == {"analyze", "start", "pause", "resume", "retry"}
AllOps == ControlOps \cup {"invalidate", "source", "config", "rebuild", "delete"}

\* One job boots ready to start. Three requests contend for the other one, or any
\* two requests, those that change the job's files included, for both and the slot.
CONSTANT Ready
Sent == {r \in Reqs : pc[r] # "unsent"}
Contention ==
  \/ Cardinality(Sent) <= 2
  \/ \A r \in Sent : op[r] \in ControlOps /\ target[r] # Ready
ContentionInit == Init /\ state[Ready] = [status |-> "ready", stage |-> "translation"]
Served ==
  /\ \A r \in Sent : pc[r] = "done"
  /\ slot = Free /\ settled = None /\ stragglers = {} /\ recovering = {} /\ UNCHANGED vars
ContentionNext ==
  \/ \E r \in Reqs, o \in Ops, j \in Jobs : Send(r, o, j) /\ Contention'
  \/ Work \/ Served
ContentionSpec == ContentionInit /\ [][ContentionNext]_vars
=============================================================================
