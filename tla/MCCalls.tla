------------------------------- MODULE MCCalls -------------------------------
(* Small instances of Calls for TLC. *)
EXTENDS Calls, TLC

CONSTANTS w1, w2
Word(kinds) == [i \in DOMAIN kinds |-> <<kinds[i], i>>]
Short == Word(<<"letter">>)
L == "letter"
Texts == {<<L, "space", "space", L>>, <<L, L, "space", L>>, <<L, "stop", L>>, <<L, L>>}
\* Slices and halves, splits of one text, or two workers that share a run.
Batches ==
  {(w1 :> <<Short, Short, Short>>) @@ (w2 :> <<>>), (w1 :> <<Short>>) @@ (w2 :> <<Short>>)}
  \cup {(w1 :> <<Word(t)>>) @@ (w2 :> <<>>) : t \in Texts}
=============================================================================
