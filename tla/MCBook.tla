-------------------------------- MODULE MCBook --------------------------------
(* A small instance of Book for TLC. One unit lacks a number or is in the script *)
(* of the source; the other is fine with a title in Latin letters, or holds a    *)
(* word of the source in its place.                                              *)
EXTENDS Book, TLC

CONSTANTS u1, u2
Shape(kind, latin) == [kind |-> kind, latin |-> latin]
SomeShapes ==
  (u1 :> {Shape("kept", 0), Shape("script", 0)})
    @@ (u2 :> {Shape("fine", 1), Shape("word", 1)})
\* An answer of the critic is read wholly or not at all, and has findings of both
\* weights for the first unit only.
SmallNext == Next /\ unjudged' \in {{}, Units} /\ verdict'[u2] # "noted"
SmallSpec == Init /\ [][SmallNext]_vars /\ WF_vars(Stage \/ Ending)
===============================================================================
