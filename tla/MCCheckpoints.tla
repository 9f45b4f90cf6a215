--------------------------- MODULE MCCheckpoints ---------------------------
(* Small instances of Checkpoints for TLC. *)
EXTENDS Checkpoints, TLC

CONSTANTS t1, t2, t3

\* The first two texts have the same segment ids, the third has others.
Shapes == [t \in Texts |-> IF t = t3 THEN 2 ELSE 1]

Names == Permutations(Contexts)

\* Two batches in standard quality for two runs and two texts, one in high
\* quality for three runs and three texts, or one in standard quality for four
\* runs and two changes between two texts.  What the texts are called at first
\* does not matter.
SmallInit == /\ Init
             /\ quality = "high" => size = 1
             /\ \A b \in 1..MaxSize : src[b] = t1
Runs == IF quality = "high" THEN 3 ELSE IF size = 2 THEN 2 ELSE 4
SmallNext ==
    /\ IF changes = 1 /\ Runs < 4 THEN Analyze \/ Running ELSE Next
    /\ runs' <= Runs
    /\ quality = "standard" => \A b \in Batches : src'[b] # t3
    /\ \A b \in (1..MaxSize) \ Batches : src'[b] = t1
SmallSpec == SmallInit /\ [][SmallNext]_vars
=============================================================================
