---------------------------- MODULE MCAuthority ----------------------------
(* Small instances of Authority for TLC. *)
EXTENDS Authority, TLC

\* Two bookings are one too many for the lower limit.
Amounts == [c \in Clients |-> 1]
Symmetry == Permutations(Clients)
=============================================================================
