----------------------------- MODULE MCJournal -----------------------------
(* Small instances of Journal for TLC. *)
EXTENDS Journal

CONSTANTS o1, o2, r1, r2, b1, b2

BatchOf == [r \in Records |-> IF r \in {o1, r1} THEN b1 ELSE b2]

\* No file; whole records; a last line that lacks its newline, or is torn; a
\* torn line, or one that lacks its newline, with another record glued to it.
Found == { <<>>,
           Line(o1) \o Line(o2),
           Line(o1) \o << <<o2, 1>>, <<o2, 2>> >>,
           Line(o1) \o << <<o2, 1>> >>,
           << <<o1, 1>> >> \o Line(o2),
           << <<o1, 1>>, <<o1, 2>> >> \o Line(o2) }
=============================================================================
