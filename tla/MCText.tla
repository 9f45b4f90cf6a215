--------------------------------- MODULE MCText ---------------------------------
(* The three computations on a book that no model takes part in, on small books: *)
(* the way of its text through the batches, the respelling of its names, and the *)
(* conformance repair of what was built. A behaviour is one of the three.        *)
EXTENDS Text, Names, Repair, TLC

\* Two links, emphasis, and emphasis inside a link.
Chains == {<<>>, <<"em">>, <<"a1">>, <<"a1", "em">>, <<"a2">>}
Tagged == [e \in Elements |-> IF e = "em" THEN "em" ELSE "a"]
\* It does not matter what is in front of the first block, nor which link is the first.
\* A document has at most four sentences.
InOrder == \A n \in DOMAIN doc : doc[n].format = <<"a2">> => \E m \in 1 .. n : "a1" \in Range(doc[m].format)
SmallDoc == /\ Extracted /\ doc[1].block = 0 /\ InOrder
            /\ Len(Joined([n \in DOMAIN doc |-> doc[n].text])) <= 4

\* Three long stems, the second one like the others, and a short one, from which no ending is
\* taken off, so that its cases are near each other.
CONSTANTS s1, s2, s3, short
CasesOf == [s \in Stems |-> IF s = short THEN {<<"a", "-">>, <<"u", "-">>} ELSE {<<"-", "a">>, <<"-", "u">>}]
Nominatives == [s \in Stems |-> IF s = short THEN <<"a", "-">> ELSE <<"-", "a">>]
Misspelt ==
  {<< <<s1, "-">>, <<s2, "-">> >>, << <<s2, "-">>, <<s3, "-">> >>, << <<short, "a">>, <<short, "u">> >>}
CloseStems == Misspelt \cup {<<p[2], p[1]>> : p \in Misspelt}
WhoIsWho == Permutations(Entities) \cup Permutations({s1, s3})

\* "1" and "1)" are both cleaned to id-1, which another element may have, and one begins the
\* other. An entry of the archive is looked for in documents of two elements.
IdOf(n) == IF n = 1 THEN <<"id-", "1">> ELSE <<"id-", "1", <<"-2", "-3", "-4">>[n - 1]>>
OldIds == {<<"id-", "1">>, <<"1">>, <<"1", ")">>}
ValidIds == {<<"id-", "1">>}
FreshIds == [v \in Ids |-> [n \in 1 .. 4 |-> IdOf(n)]]
Letters == {"id-", "1", ")", "-2", "-3", "-4", "[", " ", "_", "a", "%5B", "%5b", "%20"}
Escape == [c \in Letters |-> CASE c = "[" -> "%5B" [] c = " " -> "%20" [] OTHER -> c]
InLower == [c \in Letters |-> IF c = "%5B" THEN "%5b" ELSE c]
OldPaths == {<<"[", " ">>, <<"_">>, <<"a">>}
CleanPaths == [p \in Paths |-> IF p = <<"[", " ">> THEN <<"_">> ELSE p]
SmallBook == Found /\ (archive # {} => Len(document) <= 2)

NoText ==
  /\ reached = "none" /\ doc = <<>> /\ units = <<>> /\ batches = <<>> /\ edits = <<>>
  /\ values = <<>> /\ out = <<>>
NoNames == stage = "none" /\ mentions = {} /\ glossary = <<>> /\ decisions = <<>>
NoRepair ==
  /\ progress = "none" /\ kind = "none" /\ document = <<>> /\ entries = <<>>
  /\ original = <<>> /\ archive = {}
MCInit ==
  (SmallDoc /\ NoNames /\ NoRepair) \/ (Edited /\ NoText /\ NoRepair) \/ (SmallBook /\ NoText /\ NoNames)
MCNext ==
  \/ Carries /\ UNCHANGED <<names, repair>>
  \/ Pass /\ UNCHANGED <<way, repair>>
  \/ Mends /\ UNCHANGED <<way, names>>
MCSpec == MCInit /\ [][MCNext]_<<way, names, repair>>
=============================================================================
