---------------------------------- MODULE Names ----------------------------------
(* The names of a book, made one after its last model read it: the resolver's   *)
(* decisions first, each of which may respell a name and its declined forms, and *)
(* then the glossary, for forms that only nearly have the name it gives.         *)
(* A word is a stem and the ending of its case, as far as nameStem can tell: it  *)
(* takes off the endings a language lists, and only if three letters are left.   *)
(* What it leaves on, the u of an accusative Evu or an ending that is not on the *)
(* list, is the rest. What counts in a book is which words stand where which     *)
(* entity is named; a mention is such a place.                                   *)
EXTENDS Naturals, FiniteSets, FiniteSetsExt, Sequences, SequencesExt

CONSTANTS Stems, Marks,
          NoMark,        \* the part of an ending that is not there
          Cases,         \* of each stem: the part nameStem leaves on it, and the one it takes off
          Nominative,    \* the case of a name as the glossary and the resolver give it
          Close,         \* pairs of what nameStem leaves that are a misspelling apart
          Entities,      \* what the source names
          MaxMentions    \* bound: different mentions in a book

ASSUME NamesAssumption ==
  /\ Cases \in [Stems -> SUBSET (Marks \X Marks)] /\ \A s \in Stems : Nominative[s] \in Cases[s]
  /\ MaxMentions \in Nat /\ IsFiniteSet(Entities)
  /\ \A p \in Close : <<p[2], p[1]>> \in Close /\ p[1] # p[2]

VARIABLES stage,
          mentions,   \* the book: who is named, the word the editor left, the word now
          glossary,   \* the stem of each entity's rendering
          decisions   \* of the resolver, in the order of its chunks
names == <<stage, mentions, glossary, decisions>>

Words == [stem : Stems, rest : Marks, ending : Marks, capital : BOOLEAN]
Word(stem, case, capital) == [stem |-> stem, rest |-> case[1], ending |-> case[2], capital |-> capital]
Name(stem) == Word(stem, Nominative[stem], TRUE)
\* What a book has: names in their cases, and ordinary words that look like one.
Forms == {w \in Words : LET case == <<w.rest, w.ending>> IN
              case \in Cases[w.stem] /\ (w.capital \/ case = Nominative[w.stem])}
NameStem(w) == <<w.stem, w.rest>>
Restemmed(w, canonical) == [w EXCEPT !.stem = canonical.stem, !.rest = canonical.rest]
AllMentions == {m \in [entity : Entities, was : Forms, word : Forms] : m.word = m.was}

Edited ==
  /\ stage = "edited" /\ decisions = <<>>
  /\ mentions \in UNION {kSubset(n, AllMentions) : n \in 1 .. MaxMentions}
  /\ glossary \in [Entities -> Stems]
----------------------------------------------------------------------------
Observed == {m.word : m \in mentions}
Evidence(e) == {m.word : m \in {x \in mentions : x.entity = e}}
\* replaceVariants: one pass, so that no replacement is replaced.
Replaced(f) == {[m EXCEPT !.word = IF m.word \in DOMAIN f THEN f[m.word] ELSE m.word] : m \in mentions}

(* applyConsistencyDecisions *)
\* isSafeVariant: the same word in the same case, misspelt, by what nameStem makes of both.
\* Mutant: the endings are not compared.
SafeStem(variant, canonical) == <<NameStem(variant), NameStem(canonical)>> \in Close
Safe(variant, canonical) ==
  <<NameStem(variant), NameStem(canonical)>> \in Close /\ variant.ending = canonical.ending
Canonicals == {d.canonical : d \in Range(decisions)}
\* What was settled for one entity is no variant of another, and the first decision counts.
\* Mutant: whatever the resolver calls a variant is one.
AcceptsSettled(d, w) == w \in d.variants /\ Safe(w, d.canonical) /\ w \in Evidence(d.source)
Accepts(d, w) ==
  w \in d.variants \ Canonicals /\ Safe(w, d.canonical) /\ w \in Evidence(d.source)
AcceptedBy(w) == {i \in DOMAIN decisions : Accepts(decisions[i], w)}
Variants == {w \in Observed : AcceptedBy(w) # {}}
Canonical(w) == decisions[Min(AcceptedBy(w))].canonical
\* A name that is respelt is respelt in its other cases, if nameStem takes an ending off it.
Declined(w) ==
  IF w \in Variants \cup Canonicals \/ ~w.capital THEN {}
  ELSE {v \in Variants : /\ v.capital /\ NameStem(v) = NameStem(w)
                         /\ v.ending # NoMark /\ NameStem(Canonical(v)) # NameStem(v)}
Declines(w) == CHOOSE v \in Declined(w) :
  \A x \in Declined(w) : Min(AcceptedBy(v)) <= Min(AcceptedBy(x))
Respelt ==
  [w \in Variants \cup {x \in Observed : Declined(x) # {}} |->
     IF Declined(w) # {} THEN Restemmed(w, Canonical(Declines(w))) ELSE Canonical(w)]
ApplyConsistencyDecisions == mentions' = Replaced(Respelt)

(* alignGlossaryVariants. The code leaves a rendering of three letters alone, and one that *)
(* is rare beside its canonical; here they may be aligned like any other.                  *)
Rendering(e) == Name(glossary[e])
Uses(e) == \E w \in Evidence(e) : w.stem = Rendering(e).stem /\ Rendering(e).rest \in {NoMark, w.rest}
Common(stem) == \E w \in Observed : ~w.capital /\ NameStem(w) = stem
Resembles(e, w) ==
  /\ w \in Evidence(e) /\ w.capital /\ <<NameStem(w), NameStem(Rendering(e))>> \in Close
  /\ ~Common(NameStem(w)) /\ \A x \in Entities : NameStem(w) # NameStem(Rendering(x))
\* Of a near-identical form only the stem is corrected, and only to a form the book has.
Corrects(e, w) == Uses(e) /\ Resembles(e, w) /\ Restemmed(w, Rendering(e)) \in Observed
Corrected(w) == {e \in Entities : Corrects(e, w)}
Aligned ==
  {f \in [{w \in Observed : Corrected(w) # {}} -> Observed] :
     \A w \in DOMAIN f : \E e \in Corrected(w) : f[w] = Restemmed(w, Rendering(e))}
AlignGlossaryVariants == \E f \in Aligned : mentions' = Replaced(f)
----------------------------------------------------------------------------
(* runConsistencyPass *)
\* The resolver is shown the words of an entity and may answer with any of them.
Decisions(e) == {[source |-> e, canonical |-> Name(s), variants |-> v] :
                   s \in Stems, v \in (SUBSET Evidence(e)) \ {{}}}
Resolve ==
  /\ stage = "edited" /\ stage' = "resolved"
  /\ \E asked \in SUBSET Entities :
       \E answer \in [asked -> UNION {Decisions(e) : e \in Entities}] :
         /\ \A e \in asked : answer[e].source = e
         /\ \E order \in SetToSeqs(asked) : decisions' = [i \in DOMAIN order |-> answer[order[i]]]
  /\ UNCHANGED <<mentions, glossary>>
Decide ==
  /\ stage = "resolved" /\ stage' = "decided" /\ ApplyConsistencyDecisions
  /\ UNCHANGED <<glossary, decisions>>
Align ==
  /\ stage = "decided" /\ stage' = "aligned" /\ AlignGlossaryVariants
  /\ UNCHANGED <<glossary, decisions>>
Pass == Resolve \/ Decide \/ Align
NamesSpec == Edited /\ [][Pass]_names
----------------------------------------------------------------------------
\* Names change and their cases do not: whatever the resolver answers, "a decision may
\* re-spell a name; it may not rename one, and it may not re-inflect one", and the glossary
\* keeps the ending of what it corrects (consistency-service.ts:896, 1042). So it is where
\* nameStem sees all of an ending, in the book, in the decisions and in the glossary.
Case(w) == <<w.rest, w.ending>>
Regular ==
  \A w \in {m.was : m \in mentions} \cup Canonicals \cup {Rendering(e) : e \in Entities} : w.rest = NoMark
CasesStand == stage \in {"decided", "aligned"} /\ Regular => \A m \in mentions : Case(m.word) = Case(m.was)

\* "It may not re-inflect one" (consistency-service.ts:896), whatever the name.
NothingReinflected == stage = "decided" => \A m \in mentions : Case(m.word) = Case(m.was)

\* What one decision settled no other decision renames, neither as its variant nor as a case
\* of one ("A rendering another decision settled on is that entity's answer").
SettledNamesStand == stage = "decided" => \A m \in mentions : m.was \in Canonicals => m.word = m.was

\* The glossary is "for whatever it could not decide": what a decision made of a name stays.
DecisionsStand ==
  stage = "aligned" =>
    \A i \in DOMAIN decisions : \A m \in mentions :
      m.entity = decisions[i].source /\ m.was = decisions[i].canonical => m.word = m.was
=============================================================================
