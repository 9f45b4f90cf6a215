---------------------------------- MODULE Text ----------------------------------
(* The way of a document's text: from its text nodes to the blocks a model is  *)
(* asked about, into batches and pieces of bounded size, and back to the nodes *)
(* after the answers came, in whatever order.                                  *)
EXTENDS Naturals, Sequences, FiniteSets, SequencesExt, Functions

CONSTANTS MaxNodes,     \* bound: nodes of a document
          Lengths,      \* of a sentence
          MaxSentences, \* bound: sentences of a text node
          Elements,     \* the inline elements of a document
          Tag,          \* what each is called: two links are both "a"
          Formats,      \* chains of elements around a node, outermost first
          Decorative,   \* the tags whose markup may be given up
          Islands,      \* a document may have elements that are not translated
          MaxChars, MaxSegments

ASSUME TextAssumption ==
  /\ {MaxNodes, MaxSentences, MaxChars, MaxSegments} \subseteq Nat \ {0}
  /\ Lengths \subseteq Nat \ {0} /\ Islands \in BOOLEAN
  /\ Formats \subseteq Seq(Elements) /\ DOMAIN Tag = Elements

VARIABLES reached, \* how far the document has come
          doc,     \* the nodes of the document, in reading order
          units,   \* its logical blocks
          batches, \* what is asked, each a sequence of pieces
          edits,   \* the answers that came
          values,  \* the text of a unit, whole again
          out      \* the text of each node of the book that is built
way == <<reached, doc, units, batches, edits, values, out>>

(* A node is a text, a sequence of sentences, or an island: code, an image, a   *)
(* formula, whose content extraction skips. A sentence is known by its node.    *)
Sentences(n, lengths) == [i \in DOMAIN lengths |-> [node |-> n, at |-> i, length |-> lengths[i]]]
IsText(n) == doc[n].text # <<>>
Shapes == [block : {0, 1}, format : Formats, lengths : BoundedSeq(Lengths, MaxSentences)]
\* A block that begins, and one that ends, begins a new one.
BlockOf(shapes, n) == Cardinality({m \in 1 .. n : shapes[m].block = 1})
Document(shapes) ==
  [n \in DOMAIN shapes |-> [block  |-> BlockOf(shapes, n), format |-> shapes[n].format,
                            text   |-> Sentences(n, shapes[n].lengths)]]
\* The elements around a node whose boundary carries meaning. The decorative ones are told
\* apart by their tag alone; of these each is an element, and lies in one place.
Boundaries(format) == {e \in Range(format) : Tag[e] \notin Decorative}
InOnePlace(nodes) ==
  \A m, n \in DOMAIN nodes : m < n =>
    \A e \in Boundaries(nodes[m].format) \cap Boundaries(nodes[n].format) :
      /\ nodes[m].block = nodes[n].block
      /\ \A k \in m .. n : nodes[k].text # <<>> => e \in Boundaries(nodes[k].format)
Documents ==
  {nodes \in {Document(shapes) : shapes \in {s \in BoundedSeq(Shapes, MaxNodes) :
     /\ \E n \in DOMAIN s : s[n].lengths # <<>>
     /\ \A n \in DOMAIN s : s[n].lengths = <<>> => Islands /\ s[n].block = 0 /\ s[n].format = <<>>}} :
     InOnePlace(nodes)}

Extracted ==
  /\ reached = "source" /\ doc \in Documents
  /\ units = <<>> /\ batches = <<>> /\ edits = <<>> /\ values = <<>> /\ out = <<>>
----------------------------------------------------------------------------
(* What comes one after the other: texts, batches, the sizes of texts. *)
Joined(parts) ==
  LET all[n \in 0 .. Len(parts)] == IF n = 0 THEN <<>> ELSE all[n - 1] \o parts[n]
  IN all[Len(parts)]
Total(sizes) ==
  LET sum[n \in 0 .. Len(sizes)] == IF n = 0 THEN 0 ELSE sum[n - 1] + sizes[n]
  IN sum[Len(sizes)]
----------------------------------------------------------------------------
(* mergeLogicalBlocks: text nodes of a block become one unit, held by the first. *)
(* What is compared is the tags of the elements around them.                      *)
Tags(format) == [i \in DOMAIN format |-> Tag[format[i]]]
Wraps(format, base) ==
  /\ IsPrefix(Tags(base), Tags(format))
  /\ \A i \in DOMAIN format : i > Len(base) => Tag[format[i]] \in Decorative
\* Mutant: text is pulled into a wrapper, too.
MergesEitherWay(format, base) == Wraps(format, base) \/ Wraps(base, format)
MergesInto(format, base) == Wraps(format, base)
Absorbs(unit, n) ==
  /\ doc[unit.id].block = doc[n].block /\ MergesInto(doc[n].format, doc[unit.id].format)
Gather(found, n) ==
  IF found # <<>> /\ Absorbs(Last(found), n)
  THEN Append(Front(found), [Last(found) EXCEPT !.text = @ \o doc[n].text])
  ELSE Append(found, [id |-> n, text |-> doc[n].text])
MergeLogicalBlocks ==
  LET found[n \in 0 .. Len(doc)] ==
        IF n = 0 THEN <<>> ELSE IF IsText(n) THEN Gather(found[n - 1], n) ELSE found[n - 1]
  IN found[Len(doc)]

(* makeBatches: blocks are gathered until the next does not fit; a block that    *)
(* fits nowhere is cut between sentences, and each piece goes alone.             *)
Length(text) == Total([i \in DOMAIN text |-> text[i].length + (IF i > 1 THEN 1 ELSE 0)])
\* Mutant: the space between two sentences is not counted.
FitsTight(chunk, sentence) == Length(chunk) + sentence.length <= MaxChars
Fits(chunk, sentence) == Length(chunk) + sentence.length + 1 <= MaxChars
Chunk(chunks, s) ==
  IF chunks # <<>> /\ Fits(Last(chunks), s)
  THEN Append(Front(chunks), Append(Last(chunks), s))
  ELSE Append(chunks, <<s>>)
Chunks(text) ==
  LET chunks[n \in 0 .. Len(text)] == IF n = 0 THEN <<>> ELSE Chunk(chunks[n - 1], text[n])
  IN chunks[Len(text)]
Piece(unit, part, text) == [id |-> unit.id, part |-> part, text |-> text]
Whole(unit) == Piece(unit, 0, unit.text)
Pieces(unit) ==
  LET chunks == Chunks(unit.text)
  IN  IF Len(chunks) = 1 THEN << <<Whole(unit)>> >>
      ELSE [i \in DOMAIN chunks |-> <<Piece(unit, i, chunks[i])>>]
Chars(batch) == Total([i \in DOMAIN batch |-> Length(batch[i].text)])
Full(batch, unit) ==
  batch # <<>> /\ (Chars(batch) + Length(unit.text) > MaxChars \/ Len(batch) >= MaxSegments)
Flushed(s) == IF s.current = <<>> THEN s.out ELSE Append(s.out, s.current)
Batched(s, unit) ==
  LET t == IF Full(s.current, unit) THEN [out |-> Flushed(s), current |-> <<>>] ELSE s
  IN  IF Length(unit.text) > MaxChars THEN [t EXCEPT !.out = @ \o Pieces(unit)]
      ELSE [t EXCEPT !.current = Append(@, Whole(unit))]
MakeBatches(found) ==
  LET s[n \in 0 .. Len(found)] ==
        IF n = 0 THEN [out |-> <<>>, current |-> <<>>] ELSE Batched(s[n - 1], found[n])
  IN Flushed(s[Len(found)])

Prepare ==
  /\ reached = "source" /\ reached' = "asking"
  /\ units' = MergeLogicalBlocks /\ batches' = MakeBatches(units')
  /\ edits' = [b \in DOMAIN batches' |-> <<>>]
  /\ UNCHANGED <<doc, values, out>>
\* Batches are answered by a pool, each with its own pieces in their order.
Answer(b) ==
  /\ reached = "asking" /\ edits[b] = <<>>
  /\ edits' = [edits EXCEPT ![b] = batches[b]]
  /\ UNCHANGED <<reached, doc, units, batches, values, out>>

(* mergeChunkedSegments: pieces of a block are put together again, in the order  *)
(* of the batches.                                                              *)
Put(f, id, text) == [x \in DOMAIN f \cup {id} |-> IF x = id THEN text ELSE f[x]]
\* Mutant: pieces carry the bare id and the last one stands.
LastStands(f, p) == Put(f, p.id, p.text)
Rejoin(f, p) == Put(f, p.id, IF p.id \in DOMAIN f THEN f[p.id] \o p.text ELSE p.text)
MergeChunked(pieces) ==
  LET f[n \in 0 .. Len(pieces)] == IF n = 0 THEN <<>> ELSE Rejoin(f[n - 1], pieces[n])
  IN f[Len(pieces)]
Merge ==
  /\ reached = "asking" /\ \A b \in DOMAIN edits : edits[b] # <<>>
  /\ reached' = "merged" /\ values' = MergeChunked(Joined(edits))
  /\ UNCHANGED <<doc, units, batches, edits, out>>

\* reinsertText: a unit's text goes to its first node, and the nodes it absorbed are emptied.
Reinsert ==
  /\ reached = "merged" /\ reached' = "built"
  /\ out' = [n \in DOMAIN doc |-> IF IsText(n) /\ n \in DOMAIN values THEN values[n] ELSE <<>>]
  /\ UNCHANGED <<doc, units, batches, edits, values>>

Carries == Prepare \/ (\E b \in DOMAIN batches : Answer(b)) \/ Merge \/ Reinsert
TextSpec == Extracted /\ [][Carries]_way
----------------------------------------------------------------------------
TextOK ==
  /\ reached \in {"source", "asking", "merged", "built"}
  /\ \A u \in Range(units) : u.id \in DOMAIN doc /\ IsText(u.id)
  /\ \A b \in DOMAIN batches : Len(batches[b]) \in 1 .. MaxSegments
  /\ DOMAIN edits = DOMAIN batches

\* The book has every sentence of its source once and in order, however it was merged, cut
\* and answered (batcher.ts, "silently drop everything but the last chunk").
WholeOnce == reached = "built" => Joined(out) = Joined([n \in DOMAIN doc |-> doc[n].text])

\* No request is larger than the budget, unless a single sentence is, and a batch has no more
\* blocks than a model can keep count of (batcher.ts, "asking one answer to carry twenty
\* fragments that short made the model lose count").
WithinBudget ==
  \A b \in DOMAIN batches :
    /\ Len(batches[b]) <= MaxSegments
    /\ Chars(batches[b]) <= MaxChars \/ Len(Joined([i \in DOMAIN batches[b] |-> batches[b][i].text])) = 1

\* A sentence stays in its block, and leaves no element but a decorative one: "text is never
\* pulled into a wrapper" (text-segments.ts:114). It stays in the very links, footnote markers
\* and ruby annotations it was in, too, as long as no two of one tag follow one another in a
\* block without any text between them: their tags are all that is compared.
NextTo(m, n) ==
  /\ m < n /\ doc[m].block = doc[n].block /\ IsText(m) /\ IsText(n)
  /\ \A k \in m + 1 .. n - 1 : ~IsText(k)
ElementsApart ==
  \A m, n \in DOMAIN doc : NextTo(m, n) =>
    \A e \in Boundaries(doc[m].format), f \in Boundaries(doc[n].format) : Tag[e] = Tag[f] => e = f
KeepsPlace ==
  reached = "built" =>
    \A n \in DOMAIN out : \A s \in Range(out[n]) :
      /\ doc[n].block = doc[s.node].block
      /\ Wraps(doc[s.node].format, doc[n].format)
      /\ ElementsApart => Boundaries(doc[s.node].format) = Boundaries(doc[n].format)

\* "Links, footnote markers and ruby annotations stay boundaries -- there the element's own
\* text is the point" (text-segments.ts:92-93): no sentence changes the elements it is in.
BoundariesStay ==
  reached = "built" =>
    \A n \in DOMAIN out : \A s \in Range(out[n]) :
      Boundaries(doc[s.node].format) = Boundaries(doc[n].format)

\* Text keeps its place around what is not translated: what follows a piece of code, a formula
\* or an image does not come before it.
KeepsOrder ==
  reached = "built" =>
    \A n, island \in DOMAIN doc : ~IsText(island) =>
      \A s \in Range(out[n]) : (n < island) = (s.node < island)
=============================================================================
