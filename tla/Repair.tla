--------------------------------- MODULE Repair ---------------------------------
(* The conformance repair of a built book: entries with unsafe names are copied *)
(* under clean ones, and in each document, by itself, paragraphs that contain   *)
(* blocks are split, ids that XML does not allow are replaced, anchors' names    *)
(* become ids, metadata about nothing is dropped, and whatever pointed to an old *)
(* name is made to point to the new one. One document, and the archive it is in. *)
(* Names are sequences of characters, for references are rewritten as text.      *)
(* Bound: MaxElements elements in the document, MaxEntries entries beside it.    *)
EXTENDS Naturals, FiniteSets, FiniteSetsExt, Sequences, SequencesExt

CONSTANTS Characters,    \* of names, and the escapes they are written with in references
          Encode, Lower, \* the escape of each, and the escape in lower case
          Ids, Valid,    \* what elements are called, and what XML allows
          Fresh,         \* the ids uniqueId tries for each of them, in order
          Paths, Clean,  \* what entries are called, and their clean names
          MaxElements, MaxEntries

Nothing == <<>>          \* no attribute, or an empty one

ASSUME RepairAssumption ==
  /\ "#" \notin Characters /\ {Encode, Lower} \subseteq [Characters -> Characters]
  /\ Ids \cup Paths \subseteq Seq(Characters) \ {Nothing}
  /\ Valid \subseteq Ids /\ Clean \in [Paths -> Paths]
  /\ \A v \in Ids : /\ Fresh[v] \in Seq(Seq(Characters)) /\ Cardinality(Range(Fresh[v])) > MaxElements
                    /\ Range(Fresh[v]) \cap ((Ids \ Valid) \cup {Nothing}) = {}
  /\ \A p \in Paths : Clean[Clean[p]] = Clean[p]
  /\ MaxEntries \in Nat /\ MaxElements \in Nat

VARIABLES progress,
          kind,       \* an XHTML page, or another XML document
          document,   \* its elements, in document order
          entries,    \* the archive: each entry, and the one it was copied from
          original, archive   \* history: the document, and the names of the entries, as found
repair == <<progress, kind, document, entries, original, archive>>

\* A reference is a path and a fragment, either of which may be missing.
Fragment(x) == <<"#">> \o x
Fragments == {Nothing} \cup {Fragment(x) : x \in Ids}
Escapes(c) == {c, Encode[c], Lower[Encode[c]]}
Spells(v, p) == DOMAIN v = DOMAIN p /\ \A i \in DOMAIN p : v[i] \in Escapes(p[i])
References ==
  {Nothing} \cup UNION {{v \in [DOMAIN p -> Characters] : Spells(v, p)} : p \in Paths}
Element == [key |-> 0, tag |-> "", id |-> Nothing, name |-> Nothing, path |-> Nothing, at |-> Nothing,
            value |-> Nothing, kids |-> <<>>]
OrNone(S) == S \cup {Nothing}
Anchor(i, n) == [Element EXCEPT !.tag = "a", !.id = i, !.name = n]
Anchors == {Anchor(i, n) : i \in OrNone(Ids), n \in OrNone(Ids)}
Link(p, x) == [Element EXCEPT !.tag = "link", !.path = p, !.at = x]
\* A fragment of another document follows a path whose characters are as they are.
Links == {Link(p, Nothing) : p \in References} \cup {Link(p, x) : p \in OrNone(Paths), x \in Fragments}
\* A navPoint: its playOrder is a number, as an id may be.
Points == {[Element EXCEPT !.tag = "navPoint", !.id = i, !.value = i] : i \in Ids}
Paragraph(i, k) == [Element EXCEPT !.tag = "p", !.id = i, !.kids = k]
Paragraphs == {Paragraph(i, k) : i \in OrNone(Ids), k \in {<<"text">>, <<"text", "block", "text">>}}
Refines == {[Element EXCEPT !.tag = "meta", !.at = Fragment(i)] : i \in Ids}
Items == {[Element EXCEPT !.tag = "item", !.id = i] : i \in Ids}
Contents == [page |-> Anchors \cup Links \cup Paragraphs, package |-> Refines \cup Items,
             ncx |-> Points \cup Links]
Keyed(elements) == [i \in DOMAIN elements |-> [elements[i] EXCEPT !.key = i]]

Found ==
  /\ progress = "found" /\ kind \in DOMAIN Contents
  /\ \E n \in 1 .. MaxElements : \E f \in [1 .. n -> Contents[kind]] : document = Keyed(f)
  /\ original = document
  /\ archive \in SUBSET Paths /\ IsFiniteSet(archive) /\ Cardinality(archive) <= MaxEntries
  /\ entries = [p \in archive |-> p]
  /\ archive # {} => \E i \in DOMAIN document : document[i].path # Nothing   \* or nothing depends on them
----------------------------------------------------------------------------
(* createRepairedEpubWorkspace *)
\* Mutant: an entry is copied over another.
TwiceIgnored == FALSE
Twice == \E p, q \in DOMAIN entries : p # q /\ Clean[p] = Clean[q]
Encoded(p) == [i \in DOMAIN p |-> Encode[p[i]]]
Lowered(p) == [i \in DOMAIN p |-> Lower[p[i]]]
\* Each spelling of an entry's name that is looked for, and what takes its place.
Spellings(p) == <<p, Encoded(p), Lowered(Encoded(p))>>
Cleaned(p) == <<Clean[p], Encoded(Clean[p]), Encoded(Clean[p])>>
Renaming(p) == [i \in 1 .. 3 |-> [old |-> Spellings(p)[i], new |-> Cleaned(p)[i]]]
Begins(old, value, i) ==
  i + Len(old) - 1 <= Len(value) /\ SubSeq(value, i, i + Len(old) - 1) = old
\* value.split(old).join(new): what is found from the left is replaced, wherever it is.
ReplaceText(value, old, new) ==
  LET s[n \in 0 .. Len(value)] ==
        IF n = 0 THEN [out |-> <<>>, skip |-> 0]
        ELSE IF s[n - 1].skip > 0 THEN [s[n - 1] EXCEPT !.skip = @ - 1]
        ELSE IF Begins(old, value, n) THEN [out |-> s[n - 1].out \o new, skip |-> Len(old) - 1]
        ELSE [s[n - 1] EXCEPT !.out = Append(@, value[n])]
  IN s[Len(value)].out
\* One replacement after the other.
Rewritten(value, pairs) ==
  LET v[n \in 0 .. Len(pairs)] ==
        IF n = 0 THEN value
        ELSE IF pairs[n].old = pairs[n].new THEN v[n - 1]
        ELSE ReplaceText(v[n - 1], pairs[n].old, pairs[n].new)
  IN v[Len(pairs)]
Refuse ==
  /\ progress = "found" /\ Twice /\ progress' = "refused"
  /\ UNCHANGED <<kind, document, entries, original, archive>>
Referred(pairs, e) ==
  IF e.tag = "link" THEN [e EXCEPT !.path = Rewritten(@, pairs), !.at = Rewritten(@, pairs)] ELSE e
Copy ==
  /\ progress = "found" /\ ~Twice /\ progress' = "copied"
  /\ entries' = [c \in {Clean[p] : p \in DOMAIN entries} |-> CHOOSE p \in DOMAIN entries : Clean[p] = c]
  /\ \E order \in [1 .. Cardinality(DOMAIN entries) -> DOMAIN entries] :
       /\ Range(order) = DOMAIN entries
       /\ LET pairs == FlattenSeq([i \in DOMAIN order |-> Renaming(order[i])])
          IN  document' = [i \in DOMAIN document |-> Referred(pairs, document[i])]
  /\ UNCHANGED <<kind, original, archive>>
----------------------------------------------------------------------------
(* repairXml *)
IdsOf(elements) == {elements[i].id : i \in DOMAIN elements} \ {Nothing}
\* repairInvalidParagraphNesting: each part is a copy of the paragraph, its id included.
Splits(e) == kind = "page" /\ e.tag = "p" /\ "block" \in Range(e.kids)
Part(e, kid) == IF kid = "block" THEN [Element EXCEPT !.key = e.key, !.tag = "block"]
                                 ELSE [e EXCEPT !.kids = <<kid>>]
Parts(e) == IF Splits(e) THEN [i \in DOMAIN e.kids |-> Part(e, e.kids[i])] ELSE <<e>>
UniqueId(value, used) ==
  Fresh[value][Min({i \in DOMAIN Fresh[value] : Fresh[value][i] \notin used})]
Rewrites(map, old, new) ==   \* Map.set
  IF \E i \in DOMAIN map : map[i].old = old
  THEN [i \in DOMAIN map |-> IF map[i].old = old THEN [map[i] EXCEPT !.new = new] ELSE map[i]]
  ELSE Append(map, [old |-> old, new |-> new])
\* Mutant: an id that was given is not remembered.
TakenOnce(s, id) == s.used
Taken(s, id) == s.used \cup {id}
Gives(s, e, old, new) ==
  [used |-> Taken(s, new), rewritten |-> IF old = new THEN s.rewritten ELSE Rewrites(s.rewritten, old, new),
   ids |-> [s.ids EXCEPT ![e.key] = new]]
GivesId(s, e) ==
  IF e.id \in Ids \ Valid THEN Gives(s, e, e.id, UniqueId(e.id, s.used)) ELSE s
\* An anchor's name becomes its id, or makes way for the one it has.
GivesName(page, s, e) ==
  IF page # "page" \/ e.tag # "a" \/ e.name = Nothing THEN s
  ELSE Gives(s, e, e.name, IF s.ids[e.key] # Nothing THEN s.ids[e.key] ELSE UniqueId(e.name, s.used))
Renamed(page, elements) ==
  LET s[n \in 0 .. Len(elements)] ==
        IF n = 0
        THEN [used |-> IdsOf(elements) \cap Valid, rewritten |-> <<>>, ids |-> [i \in DOMAIN elements |-> elements[i].id]]
        ELSE GivesName(page, GivesId(s[n - 1], elements[n]), elements[n])
  IN s[Len(elements)]
\* A paragraph that was split is no longer there to be given an id.
Relabelled(s, e) ==
  IF Splits(e) THEN e
  ELSE [e EXCEPT !.id = s.ids[e.key], !.name = IF kind = "page" /\ e.tag = "a" THEN Nothing ELSE @]
\* Metadata is asked what it refines when ids have changed and references have not.
Dangling(s, e) == kind = "package" /\ e.tag = "meta" /\ e.at \notin {Fragment(x) : x \in Range(s.ids)}
Left(s, e) == IF Dangling(s, e) THEN <<>> ELSE Parts(Relabelled(s, e))
\* One old name after the other, in every attribute that is one of them or points to it.
PointsTo(map, value) ==
  LET v[n \in 0 .. Len(map)] ==
        IF n = 0 THEN value ELSE IF v[n - 1] = map[n].old THEN map[n].new ELSE v[n - 1]
  IN v[Len(map)]
FragmentPairs(map) == [i \in DOMAIN map |-> [old |-> Fragment(map[i].old), new |-> Fragment(map[i].new)]]
Pointing(map, e) ==
  [e EXCEPT !.id = PointsTo(map, @), !.value = PointsTo(map, @), !.at = Rewritten(@, FragmentPairs(map)),
            !.path = IF e.at = Nothing THEN PointsTo(map, @) ELSE @]
RepairXml ==
  /\ progress = "copied" /\ progress' = "repaired"
  /\ LET s == Renamed(kind, document)
         left == FlattenSeq([i \in DOMAIN document |-> Left(s, document[i])])
     IN  document' = [i \in DOMAIN left |-> Pointing(s.rewritten, left[i])]
  /\ UNCHANGED <<kind, entries, original, archive>>

Mends == Refuse \/ Copy \/ RepairXml
RepairSpec == Found /\ [][Mends]_repair
----------------------------------------------------------------------------
Calls(e, x) == x # Nothing /\ (e.id = x \/ (kind = "page" /\ e.name = x))
Target(elements, x) == {elements[i].key : i \in {j \in DOMAIN elements : Calls(elements[j], x)}}
Leads(elements, at) ==
  {elements[i].key : i \in {j \in DOMAIN elements :
                              \E x \in {elements[j].id, elements[j].name} :
                                at = Fragment(x) /\ Calls(elements[j], x)}}
\* No two elements are called the same, and no paragraph with an id is split.
Plain ==
  /\ \A x \in Ids : Cardinality(Target(original, x)) <= 1
  /\ \A i \in DOMAIN original : Splits(original[i]) => original[i].id = Nothing
\* No element is given what another one was called.
NothingPassedOn ==
  LET ids == Renamed(kind, original).ids
  IN  \A i, j \in DOMAIN original : i # j /\ ids[i] # Nothing => ids[i] \notin {original[j].id, original[j].name}
Includes(value, old) == \E i \in DOMAIN value : Begins(old, value, i)
\* No id that was replaced is the beginning of a name that is pointed to, nor the name of an entry.
IdsApart ==
  LET s == Renamed(kind, original)
  IN  \A r \in Range(s.rewritten) :
        /\ \A at \in {original[i].at : i \in DOMAIN original} \cup {Fragment(s.ids[i]) : i \in DOMAIN original} :
             Includes(at, Fragment(r.old)) => at = Fragment(r.old)
        /\ \A p \in archive : r.old \notin Range(Cleaned(p))
\* No name of an entry that was replaced is found in a reference to something else.
PathsApart ==
  \A p \in archive : \A r \in {t \in Range(Renaming(p)) : t.old # t.new} :
    /\ \A q \in archive : /\ \A path \in Range(Spellings(q)) : Includes(path, r.old) => path = r.old /\ p = q
                          /\ \A path \in Range(Cleaned(q)) : ~Includes(path, r.old)
    /\ \A i \in DOMAIN original : ~Includes(original[i].at, r.old)

\* After the repair every id is one that XML allows, and no two elements have the same.
IdsAreSound ==
  progress = "repaired" /\ Plain /\ NothingPassedOn =>
    /\ IdsOf(document) \cap (Ids \ Valid) = {}
    /\ \A i, j \in DOMAIN document : document[i].id = document[j].id /\ document[i].id # Nothing => i = j

\* A link that spells a name as the code looks for it leads where it led: to the entry that was
\* called so, whatever it is called now, and within the document to the same element (repair.ts;
\* tests/unit/epub-repair.test.ts:13, "renames unsafe entries, updates references, IDs").
LinksStand ==
  progress = "repaired" /\ Plain /\ NothingPassedOn /\ IdsApart /\ PathsApart =>
    \A i \in DOMAIN document :
      LET e == document[i] old == original[e.key] IN
        e.tag = "link" =>
          /\ \A p \in archive : old.path \in Range(Spellings(p)) =>
               \E q \in DOMAIN entries : e.path \in Range(Spellings(q)) /\ entries[q] = p
          /\ old.path = Nothing /\ Leads(original, old.at) # {} =>
               Leads(document, e.at) = Leads(original, old.at)

\* "updates references, IDs" (tests/unit/epub-repair.test.ts:13): a link within the document leads
\* to the same element, whatever begins with what was replaced.
FragmentsFollow ==
  progress = "repaired" /\ Plain /\ NothingPassedOn /\ archive = {} =>
    \A i \in DOMAIN document :
      LET old == original[document[i].key] IN
        document[i].tag = "link" /\ old.path = Nothing /\ Leads(original, old.at) # {} =>
          Leads(document, document[i].at) = Leads(original, old.at)

\* "renames unsafe entries, updates references" (tests/unit/epub-repair.test.ts:13): a reference to
\* the one entry there is follows it, whichever of its characters are escaped.
ReferencesFollow ==
  progress = "repaired" /\ Len(original) = 1 =>
    \A i \in DOMAIN document, p \in archive :
      archive = {p} /\ Spells(original[document[i].key].path, p) =>
        \E q \in DOMAIN entries : Spells(document[i].path, q)

\* Metadata is dropped when it points "at an id no longer in the package" (repair.ts:17): what
\* refines an element that is there stays.
RefinesStand ==
  progress = "repaired" =>
    \A i \in DOMAIN original :
      original[i].tag = "meta" /\ Leads(original, original[i].at) # {} =>
        \E j \in DOMAIN document : document[j].key = i

\* "uniqueId" (repair.ts:206): two elements end with different ids, whatever they were called.
IdsDiffer ==
  progress = "repaired" /\ Plain =>
    \A i, j \in DOMAIN document : document[i].id = document[j].id /\ document[i].id # Nothing => i = j

\* What is no reference is no reference's business.
ValuesStand ==
  progress = "repaired" => \A i \in DOMAIN document : document[i].value = original[document[i].key].value
=============================================================================
