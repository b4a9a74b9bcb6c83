------------------------------ MODULE Sections ------------------------------
(***************************************************************************)
(* SectionParser (domain/section_parser.py): from the lines of a bylaw to  *)
(* a flat, parent-linked list of sections in document order.  What the     *)
(* regular expressions find in a line is given as a fact about it; a       *)
(* number stands for its normalised value ("V" and "5" are one number).    *)
(* Sections and parents are counted from 1, and 0 stands for none.         *)
(***************************************************************************)
EXTENDS Listing

\* The SECTION_PATTERNS, in the order they are tried, and text that fits none.
\* "(i)" and "(iv)" fit alpha_clause before they are tried as roman_clause.
Form == {"part", "division", "schedule", "numbered", "alpha_clause", "roman_clause", "none"}

Clause == {"alpha_clause", "roman_clause"}

\* What the wording of a line looks like to the filters behind the patterns:
\* "prose" is too long for a heading or ends like a sentence in progress,
\* "term" begins a definition, "definitions" is a heading announcing them.
Reads == {"title", "definitions", "untitled", "prose", "term", "measurement", "reference", "furniture"}

\* `start` is the offset of the line in the document, which identifies it, and
\* `size` its tokens.  Blank lines never leave the extractor.
Line == [ form : Form, number : Nat, dots : 0..4, reads : Reads, font : Nat, bold : BOOLEAN,
          size : Nat \ {0}, page : Nat, start : Nat ]

-----------------------------------------------------------------------------
(* Headings *)

\* The font most of the text is set in.
ModalFont(lines) ==
    LET weight(f) == Sum([i \in DOMAIN lines |-> IF lines[i].font = f THEN lines[i].size ELSE 0])
        first(f)  == CHOOSE i \in DOMAIN lines :
                       lines[i].font = f /\ \A k \in 1..(i - 1) : lines[k].font # f
        fonts     == {lines[i].font : i \in DOMAIN lines}
    IN  CHOOSE f \in fonts :
            \A g \in fonts : weight(g) < weight(f) \/ (weight(g) = weight(f) /\ first(f) <= first(g))

IsRealNumberedHeading(l) == l.reads \notin {"prose", "term", "measurement", "reference"}

MatchesNumbered(l) ==
    l.form # "none" /\ (l.form = "numbered" => IsRealNumberedHeading(l))

MatchesTypographic(l, body) ==
    /\ l.reads \notin {"prose", "term", "untitled"}
    /\ l.font > body \/ (l.bold /\ l.font >= body)

\* The positions of the lines that head a section.
FindHeadings(lines) ==
    LET body == ModalFont(lines)
        heads(l) == l.reads # "furniture" /\ (MatchesNumbered(l) \/ MatchesTypographic(l, body))
    IN  Ascending(Len(lines), {i \in DOMAIN lines : heads(lines[i])})

\* The label a path shows; an unnumbered heading is known by its text.
NormaliseNumber(l) ==
    IF MatchesNumbered(l) THEN <<IF l.form \in Clause THEN "clause" ELSE l.form, l.number>>
    ELSE <<"", l.start>>

-----------------------------------------------------------------------------
(* Hierarchy *)

FixedLevel(l) ==
    CASE ~MatchesNumbered(l) -> 2
      [] l.form \in {"part", "schedule"} -> 1
      [] l.form = "division" -> 2
      [] OTHER -> 2 + l.dots

\* Relative to the innermost open heading, before any is closed.
EffectiveLevel(l, stack) ==
    IF ~MatchesNumbered(l) \/ l.form \notin Clause THEN FixedLevel(l)
    ELSE (IF stack = <<>> THEN 2 ELSE Last(stack).level) + (IF l.form = "roman_clause" THEN 2 ELSE 1)

\* Mutant: a sibling does not close its predecessor.
PoppedLate(stack, level) ==
    SubSeq(stack, 1, Max({0} \union {i \in DOMAIN stack : stack[i].level <= level}))

\* The open ancestors: the last is closed as long as its level is not lower.
Popped(stack, level) ==
    SubSeq(stack, 1, Max({0} \union {i \in DOMAIN stack : stack[i].level < level}))

\* One section more, with the stack of open ancestors it leaves.
AddSection(built, l, at) ==
    LET level  == EffectiveLevel(l, built.stack)
        open   == Popped(built.stack, level)
        parent == IF open = <<>> THEN 0 ELSE Last(open).index
        label  == NormaliseNumber(l)
        before == Cardinality({i \in DOMAIN built.sections : built.sections[i].parent = parent})
        index  == Len(built.sections) + 1
        section == [ at |-> at, number |-> label, reads |-> l.reads, level |-> level, parent |-> parent,
                     path |-> Append(IF parent = 0 THEN <<>> ELSE built.sections[parent].path, label),
                     first |-> l.page, last |-> l.page, start |-> l.start, ordinal |-> before,
                     body |-> <<>> ]
    IN  [ sections |-> Append(built.sections, section),
          stack    |-> Append(open, [index |-> index, level |-> level]) ]

BuildHierarchy(lines, headings) ==
    LET built[n \in 0..Len(headings)] ==
            IF n = 0 THEN [sections |-> <<>>, stack |-> <<>>]
            ELSE AddSection(built[n - 1], lines[headings[n]], headings[n])
    IN  built[Len(headings)].sections

-----------------------------------------------------------------------------
(* Bodies *)

\* _heading_positions: the last line with the section's offset, or the first.
HeadingPosition(section, lines) ==
    LET found == {i \in DOMAIN lines : lines[i].start = section.start}
    IN  IF found = {} THEN 1 ELSE Max(found)

\* Mutant: the last line before the next heading is left out.
BodyEndEarly(sections, i, lines) ==
    IF i < Len(sections) THEN HeadingPosition(sections[i + 1], lines) - 2 ELSE Len(lines)

BodyEnd(sections, i, lines) ==
    IF i < Len(sections) THEN HeadingPosition(sections[i + 1], lines) - 1 ELSE Len(lines)

AttachBodies(sections, lines) ==
    [i \in DOMAIN sections |->
        LET body == SubSeq(lines, HeadingPosition(sections[i], lines) + 1, BodyEnd(sections, i, lines))
        IN  [sections[i] EXCEPT !.body = body,
                                !.last = IF body = <<>> THEN @ ELSE Max({@, Last(body).page})]]

\* No heading, no sections: nothing is made up.
Parse(lines) ==
    IF lines = <<>> THEN <<>> ELSE AttachBodies(BuildHierarchy(lines, FindHeadings(lines)), lines)

=============================================================================
