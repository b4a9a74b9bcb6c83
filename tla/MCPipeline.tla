----------------------------- MODULE MCPipeline -----------------------------
(* Short bylaws: every page of up to three lines, and pairs of pages that    *)
(* differ in what can go wrong with them.                                    *)
EXTENDS Pipeline

Body(size) == [form |-> "none", number |-> 0, dots |-> 0, reads |-> "prose", font |-> 10,
               bold |-> FALSE, size |-> size]
Heading(form, number, dots, reads) == [Body(1) EXCEPT !.form = form, !.number = number, !.dots = dots, !.reads = reads]

Part        == Heading("part", 5, 0, "untitled")
Division    == Heading("division", 1, 0, "title")
Schedule    == Heading("schedule", 1, 0, "title")
Section     == Heading("numbered", 53, 1, "title")
Definitions == Heading("numbered", 51, 1, "definitions")
Metres      == Heading("numbered", 54, 1, "measurement")
ClauseA     == Heading("alpha_clause", 1, 0, "prose")
ClauseB     == Heading("alpha_clause", 2, 0, "prose")
ClauseIii   == Heading("roman_clause", 3, 0, "prose")
Bold        == [Heading("none", 0, 0, "title") EXCEPT !.bold = TRUE]
Furniture   == [Heading("none", 0, 0, "furniture") EXCEPT !.bold = TRUE]
Term        == [Body(2) EXCEPT !.reads = "term"]
Small       == Body(2)
Medium      == Body(6)
Huge        == Body(11)

Clean  == [chars |-> 500, bad |-> 0, plausible |-> 90]
Broken == [chars |-> 500, bad |-> 10, plausible |-> 80]
Garbled == [chars |-> 500, bad |-> 0, plausible |-> 45]
Empty  == [chars |-> 0, bad |-> 0, plausible |-> 0]

Page(lines, counts) == [lines |-> lines, counts |-> counts, table |-> "none", boxed |-> {}]

Lines(kinds, n) == UNION {[1..k -> kinds] : k \in 0..n}

\* The parser: anything may follow anything.
Parsed == {<<Page(s, Clean)>> :
             s \in Lines({Part, Division, Section, ClauseA, ClauseB, ClauseIii, Bold, Furniture, Metres, Small}, 3)}

\* The chunker: one or two sections with long bodies.
Chunked == {<<Page(<<h>> \o s, Clean)>> :
              h \in {Section, Definitions, Small}, s \in Lines({Section, Term, Small, Medium, Huge}, 3)}

\* Two pages: a section that goes on, a text layer that fails, a table.
First == {Page(<<Section, Small>>, c) : c \in {Clean, Broken, Garbled}}
         \union {Page(<<Small, Small>>, Broken), Page(<<>>, Empty)}
Second == {[Page(s, Clean) EXCEPT !.table = t, !.boxed = b] :
             s \in {<<Small, Medium>>, <<ClauseA, Small>>, <<Schedule, Small>>},
             t \in {"none", "artefact", "sparse", "data"}, b \in {{2}, {1, 2}}}

MCDocument == Parsed \union Chunked \union {<<p, q>> : p \in First, q \in Second}

MCOcrOutcome == {Clean, Garbled, Empty}
=============================================================================
