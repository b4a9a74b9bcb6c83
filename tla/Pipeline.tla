------------------------------ MODULE Pipeline ------------------------------
(***************************************************************************)
(* DocumentPipeline (ingestion/pipeline.py) with the extractor, the OCR    *)
(* engine and the table extractor it drives, up to the rows IngestionService*)
(* writes: one document goes through the stages, each of which may fail.   *)
(* Modules Sections and Chunks hold what the last two compute.             *)
(***************************************************************************)
EXTENDS Chunks, PageQuality

CONSTANTS
    Document,       \* PDFs: sequences of pages as printed
    OcrEnabled,
    OcrOutcome      \* Counts an OCR run may produce for a page

LineKind == [ form : Form, number : Nat, dots : 0..4, reads : Reads, font : Nat, bold : BOOLEAN,
              size : Nat \ {0} ]

\* `table`: what find_tables sees on the page.  An artefact is too small to be
\* built; a sparse table is built, but degenerate.  `boxed` are the lines in it.
PrintedPage == [ lines : Seq(LineKind), counts : Counts,
                 table : {"none", "artefact", "sparse", "data"}, boxed : SUBSET Nat ]

ASSUME DocumentAssumption == \A d \in Document : d \in Seq(PrintedPage)
ASSUME OcrAssumption == OcrEnabled \in BOOLEAN /\ OcrOutcome \subseteq Counts

VARIABLES
    document,   \* the PDF being processed
    stage,      \* how far it got
    pages, tables, sections, chunks,
    results,    \* stage_results
    row         \* the section row and the parent chunk each chunk row refers to

vars == <<document, stage, pages, tables, sections, chunks, results, row>>

Stages == <<"uploaded", "extracted", "ocr_completed", "tables_extracted", "metadata_detected",
            "sections_parsed", "chunked", "indexed">>

ProcessingStage == {Stages[i] : i \in DOMAIN Stages} \union {"failed"}

After(s) == Stages[1 + CHOOSE i \in DOMAIN Stages : Stages[i] = s]

Init ==
    /\ document \in Document
    /\ stage = "uploaded"
    /\ pages = <<>> /\ tables = <<>> /\ sections = <<>> /\ chunks = <<>>
    /\ results = <<>> /\ row = <<>>

\* _run_stage: the stage is recorded, then reached.
Succeed(s) ==
    /\ stage' = s
    /\ results' = Append(results, [stage |-> s, succeeded |-> TRUE])

-----------------------------------------------------------------------------
(* Extraction *)

\* Where line i of page p starts: lines are joined by one character.
CharStart(p, i) ==
    Sum([q \in 1..(p - 1) |-> Sum([k \in DOMAIN document[q].lines |-> document[q].lines[k].size + 1])])
    + Sum([k \in 1..(i - 1) |-> document[p].lines[k].size + 1])

PlacedLine(l, p, start) ==
    [ form |-> l.form, number |-> l.number, dots |-> l.dots, reads |-> l.reads, font |-> l.font,
      bold |-> l.bold, size |-> l.size, page |-> p, start |-> start ]

BuildLines(p) ==
    [i \in DOMAIN document[p].lines |-> PlacedLine(document[p].lines[i], p, CharStart(p, i))]

ExtractPage(p) ==
    [ number |-> p, lines |-> BuildLines(p), text |-> TextOf(BuildLines(p)), ocred |-> FALSE,
      method |-> "text_layer", confidence |-> AssessPageText(document[p].counts) ]

\* A page PyMuPDF cannot read does not stop the document.
FailedPage(p) ==
    [ number |-> p, lines |-> <<>>, text |-> <<>>, ocred |-> FALSE, method |-> "failed", confidence |-> 0 ]

Extract ==
    /\ stage = "uploaded"
    /\ \E bad \in {{}} \union {{p} : p \in DOMAIN document} :
          pages' = [p \in DOMAIN document |-> IF p \in bad THEN FailedPage(p) ELSE ExtractPage(p)]
    /\ Succeed("extracted")
    /\ UNCHANGED <<document, tables, sections, chunks, row>>

-----------------------------------------------------------------------------
(* OCR *)

NeedingOcr == {p \in DOMAIN pages : ShouldOcrPage(pages[p].confidence)}

\* Mutant: the confidence of OCR text is not capped.
ReadBackUncapped(p, c) ==
    [ number |-> p, lines |-> <<>>, ocred |-> TRUE, method |-> "ocr", confidence |-> AssessPageText(c),
      text |-> IF c.chars = 0 THEN <<>> ELSE <<[id |-> -p, size |-> 1]>> ]

\* _read_back: text without lines, known by its page.
ReadBack(p, c) ==
    [ number |-> p, lines |-> <<>>, ocred |-> TRUE, method |-> "ocr",
      confidence |-> Smaller(AssessPageText(c), 75),
      text |-> IF c.chars = 0 THEN <<>> ELSE <<[id |-> -p, size |-> 1]>> ]

\* Mutant: what OCR made of a page always replaces it.
PreferOcrAlways(original, ocred) == [ocred EXCEPT !.lines = original.lines]

\* The lines of the text layer stay, as OCR has none.
PreferOcr(original, ocred) ==
    IF ocred.confidence <= original.confidence THEN original
    ELSE [ocred EXCEPT !.lines = IF @ = <<>> THEN original.lines ELSE @,
                       !.method = IF original.text # <<>> THEN "mixed" ELSE "ocr"]

\* Nothing to do, or not possible: the stage is passed all the same.
SkipOcr ==
    /\ stage = "extracted"
    /\ Succeed("ocr_completed")
    /\ UNCHANGED <<document, pages, tables, sections, chunks, row>>

Ocr ==
    /\ stage = "extracted" /\ OcrEnabled /\ NeedingOcr # {}
    /\ \E read \in [NeedingOcr -> OcrOutcome] :
          pages' = [p \in DOMAIN pages |->
                       IF p \in NeedingOcr THEN PreferOcr(pages[p], ReadBack(p, read[p])) ELSE pages[p]]
    /\ Succeed("ocr_completed")
    /\ UNCHANGED <<document, tables, sections, chunks, row>>

-----------------------------------------------------------------------------
(* Tables *)

\* Mutant: the lines of a table stay in the prose.
RemainingLinesAll(p) == pages[p].lines

RemainingLines(p) ==
    LET page == document[p]
        kept(i) == page.table \in {"none", "artefact"} \/ i \notin page.boxed
        remains(l) == \E i \in DOMAIN page.lines : CharStart(p, i) = l.start /\ kept(i)
    IN  Subsequence(pages[p].lines, {k \in DOMAIN pages[p].lines : remains(pages[p].lines[k])})

\* A table with its own text; only a built one.
ExtractedTable(p) ==
    LET boxed == Ascending(Len(document[p].lines), document[p].boxed)
    IN  [ page |-> p, sparse |-> document[p].table = "sparse",
          text |-> [k \in DOMAIN boxed |-> [id   |-> CharStart(p, boxed[k]),
                                            size |-> document[p].lines[boxed[k]].size]] ]

\* Pages that were OCRed are passed over; on the others detection may fail.
ExtractTables ==
    /\ stage = "ocr_completed"
    /\ \E failing \in {{}, DOMAIN pages} :
          LET searched == {p \in DOMAIN pages : ~pages[p].ocred} \ failing
              found    == {p \in searched : document[p].table \in {"sparse", "data"}}
              order    == Ascending(Len(pages), found)
          IN  /\ tables' = [k \in DOMAIN order |-> ExtractedTable(order[k])]
              /\ pages' = [p \in DOMAIN pages |->
                              IF p \in searched /\ RemainingLines(p) # <<>>
                              THEN [pages[p] EXCEPT !.lines = RemainingLines(p),
                                                    !.text = TextOf(RemainingLines(p))]
                              ELSE pages[p]]
    /\ Succeed("tables_extracted")
    /\ UNCHANGED <<document, sections, chunks, row>>

-----------------------------------------------------------------------------
(* Metadata, sections, chunks, rows *)

\* What detection finds is module Metadata.
DetectMetadata ==
    /\ stage = "tables_extracted"
    /\ Succeed("metadata_detected")
    /\ UNCHANGED <<document, pages, tables, sections, chunks, row>>

ParseSections ==
    /\ stage = "metadata_detected"
    /\ sections' = Parse(FlattenSeq([p \in DOMAIN pages |-> pages[p].lines]))
    /\ Succeed("sections_parsed")
    /\ UNCHANGED <<document, pages, tables, chunks, row>>

ChunkDocument ==
    /\ stage = "sections_parsed"
    /\ chunks' = Chunk(sections, tables, FlattenSeq([p \in DOMAIN pages |-> pages[p].text]), 1)
    /\ Succeed("chunked")
    /\ UNCHANGED <<document, pages, tables, sections, row>>

\* Mutant: rows are looked up by section number.
SectionRowByNumber(c) ==
    IF c.section = NoSection THEN 0
    ELSE Min({i \in DOMAIN sections : sections[i].number = c.section.number})

\* by_path: the first section with that path.
SectionRow(c) ==
    IF c.section = NoSection THEN 0
    ELSE Min({i \in DOMAIN sections : sections[i].path = c.section.path})

\* by_ordinal: a child's parent is the chunk with ordinal 0.
ParentRow(c) == IF c.child THEN Min({i \in DOMAIN chunks : chunks[i].ordinal = 0}) ELSE 0

\* _write_sections and _write_chunks, of an outcome that succeeded.
WriteRows ==
    /\ stage = "chunked"
    /\ row' = [i \in DOMAIN chunks |-> [section |-> SectionRow(chunks[i]), parent |-> ParentRow(chunks[i])]]
    /\ stage' = "indexed"
    /\ UNCHANGED <<document, pages, tables, sections, chunks, results>>

\* A stage raises: the file cannot be opened, or is encrypted; OCR times out or
\* exits with an error; anything else.  The document is not written.
Fail ==
    /\ stage \notin {"chunked", "indexed", "failed"}
    /\ stage = "extracted" => OcrEnabled /\ NeedingOcr # {}
    /\ results' = Append(results, [stage |-> After(stage), succeeded |-> FALSE])
    /\ stage' = "failed"
    /\ UNCHANGED <<document, pages, tables, sections, chunks, row>>

Next ==
    \/ Extract \/ SkipOcr \/ Ocr \/ ExtractTables \/ DetectMetadata \/ ParseSections \/ ChunkDocument
    \/ WriteRows \/ Fail

Spec == Init /\ [][Next]_vars

-----------------------------------------------------------------------------
(* Properties *)

\* The shape of an outcome; OCR is never trusted beyond 75 percent.
TypeOK ==
    /\ document \in Document /\ stage \in ProcessingStage
    /\ \A p \in DOMAIN pages :
          /\ pages[p].confidence \in 0..100 /\ pages[p].lines \in Seq(Line)
          /\ pages[p].ocred => pages[p].confidence <= 75
    /\ \A i \in DOMAIN sections : sections[i].parent \in 0..(i - 1)
    /\ \A i \in DOMAIN chunks : chunks[i].ordinal = i - 1
    /\ \A i \in DOMAIN row : row[i].section \in 0..Len(sections) /\ row[i].parent \in 0..Len(chunks)

\* A section whose own heading gives its level, as that of a clause does not.
Fixed(s) == s.number[1] # "clause"

\* No heading of k's level or above stands between k and i, nor at i.
Within(list, k, i) ==
    Fixed(list[k]) /\ \A j \in (k + 1)..i : Fixed(list[j]) => list[k].level < list[j].level

\* The section tree a citation is read from: what follows a section is part of
\* it, clauses and theirs included, up to the next heading of its level or
\* above and no further, as a parent is of a lower level than its children.  The
\* path leads through the parents, siblings are numbered apart, and the sections
\* follow the text.  How clauses stand to each other is left open.
TreeIsWellFormed ==
    \A i \in DOMAIN sections :
        LET s == sections[i] IN
        /\ s.parent # 0 => /\ sections[s.parent].level < s.level
                           /\ s.path = Append(sections[s.parent].path, s.number)
        /\ \A k \in 1..(i - 1) :
              /\ Within(sections, k, i) => s.parent >= k
              /\ sections[k].start < s.start /\ sections[k].first <= s.first
              /\ sections[k].parent = s.parent => sections[k].ordinal < s.ordinal

Ids(text) == {text[i].id : i \in DOMAIN text}

\* models.py, TextChunk: a chunk never crosses a section boundary, so its
\* section is the right citation for its text.  (Sections with equal references
\* are one citation.)
ChunksKeepToTheirSection ==
    \A k \in DOMAIN chunks :
        chunks[k].type # "table" /\ chunks[k].section # NoSection =>
            Ids(chunks[k].text) \subseteq
                UNION {Ids(TextOf(sections[i].body)) :
                         i \in {j \in DOMAIN sections : Ref(sections[j]) = chunks[k].section}}

\* A section of definitions that is split by its terms.
Lists(s) ==
    /\ s.reads = "definitions"
    /\ \E a, b \in DOMAIN s.body : a # b /\ s.body[a].reads = "term" /\ s.body[b].reads = "term"

\* What the code leaves out of the index under a heading: a table too sparse to be
\* one, and what a list of definitions says before its first term.
LeftOut(l, s) ==
    \/ /\ document[l.page].table = "sparse"
       /\ \E i \in document[l.page].boxed : CharStart(l.page, i) = l.start
    \/ /\ Lists(s)
       /\ \A i \in DOMAIN s.body : s.body[i].reads = "term" => l.start < s.body[i].start

\* What stands under a heading can be found: every other line extracted after the
\* heading of its section is in a chunk, however pages and tables shift the
\* offsets and wherever texts are cut, and a section with text is the heading of
\* a chunk.  Without sections all text of the pages is in chunks, what OCR read
\* included (section_parser.py 371-417, chunking.py, pipeline.py 427-437).
TextIsIndexed ==
    stage = "indexed" =>
        LET indexed == UNION {Ids(chunks[k].text) : k \in DOMAIN chunks}
        IN  /\ sections = <<>> => \A p \in DOMAIN pages : Ids(pages[p].text) \subseteq indexed
            /\ \A i \in DOMAIN sections : sections[i].body # <<>> =>
                  \E k \in DOMAIN chunks : chunks[k].headings > 0 /\ chunks[k].section = Ref(sections[i])
            /\ \A p \in DOMAIN pages : pages[p].method \notin {"failed", "ocr"} =>
                  \A j \in DOMAIN document[p].lines :
                     LET l    == BuildLines(p)[j]
                         open == {i \in DOMAIN sections : sections[i].start <= l.start}
                         s    == sections[Max(open)]
                     IN  open # {} /\ s.start # l.start /\ ~LeftOut(l, s) => l.start \in indexed

\* tables.py: removing a table from the prose stops its numbers from being
\* indexed twice.  It does, unless the page holds nothing else.
TableTextIsIndexedOnce ==
    \A t \in DOMAIN tables, k \in DOMAIN chunks :
        /\ chunks[k].type # "table"
        /\ Ids(tables[t].text) \intersect Ids(chunks[k].text) # {}
        => DOMAIN document[tables[t].page].lines \subseteq document[tables[t].page].boxed

\* A page is only ever replaced by a better reading of it.
OcrOnlyImproves ==
    [][\A p \in DOMAIN pages : pages'[p].confidence >= pages[p].confidence]_vars

\* A chunk is stored under a section of its own path, hence of its own text where
\* no two sections share a path; there a child's parent holds its text, if its
\* section is the first of the document to be chunked.
StoredUnderItsSection ==
    \A k \in DOMAIN row :
        LET c == chunks[k] IN
        /\ c.section # NoSection => sections[row[k].section].path = c.section.path
        /\ /\ c.child /\ c.section = chunks[1].section
           /\ \A i, j \in DOMAIN sections : sections[i].path = sections[j].path => i = j
           => Ids(c.text) \subseteq Ids(chunks[row[k].parent].text)

=============================================================================
