------------------------------- MODULE Chunks -------------------------------
(***************************************************************************)
(* SectionChunker (domain/chunking.py): sections and tables to retrievable *)
(* chunks.  A text is a sequence of lines with their tokens, one sentence  *)
(* to a line, and tokens add up; the lines of a body are never blank, so a *)
(* body is one paragraph.                                                  *)
(***************************************************************************)
EXTENDS Sections

CONSTANTS
    TargetTokens, MaxTokens, OverlapTokens, MinTokens,
    HeadingTokens,     \* of the heading repeated at the top of a chunk
    EmitParents, SplitDefinitions

ASSUME ChunkingConfig ==
    /\ {TargetTokens, MaxTokens, OverlapTokens, MinTokens, HeadingTokens} \subseteq Nat
    /\ OverlapTokens < TargetTokens /\ TargetTokens <= MaxTokens /\ MinTokens < TargetTokens
    /\ {EmitParents, SplitDefinitions} \subseteq BOOLEAN

NoSection == [number |-> <<>>, path |-> <<>>, heading |-> "untitled", level |-> 0, first |-> 0, last |-> 0]

\* What a chunk carries as its citation: two sections may have equal ones.
Ref(s) == [number |-> s.number, path |-> s.path, heading |-> s.reads, level |-> s.level,
           first |-> s.first, last |-> s.last]

CountTokens(text) == Sum([i \in DOMAIN text |-> text[i].size])

TextOf(lines) == [i \in DOMAIN lines |-> [id |-> lines[i].start, size |-> lines[i].size]]

\* `headings` counts the heading lines repeated in the body; a child points at
\* ordinal 0 as its parent.
TextChunk(text, tokens, type, ref, headings, child) ==
    [ text |-> text, tokens |-> tokens, type |-> type, section |-> ref, headings |-> headings,
      child |-> child, ordinal |-> 0, first |-> ref.first, last |-> ref.last ]

Prose(text, ref, headings) == TextChunk(text, CountTokens(text), "prose", ref, headings, FALSE)

-----------------------------------------------------------------------------
(* Splitting *)

SplitUnits(text) ==
    IF text = <<>> THEN <<>>
    ELSE IF CountTokens(text) <= TargetTokens THEN <<text>>
    ELSE [i \in DOMAIN text |-> <<text[i]>>]

\* A sentence beyond the maximum, cut by its words.
HardSplit(unit) ==
    LET size == CountTokens(unit)
        left(k) == size - (k - 1) * TargetTokens
    IN  [k \in 1..((size + TargetTokens - 1) \div TargetTokens) |->
            <<[id |-> unit[1].id, size |-> Min({TargetTokens, left(k)})]>>]

Flat(units) == FlattenSeq(units)

\* The last units within the overlap, and always the last one.
OverlapTail(buffer) ==
    IF OverlapTokens = 0 THEN <<>>
    ELSE LET tail(k) == SubSeq(buffer, k, Len(buffer))
             fits(k) == k = Len(buffer) \/ CountTokens(Flat(tail(k))) <= OverlapTokens
         IN  tail(Min({k \in DOMAIN buffer : fits(k)}))

Flush(split, ref, headings) ==
    IF split.buffer = <<>> THEN split
    ELSE [chunks |-> Append(split.chunks, Prose(Flat(split.buffer), ref, headings)), buffer |-> <<>>]

TakeUnit(split, unit, ref, headings) ==
    IF CountTokens(unit) > MaxTokens
    THEN LET flushed == Flush(split, ref, headings)
             pieces  == HardSplit(unit)
         IN  [flushed EXCEPT !.chunks = @ \o [k \in DOMAIN pieces |-> Prose(pieces[k], ref, headings)]]
    ELSE IF split.buffer # <<>> /\ CountTokens(Flat(split.buffer)) + CountTokens(unit) > TargetTokens
    THEN [ chunks |-> Flush(split, ref, headings).chunks,
           buffer |-> Append(OverlapTail(split.buffer), unit) ]
    ELSE [split EXCEPT !.buffer = Append(@, unit)]

WithParent(children, text, ref, headings) ==
    <<Prose(text, ref, headings)>> \o
    [i \in DOMAIN children |-> [children[i] EXCEPT !.child = TRUE]]

SplitText(text, ref, headings) ==
    LET units == SplitUnits(text)
        taken[n \in 0..Len(units)] ==
            IF n = 0 THEN [chunks |-> <<>>, buffer |-> <<>>]
            ELSE TakeUnit(taken[n - 1], units[n], ref, headings)
        chunks == Flush(taken[Len(units)], ref, headings).chunks
    IN  IF EmitParents /\ Len(chunks) > 1 /\ ref # NoSection
        THEN WithParent(chunks, text, ref, headings) ELSE chunks

-----------------------------------------------------------------------------
(* Sections and tables *)

\* One chunk for each defined term; what stands before the first is dropped.
DefinitionChunks(section) ==
    LET terms == Ascending(Len(section.body), {i \in DOMAIN section.body : section.body[i].reads = "term"})
        end(k) == IF k < Len(terms) THEN terms[k + 1] - 1 ELSE Len(section.body)
        text(k) == TextOf(SubSeq(section.body, terms[k], end(k)))
    IN  IF Len(terms) < 2 THEN <<>>
        ELSE [k \in DOMAIN terms |->
                TextChunk(text(k), CountTokens(text(k)), "definition", Ref(section), 1, FALSE)]

ChunkSection(section) ==
    LET text == TextOf(section.body)
    IN  IF text = <<>> THEN <<>>
        ELSE IF SplitDefinitions /\ section.reads = "definitions" /\ DefinitionChunks(section) # <<>>
        THEN DefinitionChunks(section)
        ELSE IF CountTokens(text) <= MaxTokens THEN <<Prose(text, Ref(section), 1)>>
        ELSE SplitText(text, Ref(section), 1)

\* The deepest of the sections that span a page, the first of equals.
SectionForPage(sections, page) ==
    LET spanning == {i \in DOMAIN sections : sections[i].first <= page /\ page <= sections[i].last}
        deepest  == {i \in spanning : \A k \in spanning : sections[k].level <= sections[i].level}
    IN  IF spanning = {} THEN NoSection ELSE Ref(sections[Min(deepest)])

\* A table is [page, text, sparse]; a sparse one is degenerate.
TableChunks(tables, sections) ==
    LET kept == Subsequence(tables, {i \in DOMAIN tables : ~tables[i].sparse})
    IN  [i \in DOMAIN kept |->
            [TextChunk(kept[i].text, CountTokens(kept[i].text), "table",
                       SectionForPage(sections, kept[i].page), 0, FALSE)
             EXCEPT !.first = kept[i].page, !.last = kept[i].page]]

-----------------------------------------------------------------------------
(* Finalising *)

\* Mutant: the section is not compared.
MergeableAnywhere(previous, chunk) ==
    /\ chunk.tokens < MinTokens /\ chunk.type = "prose" /\ previous.type = "prose"
    /\ previous.tokens + chunk.tokens <= MaxTokens

Mergeable(previous, chunk) ==
    /\ chunk.tokens < MinTokens /\ chunk.type = "prose" /\ previous.type = "prose"
    /\ chunk.section = previous.section
    /\ previous.tokens + chunk.tokens <= MaxTokens

\* The repeated headings count once the two are one body.
Merged(previous, chunk) ==
    [previous EXCEPT !.text = @ \o chunk.text,
                     !.headings = @ + chunk.headings,
                     !.last = Max({@, chunk.last}),
                     !.tokens = CountTokens(previous.text) + CountTokens(chunk.text)
                                + HeadingTokens * (previous.headings + chunk.headings)]

Keep(kept, chunk) ==
    IF kept # <<>> /\ Mergeable(Last(kept), chunk)
    THEN [kept EXCEPT ![Len(kept)] = Merged(@, chunk)] ELSE Append(kept, chunk)

MergeUndersized(chunks) ==
    LET kept[n \in 0..Len(chunks)] == IF n = 0 THEN <<>> ELSE Keep(kept[n - 1], chunks[n])
    IN  kept[Len(chunks)]

Finalise(chunks) ==
    LET merged == MergeUndersized(chunks)
    IN  [i \in DOMAIN merged |-> [merged[i] EXCEPT !.ordinal = i - 1]]

\* Without sections the text of the pages is chunked, on its first page.
Chunk(sections, tables, fallback, page) ==
    LET prose == IF sections # <<>>
                 THEN FlattenSeq([i \in DOMAIN sections |-> ChunkSection(sections[i])])
                 ELSE LET split == SplitText(fallback, NoSection, 0)
                      IN  [i \in DOMAIN split |-> [split[i] EXCEPT !.first = page, !.last = page]]
    IN  Finalise(prose \o TableChunks(tables, sections))

=============================================================================
