------------------------------ MODULE Excerpts ------------------------------
(***************************************************************************)
(* The rows retrieval returns (rag/results.py, and _row_to_chunk of        *)
(* rag/retriever.py): a chunk joined with its document, municipality,      *)
(* section and page.                                                       *)
(***************************************************************************)
EXTENDS Listing

CONSTANTS
    Document, Chunk,  \* ids; a chunk's is a number, as chunk ids break ties
    Held              \* Held[c]: what the row of chunk c says, its status apart

DocumentStatus == {"in_force", "superseded", "repealed", "unknown"}

\* A number is the sequence of its digits, Point being the decimal point.
Point == 10

\* A sentence of a body, as far as a limit can be read from it: the number a
\* ratio or a maximum phrase states, if any, and its unit.
Limit == [value : Nat, unit : {"m2", "m", "ft2", "ft", "%"}]

Rule == [defers : BOOLEAN, range : BOOLEAN, ratio : SUBSET Limit, maximum : SUBSET Limit]

RetrievedChunk ==
    [ document : Document, town : STRING, section : STRING, fromOcr : BOOLEAN, extraction : 0..1000,
      words : Seq(STRING), numbers : SUBSET Seq(0..Point), rules : Seq(Rule), topics : SUBSET STRING ]

ASSUME HeldAssumption ==
    Chunk \subseteq Nat /\ Held \in [Chunk -> RetrievedChunk]

\* A row of a result: the status is that of the statement that read it.
Hit == [chunk : Chunk, status : DocumentStatus]

\* An extraction confidence of zero reads as one.
Extraction(c) == IF Held[c].extraction = 0 THEN 1000 ELSE Held[c].extraction

\* is_current
Current(h) == h.status = "in_force"
=============================================================================
