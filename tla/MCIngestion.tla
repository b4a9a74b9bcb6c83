---------------------------- MODULE MCIngestion -----------------------------
(* Two versions of one bylaw. *)
EXTENDS Ingestion, TLC

Blank == [ slug |-> "surrey", number |-> [base |-> 100, style |-> "bare"], filename |-> Undetected,
           phrases |-> {"title"}, consolidated |-> NoDate, adopted |-> NoDate, year |-> NoYear,
           amends |-> {}, amended_by |-> {}, repeals |-> {} ]

MCPrinted == [ older |-> [Blank EXCEPT !.adopted = 1], newer |-> [Blank EXCEPT !.consolidated = 3] ]

MCFile == DOMAIN MCPrinted

OnePath == {<<f>> : f \in MCFile}

\* A symmetry too: ids order only rows of one date, and these versions differ in
\* theirs, so every behaviour is a renaming of one that draws the ids in order.
DrawnInOrder == used = 1..Cardinality(used)

Interchangeable == Permutations(Worker) \union Permutations(Collection)

UpToTwoPaths == OnePath \union {<<"older", "newer">>}
=============================================================================
