---------------------------- MODULE DocumentTable ---------------------------
(***************************************************************************)
(* Rows of the document and bylaw_relation tables (db/models.py), and what *)
(* IngestionService reads from and writes to one of them.  Columns that    *)
(* no decision reads (title, sizes, notes, timestamps) are left out.       *)
(***************************************************************************)
EXTENDS Lineage

CONSTANTS
    File,      \* distinct PDF contents; equal contents have equal sha256
    Printed,   \* Printed[f] is the Paper read from file f
    DocId,     \* the document ids a run may draw
    Absent     \* no row under this id

ASSUME PrintedAssumption == Printed \in [File -> Paper]
ASSUME DocIdAssumption   == DocId \subseteq Nat /\ IsFiniteSet(DocId)

Row == [ file           : File,
         status         : DocumentStatus,
         last_amendment : Nat,
         verified       : BOOLEAN ]

ASSUME AbsentAssumption == Absent \notin Row \union DocId

Edge == [ parent   : DocId,
          child    : DocId,
          relation : {"amends", "repeals", "consolidates", "replaces"} ]

Stored(table) == {d \in DocId : table[d] # Absent}

\* The row as lineage sees it: effective_date is a column no insert fills, and
\* repealed numbers are not a column at all.
FactsOf(d, file) ==
    LET m == Detect(Printed[file])
    IN  [ id |-> d, slug |-> m.slug, number |-> m.number, doc_type |-> m.doc_type,
          consolidation_date |-> m.consolidation_date, effective_date |-> NoDate,
          year |-> m.year, amends |-> m.amends, repeals |-> {} ]

LoadFacts(table) == {FactsOf(d, table[d].file) : d \in Stored(table)}

NewRow(file) == [file |-> file, status |-> "unknown", last_amendment |-> NoDate, verified |-> FALSE]

\* Mutant: the UPDATE forgets verified_by_human.
UpdatableUnchecked(row) == row # Absent

\* WHERE id = :id AND verified_by_human = false
Updatable(row) == row # Absent /\ ~row.verified

\* SET of one UPDATE of _write_statuses: an earlier amendment date is kept when
\* the pass finds none.
Judged(row, F, f) ==
    [row EXCEPT !.status = ResolveOne(F, f),
                !.last_amendment = IF LastAmendmentDate(F, f) = NoDate
                                   THEN @ ELSE LastAmendmentDate(F, f)]

=============================================================================
