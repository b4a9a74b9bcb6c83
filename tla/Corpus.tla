------------------------------- MODULE Corpus -------------------------------
(***************************************************************************)
(* The document corpus as IngestionService promises it: a document appears *)
(* (or is replaced) in one step, and a lineage pass reads every document   *)
(* and writes every verdict and every edge in one step.  Pages, sections,  *)
(* chunks and vectors are left out: module Ingestion has them, and shows   *)
(* when the service keeps this promise.                                    *)
(***************************************************************************)
EXTENDS DocumentTable

CONSTANT Correction  \* the statuses an operator may set by hand

ASSUME CorrectionAssumption == Correction \subseteq DocumentStatus

VARIABLES
    document,  \* the document table
    relation   \* the bylaw_relation table

vars == <<document, relation>>

Init ==
    /\ document = [d \in DocId |-> Absent]
    /\ relation = {}

\* A document not yet in the corpus is committed.
Store(d, file) ==
    /\ document[d] = Absent
    /\ \A e \in Stored(document) : document[e].file # file
    /\ document' = [document EXCEPT ![d] = NewRow(file)]
    /\ UNCHANGED relation

\* A forced re-ingest deletes the row and inserts it under a new id, in one
\* transaction; edges of the old row go with it.
Replace(old, d) ==
    /\ document[old] # Absent /\ document[d] = Absent
    /\ document' = [document EXCEPT ![old] = Absent, ![d] = NewRow(document[old].file)]
    /\ relation' = {e \in relation : e.parent # old /\ e.child # old}

\* resolve_lineage over the whole corpus.
ResolveLineage ==
    LET F == LoadFacts(document)
    IN  /\ F # {}
        /\ document' = [d \in DocId |->
                          IF Updatable(document[d])
                          THEN Judged(document[d], F, FactsOf(d, document[d].file))
                          ELSE document[d]]
        /\ relation' = BuildEdges(F)

\* An operator corrects a verdict against the municipality's register.  No
\* code under src/ does this yet; the column and its readers exist.
VerifyByHuman(d, status) ==
    /\ document[d] # Absent
    /\ document' = [document EXCEPT ![d].status = status, ![d].verified = TRUE]
    /\ UNCHANGED relation

Next ==
    \/ \E d \in DocId, file \in File : Store(d, file)
    \/ \E old, d \in DocId : Replace(old, d)
    \/ ResolveLineage
    \/ \E d \in DocId, status \in Correction : VerifyByHuman(d, status)

Spec == Init /\ [][Next]_vars

-----------------------------------------------------------------------------
(* Properties *)

TypeOK ==
    /\ document \in [DocId -> Row \union {Absent}]
    /\ relation \subseteq Edge

PaperOf(d) == FactsOf(d, document[d].file)

SameBylaw(d, e) ==
    /\ Placed(PaperOf(d)) /\ Placed(PaperOf(e)) /\ PaperOf(d).slug = PaperOf(e).slug
    /\ Normalise(PaperOf(d).number) = Normalise(PaperOf(e).number)

\* At no time are two documents of one bylaw both in force by the resolver's
\* verdict, whatever was stored, replaced or verified since the last pass.
OneInForcePerBylaw ==
    \A d, e \in Stored(document) :
        /\ d # e /\ SameBylaw(d, e)
        /\ ~document[d].verified /\ ~document[e].verified
        => ~(document[d].status = "in_force" /\ document[e].status = "in_force")

\* The amendment date shown beside a citation is that of an amending document
\* which is still in the corpus, although COALESCE keeps dates of past passes.
LastAmendmentIsReal ==
    \A d \in Stored(document) :
        document[d].last_amendment # NoDate =>
            \E e \in Stored(document) :
                /\ PaperOf(e).doc_type = "amendment" /\ PaperOf(e).slug = PaperOf(d).slug
                /\ VersionDate(PaperOf(e)) = document[d].last_amendment

\* No edge crosses municipalities, links a document to itself or names a
\* document that is gone: 4451 of Surrey is not 4451 of Coquitlam.
EdgesStayInMunicipality ==
    \A e \in relation :
        /\ {e.parent, e.child} \subseteq Stored(document) /\ e.parent # e.child
        /\ PaperOf(e.parent).slug = PaperOf(e.child).slug
        /\ PaperOf(e.child).slug # Undetected

\* Following "consolidates" and "replaces" leads to one newest version: no
\* document is both replaced by a version and the replacement of one.
VersionEdgesHaveOneHead ==
    \A e, g \in relation :
        (e.relation \notin {"amends", "repeals"} /\ g.relation \notin {"amends", "repeals"})
        => e.child # g.parent

\* What a pass declares superseded it also explains: an edge to the newer
\* version, or to the consolidation that absorbed it.
SupersededIsExplained ==
    [][ResolveLineage =>
         \A d \in Stored(document) :
            document'[d].status = "superseded" /\ ~document[d].verified =>
               \E e \in relation' :
                  \/ e.parent = d /\ e.relation \in {"consolidates", "replaces"}
                  \/ e.child = d /\ e.relation = "amends"]_vars

\* A dated bylaw is never left without a text: unless its newest version is an
\* absorbed amendment, a pass leaves one unverified version in force.
BylawStaysAnswerable ==
    [][ResolveLineage =>
         \A d \in Stored(document) :
            /\ Placed(PaperOf(d)) /\ Dated(PaperOf(d))
            /\ \A e \in Stored(document) : SameBylaw(d, e) =>
                  ~document[e].verified /\ PaperOf(e).doc_type # "amendment"
            => \E e \in Stored(document) :
                  SameBylaw(d, e) /\ Dated(PaperOf(e)) /\ document'[e].status = "in_force"]_vars

\* A superseded text never comes back by itself: no store, re-ingest or pass
\* makes it current again, except where another version ties with it in date
\* and kind, so that only the random document ids decide between them.
NoResurrection ==
    [][\A d \in Stored(document) :
            /\ document[d].status = "superseded" /\ document'[d] # Absent
            /\ document'[d].status = "in_force" /\ ~document'[d].verified
            =>
               \E e \in Stored(document) \ {d} :
                  /\ SameBylaw(d, e) /\ VersionDate(PaperOf(d)) = VersionDate(PaperOf(e))
                  /\ IsConsolidation(PaperOf(d)) = IsConsolidation(PaperOf(e))]_vars

\* Rule 4 of amendments.py, as far as the code keeps dates: an amending bylaw
\* is declared superseded only by another version of itself, or by a
\* consolidation of a bylaw it amends that is dated in the year of its adoption
\* or later.  (The comment says "dated after it"; the day is not kept.)
AmendmentFoldedByYear ==
    \A d \in Stored(document) :
        /\ PaperOf(d).doc_type = "amendment" /\ ~document[d].verified
        /\ document[d].status = "superseded"
        => \E e \in Stored(document) \ {d} :
              \/ SameBylaw(d, e)
              \/ /\ IsConsolidation(PaperOf(e)) /\ PaperOf(e).slug = PaperOf(d).slug
                 /\ \E c \in PaperOf(d).amends : Normalise(c) = Normalise(PaperOf(e).number)
                 /\ YearOf(PaperOf(e).consolidation_date) >= PaperOf(d).year

\* Rule 1 of amendments.py: a bylaw explicitly repealed by another is repealed,
\* at the latest by the next pass over both documents.
RepealTakesEffect ==
    [][ResolveLineage =>
         \A d, e \in Stored(document) :
            /\ d # e /\ ~document[d].verified
            /\ Placed(PaperOf(d)) /\ PaperOf(e).slug = PaperOf(d).slug
            /\ \E c \in Printed[document[e].file].repeals :
                  Normalise(c) = Normalise(PaperOf(d).number)
            => document'[d].status = "repealed"]_vars

=============================================================================
