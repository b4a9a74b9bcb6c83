------------------------------ MODULE Lineage -------------------------------
(***************************************************************************)
(* LineageResolver (ingestion/amendments.py): which documents of a corpus  *)
(* are currently the law, and the edges that relate them.  A corpus is a   *)
(* set F of DocumentFacts with distinct ids.  Ids are numbers, in the      *)
(* order in which the document uuids sort as strings.                      *)
(***************************************************************************)
EXTENDS Metadata, FiniteSetsExt

DocumentFacts == [ id                 : Nat,
                   slug               : Municipality \union {Undetected},
                   number             : Citation \union {Undetected},
                   doc_type           : DocType,
                   consolidation_date : Nat,
                   effective_date     : Nat,
                   year               : Nat,
                   amends             : SUBSET Citation,
                   repeals            : SUBSET Citation ]

VersionDate(f) ==
    IF f.consolidation_date # NoDate THEN f.consolidation_date
    ELSE IF f.effective_date # NoDate THEN f.effective_date
    ELSE IF f.year # NoYear THEN NewYear(f.year) ELSE NoDate

Dated(f) == VersionDate(f) # NoDate

\* Suffix and leading zeros are dropped.
Normalise(c) == c.base

\* A document that takes part in version ordering.
Placed(f) == f.slug # Undetected /\ f.number # Undetected

\* Mutant: bylaw numbers are looked up in every municipality.
LookupAnywhere(F, slug, number) ==
    {f \in F : Placed(f) /\ Normalise(f.number) = Normalise(number)}

Lookup(F, slug, number) ==
    {f \in F : Placed(f) /\ f.slug = slug /\ Normalise(f.number) = Normalise(number)}

Versions(F, f) == Lookup(F, f.slug, f.number)

IsConsolidation(f) == f.doc_type = "consolidated"

\* Mutants: no tie break; undated versions last; the order of the ids alone.
OlderByDateOnly(f, g) == VersionDate(f) < VersionDate(g)
OlderUndatedLast(f, g) == Dated(f) /\ (VersionDate(f) < VersionDate(g) \/ ~Dated(g))
OlderById(f, g) == f.id < g.id

\* The sort key: date (undated first), consolidations last, then document id.
Older(f, g) ==
    \/ VersionDate(f) < VersionDate(g)
    \/ /\ VersionDate(f) = VersionDate(g)
       /\ \/ ~IsConsolidation(f) /\ IsConsolidation(g)
          \/ IsConsolidation(f) = IsConsolidation(g) /\ f.id < g.id

HasNewer(F, f) == \E g \in Versions(F, f) : Older(f, g)

-----------------------------------------------------------------------------
(* Verdicts *)

Repealed(F, f) ==
    /\ Placed(f)
    /\ \E g \in F : /\ g.id # f.id /\ g.slug = f.slug
                    /\ \E c \in g.repeals : Normalise(c) = Normalise(f.number)

\* Mutant: any consolidation of what it amends absorbs an amendment.
AbsorbedByAny(F, f) ==
    /\ f.doc_type = "amendment" /\ Dated(f)
    /\ \E c \in f.amends : \E t \in Lookup(F, f.slug, c) : IsConsolidation(t)

\* An amendment is spent once a consolidation of what it amends is not older.
Absorbed(F, f) ==
    /\ f.doc_type = "amendment" /\ Dated(f)
    /\ \E c \in f.amends : \E t \in Lookup(F, f.slug, c) :
          /\ IsConsolidation(t) /\ t.consolidation_date # NoDate
          /\ t.consolidation_date >= VersionDate(f)

\* Mutant: what is left is reported by its document type.
ResolveOneByType(F, f) ==
    IF ~Placed(f) THEN "unknown" ELSE IF HasNewer(F, f) THEN "superseded" ELSE f.doc_type

\* The rules in the order the code tries them.
ResolveOne(F, f) ==
    IF Repealed(F, f) THEN "repealed"
    ELSE IF ~Placed(f) THEN "unknown"
    ELSE IF HasNewer(F, f) \/ Absorbed(F, f) THEN "superseded"
    ELSE IF ~Dated(f) THEN "unknown" ELSE "in_force"

\* Mutant: amending bylaws of other municipalities count.
AmendmentDatesAnywhere(F, f) ==
    {VersionDate(g) : g \in {h \in F : /\ Placed(f) /\ h.doc_type = "amendment" /\ Dated(h)
                                       /\ \E c \in h.amends : Normalise(c) = Normalise(f.number)}}

AmendmentDates(F, f) ==
    {VersionDate(g) : g \in {h \in F : /\ Placed(f) /\ h.slug = f.slug
                                       /\ h.doc_type = "amendment" /\ Dated(h)
                                       /\ \E c \in h.amends : Normalise(c) = Normalise(f.number)}}

LastAmendmentDate(F, f) ==
    IF AmendmentDates(F, f) = {} THEN NoDate ELSE Max(AmendmentDates(F, f))

-----------------------------------------------------------------------------
(* Edges, as bylaw_relation stores them: one per parent, child, relation.  *)
(* The detector's name, its confidence and the evidence text are left out. *)

ReferenceEdges(F) ==
    UNION {{[parent |-> t.id, child |-> f.id, relation |-> r] :
              t \in (UNION {Lookup(F, f.slug, c) :
                              c \in IF r = "amends" THEN f.amends ELSE f.repeals}) \ {f}} :
           f \in {g \in F : g.slug # Undetected}, r \in {"amends", "repeals"}}

\* Mutants: an edge to every newer version; edges to consolidations only.
VersionEdgesToEveryNewer(F) ==
    {[parent |-> e[1].id, child |-> e[2].id, relation |-> "replaces"] :
       e \in {p \in F \X F : Placed(p[1]) /\ p[2] \in Versions(F, p[1]) /\ Older(p[1], p[2])}}

VersionEdgesToConsolidations(F) ==
    {[parent |-> e[1].id, child |-> e[2].id, relation |-> "consolidates"] :
       e \in {p \in F \X F : /\ Placed(p[1]) /\ p[2] \in Versions(F, p[1]) \ {p[1]}
                             /\ ~HasNewer(F, p[2]) /\ IsConsolidation(p[2])}}

VersionEdges(F) ==
    {[parent   |-> e[1].id,
      child    |-> e[2].id,
      relation |-> IF IsConsolidation(e[2]) THEN "consolidates" ELSE "replaces"] :
       e \in {p \in F \X F : /\ Placed(p[1]) /\ p[2] \in Versions(F, p[1]) \ {p[1]}
                             /\ ~HasNewer(F, p[2])}}

BuildEdges(F) == ReferenceEdges(F) \union VersionEdges(F)

=============================================================================
