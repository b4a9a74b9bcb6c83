---------------------------- MODULE CorpusProofs ----------------------------
(* The promise of module Corpus, for every registry and set of papers. *)
EXTENDS Corpus, DocumentTableProofs

-----------------------------------------------------------------------------
(* Rows *)

LEMMA StoredRow ==
    ASSUME TypeOK, NEW d \in Stored(document)
    PROVE  d \in DocId /\ document[d] \in Row /\ document[d].file \in File
  BY TableRow DEF TypeOK, Table

LEMMA LoadedCorpus ==
    ASSUME TypeOK
    PROVE  IsCorpus(LoadFacts(document))
  BY LoadFactsIsCorpus DEF TypeOK, Table

-----------------------------------------------------------------------------
(* The invariants *)

\* Every row and every edge is one the schema admits: each verdict is one of
\* the four statuses and each amendment date is a date.
THEOREM TypeCorrect == Spec => []TypeOK
<1>1. Init => TypeOK
  BY DEF Init, TypeOK
<1>2. TypeOK /\ [Next]_vars => TypeOK'
  <2>. SUFFICES ASSUME TypeOK, [Next]_vars
                PROVE  TypeOK'
    OBVIOUS
  <2>1. ASSUME NEW d \in DocId, NEW file \in File, Store(d, file)
        PROVE  TypeOK'
    BY <2>1, NewRowType DEF Store, TypeOK
  <2>2. ASSUME NEW old \in DocId, NEW d \in DocId, Replace(old, d)
        PROVE  TypeOK'
    <3>1. NewRow(document[old].file) \in Row
      BY <2>2, StoredRow, NewRowType DEF Replace, Stored
    <3>. QED
      BY <2>2, <3>1 DEF Replace, TypeOK
  <2>3. CASE ResolveLineage
    <3>1. document' = Pass(document) /\ relation' = BuildEdges(LoadFacts(document))
      BY <2>3 DEF ResolveLineage, Pass
    <3>. QED
      BY <3>1, PassOverTable, PassEdges DEF TypeOK, Table
  <2>4. ASSUME NEW d \in DocId, NEW status \in Correction, VerifyByHuman(d, status)
        PROVE  TypeOK'
    <3>1. document[d] \in Row /\ status \in DocumentStatus
      BY <2>4, StoredRow, CorrectionAssumption DEF VerifyByHuman, Stored
    <3>2. [document[d] EXCEPT !.status = status, !.verified = TRUE] \in Row
      BY <3>1 DEF Row
    <3>3. document' = [document EXCEPT ![d] =
                         [document[d] EXCEPT !.status = status, !.verified = TRUE]]
      BY <2>4 DEF VerifyByHuman, TypeOK
    <3>. QED
      BY <2>4, <3>2, <3>3 DEF VerifyByHuman, TypeOK
  <2>5. CASE UNCHANGED vars
    BY <2>5 DEF vars, TypeOK
  <2>. QED
    BY <2>1, <2>2, <2>3, <2>4, <2>5 DEF Next
<1>. QED
  BY <1>1, <1>2, PTL DEF Spec

\* Two versions of one bylaw are never both in force by the resolver's verdict,
\* however many papers, styles of number, ties and re-ingests there are.
THEOREM NeverTwoInForce == Spec => []OneInForcePerBylaw
<1>1. OneInForcePerBylaw <=> OneInForce(document)
  BY DEF OneInForcePerBylaw, OneInForce, SameBylaw, PaperOf
<1>2. Init => OneInForce(document)
  BY DEF Init, OneInForce, Stored
<1>3. TypeOK /\ OneInForce(document) /\ [Next]_vars => OneInForce(document)'
  <2>. SUFFICES ASSUME TypeOK, OneInForce(document), [Next]_vars
                PROVE  OneInForce(document')
    OBVIOUS
  <2>1. ASSUME NEW d \in DocId, NEW file \in File, Store(d, file)
        PROVE  OneInForce(document')
    <3>1. document' = [document EXCEPT ![d] = NewRow(file)]
      BY <2>1 DEF Store
    <3>. QED
      BY <3>1, OneInForceKept DEF NewRow, Stored, TypeOK
  <2>2. ASSUME NEW old \in DocId, NEW d \in DocId, Replace(old, d)
        PROVE  OneInForce(document')
    <3>1. document' = [document EXCEPT ![old] = Absent, ![d] = NewRow(document[old].file)]
      BY <2>2 DEF Replace
    <3>. QED
      BY <3>1, OneInForceKept DEF NewRow, Stored, TypeOK
  <2>3. CASE ResolveLineage
    <3>1. document' = Pass(document)
      BY <2>3 DEF ResolveLineage, Pass
    <3>. QED
      BY <3>1, PassLeavesOneInForce DEF TypeOK, Table
  <2>4. ASSUME NEW d \in DocId, NEW status \in Correction, VerifyByHuman(d, status)
        PROVE  OneInForce(document')
    <3>1. document[d] \in Row
      BY <2>4, StoredRow DEF VerifyByHuman, Stored
    <3>2. document'[d].verified
      BY <2>4, <3>1 DEF VerifyByHuman, TypeOK, Row
    <3>3. \A e \in DocId \ {d} : document'[e] = document[e]
      BY <2>4 DEF VerifyByHuman, TypeOK
    <3>. QED
      BY <3>2, <3>3, OneInForceKept DEF Stored
  <2>5. CASE UNCHANGED vars
    BY <2>5 DEF vars
  <2>. QED
    BY <2>1, <2>2, <2>3, <2>4, <2>5 DEF Next
<1>. QED
  BY <1>1, <1>2, <1>3, TypeCorrect, PTL DEF Spec

\* No edge crosses municipalities, links a document to itself or names a
\* document that is gone, through every store, re-ingest and pass.
THEOREM EdgesStay == Spec => []EdgesStayInMunicipality
<1>1. Init => EdgesStayInMunicipality
  BY DEF Init, EdgesStayInMunicipality
<1>2. TypeOK /\ EdgesStayInMunicipality /\ [Next]_vars => EdgesStayInMunicipality'
  <2>. SUFFICES ASSUME TypeOK, EdgesStayInMunicipality, [Next]_vars
                PROVE  EdgesStayInMunicipality'
    OBVIOUS
  <2>. DEFINE Kept(e) == /\ document'[e.parent] # Absent /\ document'[e.child] # Absent
                         /\ document'[e.parent].file = document[e.parent].file
                         /\ document'[e.child].file = document[e.child].file
  <2>0. ASSUME relation' \subseteq relation, \A e \in relation' : Kept(e)
        PROVE  EdgesStayInMunicipality'
    BY <2>0 DEF EdgesStayInMunicipality, Stored, PaperOf
  <2>1. ASSUME NEW d \in DocId, NEW file \in File, Store(d, file)
        PROVE  EdgesStayInMunicipality'
    <3>1. /\ document[d] = Absent /\ relation' = relation
          /\ document' = [document EXCEPT ![d] = NewRow(file)]
      BY <2>1 DEF Store
    <3>2. \A x \in Stored(document) : document'[x] = document[x]
      BY <3>1 DEF Stored, TypeOK
    <3>3. \A e \in relation' : Kept(e)
      BY <3>1, <3>2 DEF EdgesStayInMunicipality, Stored
    <3>. QED
      BY <2>0, <3>1, <3>3
  <2>2. ASSUME NEW old \in DocId, NEW d \in DocId, Replace(old, d)
        PROVE  EdgesStayInMunicipality'
    <3>1. /\ document[d] = Absent
          /\ document' = [document EXCEPT ![old] = Absent, ![d] = NewRow(document[old].file)]
          /\ relation' = {e \in relation : e.parent # old /\ e.child # old}
      BY <2>2 DEF Replace
    <3>2. \A x \in Stored(document) \ {old} : document'[x] = document[x]
      BY <3>1 DEF Stored, TypeOK
    <3>3. \A e \in relation' : Kept(e)
      BY <3>1, <3>2 DEF EdgesStayInMunicipality, Stored
    <3>. QED
      BY <2>0, <3>1, <3>3
  <2>3. CASE ResolveLineage
    <3>. DEFINE F == LoadFacts(document)
    <3>1. IsCorpus(F) /\ relation' = BuildEdges(F)
      BY <2>3, LoadedCorpus DEF ResolveLineage
    <3>2. \A f \in F : /\ f.id \in Stored(document) /\ PaperOf(f.id) = f
                       /\ f.id \in Stored(document') /\ PaperOf(f.id)' = f
      <4>1. document' = Pass(document) /\ document \in Table
        BY <2>3 DEF ResolveLineage, Pass, TypeOK, Table
      <4>. QED
        BY <4>1, PassOverTable, LoadFactsIsCorpus DEF PaperOf
    <3>. HIDE DEF F
    <3>. SUFFICES ASSUME NEW e \in relation'
                  PROVE  /\ {e.parent, e.child} \subseteq Stored(document') /\ e.parent # e.child
                         /\ (PaperOf(e.parent)').slug = (PaperOf(e.child)').slug
                         /\ (PaperOf(e.child)').slug # Undetected
      BY DEF EdgesStayInMunicipality
    <3>3. PICK f, g \in F : /\ e.parent = f.id /\ e.child = g.id /\ f # g
                            /\ f.slug = g.slug /\ g.slug # Undetected
      BY <3>1, BuildEdgesRelate
    <3>4. f.id # g.id
      BY <3>1, <3>3 DEF IsCorpus
    <3>. QED
      BY <3>2, <3>3, <3>4
  <2>4. ASSUME NEW d \in DocId, NEW status \in Correction, VerifyByHuman(d, status)
        PROVE  EdgesStayInMunicipality'
    <3>1. /\ relation' = relation /\ document[d] # Absent
          /\ document' = [document EXCEPT ![d] =
                            [document[d] EXCEPT !.status = status, !.verified = TRUE]]
      BY <2>4 DEF VerifyByHuman, TypeOK
    <3>2. document[d] \in Row /\ status \in DocumentStatus
      BY <2>4, <3>1, StoredRow, CorrectionAssumption DEF Stored
    <3>3. /\ [document[d] EXCEPT !.status = status, !.verified = TRUE] \in Row
          /\ [document[d] EXCEPT !.status = status, !.verified = TRUE].file = document[d].file
      BY <3>2 DEF Row
    <3>4. \A x \in Stored(document) :
             document'[x] # Absent /\ document'[x].file = document[x].file
      BY <3>1, <3>3, AbsentAssumption DEF Stored, TypeOK
    <3>5. \A e \in relation' : Kept(e)
      BY <3>1, <3>4 DEF EdgesStayInMunicipality
    <3>. QED
      BY <2>0, <3>1, <3>5
  <2>5. CASE UNCHANGED vars
    BY <2>5 DEF vars, EdgesStayInMunicipality, Stored, PaperOf
  <2>. QED
    BY <2>1, <2>2, <2>3, <2>4, <2>5 DEF Next
<1>. QED
  BY <1>1, <1>2, TypeCorrect, PTL DEF Spec

\* Following "consolidates" and "replaces" ends at the newest version.
THEOREM VersionEdgesEnd == Spec => []VersionEdgesHaveOneHead
<1>1. Init => VersionEdgesHaveOneHead
  BY DEF Init, VersionEdgesHaveOneHead
<1>2. TypeOK /\ VersionEdgesHaveOneHead /\ [Next]_vars => VersionEdgesHaveOneHead'
  <2>. SUFFICES ASSUME TypeOK, VersionEdgesHaveOneHead, [Next]_vars
                PROVE  VersionEdgesHaveOneHead'
    OBVIOUS
  <2>1. relation' \subseteq relation => VersionEdgesHaveOneHead'
    BY DEF VersionEdgesHaveOneHead
  <2>2. CASE ResolveLineage
    <3>. DEFINE F == LoadFacts(document)
    <3>1. IsCorpus(F) /\ relation' = BuildEdges(F)
      BY <2>2, LoadedCorpus DEF ResolveLineage
    <3>. HIDE DEF F
    <3>2. ASSUME NEW e \in relation', e.relation \notin {"amends", "repeals"}
          PROVE  \E f, g \in F : /\ e.parent = f.id /\ e.child = g.id /\ f # g
                                 /\ Placed(f) /\ g \in Versions(F, f) /\ ~HasNewer(F, g)
      <4>1. e \notin ReferenceEdges(F)
        BY <3>2 DEF ReferenceEdges
      <4>2. e \in VersionEdges(F)
        BY <3>1, <4>1 DEF BuildEdges
      <4>3. PICK p \in F \X F :
               /\ Placed(p[1]) /\ p[2] \in Versions(F, p[1]) \ {p[1]} /\ ~HasNewer(F, p[2])
               /\ e = [parent |-> p[1].id, child |-> p[2].id,
                       relation |-> IF IsConsolidation(p[2]) THEN "consolidates" ELSE "replaces"]
        BY <4>2 DEF VersionEdges
      <4>. QED
        BY <4>3
    <3>3. ASSUME NEW e \in relation', e.relation \notin {"amends", "repeals"},
                 NEW x \in relation', x.relation \notin {"amends", "repeals"},
                 e.child = x.parent
          PROVE  FALSE
      <4>1. PICK g \in F : e.child = g.id /\ ~HasNewer(F, g)
        BY <3>2, <3>3
      <4>2. PICK f, h \in F : /\ x.parent = f.id /\ f # h /\ Placed(f)
                              /\ h \in Versions(F, f) /\ ~HasNewer(F, h)
        BY <3>2, <3>3
      <4>3. f = g
        BY <3>1, <3>3, <4>1, <4>2 DEF IsCorpus
      <4>4. f \in Versions(F, f)
        BY <4>2 DEF Versions, Lookup
      <4>. QED
        BY <3>1, <4>1, <4>2, <4>3, <4>4, OneNewestVersion
    <3>. QED
      BY <3>3 DEF VersionEdgesHaveOneHead
  <2>3. \/ ResolveLineage \/ relation' \subseteq relation
    BY DEF Next, Store, Replace, VerifyByHuman, vars
  <2>. QED
    BY <2>1, <2>2, <2>3
<1>. QED
  BY <1>1, <1>2, TypeCorrect, PTL DEF Spec

-----------------------------------------------------------------------------
(* What a step never does *)

\* A pass leaves every dated bylaw with a text in force: its newest version is
\* found, is dated, and is neither repealed nor absorbed.
THEOREM BylawKeepsAText == Spec => BylawStaysAnswerable
<1>. DEFINE Answerable(d) ==
              \E e \in Stored(document) :
                 SameBylaw(d, e) /\ Dated(PaperOf(e)) /\ document'[e].status = "in_force"
            Judgeable(d) ==
              /\ Placed(PaperOf(d)) /\ Dated(PaperOf(d))
              /\ \A e \in Stored(document) : SameBylaw(d, e) =>
                    ~document[e].verified /\ PaperOf(e).doc_type # "amendment"
            A == ResolveLineage =>
                   \A d \in Stored(document) : Judgeable(d) => Answerable(d)
<1>1. TypeOK /\ [Next]_vars => [A]_vars
  <2>. SUFFICES ASSUME TypeOK, ResolveLineage, NEW d \in Stored(document), Judgeable(d)
                PROVE  Answerable(d)
    OBVIOUS
  <2>. DEFINE F == LoadFacts(document)
              f == PaperOf(d)
  <2>1. IsCorpus(F) /\ f \in F /\ Placed(f)
    BY LoadedCorpus DEF LoadFacts, PaperOf
  <2>2. \A x \in F : x.repeals = {} /\ x.id \in Stored(document) /\ x = PaperOf(x.id)
    <3>1. \A e, file : FactsOf(e, file).id = e /\ FactsOf(e, file).repeals = {}
      BY DEF FactsOf
    <3>2. \A x \in F : \E e \in Stored(document) : x = FactsOf(e, document[e].file)
      BY DEF LoadFacts
    <3>. HIDE DEF F, f
    <3>. QED
      BY <3>1, <3>2 DEF PaperOf
  <2>3. PICK g \in Versions(F, f) : ~HasNewer(F, g)
    <3>. HIDE DEF F, f
    <3>. QED
      BY <2>1, OneNewestVersion
  <2>4. g \in F /\ Placed(g) /\ g.slug = f.slug /\ Normalise(g.number) = Normalise(f.number)
    BY <2>3 DEF Versions, Lookup
  <2>5. SameBylaw(d, g.id)
    BY <2>2, <2>4 DEF SameBylaw
  <2>6. ~document[g.id].verified /\ g.doc_type # "amendment"
    BY <2>2, <2>4, <2>5
  <2>7. Dated(g)
    <3>1. f \in Versions(F, g)
      BY <2>1, <2>4 DEF Versions, Lookup
    <3>2. f.id # g.id => Older(f, g)
      <4>. HIDE DEF F, f
      <4>. QED
        BY <2>1, <2>3, <2>4, <3>1, OlderIsTotal DEF IsCorpus, HasNewer
    <3>3. VersionDate(f) \in Nat /\ VersionDate(g) \in Nat
      <4>. HIDE DEF F, f
      <4>. QED
        BY <2>1, <2>4, VersionDateType DEF IsCorpus
    <3>4. f.id = g.id => f = g
      <4>. HIDE DEF F, f
      <4>. QED
        BY <2>1, <2>4 DEF IsCorpus
    <3>5. Dated(f)
      OBVIOUS
    <3>. HIDE DEF F, f
    <3>. QED
      BY <3>2, <3>3, <3>4, <3>5 DEF Older, Dated, NoDate
  <2>8. ResolveOne(F, g) = "in_force"
    <3>1. ~Repealed(F, g)
      BY <2>2 DEF Repealed
    <3>2. ~Absorbed(F, g)
      BY <2>6 DEF Absorbed
    <3>. HIDE DEF F
    <3>. QED
      BY <2>3, <2>4, <2>7, <3>1, <3>2 DEF ResolveOne
  <2>9. document'[g.id].status = "in_force"
    <3>1. g.id \in Stored(document) /\ g = FactsOf(g.id, document[g.id].file)
      BY <2>2, <2>4 DEF PaperOf
    <3>2. g.id \in DocId /\ Updatable(document[g.id]) /\ document[g.id] \in Row
      BY <2>6, <3>1, StoredRow DEF Updatable, Stored
    <3>3. document'[g.id] = Judged(document[g.id], F, g)
      BY <3>1, <3>2 DEF ResolveLineage
    <3>. HIDE DEF F
    <3>. QED
      BY <2>1, <2>8, <3>2, <3>3, JudgedType
  <2>. QED
    BY <2>2, <2>4, <2>5, <2>7, <2>9
<1>. QED
  BY <1>1, TypeCorrect, PTL DEF Spec, BylawStaysAnswerable


-----------------------------------------------------------------------------
(* Why a document is superseded *)

\* Paper g is a version of the bylaw of f and not an older one, ids aside.
Outdates(g, f) ==
    /\ Placed(f) /\ Placed(g) /\ f.slug = g.slug /\ Normalise(f.number) = Normalise(g.number)
    /\ \/ VersionDate(f) < VersionDate(g)
       \/ /\ VersionDate(f) = VersionDate(g)
          /\ IsConsolidation(f) => IsConsolidation(g)

\* Amendment f is part of the consolidation g.
Absorbs(g, f) ==
    /\ f.doc_type = "amendment" /\ Dated(f)
    /\ Placed(g) /\ g.slug = f.slug
    /\ \E c \in f.amends : Normalise(c) = Normalise(g.number)
    /\ IsConsolidation(g) /\ g.consolidation_date # NoDate
    /\ g.consolidation_date >= VersionDate(f)

\* The document that supersedes another stays in the corpus, at most under a
\* new id: what AmendmentFoldedByYear and NoResurrection rest on.
SupersededForAReason ==
    \A d \in Stored(document) :
        ~document[d].verified /\ document[d].status = "superseded" =>
            \E e \in Stored(document) \ {d} :
               Outdates(PaperOf(e), PaperOf(d)) \/ Absorbs(PaperOf(e), PaperOf(d))

\* What the resolver reads of a paper does not depend on the document's id.
LEMMA ReasonsIgnoreIds ==
    ASSUME NEW d \in DocId, NEW e \in DocId, NEW file, NEW f
    PROVE  /\ Outdates(FactsOf(d, file), f) => Outdates(FactsOf(e, file), f)
           /\ Absorbs(FactsOf(d, file), f) => Absorbs(FactsOf(e, file), f)
<1>. DEFINE g == FactsOf(d, file)
            h == FactsOf(e, file)
<1>1. /\ h.slug = g.slug /\ h.number = g.number /\ h.doc_type = g.doc_type /\ h.year = g.year
      /\ h.consolidation_date = g.consolidation_date /\ h.effective_date = g.effective_date
  BY DEF FactsOf
<1>. HIDE DEF g, h
<1>2. VersionDate(h) = VersionDate(g) /\ Placed(h) = Placed(g) /\ IsConsolidation(h) = IsConsolidation(g)
  BY <1>1 DEF VersionDate, Placed, IsConsolidation
<1>3. Outdates(g, f) => Outdates(h, f)
  BY <1>1, <1>2 DEF Outdates
<1>4. Absorbs(g, f) => Absorbs(h, f)
  BY <1>1, <1>2 DEF Absorbs
<1>. QED
  BY <1>3, <1>4 DEF g, h

\* What a pass does to the rows.
LEMMA PassRewritesVerdicts ==
    ASSUME TypeOK, ResolveLineage
    PROVE  /\ Stored(document') = Stored(document)
           /\ \A d \in Stored(document) :
                 /\ document'[d].file = document[d].file
                 /\ document'[d].verified = document[d].verified
                 /\ ~document[d].verified =>
                       document'[d].status = ResolveOne(LoadFacts(document), PaperOf(d))
<1>1. document' = Pass(document) /\ document \in Table
  BY DEF ResolveLineage, Pass, TypeOK, Table
<1>. QED
  BY <1>1, PassOverTable DEF PaperOf

\* The verdict "superseded" always has a reason.
LEMMA ResolverHasAReason ==
    ASSUME TypeOK, NEW d \in Stored(document),
           ResolveOne(LoadFacts(document), PaperOf(d)) = "superseded"
    PROVE  \E e \in Stored(document) \ {d} :
              Outdates(PaperOf(e), PaperOf(d)) \/ Absorbs(PaperOf(e), PaperOf(d))
<1>. DEFINE F == LoadFacts(document)
            f == PaperOf(d)
<1>1. /\ F \subseteq DocumentFacts /\ f \in F /\ f.id = d
      /\ \A g \in F : g.id \in Stored(document) /\ PaperOf(g.id) = g
  BY LoadedCorpus, StoredRow, FactsOfType DEF LoadFacts, PaperOf, IsCorpus
<1>2. Placed(f) /\ (HasNewer(F, f) \/ Absorbed(F, f))
  BY DEF ResolveOne
<1>. HIDE DEF F, f
<1>3. CASE HasNewer(F, f)
  <2>1. PICK g \in Versions(F, f) : Older(f, g)
    BY <1>3 DEF HasNewer
  <2>2. g \in F /\ Placed(g) /\ g.slug = f.slug /\ Normalise(g.number) = Normalise(f.number)
    BY <2>1 DEF Versions, Lookup
  <2>3. Outdates(g, f)
    BY <1>2, <2>1, <2>2 DEF Outdates, Older
  <2>4. g # f
    <3>1. VersionDate(f) \in Nat /\ f.id \in Nat
      BY <1>1, VersionDateType DEF DocumentFacts
    <3>. QED
      BY <2>1, <3>1 DEF Older
  <2>. QED
    BY <1>1, <2>2, <2>3, <2>4 DEF f
<1>4. CASE Absorbed(F, f)
  <2>1. PICK c \in f.amends : \E t \in Lookup(F, f.slug, c) :
           /\ IsConsolidation(t) /\ t.consolidation_date # NoDate
           /\ t.consolidation_date >= VersionDate(f)
    BY <1>4 DEF Absorbed
  <2>2. PICK t \in Lookup(F, f.slug, c) :
           /\ IsConsolidation(t) /\ t.consolidation_date # NoDate
           /\ t.consolidation_date >= VersionDate(f)
    BY <2>1
  <2>3. t \in F /\ Absorbs(t, f)
    BY <1>4, <2>2 DEF Lookup, Absorbed, Absorbs
  <2>4. t # f
    BY <1>4, <2>2 DEF Absorbed, IsConsolidation
  <2>. QED
    BY <1>1, <2>3, <2>4 DEF f
<1>. QED
  BY <1>2, <1>3, <1>4

LEMMA ReasonsStay == Spec => []SupersededForAReason
<1>1. Init => SupersededForAReason
  BY DEF Init, SupersededForAReason, Stored
<1>2. TypeOK /\ SupersededForAReason /\ [Next]_vars => SupersededForAReason'
  <2>. SUFFICES ASSUME TypeOK, SupersededForAReason, [Next]_vars,
                       NEW d \in Stored(document'),
                       ~document'[d].verified, document'[d].status = "superseded"
                PROVE  \E e \in Stored(document') \ {d} :
                          Outdates(PaperOf(e)', PaperOf(d)') \/ Absorbs(PaperOf(e)', PaperOf(d)')
    BY DEF SupersededForAReason
  <2>. DEFINE Reason(f) == \E e \in Stored(document') \ {d} :
                              Outdates(PaperOf(e)', f) \/ Absorbs(PaperOf(e)', f)
  <2>1. ASSUME NEW x \in DocId, NEW file \in File, Store(x, file)
        PROVE  Reason(PaperOf(d)')
    <3>1. document[x] = Absent /\ document' = [document EXCEPT ![x] = NewRow(file)]
      BY <2>1 DEF Store
    <3>2. d # x
      BY <3>1 DEF NewRow, TypeOK
    <3>3. /\ d \in Stored(document) /\ document'[d] = document[d]
          /\ \A e \in Stored(document) : e \in Stored(document') /\ document'[e] = document[e]
      BY <3>1, <3>2 DEF Stored, TypeOK
    <3>. QED
      BY <3>3 DEF SupersededForAReason, PaperOf
  <2>2. ASSUME NEW old \in DocId, NEW x \in DocId, Replace(old, x)
        PROVE  Reason(PaperOf(d)')
    <3>1. /\ document[old] # Absent /\ document[x] = Absent
          /\ document' = [document EXCEPT ![old] = Absent, ![x] = NewRow(document[old].file)]
      BY <2>2 DEF Replace
    <3>2. /\ NewRow(document[old].file) # Absent
          /\ NewRow(document[old].file).file = document[old].file
          /\ NewRow(document[old].file).status = "unknown"
      BY <3>1, StoredRow, NewRowType, AbsentAssumption DEF Stored, NewRow
    <3>3. /\ d # x /\ d # old /\ d \in Stored(document) /\ document'[d] = document[d]
          /\ x \in Stored(document') /\ document'[x].file = document[old].file
          /\ \A e \in Stored(document) \ {old} : e \in Stored(document') /\ document'[e] = document[e]
      BY <3>1, <3>2 DEF Stored, TypeOK
    <3>4. PICK e \in Stored(document) \ {d} :
             Outdates(PaperOf(e), PaperOf(d)) \/ Absorbs(PaperOf(e), PaperOf(d))
      BY <3>3 DEF SupersededForAReason
    <3>5. PaperOf(d)' = PaperOf(d)
      BY <3>3 DEF PaperOf
    <3>6. CASE e = old
      <4>1. PaperOf(e) = FactsOf(e, document[old].file) /\ PaperOf(x)' = FactsOf(x, document[old].file)
        BY <3>3, <3>6 DEF PaperOf
      <4>2. e \in DocId /\ x \in DocId
        BY <2>2 DEF Stored
      <4>3. Outdates(PaperOf(x)', PaperOf(d)) \/ Absorbs(PaperOf(x)', PaperOf(d))
        BY <3>4, <4>1, <4>2, ReasonsIgnoreIds
      <4>. QED
        BY <3>3, <3>5, <4>3
    <3>7. CASE e # old
      <4>1. e \in Stored(document') \ {d} /\ PaperOf(e)' = PaperOf(e)
        BY <3>3, <3>7 DEF PaperOf
      <4>. QED
        BY <3>4, <3>5, <4>1
    <3>. QED
      BY <3>6, <3>7
  <2>3. CASE ResolveLineage
    <3>1. /\ Stored(document') = Stored(document)
          /\ \A e \in Stored(document) : PaperOf(e)' = PaperOf(e)
      BY <2>3, PassRewritesVerdicts DEF PaperOf
    <3>2. ResolveOne(LoadFacts(document), PaperOf(d)) = "superseded"
      BY <2>3, <3>1, PassRewritesVerdicts
    <3>. QED
      BY <3>1, <3>2, ResolverHasAReason
  <2>4. ASSUME NEW x \in DocId, NEW status \in Correction, VerifyByHuman(x, status)
        PROVE  Reason(PaperOf(d)')
    <3>1. /\ document[x] # Absent
          /\ document' = [document EXCEPT ![x] =
                            [document[x] EXCEPT !.status = status, !.verified = TRUE]]
      BY <2>4 DEF VerifyByHuman, TypeOK
    <3>2. document[x] \in Row /\ status \in DocumentStatus
      BY <2>4, <3>1, StoredRow, CorrectionAssumption DEF Stored
    <3>3. /\ [document[x] EXCEPT !.status = status, !.verified = TRUE] \in Row
          /\ [document[x] EXCEPT !.status = status, !.verified = TRUE].file = document[x].file
          /\ [document[x] EXCEPT !.status = status, !.verified = TRUE].verified
      BY <3>2 DEF Row
    <3>4. \A e \in Stored(document) : document'[e] # Absent /\ document'[e].file = document[e].file
      BY <3>1, <3>3, AbsentAssumption DEF Stored, TypeOK
    <3>5. d # x
      BY <3>1, <3>3 DEF TypeOK
    <3>6. d \in Stored(document) /\ document'[d] = document[d]
      BY <3>1, <3>5 DEF Stored, TypeOK
    <3>7. \A e \in Stored(document) : e \in Stored(document') /\ PaperOf(e)' = PaperOf(e)
      BY <3>4 DEF Stored, PaperOf
    <3>. QED
      BY <3>6, <3>7 DEF SupersededForAReason
  <2>5. CASE UNCHANGED vars
    BY <2>5 DEF vars, SupersededForAReason, PaperOf
  <2>. QED
    BY <2>1, <2>2, <2>3, <2>4, <2>5 DEF Next
<1>. QED
  BY <1>1, <1>2, TypeCorrect, PTL DEF Spec


\* The amendment date shown beside a citation is that of an amending document
\* in the corpus: COALESCE may keep a date of a past pass, but a document leaves
\* the corpus only to come back with the same content.
THEOREM ShownDatesAreReal == Spec => []LastAmendmentIsReal
<1>. DEFINE Amends(e, d) == /\ PaperOf(e).doc_type = "amendment" /\ PaperOf(e).slug = PaperOf(d).slug
                            /\ VersionDate(PaperOf(e)) = document[d].last_amendment
            Real(d) == document[d].last_amendment # NoDate => \E e \in Stored(document) : Amends(e, d)
<1>1. Init => LastAmendmentIsReal
  BY DEF Init, LastAmendmentIsReal, Stored
<1>2. TypeOK /\ LastAmendmentIsReal /\ [Next]_vars => LastAmendmentIsReal'
  <2>. SUFFICES ASSUME TypeOK, LastAmendmentIsReal, [Next]_vars,
                       NEW d \in Stored(document'), document'[d].last_amendment # NoDate
                PROVE  \E e \in Stored(document') : Amends(e, d)'
    BY DEF LastAmendmentIsReal
  <2>0. ASSUME d \in Stored(document), PaperOf(d)' = PaperOf(d),
               document'[d].last_amendment = document[d].last_amendment,
               \A e \in Stored(document) :
                  \E x \in Stored(document') :
                     /\ PaperOf(x)'.doc_type = PaperOf(e).doc_type
                     /\ PaperOf(x)'.slug = PaperOf(e).slug
                     /\ VersionDate(PaperOf(x)') = VersionDate(PaperOf(e))
        PROVE  \E e \in Stored(document') : Amends(e, d)'
    <3>1. PICK e \in Stored(document) : Amends(e, d)
      BY <2>0 DEF LastAmendmentIsReal
    <3>2. PICK x \in Stored(document') :
             /\ PaperOf(x)'.doc_type = PaperOf(e).doc_type
             /\ PaperOf(x)'.slug = PaperOf(e).slug
             /\ VersionDate(PaperOf(x)') = VersionDate(PaperOf(e))
      BY <2>0
    <3>3. Amends(x, d)'
      BY <2>0, <3>1, <3>2
    <3>. QED
      BY <3>3
  <2>1. ASSUME NEW x \in DocId, NEW file \in File, Store(x, file)
        PROVE  \E e \in Stored(document') : Amends(e, d)'
    <3>1. document[x] = Absent /\ document' = [document EXCEPT ![x] = NewRow(file)]
      BY <2>1 DEF Store
    <3>2. d # x
      BY <3>1 DEF NewRow, TypeOK
    <3>3. /\ d \in Stored(document) /\ document'[d] = document[d]
          /\ \A e \in Stored(document) : e \in Stored(document') /\ document'[e] = document[e]
      BY <3>1, <3>2 DEF Stored, TypeOK
    <3>4. \A e \in Stored(document) : e \in Stored(document') /\ PaperOf(e)' = PaperOf(e)
      BY <3>3 DEF PaperOf
    <3>. QED
      BY <2>0, <3>3, <3>4
  <2>2. ASSUME NEW old \in DocId, NEW x \in DocId, Replace(old, x)
        PROVE  \E e \in Stored(document') : Amends(e, d)'
    <3>1. /\ document[old] # Absent /\ document[x] = Absent
          /\ document' = [document EXCEPT ![old] = Absent, ![x] = NewRow(document[old].file)]
      BY <2>2 DEF Replace
    <3>2. /\ NewRow(document[old].file) # Absent
          /\ NewRow(document[old].file).file = document[old].file
          /\ NewRow(document[old].file).last_amendment = NoDate
      BY <3>1, StoredRow, NewRowType, AbsentAssumption DEF Stored, NewRow
    <3>3. /\ d # x /\ d # old /\ d \in Stored(document) /\ document'[d] = document[d]
          /\ x \in Stored(document') /\ document'[x].file = document[old].file
          /\ \A e \in Stored(document) \ {old} : e \in Stored(document') /\ document'[e] = document[e]
      BY <3>1, <3>2 DEF Stored, TypeOK
    <3>4. /\ PaperOf(x)'.doc_type = PaperOf(old).doc_type
          /\ PaperOf(x)'.slug = PaperOf(old).slug
          /\ VersionDate(PaperOf(x)') = VersionDate(PaperOf(old))
      BY <3>3 DEF PaperOf, FactsOf, VersionDate
    <3>5. \A e \in Stored(document) \ {old} : e \in Stored(document') /\ PaperOf(e)' = PaperOf(e)
      BY <3>3 DEF PaperOf
    <3>6. PaperOf(d)' = PaperOf(d)
      BY <3>3 DEF PaperOf
    <3>. QED
      BY <2>0, <3>3, <3>4, <3>5, <3>6
  <2>3. CASE ResolveLineage
    <3>. DEFINE F == LoadFacts(document)
                f == PaperOf(d)
    <3>1. /\ Stored(document') = Stored(document)
          /\ \A e \in Stored(document) : PaperOf(e)' = PaperOf(e)
      BY <2>3, PassRewritesVerdicts DEF PaperOf
    <3>2. document[d] \in Row /\ d \in DocId /\ document[d] # Absent
      BY <3>1, StoredRow DEF Stored
    <3>3. CASE document'[d].last_amendment = document[d].last_amendment
      BY <2>0, <3>1, <3>3
    <3>4. CASE document'[d].last_amendment # document[d].last_amendment
      <4>1. document'[d] = Judged(document[d], F, f)
        BY <2>3, <3>2, <3>4 DEF ResolveLineage, PaperOf
      <4>2. document'[d].last_amendment = LastAmendmentDate(F, f)
        <5>. HIDE DEF F, f
        <5>. QED
          BY <3>2, <3>4, <4>1 DEF Judged, Row
      <4>3. IsCorpus(F) /\ \A g \in F : g.id \in Stored(document) /\ PaperOf(g.id) = g
        BY LoadedCorpus, StoredRow, FactsOfType DEF LoadFacts, PaperOf
      <4>. HIDE DEF F
      <4>4. AmendmentDates(F, f) # {} /\ LastAmendmentDate(F, f) = Max(AmendmentDates(F, f))
        BY <4>2 DEF LastAmendmentDate
      <4>5. document'[d].last_amendment \in AmendmentDates(F, f)
        BY <4>2, <4>3, <4>4, AmendmentDatesAreFinite, MaxOfNaturals
      <4>6. PICK g \in F : /\ g.doc_type = "amendment" /\ g.slug = f.slug
                           /\ document'[d].last_amendment = VersionDate(g)
        BY <4>5 DEF AmendmentDates
      <4>7. Amends(g.id, d)'
        BY <3>1, <4>3, <4>6
      <4>. QED
        BY <3>1, <4>3, <4>7
    <3>. QED
      BY <3>3, <3>4
  <2>4. ASSUME NEW x \in DocId, NEW status \in Correction, VerifyByHuman(x, status)
        PROVE  \E e \in Stored(document') : Amends(e, d)'
    <3>1. /\ document[x] # Absent
          /\ document' = [document EXCEPT ![x] =
                            [document[x] EXCEPT !.status = status, !.verified = TRUE]]
      BY <2>4 DEF VerifyByHuman, TypeOK
    <3>2. document[x] \in Row /\ status \in DocumentStatus
      BY <2>4, <3>1, StoredRow, CorrectionAssumption DEF Stored
    <3>3. /\ [document[x] EXCEPT !.status = status, !.verified = TRUE] \in Row
          /\ [document[x] EXCEPT !.status = status, !.verified = TRUE].file = document[x].file
          /\ [document[x] EXCEPT !.status = status, !.verified = TRUE].last_amendment
                = document[x].last_amendment
      BY <3>2 DEF Row
    <3>4. \A e \in Stored(document) :
             /\ document'[e] # Absent /\ document'[e].file = document[e].file
             /\ document'[e].last_amendment = document[e].last_amendment
      BY <3>1, <3>3, AbsentAssumption DEF Stored, TypeOK
    <3>5. Stored(document') = Stored(document)
      BY <3>1, <3>4 DEF Stored, TypeOK
    <3>6. \A e \in Stored(document) : PaperOf(e)' = PaperOf(e)
      BY <3>4 DEF PaperOf
    <3>. QED
      BY <2>0, <3>4, <3>5, <3>6
  <2>5. CASE UNCHANGED vars
    BY <2>0, <2>5 DEF vars, PaperOf
  <2>. QED
    BY <2>1, <2>2, <2>3, <2>4, <2>5 DEF Next
<1>. QED
  BY <1>1, <1>2, TypeCorrect, PTL DEF Spec

\* An amending bylaw is declared superseded only by another version of itself,
\* or by a consolidation of a bylaw it amends, of the year of its adoption or a
\* later one; and that document is still there.
THEOREM AmendmentsFoldByYear == Spec => []AmendmentFoldedByYear
<1>1. TypeOK /\ SupersededForAReason => AmendmentFoldedByYear
  <2>. SUFFICES ASSUME TypeOK, SupersededForAReason, NEW d \in Stored(document),
                       PaperOf(d).doc_type = "amendment", ~document[d].verified,
                       document[d].status = "superseded"
                PROVE  \E e \in Stored(document) \ {d} :
                          \/ SameBylaw(d, e)
                          \/ /\ IsConsolidation(PaperOf(e)) /\ PaperOf(e).slug = PaperOf(d).slug
                             /\ \E c \in PaperOf(d).amends :
                                   Normalise(c) = Normalise(PaperOf(e).number)
                             /\ YearOf(PaperOf(e).consolidation_date) >= PaperOf(d).year
    BY DEF AmendmentFoldedByYear
  <2>. DEFINE f == PaperOf(d)
  <2>1. PICK e \in Stored(document) \ {d} : Outdates(PaperOf(e), f) \/ Absorbs(PaperOf(e), f)
    BY DEF SupersededForAReason
  <2>. DEFINE g == PaperOf(e)
  <2>2. CASE Outdates(g, f)
    BY <2>1, <2>2 DEF Outdates, SameBylaw
  <2>3. CASE Absorbs(g, f)
    <3>1. f \in DocumentFacts /\ g \in DocumentFacts
      BY StoredRow, FactsOfType DEF PaperOf
    <3>2. f.consolidation_date = NoDate /\ f.effective_date = NoDate
      <4>1. Classify(Printed[document[d].file]) = "amendment"
        BY DEF PaperOf, FactsOf, Detect
      <4>2. Printed[document[d].file].consolidated = NoDate
        BY <4>1 DEF Classify
      <4>. QED
        BY <4>2 DEF PaperOf, FactsOf, Detect
    <3>. HIDE DEF f, g
    <3>3. f.year # NoYear /\ VersionDate(f) = NewYear(f.year)
      BY <2>3, <3>2 DEF Absorbs, Dated, VersionDate
    <3>4. f.year \in Nat /\ g.consolidation_date \in Nat \ {NoDate}
      BY <2>3, <3>1 DEF Absorbs, DocumentFacts
    <3>5. g.consolidation_date >= NewYear(f.year)
      BY <2>3, <3>3 DEF Absorbs
    <3>6. YearOf(g.consolidation_date) >= f.year
      BY <3>3, <3>4, <3>5, YearOfALaterDay
    <3>. QED
      BY <2>1, <2>3, <3>6 DEF Absorbs, f, g
  <2>. QED
    BY <2>1, <2>2, <2>3
<1>. QED
  BY <1>1, TypeCorrect, ReasonsStay, PTL

\* No store, re-ingest or pass makes a superseded text current again, unless
\* another version ties with it in date and kind: what superseded it is there,
\* and the pass sees it.
THEOREM SupersededStaysSo == Spec => NoResurrection
<1>. DEFINE Tie(d) == \E e \in Stored(document) \ {d} :
                         /\ SameBylaw(d, e) /\ VersionDate(PaperOf(d)) = VersionDate(PaperOf(e))
                         /\ IsConsolidation(PaperOf(d)) = IsConsolidation(PaperOf(e))
            A == \A d \in Stored(document) :
                    /\ document[d].status = "superseded" /\ document'[d] # Absent
                    /\ document'[d].status = "in_force" /\ ~document'[d].verified
                    => Tie(d)
<1>1. TypeOK /\ SupersededForAReason /\ [Next]_vars => [A]_vars
  <2>. SUFFICES ASSUME TypeOK, SupersededForAReason, Next, NEW d \in Stored(document),
                       document[d].status = "superseded", document'[d] # Absent,
                       document'[d].status = "in_force", ~document'[d].verified
                PROVE  Tie(d)
    OBVIOUS
  <2>0. d \in DocId /\ document[d] # Absent /\ document[d] \in Row
    BY StoredRow DEF Stored
  <2>1. ResolveLineage
    <3>1. ASSUME NEW x \in DocId, NEW file \in File, Store(x, file)
          PROVE  FALSE
      BY <2>0, <3>1 DEF Store, TypeOK
    <3>2. ASSUME NEW old \in DocId, NEW x \in DocId, Replace(old, x)
          PROVE  FALSE
      BY <2>0, <3>2 DEF Replace, TypeOK
    <3>3. ASSUME NEW x \in DocId, NEW status \in Correction, VerifyByHuman(x, status)
          PROVE  FALSE
      BY <2>0, <3>3 DEF VerifyByHuman, TypeOK, Row
    <3>. QED
      BY <3>1, <3>2, <3>3 DEF Next
  <2>. DEFINE F == LoadFacts(document)
              f == PaperOf(d)
  <2>2. ~document[d].verified /\ ResolveOne(F, f) = "in_force"
    BY <2>1, PassRewritesVerdicts
  <2>3. PICK e \in Stored(document) \ {d} : Outdates(PaperOf(e), f) \/ Absorbs(PaperOf(e), f)
    BY <2>2 DEF SupersededForAReason
  <2>. DEFINE g == PaperOf(e)
  <2>4. /\ f \in F /\ g \in F /\ f.id = d /\ g.id = e
        /\ f \in DocumentFacts /\ g \in DocumentFacts
    BY StoredRow, FactsOfType DEF PaperOf, LoadFacts
  <2>. HIDE DEF F, f, g
  <2>5. ~HasNewer(F, f) /\ ~Absorbed(F, f)
    BY <2>2 DEF ResolveOne
  <2>6. ~Absorbs(g, f)
    <3>. SUFFICES ASSUME Absorbs(g, f)
                  PROVE  FALSE
      OBVIOUS
    <3>1. PICK c \in f.amends : Normalise(c) = Normalise(g.number)
      BY DEF Absorbs
    <3>2. g \in Lookup(F, f.slug, c)
      BY <2>4, <3>1 DEF Absorbs, Lookup
    <3>. QED
      BY <2>5, <3>1, <3>2 DEF Absorbs, Absorbed
  <2>7. Outdates(g, f)
    BY <2>3, <2>6 DEF f, g
  <2>8. ~Older(f, g)
    <3>1. g \in Versions(F, f)
      BY <2>4, <2>7 DEF Outdates, Versions, Lookup
    <3>. QED
      BY <2>5, <3>1 DEF HasNewer
  <2>9. VersionDate(f) = VersionDate(g) /\ IsConsolidation(f) = IsConsolidation(g)
    <3>1. IsConsolidation(f) \in BOOLEAN /\ IsConsolidation(g) \in BOOLEAN
      BY DEF IsConsolidation
    <3>2. VersionDate(f) = VersionDate(g) /\ (IsConsolidation(f) => IsConsolidation(g))
      BY <2>7, <2>8 DEF Outdates, Older
    <3>3. IsConsolidation(g) => IsConsolidation(f)
      BY <2>8, <3>2 DEF Older
    <3>. QED
      BY <3>1, <3>2, <3>3
  <2>10. SameBylaw(d, e)
    BY <2>7 DEF Outdates, SameBylaw, f, g
  <2>. QED
    BY <2>3, <2>9, <2>10 DEF f, g
<1>. QED
  BY <1>1, TypeCorrect, ReasonsStay, PTL DEF Spec, NoResurrection

\* What a pass declares superseded it also explains by an edge: the resolver's
\* verdicts and its edges, computed by different code, agree.
THEOREM VerdictsAreExplained == Spec => SupersededIsExplained
<1>. DEFINE Edges(d) == \E e \in relation' :
                           \/ e.parent = d /\ e.relation \in {"consolidates", "replaces"}
                           \/ e.child = d /\ e.relation = "amends"
            A == ResolveLineage =>
                   \A d \in Stored(document) :
                      document'[d].status = "superseded" /\ ~document[d].verified => Edges(d)
<1>1. TypeOK /\ [Next]_vars => [A]_vars
  <2>. SUFFICES ASSUME TypeOK, ResolveLineage, NEW d \in Stored(document),
                       document'[d].status = "superseded", ~document[d].verified
                PROVE  Edges(d)
    OBVIOUS
  <2>. DEFINE F == LoadFacts(document)
              f == PaperOf(d)
  <2>1. ResolveOne(F, f) = "superseded" /\ relation' = BuildEdges(F)
    BY PassRewritesVerdicts DEF ResolveLineage
  <2>2. IsCorpus(F) /\ f \in F /\ f.id = d
    BY LoadedCorpus, StoredRow, FactsOfType DEF LoadFacts, PaperOf
  <2>. HIDE DEF F, f
  <2>3. Placed(f) /\ (HasNewer(F, f) \/ Absorbed(F, f))
    BY <2>1 DEF ResolveOne
  <2>4. CASE HasNewer(F, f)
    <3>1. PICK g \in Versions(F, f) : ~HasNewer(F, g)
      BY <2>2, <2>3, OneNewestVersion
    <3>. DEFINE x == [parent |-> f.id, child |-> g.id,
                      relation |-> IF IsConsolidation(g) THEN "consolidates" ELSE "replaces"]
    <3>2. g \in F /\ g # f
      BY <2>4, <3>1 DEF Versions, Lookup
    <3>3. <<f, g>> \in {p \in F \X F : /\ Placed(p[1]) /\ p[2] \in Versions(F, p[1]) \ {p[1]}
                                       /\ ~HasNewer(F, p[2])}
      BY <2>2, <2>3, <3>1, <3>2
    <3>4. x \in VersionEdges(F)
      <4>. DEFINE e == <<f, g>>
      <4>1. e[1] = f /\ e[2] = g
        OBVIOUS
      <4>2. e \in {p \in F \X F : /\ Placed(p[1]) /\ p[2] \in Versions(F, p[1]) \ {p[1]}
                                  /\ ~HasNewer(F, p[2])}
        BY <3>3
      <4>. HIDE DEF e
      <4>. QED
        BY <4>1, <4>2 DEF VersionEdges
    <3>5. x \in relation' /\ x.parent = d /\ x.relation \in {"consolidates", "replaces"}
      BY <2>1, <2>2, <3>4 DEF BuildEdges
    <3>. HIDE DEF x
    <3>. QED
      BY <3>5
  <2>5. CASE Absorbed(F, f)
    <3>1. PICK c \in f.amends : \E t \in Lookup(F, f.slug, c) : IsConsolidation(t)
      BY <2>5 DEF Absorbed
    <3>2. PICK t \in Lookup(F, f.slug, c) : IsConsolidation(t)
      BY <3>1
    <3>3. t \in F /\ t.slug = f.slug /\ t # f /\ f.slug # Undetected
      BY <2>3, <2>5, <3>2 DEF Lookup, Absorbed, IsConsolidation, Placed
    <3>. DEFINE x == [parent |-> t.id, child |-> f.id, relation |-> "amends"]
                cited == UNION {Lookup(F, f.slug, k) : k \in f.amends}
    <3>4. t \in cited \ {f}
      BY <3>1, <3>2, <3>3
    <3>5. x \in ReferenceEdges(F)
      <4>. DEFINE Y(g, r) == {[parent |-> u.id, child |-> g.id, relation |-> r] :
                                u \in (UNION {Lookup(F, g.slug, k) :
                                          k \in IF r = "amends" THEN g.amends ELSE g.repeals}) \ {g}}
      <4>1. x \in Y(f, "amends")
        BY <3>4
      <4>2. ReferenceEdges(F) = UNION {Y(g, r) : g \in {h \in F : h.slug # Undetected},
                                                 r \in {"amends", "repeals"}}
        BY DEF ReferenceEdges
      <4>. HIDE DEF Y
      <4>. QED
        BY <2>2, <3>3, <4>1, <4>2
    <3>6. x \in relation' /\ x.child = d /\ x.relation = "amends"
      BY <2>1, <2>2, <3>5 DEF BuildEdges
    <3>. HIDE DEF x
    <3>. QED
      BY <3>6
  <2>. QED
    BY <2>3, <2>4, <2>5
<1>. QED
  BY <1>1, TypeCorrect, PTL DEF Spec, SupersededIsExplained

=============================================================================
