------------------------- MODULE DocumentTableProofs ------------------------
(* What LineageResolver guarantees of any corpus, rows as it sees them, and *)
(* what a pass makes of them.                                               *)
EXTENDS DocumentTable, ListProofs

-----------------------------------------------------------------------------
(* The resolver *)

\* A corpus as the resolver is given it: no two documents share an id.
IsCorpus(F) ==
    /\ F \subseteq DocumentFacts /\ IsFiniteSet(F)
    /\ \A f, g \in F : f.id = g.id => f = g

LEMMA NewYearType ==
    ASSUME NEW year \in Nat \ {NoYear}
    PROVE  NewYear(year) \in Nat
<1>1. year - 1 \in Nat /\ YearLength \in Nat
  BY YearLengthAssumption DEF NoYear
<1>2. \A a, b \in Nat : a * b \in Nat
  OBVIOUS
<1>3. (year - 1) * YearLength \in Nat
  BY <1>1, <1>2
<1>. QED
  BY <1>3 DEF NewYear

LEMMA YearOfType ==
    ASSUME NEW day \in Nat \ {NoDate}
    PROVE  YearOf(day) \in Nat
<1>1. day - 1 \in Nat /\ YearLength \in Nat \ {0}
  BY YearLengthAssumption DEF NoDate
<1>2. \A a \in Nat, b \in Nat \ {0} : a \div b \in Nat
  OBVIOUS
<1>3. (day - 1) \div YearLength \in Nat
  BY <1>1, <1>2
<1>. QED
  BY <1>3 DEF YearOf

LEMMA VersionDateType ==
    ASSUME NEW f \in DocumentFacts
    PROVE  VersionDate(f) \in Nat
  BY NewYearType DEF DocumentFacts, VersionDate, NoDate, NoYear

\* The sort key of _order_by_version is a strict total order on documents.
LEMMA OlderIsTotal ==
    ASSUME NEW f \in DocumentFacts, NEW g \in DocumentFacts, f.id # g.id
    PROVE  (Older(f, g) \/ Older(g, f)) /\ ~(Older(f, g) /\ Older(g, f))
<1>1. VersionDate(f) \in Nat /\ VersionDate(g) \in Nat
  BY VersionDateType
<1>2. f.id \in Nat /\ g.id \in Nat
  BY DEF DocumentFacts
<1>3. IsConsolidation(f) \in BOOLEAN /\ IsConsolidation(g) \in BOOLEAN
  BY DEF IsConsolidation
<1>. QED
  BY <1>1, <1>2, <1>3 DEF Older

LEMMA OlderIsTransitive ==
    ASSUME NEW f \in DocumentFacts, NEW g \in DocumentFacts, NEW h \in DocumentFacts,
           Older(f, g), Older(g, h)
    PROVE  Older(f, h)
<1>1. VersionDate(f) \in Nat /\ VersionDate(g) \in Nat /\ VersionDate(h) \in Nat
  BY VersionDateType
<1>2. f.id \in Nat /\ g.id \in Nat /\ h.id \in Nat
  BY DEF DocumentFacts
<1>3. IsConsolidation(f) \in BOOLEAN /\ IsConsolidation(g) \in BOOLEAN /\ IsConsolidation(h) \in BOOLEAN
  BY DEF IsConsolidation
<1>. QED
  BY <1>1, <1>2, <1>3 DEF Older

LEMMA OlderIsIrreflexive ==
    ASSUME NEW f \in DocumentFacts
    PROVE  ~Older(f, f)
<1>1. VersionDate(f) \in Nat /\ f.id \in Nat
  BY VersionDateType DEF DocumentFacts
<1>. QED
  BY <1>1 DEF Older

-----------------------------------------------------------------------------
(* Versions of one bylaw *)

\* Every bylaw of a corpus has exactly one newest version, whatever dates and
\* kinds its documents have: _order_by_version never leaves two heads.
THEOREM OneNewestVersion ==
    ASSUME NEW F, IsCorpus(F), NEW f \in F, Placed(f)
    PROVE  \E g \in Versions(F, f) :
              /\ ~HasNewer(F, g)
              /\ \A h \in Versions(F, f) : ~HasNewer(F, h) => h = g
<1>. DEFINE S == Versions(F, f)
            R == {p \in S \X S : Older(p[1], p[2])}
<1>1. S \subseteq F /\ S \subseteq DocumentFacts /\ f \in S
  BY DEF Versions, Lookup, IsCorpus
<1>2. IsFiniteSet(S)
  BY <1>1, FS_Subset DEF IsCorpus
<1>3. \A g \in S : Versions(F, g) = S
  BY DEF Versions, Lookup
<1>4. \A x \in S : <<x, x>> \notin R
  BY <1>1, OlderIsIrreflexive
<1>5. \A x, y, z \in S : <<x, y>> \in R /\ <<y, z>> \in R => <<x, z>> \in R
  BY <1>1, OlderIsTransitive
<1>6. PICK g \in S : \A h \in S : <<g, h>> \notin R
  <2>. HIDE DEF R, S
  <2>. QED
    BY <1>1, <1>2, <1>4, <1>5, MaximalExists
<1>7. ~HasNewer(F, g)
  BY <1>3, <1>6 DEF HasNewer
<1>8. ASSUME NEW h \in S, ~HasNewer(F, h), h # g
      PROVE  FALSE
  <2>1. h.id # g.id
    BY <1>1, <1>8 DEF IsCorpus
  <2>2. Older(h, g) \/ Older(g, h)
    BY <1>1, <2>1, OlderIsTotal
  <2>. QED
    BY <1>3, <1>7, <1>8, <2>2 DEF HasNewer
<1>. QED
  BY <1>7, <1>8

\* Two versions of one bylaw never both resolve to in force.
LEMMA OneVerdictInForce ==
    ASSUME NEW F, IsCorpus(F), NEW f \in F, NEW g \in F, Placed(f), g \in Versions(F, f),
           ResolveOne(F, f) = "in_force", ResolveOne(F, g) = "in_force"
    PROVE  f = g
<1>1. ~HasNewer(F, f) /\ ~HasNewer(F, g)
  BY DEF ResolveOne
<1>2. f \in Versions(F, f)
  BY DEF Versions, Lookup
<1>. QED
  BY <1>1, <1>2, OneNewestVersion

-----------------------------------------------------------------------------
(* Types of what the resolver returns *)

LEMMA ResolveOneType ==
    ASSUME NEW F, NEW f
    PROVE  ResolveOne(F, f) \in DocumentStatus
  BY DEF ResolveOne, DocumentStatus

LEMMA AmendmentDatesAreFinite ==
    ASSUME NEW F, IsCorpus(F), NEW f
    PROVE  IsFiniteSet(AmendmentDates(F, f)) /\ AmendmentDates(F, f) \subseteq Nat
<1>. DEFINE H == {h \in F : /\ Placed(f) /\ h.slug = f.slug
                            /\ h.doc_type = "amendment" /\ Dated(h)
                            /\ \E c \in h.amends : Normalise(c) = Normalise(f.number)}
            date == [h \in H |-> VersionDate(h)]
<1>1. AmendmentDates(F, f) = {VersionDate(h) : h \in H}
  BY DEF AmendmentDates
<1>2. IsFiniteSet(H) /\ H \subseteq DocumentFacts
  BY FS_Subset DEF IsCorpus
<1>3. date \in Surjection(H, AmendmentDates(F, f))
  <2>1. \A h \in H : date[h] \in AmendmentDates(F, f)
    BY <1>1
  <2>2. \A x \in AmendmentDates(F, f) : \E h \in H : date[h] = x
    BY <1>1
  <2>. QED
    BY <2>1, <2>2 DEF Surjection
<1>4. IsFiniteSet(AmendmentDates(F, f))
  BY <1>2, <1>3, FS_Surjection
<1>5. AmendmentDates(F, f) \subseteq Nat
  BY <1>1, <1>2, VersionDateType
<1>. QED
  BY <1>4, <1>5

LEMMA LastAmendmentDateType ==
    ASSUME NEW F, IsCorpus(F), NEW f
    PROVE  LastAmendmentDate(F, f) \in Nat
<1>1. IsFiniteSet(AmendmentDates(F, f)) /\ AmendmentDates(F, f) \subseteq Nat
  BY AmendmentDatesAreFinite
<1>2. AmendmentDates(F, f) # {} => Max(AmendmentDates(F, f)) \in AmendmentDates(F, f)
  BY <1>1, MaxOfNaturals
<1>. QED
  BY <1>1, <1>2 DEF LastAmendmentDate, NoDate


-----------------------------------------------------------------------------
(* Years *)

LEMMA DivisionIsMonotone ==
    ASSUME NEW a \in Nat, NEW b \in Nat, NEW n \in Nat \ {0}, a >= b * n
    PROVE  a \div n >= b
<1>. DEFINE q == a \div n
<1>1. q \in Nat /\ a < (q + 1) * n
  OBVIOUS
<1>2. \A x, y, z \in Nat : x <= y => x * z <= y * z
  OBVIOUS
<1>. HIDE DEF q
<1>3. q < b => (q + 1) * n <= b * n
  BY <1>1, <1>2
<1>4. (q + 1) * n \in Nat /\ b * n \in Nat
  BY <1>1
<1>5. ~(q < b)
  BY <1>1, <1>3, <1>4
<1>6. q >= b
  BY <1>1, <1>5
<1>. QED
  BY <1>6 DEF q

\* A date not before the new year of a year lies in that year or a later one.
LEMMA YearOfALaterDay ==
    ASSUME NEW year \in Nat \ {NoYear}, NEW day \in Nat \ {NoDate}, day >= NewYear(year)
    PROVE  YearOf(day) >= year
<1>. DEFINE a == day - 1
            b == year - 1
<1>1. a \in Nat /\ b \in Nat /\ YearLength \in Nat \ {0}
  BY YearLengthAssumption DEF NoDate, NoYear
<1>2. b * YearLength \in Nat
  BY <1>1
<1>3. day >= b * YearLength + 1
  BY DEF NewYear
<1>4. a >= b * YearLength
  <2>. HIDE DEF b
  <2>. QED
    BY <1>2, <1>3
<1>5. a \div YearLength >= b
  <2>. HIDE DEF a, b
  <2>. QED
    BY <1>1, <1>4, DivisionIsMonotone
<1>6. a \div YearLength \in Nat
  BY <1>1
<1>. QED
  BY <1>1, <1>5, <1>6 DEF YearOf

-----------------------------------------------------------------------------
(* The rows *)

\* A document table.
Table == [DocId -> Row \union {Absent}]

LEMMA DetectType ==
    ASSUME NEW p \in Paper
    PROVE  Detect(p) \in DocumentMetadata
<1>1. YearFor(p) \in Nat
  BY YearOfType DEF Paper, YearFor, NoDate
<1>2. Classify(p) \in DocType
  BY DEF Classify, DocType
<1>3. ReferencedNumbers(p) \in SUBSET Citation
  BY DEF ReferencedNumbers, Paper
<1>. QED
  BY <1>1, <1>2, <1>3 DEF Detect, DocumentMetadata, Paper

LEMMA FactsOfType ==
    ASSUME NEW d \in DocId, NEW file \in File
    PROVE  FactsOf(d, file) \in DocumentFacts /\ FactsOf(d, file).id = d
<1>1. Detect(Printed[file]) \in DocumentMetadata
  BY PrintedAssumption, DetectType
<1>2. d \in Nat
  BY DocIdAssumption
<1>. QED
  BY <1>1, <1>2 DEF FactsOf, DocumentFacts, DocumentMetadata, NoDate

LEMMA TableRow ==
    ASSUME NEW table \in Table, NEW d \in Stored(table)
    PROVE  d \in DocId /\ table[d] \in Row /\ table[d].file \in File
  BY AbsentAssumption DEF Table, Stored, Row

\* What _load_facts returns is a corpus, with each document under its id.
LEMMA LoadFactsIsCorpus ==
    ASSUME NEW table \in Table
    PROVE  /\ IsCorpus(LoadFacts(table))
           /\ \A f \in LoadFacts(table) : f.id \in Stored(table) /\ f = FactsOf(f.id, table[f.id].file)
<1>. DEFINE F == LoadFacts(table)
            load == [d \in Stored(table) |-> FactsOf(d, table[d].file)]
<1>1. F \subseteq DocumentFacts /\ \A f, g \in F : f.id = g.id => f = g
  BY TableRow, FactsOfType DEF LoadFacts
<1>2. IsFiniteSet(Stored(table))
  BY DocIdAssumption, FS_Subset DEF Stored
<1>3. load \in Surjection(Stored(table), F)
  <2>1. \A d \in Stored(table) : load[d] \in F
    BY DEF LoadFacts
  <2>2. \A f \in F : \E d \in Stored(table) : load[d] = f
    BY DEF LoadFacts
  <2>. QED
    BY <2>1, <2>2 DEF Surjection
<1>4. IsFiniteSet(F)
  <2>. HIDE DEF load, F
  <2>. QED
    BY <1>2, <1>3, FS_Surjection
<1>5. \A f \in F : f.id \in Stored(table) /\ f = FactsOf(f.id, table[f.id].file)
  BY TableRow, FactsOfType DEF LoadFacts
<1>. QED
  BY <1>1, <1>4, <1>5 DEF IsCorpus

LEMMA JudgedType ==
    ASSUME NEW row \in Row, NEW F, IsCorpus(F), NEW f
    PROVE  /\ Judged(row, F, f) \in Row
           /\ Judged(row, F, f).file = row.file
           /\ Judged(row, F, f).verified = row.verified
           /\ Judged(row, F, f).status = ResolveOne(F, f)
  BY ResolveOneType, LastAmendmentDateType DEF Judged, Row

LEMMA NewRowType ==
    ASSUME NEW file \in File
    PROVE  NewRow(file) \in Row
  BY DEF NewRow, Row, DocumentStatus, NoDate

-----------------------------------------------------------------------------
(* Edges *)

\* Every edge of a pass relates two documents of one municipality.
LEMMA BuildEdgesRelate ==
    ASSUME NEW F, IsCorpus(F), NEW e \in BuildEdges(F)
    PROVE  \E f, g \in F :
              /\ e.parent = f.id /\ e.child = g.id /\ f # g
              /\ f.slug = g.slug /\ g.slug # Undetected
              /\ e \in [parent : {f.id}, child : {g.id},
                        relation : {"amends", "repeals", "consolidates", "replaces"}]
<1>1. CASE e \in ReferenceEdges(F)
  <2>1. PICK g \in {x \in F : x.slug # Undetected}, r \in {"amends", "repeals"} :
           e \in {[parent |-> t.id, child |-> g.id, relation |-> r] :
                    t \in (UNION {Lookup(F, g.slug, c) :
                                    c \in IF r = "amends" THEN g.amends ELSE g.repeals}) \ {g}}
    BY <1>1 DEF ReferenceEdges
  <2>. DEFINE cited == IF r = "amends" THEN g.amends ELSE g.repeals
              targets == {Lookup(F, g.slug, c) : c \in cited}
  <2>2. PICK t \in (UNION targets) \ {g} : e = [parent |-> t.id, child |-> g.id, relation |-> r]
    BY <2>1
  <2>3. PICK L \in targets : t \in L
    <3>. HIDE DEF targets
    <3>. QED
      BY <2>2
  <2>4. t \in F /\ t.slug = g.slug /\ t # g
    BY <2>2, <2>3 DEF Lookup
  <2>. QED
    BY <2>1, <2>2, <2>4
<1>2. CASE e \in VersionEdges(F)
  <2>1. PICK p \in F \X F :
           /\ Placed(p[1]) /\ p[2] \in Versions(F, p[1]) \ {p[1]}
           /\ e = [parent |-> p[1].id, child |-> p[2].id,
                   relation |-> IF IsConsolidation(p[2]) THEN "consolidates" ELSE "replaces"]
    BY <1>2 DEF VersionEdges
  <2>2. p[1] \in F /\ p[2] \in F /\ p[1] # p[2] /\ p[1].slug = p[2].slug
    BY <2>1 DEF Versions, Lookup
  <2>3. p[2].slug # Undetected
    BY <2>1, <2>2 DEF Placed
  <2>. QED
    BY <2>1, <2>2, <2>3
<1>. QED
  BY <1>1, <1>2 DEF BuildEdges


-----------------------------------------------------------------------------
(* Verdicts *)

\* Of the rows no human has verified, one version of a bylaw is in force at most.
OneInForce(table) ==
    \A d, e \in Stored(table) :
        LET f == FactsOf(d, table[d].file)
            g == FactsOf(e, table[e].file)
        IN  /\ d # e /\ Placed(f) /\ Placed(g) /\ f.slug = g.slug
            /\ Normalise(f.number) = Normalise(g.number)
            /\ ~table[d].verified /\ ~table[e].verified
            => ~(table[d].status = "in_force" /\ table[e].status = "in_force")

\* A change that puts no unverified row in force keeps it so.
LEMMA OneInForceKept ==
    ASSUME NEW table, NEW next, OneInForce(table),
           \A d \in Stored(next) :
              \/ d \in Stored(table) /\ next[d] = table[d]
              \/ next[d].verified \/ next[d].status # "in_force"
    PROVE  OneInForce(next)
  BY DEF OneInForce

\* The table after a pass over it.
Pass(table) ==
    [d \in DocId |-> IF Updatable(table[d])
                     THEN Judged(table[d], LoadFacts(table), FactsOf(d, table[d].file))
                     ELSE table[d]]

\* A pass keeps every row and its content, and judges those it may update.
LEMMA PassOverTable ==
    ASSUME NEW table \in Table
    PROVE  /\ Pass(table) \in Table
           /\ Stored(Pass(table)) = Stored(table)
           /\ \A d \in Stored(table) :
                 /\ Pass(table)[d].file = table[d].file
                 /\ Pass(table)[d].verified = table[d].verified
                 /\ ~table[d].verified =>
                       Pass(table)[d].status = ResolveOne(LoadFacts(table), FactsOf(d, table[d].file))
<1>. DEFINE F == LoadFacts(table)
            next == Pass(table)
            f(d) == FactsOf(d, table[d].file)
<1>1. IsCorpus(F)
  BY LoadFactsIsCorpus
<1>2. \A d \in DocId : next[d] = IF Updatable(table[d]) THEN Judged(table[d], F, f(d)) ELSE table[d]
  BY DEF Pass
<1>3. next = [d \in DocId |-> next[d]]
  BY DEF Pass
<1>. HIDE DEF F, f, next
<1>4. ASSUME NEW d \in Stored(table)
      PROVE  /\ next[d] \in Row /\ next[d] # Absent
             /\ next[d].file = table[d].file
             /\ next[d].verified = table[d].verified
             /\ ~table[d].verified => next[d].status = ResolveOne(F, f(d))
  <2>1. d \in DocId /\ table[d] \in Row /\ table[d] # Absent
    BY TableRow DEF Stored, Table
  <2>2. /\ Judged(table[d], F, f(d)) \in Row
        /\ Judged(table[d], F, f(d)).file = table[d].file
        /\ Judged(table[d], F, f(d)).verified = table[d].verified
        /\ Judged(table[d], F, f(d)).status = ResolveOne(F, f(d))
    BY <1>1, <2>1, JudgedType
  <2>. QED
    BY <1>2, <2>1, <2>2, AbsentAssumption DEF Updatable
<1>5. \A d \in DocId \ Stored(table) : next[d] = Absent
  BY <1>2 DEF Updatable, Stored
<1>6. Stored(next) = Stored(table)
  BY <1>4, <1>5 DEF Stored
<1>7. next \in Table
  BY <1>3, <1>4, <1>5 DEF Stored, Table
<1>. QED
  BY <1>4, <1>6, <1>7 DEF next, F, f

\* The edges of a pass are rows of bylaw_relation.
LEMMA PassEdges ==
    ASSUME NEW table \in Table
    PROVE  BuildEdges(LoadFacts(table)) \subseteq Edge
<1>. DEFINE F == LoadFacts(table)
<1>1. IsCorpus(F) /\ \A f \in F : f.id \in DocId
  BY LoadFactsIsCorpus DEF Stored
<1>. HIDE DEF F
<1>2. BuildEdges(F) \subseteq Edge
  BY <1>1, BuildEdgesRelate DEF Edge
<1>. QED
  BY <1>2 DEF F

\* A pass makes it so, whatever the table was.
LEMMA PassLeavesOneInForce ==
    ASSUME NEW table \in Table
    PROVE  OneInForce(Pass(table))
<1>. DEFINE F == LoadFacts(table)
            next == Pass(table)
            paper(d) == FactsOf(d, table[d].file)
<1>1. IsCorpus(F) /\ \A d \in Stored(table) : paper(d) \in F /\ paper(d).id = d
  BY LoadFactsIsCorpus, TableRow, FactsOfType DEF LoadFacts
<1>2. ASSUME NEW d \in Stored(next), ~next[d].verified
      PROVE  /\ d \in Stored(table)
             /\ next[d].file = table[d].file
             /\ next[d].status = ResolveOne(F, paper(d))
  BY <1>2, PassOverTable
<1>. HIDE DEF next
<1>. SUFFICES ASSUME NEW d \in Stored(next), NEW e \in Stored(next), d # e,
                     ~next[d].verified, ~next[e].verified,
                     Placed(FactsOf(d, next[d].file)), Placed(FactsOf(e, next[e].file)),
                     FactsOf(d, next[d].file).slug = FactsOf(e, next[e].file).slug,
                     Normalise(FactsOf(d, next[d].file).number) =
                        Normalise(FactsOf(e, next[e].file).number),
                     next[d].status = "in_force", next[e].status = "in_force"
              PROVE  FALSE
  BY DEF OneInForce, next
<1>3. /\ FactsOf(d, next[d].file) = paper(d) /\ FactsOf(e, next[e].file) = paper(e)
      /\ paper(d) \in F /\ paper(e) \in F /\ paper(d).id = d /\ paper(e).id = e
  BY <1>1, <1>2
<1>4. ResolveOne(F, paper(d)) = "in_force" /\ ResolveOne(F, paper(e)) = "in_force"
  BY <1>2
<1>. HIDE DEF F, paper
<1>5. Placed(paper(d)) /\ paper(e) \in Versions(F, paper(d))
  BY <1>3 DEF Versions, Lookup
<1>. QED
  BY <1>1, <1>3, <1>4, <1>5, OneVerdictInForce

=============================================================================
