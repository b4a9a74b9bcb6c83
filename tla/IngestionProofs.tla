--------------------------- MODULE IngestionProofs --------------------------
(* What the transactions and constraints protect, for any number of ingest *)
(* runs and any interleaving of their statements, failures and crashes.    *)
EXTENDS Ingestion, DocumentTableProofs

-----------------------------------------------------------------------------
(* The inductive invariant *)

OnPath == {"next", "delete", "municipality", "insert", "embed"}

InPass == {"statuses", "sweep", "edges"}

\* What a worker's transaction can hold where the worker is.
FollowsPc(w) ==
    /\ pc[w] \in OnPath => job[w].todo # <<>>
    /\ pc[w] # "idle" => Target(w) \in Collection
    /\ pc[w] \in {"idle", "ensure", "create", "load"} => tx[w] = EmptyTx
    /\ tx[w].id # Absent <=> pc[w] = "embed"
    /\ tx[w].victim # Absent => pc[w] \in OnPath \ {"next"}
    /\ pc[w] = "delete" => tx[w].victim # Absent
    /\ tx[w].deleted <=> tx[w].victim # Absent /\ pc[w] # "delete"
    /\ tx[w].judged # {} => pc[w] \in InPass
    /\ pc[w] = "statuses" => tx[w].row # Absent
    /\ tx[w].created => pc[w] \in {"retire", "promote"}
    /\ tx[w].promoted => pc[w] \in OnPath \union {"refresh"}
    /\ tx[w].retired # {} => tx[w].promoted \/ pc[w] = "promote"

TransactionFollowsPc == \A w \in Worker : FollowsPc(w)

\* Ids are drawn once: an uncommitted row has an id of its own.
IdsAreFresh ==
    /\ Stored(document) \subseteq used
    /\ \A w \in Worker :
          /\ tx[w].victim # Absent => tx[w].victim \in used
          /\ tx[w].id # Absent => tx[w].id \in used \ Stored(document)
    /\ \A v, w \in Worker : tx[v].id # Absent =>
          /\ tx[v].id # tx[w].victim
          /\ v # w => tx[v].id # tx[w].id

\* A row is written by one transaction at a time, and a row a pass has
\* updated stays stored and unverified until the pass ends.
RowsAreLocked ==
    /\ \A v, w \in Worker, d \in DocId : HoldsRow(v, d) /\ HoldsRow(w, d) => v = w
    /\ \A w \in Worker : \A d \in tx[w].judged : Updatable(document[d])

FactsAreCorpora == \A w \in Worker : IsCorpus(facts[w])

\* What a transaction is about to insert is not stored, and nobody else
\* inserts it; what it replaces has the same content.
ContentsAreUnique ==
    /\ \A w \in Worker :
          /\ tx[w].id # Absent =>
                \A d \in Stored(document) \ {tx[w].victim} : document[d].file # Current(w)
          /\ tx[w].victim \in Stored(document) => document[tx[w].victim].file = Current(w)
    /\ \A v, w \in Worker :
          v # w /\ tx[v].id # Absent /\ tx[w].id # Absent => Current(v) # Current(w)

\* A transaction that has made its collection active holds every other
\* collection that is, and no second one can.
ActivationIsExclusive ==
    /\ \A w \in Worker : tx[w].promoted =>
          \A c \in Collection : collection[c] = "active" => c \in tx[w].retired \union {Target(w)}
    /\ \A v, w \in Worker : tx[v].promoted /\ tx[w].promoted => v = w
    /\ \A w \in Worker :
          /\ tx[w].created => collection[Target(w)] = "absent"
          /\ tx[w].promoted => collection[Target(w)] # "absent"
          /\ \A c \in tx[w].retired : collection[c] # "absent"
          /\ pc[w] \in {"retire", "promote"} => tx[w].created \/ collection[Target(w)] # "absent"
    /\ \A v, w \in Worker : tx[v].created /\ tx[w].created /\ Target(v) = Target(w) => v = w

EdgesAreStored == \A e \in relation : {e.parent, e.child} \subseteq Stored(document)

IInv ==
    /\ TypeOK /\ FactsAreCorpora /\ TransactionFollowsPc
    /\ IdsAreFresh /\ RowsAreLocked /\ ContentsAreUnique /\ OneRowPerContent
    /\ DocumentsAreWhole /\ EdgesAreStored
    /\ ActivationIsExclusive /\ AtMostOneActive

-----------------------------------------------------------------------------
(* Steps of one worker *)

LEMMA EmptyTxType == EmptyTx \in Tx
  BY DEF EmptyTx, Tx

\* The other workers stand still.
LEMMA OthersWait ==
    ASSUME TypeOK, NEW w \in Worker, Start(w) \/ Step(w) \/ Crash(w), NEW v \in Worker \ {w}
    PROVE  pc'[v] = pc[v] /\ job'[v] = job[v] /\ tx'[v] = tx[v] /\ facts'[v] = facts[v]
<1>. DEFINE Waits == pc'[v] = pc[v] /\ job'[v] = job[v] /\ tx'[v] = tx[v] /\ facts'[v] = facts[v]
<1>. USE DEF TypeOK
<1>1. Abandon(w) => Waits
  BY DEF Abandon, Goto
<1>2. FailDocument(w) => Waits
  BY DEF FailDocument, Goto
<1>3. CASE Start(w)
  BY <1>3 DEF Start, Goto
<1>4. CASE EnsureCollection(w) \/ CreateCollection(w) \/ RetireOthers(w) \/ Promote(w)
  BY <1>1, <1>4 DEF EnsureCollection, CreateCollection, RetireOthers, Promote, Goto
<1>5. CASE DocumentFails(w) \/ CheckExisting(w) \/ DeleteExisting(w) \/ ResolveMunicipality(w)
  BY <1>2, <1>5 DEF DocumentFails, CheckExisting, DeleteExisting, ResolveMunicipality, Goto
<1>6. CASE WriteDocument(w) \/ EmbedBatch(w) \/ CommitDocument(w)
  BY <1>2, <1>6 DEF WriteDocument, EmbedBatch, CommitDocument, Goto
<1>7. CASE RefreshCollectionCount(w) \/ ResolveLineage(w)
  BY <1>1, <1>7 DEF RefreshCollectionCount, ResolveLineage, LoadCorpus, WriteStatus, SweepEdges,
                    WriteEdges, Goto
<1>8. CASE DeadlockAbort(w) \/ Crash(w)
  BY <1>1, <1>2, <1>8 DEF DeadlockAbort, Crash
<1>. QED
  BY <1>3, <1>4, <1>5, <1>6, <1>7, <1>8 DEF Step, IngestOne

\* What COMMIT makes of the collections is a status for each.
LEMMA CollectionAfterType ==
    ASSUME TypeOK, NEW w \in Worker
    PROVE  CollectionAfter(w) \in [Collection -> CollectionStatus]
  BY DEF TypeOK, CollectionAfter, CollectionStatus

LEMMA AbandonType ==
    ASSUME TypeOK, NEW w \in Worker, Abandon(w)
    PROVE  TypeOK'
<1>1. NoJob \in Job
  BY DEF NoJob, Job
<1>. QED
  BY <1>1, EmptyTxType DEF Abandon, Goto, TypeOK, PC, tables

LEMMA TailOfTodo ==
    ASSUME TypeOK, NEW w \in Worker, job[w].todo # <<>>
    PROVE  /\ Current(w) \in File
           /\ [job[w] EXCEPT !.todo = Tail(job[w].todo)] \in Job
           /\ Onward(Tail(job[w].todo)) \in PC
<1>1. job[w].todo \in Seq(File) /\ job[w] \in Job
  BY DEF TypeOK, Job
<1>2. Tail(job[w].todo) \in Seq(File) /\ Head(job[w].todo) \in File
  BY <1>1
<1>. QED
  BY <1>1, <1>2 DEF Job, Current, Onward, PC

LEMMA FailDocumentType ==
    ASSUME TypeOK, NEW w \in Worker, job[w].todo # <<>>, FailDocument(w)
    PROVE  TypeOK'
<1>1. job' = [job EXCEPT ![w] = [job[w] EXCEPT !.todo = Tail(job[w].todo)]]
  BY DEF FailDocument
<1>. QED
  BY <1>1, TailOfTodo, EmptyTxType DEF FailDocument, Goto, TypeOK, tables

\* The transaction that a step leaves behind, when it only changes fields.
LEMMA NewTxType ==
    ASSUME NEW t \in Tx
    PROVE  /\ \A C \in SUBSET Collection :
                 /\ [t EXCEPT !.wants = C] \in Tx /\ [t EXCEPT !.retired = C] \in Tx
                 /\ [t EXCEPT !.created = TRUE, !.wants = C] \in Tx
           /\ [t EXCEPT !.promoted = TRUE] \in Tx /\ [t EXCEPT !.deleted = TRUE] \in Tx
           /\ \A d \in DocId : [t EXCEPT !.victim = d] \in Tx /\ [t EXCEPT !.id = d] \in Tx
           /\ \A s \in Municipality \union {Undetected} : [t EXCEPT !.slug = s] \in Tx
           /\ [t EXCEPT !.embedded = @ + 1] \in Tx
           /\ \A d \in DocId, D \in SUBSET DocId : [t EXCEPT !.row = d, !.left = D] \in Tx
           /\ \A d \in DocId, D, J \in SUBSET DocId :
                 [t EXCEPT !.judged = J, !.row = d, !.left = D] \in Tx
           /\ \A E \in SUBSET Edge, J \in SUBSET DocId :
                 [t EXCEPT !.judged = J, !.row = Absent, !.swept = E] \in Tx
<1>1. \A C \in SUBSET Collection : [t EXCEPT !.wants = C] \in Tx /\ [t EXCEPT !.retired = C] \in Tx
  BY DEF Tx
<1>2. \A C \in SUBSET Collection : [t EXCEPT !.created = TRUE, !.wants = C] \in Tx
  BY DEF Tx
<1>3. [t EXCEPT !.promoted = TRUE] \in Tx /\ [t EXCEPT !.deleted = TRUE] \in Tx
  BY DEF Tx
<1>4. \A d \in DocId : [t EXCEPT !.victim = d] \in Tx /\ [t EXCEPT !.id = d] \in Tx
  BY DEF Tx
<1>5. \A s \in Municipality \union {Undetected} : [t EXCEPT !.slug = s] \in Tx
  BY DEF Tx
<1>6. [t EXCEPT !.embedded = @ + 1] \in Tx
  BY DEF Tx
<1>7. \A d \in DocId, D \in SUBSET DocId : [t EXCEPT !.row = d, !.left = D] \in Tx
  BY DEF Tx
<1>8. \A d \in DocId, D, J \in SUBSET DocId : [t EXCEPT !.judged = J, !.row = d, !.left = D] \in Tx
  BY DEF Tx
<1>9. \A E \in SUBSET Edge, J \in SUBSET DocId :
         [t EXCEPT !.judged = J, !.row = Absent, !.swept = E] \in Tx
  BY DEF Tx
<1>. QED
  BY <1>1, <1>2, <1>3, <1>4, <1>5, <1>6, <1>7, <1>8, <1>9

LEMMA ActivationType ==
    ASSUME TypeOK, TransactionFollowsPc, NEW w \in Worker,
           Start(w) \/ EnsureCollection(w) \/ CreateCollection(w) \/ RetireOthers(w) \/ Promote(w)
    PROVE  TypeOK'
<1>. USE EmptyTxType
<1>0. tx[w] \in Tx /\ ActiveOthers(w) \in SUBSET Collection
  BY DEF TypeOK, ActiveOthers
<1>1. CASE Start(w)
  <2>1. PICK c \in Collection, force \in BOOLEAN, todo \in Request :
           /\ planned' = planned + Len(todo)
           /\ job' = [job EXCEPT ![w] = [target |-> c, force |-> force, todo |-> todo]]
    BY <1>1 DEF Start
  <2>2. todo \in Seq(File) /\ Len(todo) \in Nat
    BY RequestAssumption
  <2>3. [target |-> c, force |-> force, todo |-> todo] \in Job
    BY <2>2 DEF Job
  <2>4. planned' \in Nat
    BY <2>1, <2>2 DEF TypeOK
  <2>. QED
    BY <1>1, <2>1, <2>3, <2>4 DEF Start, Goto, TypeOK, PC, tables
<1>2. CASE EnsureCollection(w)
  <2>1. [tx[w] EXCEPT !.wants = ActiveOthers(w)] \in Tx
    BY <1>0, NewTxType
  <2>2. tx' \in [Worker -> Tx]
    BY <1>2, <2>1 DEF EnsureCollection, TypeOK
  <2>. QED
    BY <1>2, <2>2 DEF EnsureCollection, Goto, TypeOK, PC, tables
<1>3. CASE CreateCollection(w)
  <2>1. [tx[w] EXCEPT !.created = TRUE, !.wants = ActiveOthers(w)] \in Tx
    BY <1>0, NewTxType
  <2>2. CASE Abandon(w)
    BY <2>2, AbandonType
  <2>3. CASE ~Abandon(w)
    <3>1. tx' = [tx EXCEPT ![w] = [tx[w] EXCEPT !.created = TRUE, !.wants = ActiveOthers(w)]]
      BY <1>3, <2>3 DEF CreateCollection, TypeOK
    <3>. QED
      BY <1>3, <2>1, <2>3, <3>1 DEF CreateCollection, Goto, TypeOK, PC, tables
  <2>. QED
    BY <2>2, <2>3
<1>4. CASE RetireOthers(w)
  <2>. DEFINE C == {c \in tx[w].wants : collection[c] = "active"}
  <2>1. C \in SUBSET Collection
    BY <1>0 DEF Tx
  <2>2. [tx[w] EXCEPT !.retired = C] \in Tx
    <3>. HIDE DEF C
    <3>. QED
      BY <1>0, <2>1, NewTxType
  <2>3. tx' = [tx EXCEPT ![w] = [tx[w] EXCEPT !.retired = C]]
    BY <1>4 DEF RetireOthers
  <2>. QED
    BY <1>4, <2>2, <2>3 DEF RetireOthers, Goto, TypeOK, PC, tables
<1>5. CASE Promote(w)
  <2>1. CASE Abandon(w)
    BY <2>1, AbandonType
  <2>2. CASE ~Abandon(w)
    <3>1. [tx[w] EXCEPT !.promoted = TRUE] \in Tx
      BY <1>0, NewTxType
    <3>2. /\ Goto(w, Onward(job[w].todo))
          /\ UNCHANGED <<document, relation, vectors, municipality, used, job, facts, planned>>
          /\ \/ /\ tx' = [tx EXCEPT ![w] = EmptyTx]
                /\ collection' = [c \in Collection |->
                                    IF c \in tx[w].retired THEN "retired"
                                    ELSE IF c = Target(w) THEN "active" ELSE collection[c]]
             \/ tx' = [tx EXCEPT ![w] = [tx[w] EXCEPT !.promoted = TRUE]] /\ collection' = collection
      BY <1>5, <2>2 DEF Promote
    <3>3. collection' \in [Collection -> CollectionStatus]
      BY <3>2 DEF TypeOK, CollectionStatus
    <3>. QED
      BY <3>1, <3>2, <3>3 DEF Goto, Onward, TypeOK, PC
  <2>. QED
    BY <2>1, <2>2
<1>. QED
  BY <1>1, <1>2, <1>3, <1>4, <1>5

LEMMA IngestOneType ==
    ASSUME TypeOK, TransactionFollowsPc, NEW w \in Worker, IngestOne(w)
    PROVE  TypeOK'
<1>0. tx[w] \in Tx /\ (pc[w] \in OnPath => job[w].todo # <<>>)
  BY DEF TypeOK, TransactionFollowsPc, FollowsPc
<1>1. CASE DocumentFails(w)
  BY <1>0, <1>1, FailDocumentType DEF DocumentFails, OnPath
<1>2. CASE CheckExisting(w)
  <2>1. job[w].todo # <<>>
    BY <1>0, <1>2 DEF CheckExisting, OnPath
  <2>2. CASE UNCHANGED tx
    <3>1. \/ job' = [job EXCEPT ![w] = [job[w] EXCEPT !.todo = Tail(job[w].todo)]]
          \/ job' = job
      BY <1>2 DEF CheckExisting
    <3>2. job' \in [Worker -> Job]
      BY <2>1, <3>1, TailOfTodo DEF TypeOK
    <3>3. pc' \in [Worker -> PC]
      BY <1>2, <2>1, TailOfTodo DEF CheckExisting, Goto, TypeOK, PC
    <3>. QED
      BY <1>2, <2>2, <3>2, <3>3 DEF CheckExisting, TypeOK, tables
  <2>3. CASE ~UNCHANGED tx
    <3>1. PICK d \in Stored(document) :
             Goto(w, "delete") /\ tx' = [tx EXCEPT ![w] = [tx[w] EXCEPT !.victim = d]]
      BY <1>2, <2>3 DEF CheckExisting
    <3>2. [tx[w] EXCEPT !.victim = d] \in Tx
      BY <1>0, NewTxType DEF Stored
    <3>3. UNCHANGED <<tables, used, job, facts, planned>>
      BY <1>2, <2>3 DEF CheckExisting
    <3>. QED
      BY <3>1, <3>2, <3>3 DEF Goto, TypeOK, PC, tables
  <2>. QED
    BY <2>2, <2>3
<1>3. CASE DeleteExisting(w)
  <2>1. tx' = [tx EXCEPT ![w] = [tx[w] EXCEPT !.deleted = TRUE]]
    BY <1>3 DEF DeleteExisting
  <2>2. [tx[w] EXCEPT !.deleted = TRUE] \in Tx
    BY <1>0, NewTxType
  <2>. QED
    BY <1>3, <2>1, <2>2 DEF DeleteExisting, Goto, TypeOK, PC, tables
<1>4. CASE ResolveMunicipality(w)
  <2>. DEFINE slug == Detect(Printed[Current(w)]).slug
              new == IF slug \in municipality THEN Undetected ELSE slug
  <2>1. Current(w) \in File
    BY <1>0, <1>4, TailOfTodo DEF ResolveMunicipality, OnPath
  <2>2. slug \in Municipality \union {Undetected}
    BY <2>1, PrintedAssumption, DetectType DEF DocumentMetadata
  <2>3. [tx[w] EXCEPT !.slug = new] \in Tx
    <3>. HIDE DEF slug
    <3>. QED
      BY <1>0, <2>2, NewTxType
  <2>4. tx' = [tx EXCEPT ![w] = [tx[w] EXCEPT !.slug = new]]
    BY <1>4 DEF ResolveMunicipality
  <2>. HIDE DEF new
  <2>. QED
    BY <1>4, <2>3, <2>4 DEF ResolveMunicipality, Goto, TypeOK, PC, tables
<1>5. CASE WriteDocument(w)
  <2>1. CASE FailDocument(w)
    BY <1>0, <1>5, <2>1, FailDocumentType DEF WriteDocument, At, OnPath
  <2>2. CASE ~FailDocument(w)
    <3>1. PICK d \in DocId \ used :
             used' = used \union {d} /\ tx' = [tx EXCEPT ![w] = [tx[w] EXCEPT !.id = d]]
      BY <1>5, <2>2 DEF WriteDocument
    <3>2. [tx[w] EXCEPT !.id = d] \in Tx
      BY <1>0, NewTxType
    <3>3. UNCHANGED <<tables, job, facts, planned>> /\ Goto(w, "embed")
      BY <1>5, <2>2 DEF WriteDocument
    <3>. QED
      BY <3>1, <3>2, <3>3 DEF Goto, TypeOK, PC, tables
  <2>. QED
    BY <2>1, <2>2
<1>6. CASE EmbedBatch(w)
  <2>1. tx' = [tx EXCEPT ![w] = [tx[w] EXCEPT !.embedded = tx[w].embedded + 1]]
    BY <1>6 DEF EmbedBatch
  <2>2. [tx[w] EXCEPT !.embedded = tx[w].embedded + 1] \in Tx
    BY <1>0, NewTxType
  <2>. QED
    BY <1>6, <2>1, <2>2 DEF EmbedBatch, TypeOK, tables
<1>7. CASE CommitDocument(w)
  <2>1. job[w].todo # <<>>
    BY <1>0, <1>7 DEF CommitDocument, Embedded, OnPath
  <2>2. NewRow(Current(w)) \in Row
    BY <2>1, TailOfTodo, NewRowType
  <2>3. document' \in [DocId -> Row \union {Absent}]
    BY <1>7, <2>2 DEF CommitDocument, TypeOK
  <2>4. vectors' \in [DocId -> [Collection -> Nat]]
    BY <1>0, <1>7 DEF CommitDocument, TypeOK, Tx
  <2>5. relation' \subseteq Edge
    BY <1>7 DEF CommitDocument, Cascaded, TypeOK
  <2>6. collection' \in [Collection -> CollectionStatus]
    BY <1>7, CollectionAfterType DEF CommitDocument
  <2>7. municipality' \subseteq Municipality
    BY <1>0, <1>7 DEF CommitDocument, Tx, TypeOK
  <2>8. job' = [job EXCEPT ![w] = [job[w] EXCEPT !.todo = Tail(job[w].todo)]]
    BY <1>7 DEF CommitDocument
  <2>9. /\ job' \in [Worker -> Job] /\ pc' \in [Worker -> PC]
        /\ tx' \in [Worker -> Tx] /\ UNCHANGED <<used, facts, planned>>
    BY <1>7, <2>1, <2>8, TailOfTodo, EmptyTxType DEF CommitDocument, Goto, TypeOK
  <2>. QED
    BY <2>3, <2>4, <2>5, <2>6, <2>7, <2>9 DEF TypeOK
<1>. QED
  BY <1>1, <1>2, <1>3, <1>4, <1>5, <1>6, <1>7 DEF IngestOne

LEMMA PassType ==
    ASSUME TypeOK, FactsAreCorpora, TransactionFollowsPc, RowsAreLocked, NEW w \in Worker,
           RefreshCollectionCount(w) \/ ResolveLineage(w)
    PROVE  TypeOK'
<1>. USE EmptyTxType
<1>0. tx[w] \in Tx /\ document \in Table /\ NoJob \in Job
  BY DEF TypeOK, Table, NoJob, Job
<1>1. CASE RefreshCollectionCount(w)
  BY <1>1, CollectionAfterType DEF RefreshCollectionCount, Goto, TypeOK, PC
<1>2. CASE LoadCorpus(w)
  <2>1. CASE Stored(document) = {}
    BY <1>0, <1>2, <2>1 DEF LoadCorpus, Goto, TypeOK, PC, tables
  <2>2. CASE Stored(document) # {}
    <3>1. PICK d \in Stored(document) :
             tx' = [tx EXCEPT ![w] = [tx[w] EXCEPT !.row = d, !.left = Stored(document) \ {d}]]
      BY <1>2, <2>2 DEF LoadCorpus
    <3>2. d \in DocId /\ Stored(document) \ {d} \in SUBSET DocId
      BY DEF Stored
    <3>3. [tx[w] EXCEPT !.row = d, !.left = Stored(document) \ {d}] \in Tx
      BY <1>0, <3>2, NewTxType
    <3>4. LoadFacts(document) \in SUBSET DocumentFacts
      BY <1>0, LoadFactsIsCorpus DEF IsCorpus
    <3>. QED
      BY <1>2, <2>2, <3>1, <3>3, <3>4 DEF LoadCorpus, Goto, TypeOK, PC, tables
  <2>. QED
    BY <2>1, <2>2
<1>3. CASE WriteStatus(w)
  <2>. DEFINE d == tx[w].row
              judged == tx[w].judged \union {x \in {d} : Updatable(document[x])}
  <2>1. d \in DocId /\ judged \in SUBSET DocId /\ relation \in SUBSET Edge
    BY <1>0, <1>3 DEF WriteStatus, At, TransactionFollowsPc, FollowsPc, Tx, TypeOK
  <2>2. UNCHANGED <<tables, used, job, facts, planned>>
    BY <1>3 DEF WriteStatus
  <2>3. CASE tx[w].left = {}
    <3>1. tx' = [tx EXCEPT ![w] = [tx[w] EXCEPT !.judged = judged, !.row = Absent, !.swept = relation]]
      BY <1>3, <2>3 DEF WriteStatus
    <3>2. [tx[w] EXCEPT !.judged = judged, !.row = Absent, !.swept = relation] \in Tx
      <4>. HIDE DEF judged
      <4>. QED
        BY <1>0, <2>1, NewTxType
    <3>3. Goto(w, "sweep")
      BY <1>3, <2>3 DEF WriteStatus
    <3>. HIDE DEF judged
    <3>. QED
      BY <2>2, <3>1, <3>2, <3>3 DEF Goto, TypeOK, PC, tables
  <2>4. CASE tx[w].left # {}
    <3>1. PICK e \in tx[w].left :
             tx' = [tx EXCEPT ![w] = [tx[w] EXCEPT !.judged = judged, !.row = e,
                                                    !.left = tx[w].left \ {e}]]
      BY <1>3, <2>4 DEF WriteStatus
    <3>2. e \in DocId /\ tx[w].left \ {e} \in SUBSET DocId
      BY <1>0 DEF Tx
    <3>3. [tx[w] EXCEPT !.judged = judged, !.row = e, !.left = tx[w].left \ {e}] \in Tx
      <4>. HIDE DEF judged
      <4>. QED
        BY <1>0, <2>1, <3>2, NewTxType
    <3>4. pc' = pc
      BY <1>3, <2>4 DEF WriteStatus
    <3>. HIDE DEF judged
    <3>. QED
      BY <2>2, <3>1, <3>3, <3>4 DEF TypeOK, tables
  <2>. QED
    BY <2>3, <2>4
<1>4. CASE SweepEdges(w)
  BY <1>4 DEF SweepEdges, Goto, TypeOK, PC, tables
<1>5. CASE WriteEdges(w)
  <2>1. CASE Abandon(w)
    BY <2>1, AbandonType
  <2>2. CASE ~Abandon(w)
    <3>. DEFINE F == facts[w]
    <3>1. IsCorpus(F)
      BY DEF FactsAreCorpora
    <3>2. /\ \A e \in BuildEdges(F) : {e.parent, e.child} \subseteq Stored(document)
          /\ document' = [d \in DocId |->
                            IF d \in tx[w].judged
                            THEN Judged(document[d], F, FactsOf(d, document[d].file))
                            ELSE document[d]]
          /\ relation' = (relation \ tx[w].swept) \union BuildEdges(F)
          /\ Goto(w, "idle")
          /\ tx' = [tx EXCEPT ![w] = EmptyTx]
          /\ facts' = [facts EXCEPT ![w] = {}]
          /\ job' = [job EXCEPT ![w] = NoJob]
          /\ UNCHANGED <<collection, vectors, municipality, used, planned>>
      BY <1>5, <2>2 DEF WriteEdges
    <3>. HIDE DEF F
    <3>3. \A d \in tx[w].judged : d \in DocId => document[d] \in Row
      BY DEF RowsAreLocked, Updatable, TypeOK
    <3>4. document' \in [DocId -> Row \union {Absent}]
      BY <3>1, <3>2, <3>3, JudgedType DEF TypeOK
    <3>5. BuildEdges(F) \subseteq Edge
      <4>. SUFFICES ASSUME NEW e \in BuildEdges(F)
                    PROVE  e \in Edge
        OBVIOUS
      <4>1. PICK f, g \in F :
               /\ e.parent = f.id /\ e.child = g.id
               /\ e \in [parent : {f.id}, child : {g.id},
                         relation : {"amends", "repeals", "consolidates", "replaces"}]
        BY <3>1, BuildEdgesRelate
      <4>2. e.parent \in DocId /\ e.child \in DocId
        BY <3>2 DEF Stored
      <4>. QED
        BY <4>1, <4>2 DEF Edge
    <3>6. facts' \in [Worker -> SUBSET DocumentFacts] /\ relation' \subseteq Edge
      BY <3>2, <3>5 DEF TypeOK
    <3>. QED
      BY <1>0, <3>2, <3>4, <3>6 DEF Goto, TypeOK, PC
  <2>. QED
    BY <2>1, <2>2
<1>. QED
  BY <1>1, <1>2, <1>3, <1>4, <1>5 DEF ResolveLineage

LEMMA VerifyType ==
    ASSUME TypeOK, NEW d \in DocId, NEW status \in Correction, VerifyByHuman(d, status)
    PROVE  TypeOK'
<1>1. document[d] \in Row /\ status \in DocumentStatus
  BY CorrectionAssumption DEF VerifyByHuman, TypeOK
<1>2. [document[d] EXCEPT !.status = status, !.verified = TRUE] \in Row
  BY <1>1 DEF Row
<1>3. document' = [document EXCEPT ![d] = [document[d] EXCEPT !.status = status, !.verified = TRUE]]
  BY DEF VerifyByHuman, TypeOK
<1>. QED
  BY <1>2, <1>3 DEF VerifyByHuman, TypeOK

LEMMA TypeKeeps ==
    ASSUME TypeOK, FactsAreCorpora, TransactionFollowsPc, RowsAreLocked, [Next]_vars
    PROVE  TypeOK'
<1>1. ASSUME NEW w \in Worker, Start(w) \/ Step(w) \/ Crash(w)
      PROVE  TypeOK'
  <2>1. CASE DeadlockAbort(w)
    <3>1. pc[w] \in {"delete", "insert"} => job[w].todo # <<>>
      BY DEF TransactionFollowsPc, FollowsPc, OnPath
    <3>. QED
      BY <2>1, <3>1, FailDocumentType, AbandonType DEF DeadlockAbort
  <2>2. CASE Crash(w)
    BY <2>2, AbandonType DEF Crash
  <2>. QED
    BY <1>1, <2>1, <2>2, ActivationType, IngestOneType, PassType DEF Step
<1>2. CASE UNCHANGED vars
  BY <1>2 DEF vars, tables, TypeOK
<1>. QED
  BY <1>1, <1>2, VerifyType DEF Next

-----------------------------------------------------------------------------
(* A transaction holds what the place of its worker allows *)

LEMMA RolledBackFollows ==
    ASSUME TypeOK, NEW w \in Worker, Abandon(w)
    PROVE  FollowsPc(w)'
<1>1. pc'[w] = "idle" /\ tx'[w] = EmptyTx
  BY DEF Abandon, Goto, TypeOK
<1>. QED
  BY <1>1 DEF FollowsPc, EmptyTx, OnPath, InPass

\* A worker that goes on to the next path, with a transaction that holds no
\* document.
LEMMA OnwardFollows ==
    ASSUME TypeOK, NEW w \in Worker, FollowsPc(w), pc[w] # "idle",
           NEW todo, pc'[w] = Onward(todo), job'[w].todo = todo, job'[w].target = job[w].target,
           tx'[w].id = Absent, tx'[w].victim = Absent, ~tx'[w].deleted, tx'[w].judged = {},
           ~tx'[w].created, tx'[w].retired # {} => tx'[w].promoted
    PROVE  FollowsPc(w)'
<1>1. (pc'[w] = "next" /\ todo # <<>>) \/ pc'[w] = "refresh"
  BY DEF Onward
<1>. QED
  BY <1>1 DEF FollowsPc, OnPath, InPass, Target

LEMMA FailedFollows ==
    ASSUME TypeOK, NEW w \in Worker, FollowsPc(w), pc[w] # "idle", FailDocument(w)
    PROVE  FollowsPc(w)'
<1>1. /\ pc'[w] = Onward(Tail(job[w].todo)) /\ tx'[w] = EmptyTx
      /\ job' = [job EXCEPT ![w] = [job[w] EXCEPT !.todo = Tail(job[w].todo)]]
  BY DEF FailDocument, Goto, TypeOK
<1>2. job'[w].todo = Tail(job[w].todo) /\ job'[w].target = job[w].target
  BY <1>1 DEF TypeOK, Job
<1>3. /\ tx'[w].id = Absent /\ tx'[w].victim = Absent /\ ~tx'[w].deleted /\ tx'[w].judged = {}
      /\ ~tx'[w].created /\ tx'[w].retired = {}
  BY <1>1 DEF EmptyTx
<1>. QED
  BY <1>1, <1>2, <1>3, OnwardFollows

LEMMA WorkerFollows ==
    ASSUME TypeOK, TypeOK', NEW w \in Worker, FollowsPc(w), Start(w) \/ Step(w) \/ Crash(w)
    PROVE  FollowsPc(w)'
<1>0. tx[w] \in Tx /\ tx'[w] \in Tx /\ job[w] \in Job /\ job'[w] \in Job /\ pc[w] \in PC
  BY DEF TypeOK
<1>. USE DEF Goto
<1>1. CASE Start(w)
  <2>1. pc[w] = "idle" /\ pc' = [pc EXCEPT ![w] = "ensure"] /\ tx' = tx /\ Target(w)' \in Collection
    BY <1>1 DEF Start, TypeOK, Target
  <2>. QED
    BY <2>1 DEF FollowsPc, OnPath, InPass, TypeOK, EmptyTx
<1>2. CASE EnsureCollection(w)
  <2>1. tx[w] = EmptyTx /\ Target(w)' \in Collection
    BY <1>2 DEF EnsureCollection, FollowsPc, Target
  <2>2. \/ pc'[w] = "create" /\ tx'[w] = tx[w]
        \/ pc'[w] = "retire" /\ tx'[w] = [tx[w] EXCEPT !.wants = ActiveOthers(w)]
    BY <1>2 DEF EnsureCollection, TypeOK
  <2>. QED
    BY <2>1, <2>2 DEF FollowsPc, EmptyTx, OnPath, InPass
<1>3. CASE CreateCollection(w)
  <2>1. CASE Abandon(w)
    BY <2>1, RolledBackFollows
  <2>2. CASE ~Abandon(w)
    <3>1. tx[w] = EmptyTx /\ Target(w)' \in Collection
      BY <1>3, <2>2 DEF CreateCollection, At, FollowsPc, Target
    <3>2. /\ pc'[w] = "retire"
          /\ tx'[w] = [tx[w] EXCEPT !.created = TRUE, !.wants = ActiveOthers(w)]
      BY <1>3, <2>2 DEF CreateCollection, TypeOK
    <3>. QED
      BY <3>1, <3>2 DEF FollowsPc, EmptyTx, OnPath, InPass
  <2>. QED
    BY <2>1, <2>2
<1>4. CASE RetireOthers(w)
  <2>1. /\ pc[w] = "retire" /\ pc'[w] = "promote" /\ job' = job
        /\ \E C : tx'[w] = [tx[w] EXCEPT !.retired = C]
    BY <1>4 DEF RetireOthers, At, TypeOK
  <2>. QED
    BY <1>0, <2>1 DEF FollowsPc, OnPath, InPass, Tx, Target
<1>5. CASE Promote(w)
  <2>1. CASE Abandon(w)
    BY <2>1, RolledBackFollows
  <2>2. CASE ~Abandon(w)
    <3>1. /\ pc[w] = "promote" /\ pc'[w] = Onward(job[w].todo) /\ job' = job
          /\ \/ tx'[w] = EmptyTx
             \/ ~tx[w].created /\ tx'[w] = [tx[w] EXCEPT !.promoted = TRUE]
      BY <1>5, <2>2 DEF Promote, At, TypeOK
    <3>2. /\ tx[w].id = Absent /\ tx[w].victim = Absent /\ ~tx[w].deleted /\ tx[w].judged = {}
      BY <3>1 DEF FollowsPc, OnPath, InPass
    <3>3. /\ tx'[w].id = Absent /\ tx'[w].victim = Absent /\ ~tx'[w].deleted /\ tx'[w].judged = {}
          /\ ~tx'[w].created /\ (tx'[w].retired # {} => tx'[w].promoted)
      BY <1>0, <3>1, <3>2 DEF Tx, EmptyTx
    <3>. QED
      BY <3>1, <3>3, OnwardFollows
  <2>. QED
    BY <2>1, <2>2
<1>6. CASE DocumentFails(w)
  BY <1>6, FailedFollows DEF DocumentFails
<1>7. CASE CheckExisting(w)
  <2>0. /\ pc[w] = "next" /\ tx[w].id = Absent /\ tx[w].victim = Absent /\ ~tx[w].deleted
        /\ tx[w].judged = {} /\ ~tx[w].created /\ (tx[w].retired # {} => tx[w].promoted)
    BY <1>7 DEF CheckExisting, FollowsPc, OnPath, InPass
  <2>1. \/ /\ tx' = tx /\ pc'[w] = Onward(Tail(job[w].todo))
           /\ job'[w] = [job[w] EXCEPT !.todo = Tail(job[w].todo)]
        \/ tx' = tx /\ pc'[w] = "municipality" /\ job' = job
        \/ /\ pc'[w] = "delete" /\ job' = job
           /\ \E d \in Stored(document) : tx'[w] = [tx[w] EXCEPT !.victim = d]
    BY <1>7 DEF CheckExisting, TypeOK
  <2>2. CASE /\ tx' = tx /\ pc'[w] = Onward(Tail(job[w].todo))
             /\ job'[w] = [job[w] EXCEPT !.todo = Tail(job[w].todo)]
    <3>1. job'[w].todo = Tail(job[w].todo) /\ job'[w].target = job[w].target
      BY <1>0, <2>2 DEF Job
    <3>. QED
      BY <2>0, <2>2, <3>1, OnwardFollows
  <2>3. CASE tx' = tx /\ pc'[w] = "municipality" /\ job' = job
    BY <2>0, <2>3 DEF FollowsPc, OnPath, InPass, Target
  <2>4. CASE /\ pc'[w] = "delete" /\ job' = job
             /\ \E d \in Stored(document) : tx'[w] = [tx[w] EXCEPT !.victim = d]
    BY <1>0, <2>0, <2>4, AbsentAssumption DEF FollowsPc, OnPath, InPass, Target, Tx, Stored
  <2>. QED
    BY <2>1, <2>2, <2>3, <2>4
<1>8. CASE DeleteExisting(w)
  <2>1. /\ pc[w] = "delete" /\ pc'[w] = "municipality" /\ job' = job
        /\ tx'[w] = [tx[w] EXCEPT !.deleted = TRUE]
    BY <1>8 DEF DeleteExisting, At, TypeOK
  <2>. QED
    BY <1>0, <2>1 DEF FollowsPc, OnPath, InPass, Target, Tx
<1>9. CASE ResolveMunicipality(w)
  <2>1. /\ pc[w] = "municipality" /\ pc'[w] = "insert" /\ job' = job
        /\ \E s : tx'[w] = [tx[w] EXCEPT !.slug = s]
    BY <1>9 DEF ResolveMunicipality, TypeOK
  <2>. QED
    BY <1>0, <2>1 DEF FollowsPc, OnPath, InPass, Target, Tx
<1>10. CASE WriteDocument(w)
  <2>1. CASE FailDocument(w)
    BY <1>10, <2>1, FailedFollows DEF WriteDocument, At
  <2>2. CASE ~FailDocument(w)
    <3>1. /\ pc[w] = "insert" /\ pc'[w] = "embed" /\ job' = job
          /\ \E d \in DocId : tx'[w] = [tx[w] EXCEPT !.id = d]
      BY <1>10, <2>2 DEF WriteDocument, At, TypeOK
    <3>. QED
      BY <1>0, <3>1, AbsentAssumption DEF FollowsPc, OnPath, InPass, Target, Tx
  <2>. QED
    BY <2>1, <2>2
<1>11. CASE EmbedBatch(w)
  <2>1. /\ pc[w] = "embed" /\ pc' = pc /\ job' = job
        /\ tx'[w] = [tx[w] EXCEPT !.embedded = tx[w].embedded + 1]
    BY <1>11 DEF EmbedBatch, TypeOK
  <2>. QED
    BY <1>0, <2>1 DEF FollowsPc, OnPath, InPass, Target, Tx
<1>12. CASE CommitDocument(w)
  <2>1. /\ pc[w] = "embed" /\ pc'[w] = Onward(Tail(job[w].todo)) /\ tx'[w] = EmptyTx
        /\ job' = [job EXCEPT ![w] = [job[w] EXCEPT !.todo = Tail(job[w].todo)]]
    BY <1>12 DEF CommitDocument, Embedded, TypeOK
  <2>2. job'[w].todo = Tail(job[w].todo) /\ job'[w].target = job[w].target
    BY <1>0, <2>1 DEF TypeOK, Job
  <2>3. /\ tx'[w].id = Absent /\ tx'[w].victim = Absent /\ ~tx'[w].deleted /\ tx'[w].judged = {}
        /\ ~tx'[w].created /\ tx'[w].retired = {}
    BY <2>1 DEF EmptyTx
  <2>. QED
    BY <2>1, <2>2, <2>3, OnwardFollows
<1>13. CASE RefreshCollectionCount(w)
  <2>1. pc[w] = "refresh" /\ pc'[w] = "load" /\ tx'[w] = EmptyTx /\ job' = job
    BY <1>13 DEF RefreshCollectionCount, At, TypeOK
  <2>. QED
    BY <2>1 DEF FollowsPc, OnPath, InPass, Target, EmptyTx
<1>14. CASE LoadCorpus(w)
  <2>0. tx[w] = EmptyTx
    BY <1>14 DEF LoadCorpus, FollowsPc
  <2>1. CASE Stored(document) = {}
    <3>1. pc'[w] = "idle" /\ tx' = tx
      BY <1>14, <2>1 DEF LoadCorpus, TypeOK
    <3>. QED
      BY <2>0, <3>1 DEF FollowsPc, OnPath, InPass, EmptyTx
  <2>2. CASE Stored(document) # {}
    <3>1. PICK d \in Stored(document) :
             tx' = [tx EXCEPT ![w] = [tx[w] EXCEPT !.row = d, !.left = Stored(document) \ {d}]]
      BY <1>14, <2>2 DEF LoadCorpus
    <3>2. pc[w] = "load" /\ pc'[w] = "statuses" /\ job' = job
      BY <1>14, <2>2 DEF LoadCorpus, TypeOK
    <3>3. tx'[w] = [EmptyTx EXCEPT !.row = d, !.left = Stored(document) \ {d}] /\ d # Absent
      BY <2>0, <3>1, AbsentAssumption DEF TypeOK, Stored
    <3>. QED
      BY <3>2, <3>3 DEF FollowsPc, OnPath, InPass, Target, EmptyTx
  <2>. QED
    BY <2>1, <2>2
<1>15. CASE WriteStatus(w)
  <2>1. /\ pc[w] = "statuses" /\ job' = job
        /\ tx'[w].id = tx[w].id /\ tx'[w].victim = tx[w].victim /\ tx'[w].deleted = tx[w].deleted
        /\ tx'[w].created = tx[w].created /\ tx'[w].promoted = tx[w].promoted
        /\ tx'[w].retired = tx[w].retired
        /\ \/ pc'[w] = "sweep"
           \/ pc'[w] = "statuses" /\ tx'[w].row \in tx[w].left
    <3>. DEFINE judged == tx[w].judged \union {x \in {tx[w].row} : Updatable(document[x])}
    <3>1. pc[w] = "statuses" /\ job' = job
      BY <1>15 DEF WriteStatus, At
    <3>2. CASE tx[w].left = {}
      <4>1. /\ pc'[w] = "sweep"
            /\ tx' = [tx EXCEPT ![w] = [tx[w] EXCEPT !.judged = judged, !.row = Absent, !.swept = relation]]
        BY <1>15, <3>2 DEF WriteStatus, TypeOK
      <4>. HIDE DEF judged
      <4>2. tx'[w] = [tx[w] EXCEPT !.judged = judged, !.row = Absent, !.swept = relation]
        BY <4>1 DEF TypeOK
      <4>. QED
        BY <1>0, <3>1, <4>1, <4>2 DEF Tx
    <3>3. CASE tx[w].left # {}
      <4>1. PICK e \in tx[w].left :
               tx' = [tx EXCEPT ![w] = [tx[w] EXCEPT !.judged = judged, !.row = e,
                                                      !.left = tx[w].left \ {e}]]
        BY <1>15, <3>3 DEF WriteStatus
      <4>2. pc' = pc
        BY <1>15, <3>3 DEF WriteStatus
      <4>. HIDE DEF judged
      <4>3. tx'[w] = [tx[w] EXCEPT !.judged = judged, !.row = e, !.left = tx[w].left \ {e}]
        BY <4>1 DEF TypeOK
      <4>. QED
        BY <1>0, <3>1, <4>2, <4>3 DEF Tx
    <3>. QED
      BY <3>2, <3>3
  <2>2. tx'[w].row \in tx[w].left => tx'[w].row # Absent
    BY <1>0, AbsentAssumption DEF Tx
  <2>. QED
    BY <2>1, <2>2 DEF FollowsPc, OnPath, InPass, Target
<1>16. CASE SweepEdges(w)
  <2>1. pc[w] = "sweep" /\ pc'[w] = "edges" /\ tx' = tx /\ job' = job
    BY <1>16 DEF SweepEdges, At, TypeOK
  <2>. QED
    BY <2>1 DEF FollowsPc, OnPath, InPass, Target
<1>17. CASE WriteEdges(w)
  <2>1. CASE Abandon(w)
    BY <2>1, RolledBackFollows
  <2>2. CASE ~Abandon(w)
    <3>1. pc'[w] = "idle" /\ tx'[w] = EmptyTx
      BY <1>17, <2>2 DEF WriteEdges, TypeOK
    <3>. QED
      BY <3>1 DEF FollowsPc, OnPath, InPass, EmptyTx
  <2>. QED
    BY <2>1, <2>2
<1>18. CASE DeadlockAbort(w) \/ Crash(w)
  BY <1>18, RolledBackFollows, FailedFollows DEF DeadlockAbort, Crash
<1>. QED
  BY <1>1, <1>2, <1>3, <1>4, <1>5, <1>6, <1>7, <1>8, <1>9, <1>10, <1>11, <1>12, <1>13, <1>14, <1>15,
     <1>16, <1>17, <1>18 DEF Step, IngestOne, ResolveLineage

-----------------------------------------------------------------------------
(* What a step of a worker changes *)

\* The document table and its edges change when a document or a pass commits.
LEMMA TablesMove ==
    ASSUME NEW w \in Worker, Start(w) \/ Step(w) \/ Crash(w)
    PROVE  \/ document' = document /\ relation' = relation /\ vectors' = vectors
           \/ CommitDocument(w)
           \/ WriteEdges(w) /\ ~Abandon(w)
<1>1. (Abandon(w) \/ FailDocument(w)) => document' = document /\ relation' = relation /\ vectors' = vectors
  BY DEF Abandon, FailDocument, tables
<1>2. CASE Start(w) \/ EnsureCollection(w) \/ CreateCollection(w) \/ RetireOthers(w) \/ Promote(w)
  BY <1>1, <1>2 DEF Start, EnsureCollection, CreateCollection, RetireOthers, Promote, tables
<1>3. CASE IngestOne(w)
  BY <1>1, <1>3 DEF IngestOne, DocumentFails, CheckExisting, DeleteExisting, ResolveMunicipality,
                    WriteDocument, EmbedBatch, tables
<1>4. CASE RefreshCollectionCount(w) \/ ResolveLineage(w)
  BY <1>1, <1>4 DEF RefreshCollectionCount, ResolveLineage, LoadCorpus, WriteStatus, SweepEdges, tables
<1>5. CASE DeadlockAbort(w) \/ Crash(w)
  BY <1>1, <1>5 DEF DeadlockAbort, Crash
<1>. QED
  BY <1>2, <1>3, <1>4, <1>5 DEF Step

\* What a worker's transaction holds it held before, unless the step is the one
\* that acquires it.
LEMMA StepAcquires ==
    ASSUME TypeOK, NEW w \in Worker, FollowsPc(w), Start(w) \/ Step(w) \/ Crash(w)
    PROVE  /\ tx'[w].id # Absent =>
                 /\ Current(w)' = Current(w) /\ tx'[w].victim = tx[w].victim
                 /\ tx'[w].id = tx[w].id \/ WriteDocument(w)
           /\ tx'[w].victim # Absent =>
                 Current(w)' = Current(w) /\ (tx'[w].victim = tx[w].victim \/ CheckExisting(w))
           /\ tx'[w].deleted =>
                 tx'[w].victim = tx[w].victim /\ (tx[w].deleted \/ DeleteExisting(w))
           /\ tx'[w].judged \subseteq tx[w].judged \/ WriteStatus(w)
           /\ tx'[w].created => (tx[w].created /\ Target(w)' = Target(w)) \/ CreateCollection(w)
           /\ tx'[w].promoted =>
                 /\ Target(w)' = Target(w) /\ tx'[w].retired = tx[w].retired
                 /\ tx[w].promoted \/ Promote(w)
           /\ tx'[w].retired # {} =>
                 Target(w)' = Target(w) /\ (tx'[w].retired = tx[w].retired \/ RetireOthers(w))
<1>. DEFINE Acquires ==
           /\ tx'[w].id # Absent =>
                 /\ Current(w)' = Current(w) /\ tx'[w].victim = tx[w].victim
                 /\ tx'[w].id = tx[w].id \/ WriteDocument(w)
           /\ tx'[w].victim # Absent =>
                 Current(w)' = Current(w) /\ (tx'[w].victim = tx[w].victim \/ CheckExisting(w))
           /\ tx'[w].deleted =>
                 tx'[w].victim = tx[w].victim /\ (tx[w].deleted \/ DeleteExisting(w))
           /\ tx'[w].judged \subseteq tx[w].judged \/ WriteStatus(w)
           /\ tx'[w].created => (tx[w].created /\ Target(w)' = Target(w)) \/ CreateCollection(w)
           /\ tx'[w].promoted =>
                 /\ Target(w)' = Target(w) /\ tx'[w].retired = tx[w].retired
                 /\ tx[w].promoted \/ Promote(w)
           /\ tx'[w].retired # {} =>
                 Target(w)' = Target(w) /\ (tx'[w].retired = tx[w].retired \/ RetireOthers(w))
<1>0. tx[w] \in Tx /\ job[w] \in Job
  BY DEF TypeOK
<1>1. ASSUME tx'[w] = EmptyTx
      PROVE  Acquires
  BY <1>1 DEF EmptyTx
<1>2. ASSUME tx'[w] = tx[w], job'[w] = job[w]
      PROVE  Acquires
  BY <1>2 DEF Current, Target
<1>3. (Abandon(w) \/ FailDocument(w)) => tx'[w] = EmptyTx
  BY DEF Abandon, FailDocument, TypeOK
<1>4. CASE Start(w)
  BY <1>1, <1>4 DEF Start, FollowsPc
<1>5. CASE EnsureCollection(w)
  <2>1. tx'[w] = tx[w] \/ tx'[w] = [tx[w] EXCEPT !.wants = ActiveOthers(w)]
    BY <1>5 DEF EnsureCollection, TypeOK
  <2>2. tx[w] = EmptyTx
    BY <1>5 DEF EnsureCollection, FollowsPc
  <2>. QED
    BY <2>1, <2>2 DEF EmptyTx
<1>6. CASE CreateCollection(w)
  <2>1. CASE ~Abandon(w)
    <3>1. tx'[w] = [tx[w] EXCEPT !.created = TRUE, !.wants = ActiveOthers(w)] /\ job' = job
      BY <1>6, <2>1 DEF CreateCollection, TypeOK
    <3>2. tx[w] = EmptyTx
      BY <1>6 DEF CreateCollection, At, FollowsPc
    <3>. QED
      BY <1>6, <3>1, <3>2 DEF EmptyTx
  <2>. QED
    BY <1>1, <1>3, <2>1
<1>7. CASE RetireOthers(w)
  <2>1. (\E C : tx'[w] = [tx[w] EXCEPT !.retired = C]) /\ job' = job
    BY <1>7 DEF RetireOthers, TypeOK
  <2>2. pc[w] = "retire" /\ pc[w] \notin OnPath /\ pc[w] # "embed"
    BY <1>7 DEF RetireOthers, At, OnPath
  <2>3. tx[w].id = Absent /\ tx[w].victim = Absent /\ ~tx[w].deleted /\ ~tx[w].promoted
    BY <2>2 DEF FollowsPc
  <2>4. /\ tx'[w].id = Absent /\ tx'[w].victim = Absent /\ ~tx'[w].deleted /\ ~tx'[w].promoted
        /\ tx'[w].created = tx[w].created /\ tx'[w].judged = tx[w].judged
    BY <1>0, <2>1, <2>3 DEF Tx
  <2>. QED
    BY <1>7, <2>1, <2>4 DEF Target
<1>8. CASE Promote(w)
  <2>1. CASE ~Abandon(w)
    <3>1. job' = job /\ (tx'[w] = EmptyTx \/ tx'[w] = [tx[w] EXCEPT !.promoted = TRUE])
      BY <1>8, <2>1 DEF Promote, TypeOK
    <3>. QED
      BY <1>0, <1>1, <1>8, <3>1 DEF Tx, Current, Target
  <2>. QED
    BY <1>1, <1>3, <2>1
<1>9. CASE CheckExisting(w)
  <2>1. \/ tx' = tx /\ job'[w] = [job[w] EXCEPT !.todo = Tail(job[w].todo)]
        \/ tx' = tx /\ job' = job
        \/ job' = job /\ \E d \in Stored(document) : tx'[w] = [tx[w] EXCEPT !.victim = d]
    BY <1>9 DEF CheckExisting, TypeOK
  <2>2. tx[w].id = Absent /\ tx[w].victim = Absent /\ ~tx[w].deleted
    BY <1>9 DEF CheckExisting, FollowsPc, OnPath
  <2>3. CASE tx' = tx /\ job'[w] = [job[w] EXCEPT !.todo = Tail(job[w].todo)]
    BY <1>0, <2>2, <2>3 DEF Job, Target
  <2>4. CASE job' = job /\ \E d \in Stored(document) : tx'[w] = [tx[w] EXCEPT !.victim = d]
    BY <1>0, <1>9, <2>2, <2>4 DEF Tx, Current, Target
  <2>. QED
    BY <1>2, <2>1, <2>3, <2>4
<1>10. CASE DeleteExisting(w)
  <2>1. tx'[w] = [tx[w] EXCEPT !.deleted = TRUE] /\ job' = job
    BY <1>10 DEF DeleteExisting, TypeOK
  <2>. QED
    BY <1>0, <1>10, <2>1 DEF Tx, Current, Target
<1>11. CASE ResolveMunicipality(w)
  <2>1. (\E s : tx'[w] = [tx[w] EXCEPT !.slug = s]) /\ job' = job
    BY <1>11 DEF ResolveMunicipality, TypeOK
  <2>. QED
    BY <1>0, <2>1 DEF Tx, Current, Target
<1>12. CASE WriteDocument(w)
  <2>1. CASE ~FailDocument(w)
    <3>1. (\E d \in DocId \ used : tx'[w] = [tx[w] EXCEPT !.id = d]) /\ job' = job
      BY <1>12, <2>1 DEF WriteDocument, TypeOK
    <3>. QED
      BY <1>0, <1>12, <3>1 DEF Tx, Current, Target
  <2>. QED
    BY <1>1, <1>3, <2>1
<1>13. CASE EmbedBatch(w)
  <2>1. tx'[w] = [tx[w] EXCEPT !.embedded = tx[w].embedded + 1] /\ job' = job
    BY <1>13 DEF EmbedBatch, TypeOK
  <2>. QED
    BY <1>0, <2>1 DEF Tx, Current, Target
<1>14. CASE CommitDocument(w) \/ RefreshCollectionCount(w) \/ DocumentFails(w) \/ DeadlockAbort(w) \/ Crash(w)
  BY <1>1, <1>3, <1>14 DEF CommitDocument, RefreshCollectionCount, DocumentFails, DeadlockAbort, Crash, TypeOK
<1>15. CASE LoadCorpus(w)
  <2>1. tx[w] = EmptyTx
    BY <1>15 DEF LoadCorpus, FollowsPc
  <2>2. CASE tx' = tx
    BY <1>1, <2>1, <2>2
  <2>3. CASE tx' # tx
    <3>1. PICK d \in Stored(document) :
             tx' = [tx EXCEPT ![w] = [tx[w] EXCEPT !.row = d, !.left = Stored(document) \ {d}]]
      BY <1>15, <2>3 DEF LoadCorpus
    <3>2. tx'[w] = [EmptyTx EXCEPT !.row = d, !.left = Stored(document) \ {d}]
      BY <2>1, <3>1 DEF TypeOK
    <3>. QED
      BY <3>2 DEF EmptyTx
  <2>. QED
    BY <2>2, <2>3
<1>16. CASE WriteStatus(w)
  <2>0. pc[w] \notin OnPath /\ pc[w] # "embed" /\ job' = job
    BY <1>16 DEF WriteStatus, At, OnPath
  <2>1. tx[w].id = Absent /\ tx[w].victim = Absent /\ ~tx[w].deleted
    BY <2>0 DEF FollowsPc
  <2>3. /\ tx'[w].id = tx[w].id /\ tx'[w].victim = tx[w].victim /\ tx'[w].deleted = tx[w].deleted
        /\ tx'[w].created = tx[w].created /\ tx'[w].promoted = tx[w].promoted
        /\ tx'[w].retired = tx[w].retired
    <3>. DEFINE J == tx[w].judged \union {x \in {tx[w].row} : Updatable(document[x])}
    <3>1. CASE tx[w].left = {}
      <4>1. tx' = [tx EXCEPT ![w] = [tx[w] EXCEPT !.judged = J, !.row = Absent, !.swept = relation]]
        BY <1>16, <3>1 DEF WriteStatus
      <4>. HIDE DEF J
      <4>. QED
        BY <1>0, <4>1 DEF TypeOK, Tx
    <3>2. CASE tx[w].left # {}
      <4>1. PICK e \in tx[w].left :
               tx' = [tx EXCEPT ![w] = [tx[w] EXCEPT !.judged = J, !.row = e,
                                                      !.left = tx[w].left \ {e}]]
        BY <1>16, <3>2 DEF WriteStatus
      <4>. HIDE DEF J
      <4>. QED
        BY <1>0, <4>1 DEF TypeOK, Tx
    <3>. QED
      BY <3>1, <3>2
  <2>. QED
    BY <1>16, <2>0, <2>1, <2>3 DEF Target
<1>17. CASE SweepEdges(w)
  BY <1>2, <1>17 DEF SweepEdges
<1>18. CASE WriteEdges(w)
  <2>1. CASE ~Abandon(w)
    BY <1>1, <1>18, <2>1 DEF WriteEdges, TypeOK
  <2>. QED
    BY <1>1, <1>3, <2>1
<1>. QED
  BY <1>4, <1>5, <1>6, <1>7, <1>8, <1>9, <1>10, <1>11, <1>12, <1>13, <1>14, <1>15, <1>16, <1>17, <1>18
     DEF Step, IngestOne, ResolveLineage

\* A commit ends the transaction.
LEMMA CommitsEnd ==
    ASSUME TypeOK, NEW w \in Worker, CommitDocument(w) \/ (WriteEdges(w) /\ ~Abandon(w))
    PROVE  tx'[w] = EmptyTx
  BY DEF CommitDocument, WriteEdges, TypeOK

\* Only the INSERT of a document draws an id.
LEMMA UsedMoves ==
    ASSUME TypeOK, NEW w \in Worker, Start(w) \/ Step(w) \/ Crash(w)
    PROVE  \/ used' = used
           \/ /\ WriteDocument(w) /\ ~FailDocument(w) /\ document' = document
              /\ tx'[w].id \in DocId \ used /\ used' = used \union {tx'[w].id}
<1>1. (Abandon(w) \/ FailDocument(w)) => used' = used
  BY DEF Abandon, FailDocument
<1>2. CASE WriteDocument(w) /\ ~FailDocument(w)
  <2>1. document' = document /\ \E d \in DocId \ used :
             used' = used \union {d} /\ tx' = [tx EXCEPT ![w] = [tx[w] EXCEPT !.id = d]]
    BY <1>2 DEF WriteDocument, tables
  <2>. QED
    BY <1>2, <2>1 DEF TypeOK, Tx
<1>3. CASE Start(w) \/ EnsureCollection(w) \/ CreateCollection(w) \/ RetireOthers(w) \/ Promote(w)
  BY <1>1, <1>3 DEF Start, EnsureCollection, CreateCollection, RetireOthers, Promote
<1>4. CASE IngestOne(w) /\ ~(WriteDocument(w) /\ ~FailDocument(w))
  BY <1>1, <1>4 DEF IngestOne, DocumentFails, CheckExisting, DeleteExisting, ResolveMunicipality,
                    EmbedBatch, CommitDocument
<1>5. CASE RefreshCollectionCount(w) \/ ResolveLineage(w)
  BY <1>1, <1>5 DEF RefreshCollectionCount, ResolveLineage, LoadCorpus, WriteStatus, SweepEdges, WriteEdges
<1>6. CASE DeadlockAbort(w) \/ Crash(w)
  BY <1>1, <1>6 DEF DeadlockAbort, Crash
<1>. QED
  BY <1>2, <1>3, <1>4, <1>5, <1>6 DEF Step

\* A document appears only as the new row of a commit, goes only as what that
\* row replaces, and never changes its content.
LEMMA StoredMoves ==
    ASSUME TypeOK, FactsAreCorpora, TransactionFollowsPc, RowsAreLocked, NEW w \in Worker,
           Start(w) \/ Step(w) \/ Crash(w)
    PROVE  /\ \A d \in Stored(document') :
                 \/ d \in Stored(document) /\ document'[d].file = document[d].file
                 \/ CommitDocument(w) /\ d = tx[w].id /\ document'[d].file = Current(w)
           /\ \A d \in Stored(document) \ Stored(document') : CommitDocument(w) /\ d = tx[w].victim
<1>1. CASE document' = document
  BY <1>1
<1>2. CASE CommitDocument(w)
  <2>1. job[w].todo # <<>>
    BY <1>2 DEF CommitDocument, Embedded, TransactionFollowsPc, FollowsPc, OnPath
  <2>2. NewRow(Current(w)) # Absent /\ NewRow(Current(w)).file = Current(w)
    BY <2>1, TailOfTodo, NewRowType, AbsentAssumption DEF NewRow
  <2>3. \A d \in DocId : document'[d] = IF d = tx[w].id THEN NewRow(Current(w))
                                       ELSE IF d = tx[w].victim THEN Absent ELSE document[d]
    BY <1>2 DEF CommitDocument
  <2>. QED
    BY <1>2, <2>2, <2>3 DEF Stored
<1>3. CASE WriteEdges(w) /\ ~Abandon(w)
  <2>1. ASSUME NEW d \in DocId
        PROVE  /\ document[d] # Absent <=> document'[d] # Absent
               /\ document[d] # Absent => document'[d].file = document[d].file
    <3>1. CASE d \in tx[w].judged
      <4>1. document'[d] = Judged(document[d], facts[w], FactsOf(d, document[d].file))
        BY <1>3, <3>1 DEF WriteEdges
      <4>2. document[d] \in Row
        BY <3>1 DEF RowsAreLocked, Updatable, TypeOK
      <4>. QED
        BY <4>1, <4>2, JudgedType, AbsentAssumption DEF FactsAreCorpora
    <3>2. CASE d \notin tx[w].judged
      BY <1>3, <3>2 DEF WriteEdges
    <3>. QED
      BY <3>1, <3>2
  <2>. QED
    BY <2>1 DEF Stored
<1>. QED
  BY <1>1, <1>2, <1>3, TablesMove

LEMMA VerifyMoves ==
    ASSUME TypeOK, NEW d \in DocId, NEW status \in Correction, VerifyByHuman(d, status)
    PROVE  /\ Stored(document') = Stored(document)
           /\ \A e \in Stored(document) : document'[e].file = document[e].file
           /\ \A e \in DocId \ {d} : document'[e] = document[e]
<1>1. document[d] \in Row /\ status \in DocumentStatus
  BY CorrectionAssumption DEF VerifyByHuman, TypeOK
<1>2. /\ [document[d] EXCEPT !.status = status, !.verified = TRUE] \in Row
      /\ [document[d] EXCEPT !.status = status, !.verified = TRUE].file = document[d].file
  BY <1>1 DEF Row
<1>3. document' = [document EXCEPT ![d] = [document[d] EXCEPT !.status = status, !.verified = TRUE]]
  BY DEF VerifyByHuman, TypeOK
<1>. QED
  BY <1>1, <1>2, <1>3, AbsentAssumption DEF TypeOK, Stored

-----------------------------------------------------------------------------
(* Ids, rows and contents *)

LEMMA FactsKeep ==
    ASSUME TypeOK, FactsAreCorpora, NEW w \in Worker, Start(w) \/ Step(w) \/ Crash(w)
    PROVE  FactsAreCorpora'
<1>1. IsCorpus({}) /\ IsCorpus(LoadFacts(document))
  BY FS_EmptySet, LoadFactsIsCorpus DEF IsCorpus, TypeOK, Table
<1>2. \/ facts' = facts
      \/ facts' = [facts EXCEPT ![w] = {}]
      \/ facts' = [facts EXCEPT ![w] = LoadFacts(document)]
  <2>1. (Abandon(w) \/ FailDocument(w)) => facts' = facts \/ facts' = [facts EXCEPT ![w] = {}]
    BY DEF Abandon, FailDocument
  <2>2. CASE Start(w) \/ EnsureCollection(w) \/ CreateCollection(w) \/ RetireOthers(w) \/ Promote(w)
    BY <2>1, <2>2 DEF Start, EnsureCollection, CreateCollection, RetireOthers, Promote
  <2>3. CASE IngestOne(w)
    BY <2>1, <2>3 DEF IngestOne, DocumentFails, CheckExisting, DeleteExisting, ResolveMunicipality,
                      WriteDocument, EmbedBatch, CommitDocument
  <2>4. CASE RefreshCollectionCount(w) \/ ResolveLineage(w)
    BY <2>1, <2>4 DEF RefreshCollectionCount, ResolveLineage, LoadCorpus, WriteStatus, SweepEdges, WriteEdges
  <2>5. CASE DeadlockAbort(w) \/ Crash(w)
    BY <2>1, <2>5 DEF DeadlockAbort, Crash
  <2>. QED
    BY <2>2, <2>3, <2>4, <2>5 DEF Step
<1>. QED
  BY <1>1, <1>2 DEF FactsAreCorpora, TypeOK

LEMMA IdsKeep ==
    ASSUME TypeOK, TypeOK', FactsAreCorpora, TransactionFollowsPc, RowsAreLocked, IdsAreFresh,
           NEW w \in Worker, Start(w) \/ Step(w) \/ Crash(w)
    PROVE  IdsAreFresh'
<1>0. used \subseteq used'
  BY UsedMoves
<1>1. Stored(document') \subseteq used'
  <2>1. Stored(document') \subseteq Stored(document) \union ({tx[w].id} \ {Absent})
    BY StoredMoves, AbsentAssumption DEF Stored
  <2>. QED
    BY <1>0, <2>1 DEF IdsAreFresh
<1>2. ASSUME NEW v \in Worker
      PROVE  tx'[v].victim # Absent => tx'[v].victim \in used'
  <2>1. CASE v # w
    BY <1>0, <1>2, <2>1, OthersWait DEF IdsAreFresh
  <2>2. CASE v = w /\ CheckExisting(w) /\ tx' # tx
    <3>1. PICK d \in Stored(document) : tx' = [tx EXCEPT ![w] = [tx[w] EXCEPT !.victim = d]]
      BY <2>2 DEF CheckExisting
    <3>2. tx'[w].victim = d
      BY <3>1 DEF TypeOK, Tx
    <3>. QED
      BY <1>0, <2>2, <3>2 DEF IdsAreFresh
  <2>3. CASE v = w /\ ~(CheckExisting(w) /\ tx' # tx)
    BY <1>0, <2>3, StepAcquires DEF IdsAreFresh, TransactionFollowsPc
  <2>. QED
    BY <2>1, <2>2, <2>3
<1>3. ASSUME NEW v \in Worker, tx'[v].id # Absent
      PROVE  /\ tx'[v].id \in used' \ Stored(document')
             /\ \A u \in Worker : /\ tx'[v].id # tx'[u].victim
                                  /\ v # u => tx'[v].id # tx'[u].id
  <2>1. CASE used' # used
    <3>1. /\ document' = document /\ WriteDocument(w) /\ ~FailDocument(w)
          /\ tx'[w].id \in DocId \ used /\ used' = used \union {tx'[w].id}
      BY <2>1, UsedMoves
    <3>2. tx'[w].victim = tx[w].victim
      BY <3>1, StepAcquires, AbsentAssumption DEF TransactionFollowsPc
    <3>3. \A u \in Worker \ {w} : tx'[u] = tx[u]
      BY OthersWait
    <3>4. \A u \in Worker : tx'[u].victim = Absent \/ tx'[u].victim \in used
      BY <3>2, <3>3 DEF IdsAreFresh
    <3>5. \A u \in Worker \ {w} : tx'[u].id = Absent \/ tx'[u].id \in used \ Stored(document)
      BY <3>3 DEF IdsAreFresh
    <3>6. tx'[w].id \notin Stored(document') /\ tx'[w].id \in used' /\ tx'[w].id # Absent
      BY <3>1, AbsentAssumption DEF IdsAreFresh
    <3>7. CASE v = w
      BY <3>1, <3>4, <3>5, <3>6, <3>7
    <3>8. CASE v # w
      BY <1>3, <3>1, <3>2, <3>3, <3>4, <3>5, <3>6, <3>8 DEF IdsAreFresh
    <3>. QED
      BY <3>7, <3>8
  <2>2. CASE used' = used
    <3>1. tx'[v].id = tx[v].id
      <4>1. CASE v = w
        <5>1. tx'[w].id = tx[w].id \/ WriteDocument(w)
          BY <1>3, <4>1, StepAcquires DEF TransactionFollowsPc
        <5>2. CASE WriteDocument(w)
          <6>1. CASE FailDocument(w)
            BY <1>3, <4>1, <6>1 DEF FailDocument, EmptyTx, TypeOK
          <6>2. CASE ~FailDocument(w)
            BY <2>2, <5>2, <6>2 DEF WriteDocument
          <6>. QED
            BY <6>1, <6>2
        <5>. QED
          BY <4>1, <5>1, <5>2
      <4>. QED
        BY <4>1, OthersWait
    <3>2. tx[v].id \in used \ Stored(document)
      BY <1>3, <3>1 DEF IdsAreFresh
    <3>3. tx'[v].id \notin Stored(document')
      <4>1. CASE CommitDocument(w)
        <5>1. v # w
          BY <1>3, <4>1, CommitsEnd DEF EmptyTx
        <5>2. tx[v].id # tx[w].id
          BY <1>3, <3>1, <5>1 DEF IdsAreFresh
        <5>. QED
          BY <3>1, <3>2, <5>2, StoredMoves
      <4>2. CASE ~CommitDocument(w)
        BY <3>1, <3>2, <4>2, StoredMoves
      <4>. QED
        BY <4>1, <4>2
    <3>4. ASSUME NEW u \in Worker
          PROVE  tx'[v].id # tx'[u].victim
      <4>1. CASE tx'[u].victim = tx[u].victim \/ tx'[u].victim = Absent
        BY <1>3, <3>1, <4>1 DEF IdsAreFresh
      <4>2. CASE u = w /\ CheckExisting(w) /\ tx' # tx
        <5>1. PICK d \in Stored(document) : tx' = [tx EXCEPT ![w] = [tx[w] EXCEPT !.victim = d]]
          BY <4>2 DEF CheckExisting
        <5>2. tx'[w].victim = d
          BY <5>1 DEF TypeOK, Tx
        <5>. QED
          BY <3>1, <3>2, <4>2, <5>2
      <4>3. \/ tx'[u].victim = tx[u].victim \/ tx'[u].victim = Absent
            \/ u = w /\ CheckExisting(w) /\ tx' # tx
        BY StepAcquires, OthersWait DEF TransactionFollowsPc
      <4>. QED
        BY <4>1, <4>2, <4>3
    <3>5. ASSUME NEW u \in Worker \ {v}
          PROVE  tx'[v].id # tx'[u].id
      <4>1. tx'[u].id = tx[u].id \/ tx'[u].id = Absent \/ (u = w /\ WriteDocument(w))
        BY StepAcquires, OthersWait DEF TransactionFollowsPc
      <4>2. CASE u = w /\ WriteDocument(w)
        <5>1. FailDocument(w)
          BY <2>2, <4>2 DEF WriteDocument
        <5>. QED
          BY <1>3, <4>2, <5>1 DEF FailDocument, EmptyTx, TypeOK
      <4>. QED
        BY <1>3, <3>1, <4>1, <4>2 DEF IdsAreFresh
    <3>. QED
      BY <2>2, <3>1, <3>2, <3>3, <3>4, <3>5
  <2>. QED
    BY <2>1, <2>2
<1>. QED
  BY <1>1, <1>2, <1>3 DEF IdsAreFresh

\* Whom a worker holds a row for after a step of w.
LEMMA HeldMoves ==
    ASSUME TypeOK, TransactionFollowsPc, NEW w \in Worker, Start(w) \/ Step(w) \/ Crash(w),
           NEW d \in DocId, HoldsRow(w, d)'
    PROVE  \/ HoldsRow(w, d)
           \/ /\ \A v \in Worker \ {w} : ~HoldsRow(v, d)
              /\ \/ DeleteExisting(w)
                 \/ WriteStatus(w) /\ Updatable(document[d])
<1>0. FollowsPc(w) /\ tx[w] \in Tx
  BY DEF TransactionFollowsPc, TypeOK
<1>1. CASE tx'[w].victim = d /\ tx'[w].deleted
  <2>1. tx[w].victim = d /\ (tx[w].deleted \/ DeleteExisting(w))
    BY <1>0, <1>1, StepAcquires
  <2>2. DeleteExisting(w) => \A v \in Worker \ {w} : ~HoldsRow(v, d)
    BY <2>1 DEF DeleteExisting, At, Blocks
  <2>. QED
    BY <2>1, <2>2 DEF HoldsRow
<1>2. CASE d \in tx'[w].judged
  <2>1. CASE tx'[w].judged \subseteq tx[w].judged
    BY <1>2, <2>1 DEF HoldsRow
  <2>2. CASE WriteStatus(w)
    <3>. DEFINE J == tx[w].judged \union {x \in {tx[w].row} : Updatable(document[x])}
    <3>1. tx'[w].judged = J
      <4>1. CASE tx[w].left = {}
        <5>1. tx' = [tx EXCEPT ![w] = [tx[w] EXCEPT !.judged = J, !.row = Absent, !.swept = relation]]
          BY <2>2, <4>1 DEF WriteStatus
        <5>. HIDE DEF J
        <5>. QED
          BY <1>0, <5>1 DEF TypeOK, Tx
      <4>2. CASE tx[w].left # {}
        <5>1. PICK e \in tx[w].left :
                 tx' = [tx EXCEPT ![w] = [tx[w] EXCEPT !.judged = J, !.row = e,
                                                        !.left = tx[w].left \ {e}]]
          BY <2>2, <4>2 DEF WriteStatus
        <5>. HIDE DEF J
        <5>. QED
          BY <1>0, <5>1 DEF TypeOK, Tx
      <4>. QED
        BY <4>1, <4>2
    <3>2. \A v \in Worker \ {w} : ~HoldsRow(v, tx[w].row)
      BY <2>2 DEF WriteStatus, At, Blocks
    <3>3. d \in tx[w].judged \/ (d = tx[w].row /\ Updatable(document[d]))
      BY <1>2, <3>1
    <3>. QED
      BY <2>2, <3>2, <3>3 DEF HoldsRow
  <2>. QED
    BY <1>0, <2>1, <2>2, StepAcquires
<1>. QED
  BY <1>1, <1>2 DEF HoldsRow

LEMMA RowsKeep ==
    ASSUME TypeOK, TypeOK', FactsAreCorpora, TransactionFollowsPc, TransactionFollowsPc', IdsAreFresh,
           RowsAreLocked, NEW w \in Worker, Start(w) \/ Step(w) \/ Crash(w)
    PROVE  RowsAreLocked'
<1>1. ASSUME NEW v \in Worker, NEW d \in DocId
      PROVE  v # w => (HoldsRow(v, d)' <=> HoldsRow(v, d))
  BY OthersWait DEF HoldsRow
<1>2. ASSUME NEW u \in Worker, NEW v \in Worker, NEW d \in DocId, HoldsRow(u, d)', HoldsRow(v, d)', u # v
      PROVE  FALSE
  BY <1>1, <1>2, HeldMoves DEF RowsAreLocked
<1>3. ASSUME NEW v \in Worker, NEW d \in tx'[v].judged
      PROVE  Updatable(document'[d])
  <2>0. d \in DocId /\ HoldsRow(v, d)'
    BY <1>3 DEF TypeOK, Tx, HoldsRow
  <2>1. Updatable(document[d]) /\ (d \in tx[v].judged \/ WriteStatus(w))
    <3>1. CASE v # w
      BY <1>3, <3>1, OthersWait DEF RowsAreLocked
    <3>2. CASE v = w
      <4>1. tx'[w].judged \subseteq tx[w].judged \/ WriteStatus(w)
        BY StepAcquires DEF TransactionFollowsPc
      <4>2. CASE tx'[w].judged \subseteq tx[w].judged
        BY <1>3, <3>2, <4>2 DEF RowsAreLocked
      <4>3. CASE WriteStatus(w)
        <5>0. ~DeleteExisting(w)
          BY <4>3 DEF WriteStatus, DeleteExisting, At
        <5>1. HoldsRow(w, d) \/ Updatable(document[d])
          BY <2>0, <3>2, <5>0, HeldMoves
        <5>2. ~tx[w].deleted
          BY <4>3 DEF WriteStatus, At, TransactionFollowsPc, FollowsPc, OnPath
        <5>. QED
          BY <4>3, <5>1, <5>2 DEF HoldsRow, RowsAreLocked
      <4>. QED
        BY <4>1, <4>2, <4>3
    <3>. QED
      BY <3>1, <3>2
  <2>2. CASE document' = document
    BY <2>1, <2>2
  <2>3. CASE CommitDocument(w)
    <3>1. v # w /\ d \in tx[v].judged
      <4>1. tx'[w].judged = {}
        BY <2>3, CommitsEnd DEF EmptyTx
      <4>2. v # w
        BY <1>3, <4>1
      <4>. QED
        BY <1>3, <4>2, OthersWait
    <3>2. d # tx[w].id
      <4>1. d \in Stored(document) /\ tx[w].id # Absent
        BY <2>0, <2>1, <2>3 DEF Updatable, Stored, CommitDocument, Embedded, TransactionFollowsPc, FollowsPc
      <4>. QED
        BY <4>1 DEF IdsAreFresh
    <3>3. d # tx[w].victim
      <4>1. tx[w].victim # Absent => tx[w].deleted
        BY <2>3 DEF CommitDocument, Embedded, TransactionFollowsPc, FollowsPc
      <4>2. HoldsRow(v, d)
        BY <3>1 DEF HoldsRow
      <4>. QED
        BY <2>0, <3>1, <4>1, <4>2, AbsentAssumption DEF RowsAreLocked, HoldsRow
    <3>4. document'[d] = document[d]
      BY <2>0, <2>3, <3>2, <3>3 DEF CommitDocument
    <3>. QED
      BY <2>1, <3>4
  <2>4. CASE WriteEdges(w) /\ ~Abandon(w)
    <3>1. v # w /\ d \in tx[v].judged
      <4>1. tx'[w].judged = {}
        BY <2>4, CommitsEnd DEF EmptyTx
      <4>2. v # w
        BY <1>3, <4>1
      <4>. QED
        BY <1>3, <4>2, OthersWait
    <3>2. d \notin tx[w].judged
      BY <2>0, <3>1 DEF RowsAreLocked, HoldsRow
    <3>3. document'[d] = document[d]
      BY <2>0, <2>4, <3>2 DEF WriteEdges
    <3>. QED
      BY <2>1, <3>3
  <2>. QED
    BY <2>2, <2>3, <2>4, TablesMove
<1>. QED
  BY <1>2, <1>3 DEF RowsAreLocked

\* What a transaction inserts is in no stored document, and in no other
\* transaction.
LEMMA ContentsKeep ==
    ASSUME TypeOK, TypeOK', FactsAreCorpora, TransactionFollowsPc, RowsAreLocked, IdsAreFresh, IdsAreFresh',
           ContentsAreUnique, NEW w \in Worker, Start(w) \/ Step(w) \/ Crash(w)
    PROVE  ContentsAreUnique'
<1>. DEFINE Draws == WriteDocument(w) /\ ~FailDocument(w)
<1>0. FollowsPc(w)
  BY DEF TransactionFollowsPc
<1>1. ASSUME NEW v \in Worker, tx'[v].id # Absent
      PROVE  /\ Current(v)' = Current(v) /\ tx'[v].victim = tx[v].victim
             /\ tx'[v].id = tx[v].id \/ (v = w /\ Draws)
  <2>1. CASE v # w
    BY <2>1, OthersWait DEF Current
  <2>2. CASE v = w
    <3>1. FailDocument(w) => tx'[w].id = Absent
      BY DEF FailDocument, EmptyTx, TypeOK
    <3>. QED
      BY <1>0, <1>1, <2>2, <3>1, StepAcquires
  <2>. QED
    BY <2>1, <2>2
<1>2. ASSUME Draws
      PROVE  /\ \A d \in Stored(document) \ {tx[w].victim} : document[d].file # Current(w)
             /\ \A v \in Worker \ {w} : tx[v].id # Absent => Current(v) # Current(w)
             /\ document' = document
  <2>1. ~Duplicate(w) /\ document' = document
    BY <1>2 DEF WriteDocument, tables
  <2>2. \A v \in Worker \ {w} : ~HoldsContent(v, Current(w))
    BY <1>2 DEF WriteDocument, At, Blocks
  <2>. QED
    BY <2>1, <2>2 DEF Duplicate, HoldsContent
<1>3. ASSUME NEW v \in Worker, tx'[v].id # Absent, NEW d \in Stored(document') \ {tx'[v].victim}
      PROVE  document'[d].file # Current(v)'
  <2>1. CASE v = w /\ Draws
    BY <1>1, <1>2, <1>3, <2>1
  <2>2. CASE tx'[v].id = tx[v].id
    <3>1. \A e \in Stored(document) \ {tx[v].victim} : document[e].file # Current(v)
      BY <1>3, <2>2 DEF ContentsAreUnique
    <3>2. CASE d \in Stored(document) /\ document'[d].file = document[d].file
      BY <1>1, <1>3, <3>1, <3>2
    <3>3. CASE CommitDocument(w) /\ d = tx[w].id /\ document'[d].file = Current(w)
      <4>1. v # w
        BY <1>3, <3>3, CommitsEnd DEF EmptyTx
      <4>2. tx[w].id # Absent
        BY <1>0, <3>3 DEF CommitDocument, Embedded, FollowsPc
      <4>3. Current(v) # Current(w)
        BY <1>3, <2>2, <4>1, <4>2 DEF ContentsAreUnique
      <4>. QED
        BY <1>1, <1>3, <3>3, <4>3
    <3>. QED
      BY <1>3, <3>2, <3>3, StoredMoves
  <2>. QED
    BY <1>1, <1>3, <2>1, <2>2
<1>4. ASSUME NEW v \in Worker, tx'[v].victim \in Stored(document')
      PROVE  document'[tx'[v].victim].file = Current(v)'
  <2>. DEFINE d == tx'[v].victim
  <2>0. d # Absent /\ d \in DocId
    BY <1>4, AbsentAssumption DEF Stored
  <2>1. CASE v = w /\ CheckExisting(w) /\ tx' # tx
    <3>1. PICK e \in {x \in Stored(document) : document[x].file = Current(w)} :
             tx' = [tx EXCEPT ![w] = [tx[w] EXCEPT !.victim = e]]
      BY <2>1 DEF CheckExisting
    <3>2. tx'[w].victim = e /\ document' = document /\ Current(w)' = Current(w)
      BY <2>1, <3>1 DEF CheckExisting, tables, Current, TypeOK, Tx
    <3>. QED
      BY <2>1, <3>1, <3>2
  <2>2. CASE d = tx[v].victim /\ Current(v)' = Current(v)
    <3>1. d \in Stored(document) /\ document'[d].file = document[d].file
      <4>1. CommitDocument(w) => tx[w].id # Absent
        BY <1>0 DEF CommitDocument, Embedded, FollowsPc
      <4>2. CommitDocument(w) => d # tx[w].id
        BY <2>2, <4>1 DEF IdsAreFresh
      <4>. QED
        BY <1>4, <4>2, StoredMoves
    <3>. QED
      BY <2>2, <3>1 DEF ContentsAreUnique
  <2>3. \/ v = w /\ CheckExisting(w) /\ tx' # tx
        \/ d = tx[v].victim /\ Current(v)' = Current(v)
    <3>1. CASE v # w
      BY <3>1, OthersWait DEF Current
    <3>2. CASE v = w
      BY <1>0, <2>0, <3>2, StepAcquires
    <3>. QED
      BY <3>1, <3>2
  <2>. QED
    BY <2>1, <2>2, <2>3
<1>5. ASSUME NEW u \in Worker, NEW v \in Worker, u # v, tx'[u].id # Absent, tx'[v].id # Absent
      PROVE  Current(u)' # Current(v)'
  <2>1. CASE tx'[u].id = tx[u].id /\ tx'[v].id = tx[v].id
    BY <1>1, <1>5, <2>1 DEF ContentsAreUnique
  <2>2. CASE Draws /\ u = w
    BY <1>1, <1>2, <1>5, <2>2
  <2>3. CASE Draws /\ v = w
    BY <1>1, <1>2, <1>5, <2>3
  <2>. QED
    BY <1>1, <1>5, <2>1, <2>2, <2>3
<1>. QED
  BY <1>3, <1>4, <1>5 DEF ContentsAreUnique

LEMMA OneRowKeeps ==
    ASSUME TypeOK, FactsAreCorpora, TransactionFollowsPc, RowsAreLocked, IdsAreFresh, ContentsAreUnique,
           OneRowPerContent, NEW w \in Worker, Start(w) \/ Step(w) \/ Crash(w)
    PROVE  OneRowPerContent'
<1>1. CASE CommitDocument(w)
  <2>1. tx[w].id # Absent
    BY <1>1 DEF CommitDocument, Embedded, TransactionFollowsPc, FollowsPc
  <2>2. \A d \in Stored(document) \ {tx[w].victim} : document[d].file # Current(w)
    BY <2>1 DEF ContentsAreUnique
  <2>3. tx[w].id # tx[w].victim /\ tx[w].id \notin Stored(document)
    BY <2>1 DEF IdsAreFresh
  <2>4. tx[w].victim \notin Stored(document') \/ tx[w].victim = Absent
    BY <1>1, <2>3 DEF CommitDocument, Stored
  <2>5. \A d \in Stored(document') : \/ d \in Stored(document) /\ document'[d].file = document[d].file
                                     \/ d = tx[w].id /\ document'[d].file = Current(w)
    BY StoredMoves
  <2>6. \A d \in Stored(document') : d # tx[w].victim
    BY <2>4, AbsentAssumption DEF Stored
  <2>. QED
    BY <2>2, <2>5, <2>6 DEF OneRowPerContent
<1>2. CASE ~CommitDocument(w)
  BY <1>2, StoredMoves DEF OneRowPerContent
<1>. QED
  BY <1>1, <1>2

LEMMA WholeKeeps ==
    ASSUME TypeOK, FactsAreCorpora, TransactionFollowsPc, RowsAreLocked, IdsAreFresh, DocumentsAreWhole,
           NEW w \in Worker, Start(w) \/ Step(w) \/ Crash(w)
    PROVE  DocumentsAreWhole'
<1>1. CASE CommitDocument(w)
  <2>1. /\ tx[w].id \in DocId /\ tx[w].id # tx[w].victim /\ Target(w) \in Collection
        /\ tx[w].embedded = Batches /\ job[w].todo # <<>>
    BY <1>1 DEF CommitDocument, Embedded, TransactionFollowsPc, FollowsPc, IdsAreFresh, TypeOK, Tx, OnPath
  <2>2. NewRow(Current(w)) # Absent
    BY <2>1, TailOfTodo, NewRowType, AbsentAssumption
  <2>3. ASSUME NEW d \in DocId
        PROVE  /\ \A c \in Collection : vectors'[d][c] \in {0, Batches}
               /\ document'[d] # Absent <=> \E c \in Collection : vectors'[d][c] = Batches
    <3>0. /\ document'[d] = IF d = tx[w].id THEN NewRow(Current(w))
                            ELSE IF d = tx[w].victim THEN Absent ELSE document[d]
          /\ \A c \in Collection :
                vectors'[d][c] = IF d = tx[w].id /\ c = Target(w) THEN tx[w].embedded
                                 ELSE IF d \in {tx[w].id, tx[w].victim} THEN 0 ELSE vectors[d][c]
      BY <1>1 DEF CommitDocument
    <3>1. CASE d = tx[w].id
      BY <2>1, <2>2, <3>0, <3>1
    <3>2. CASE d # tx[w].id /\ d = tx[w].victim
      BY <3>0, <3>2, BatchesAssumption
    <3>3. CASE d # tx[w].id /\ d # tx[w].victim
      BY <3>0, <3>3 DEF DocumentsAreWhole
    <3>. QED
      BY <3>1, <3>2, <3>3
  <2>. QED
    BY <2>3 DEF DocumentsAreWhole
<1>2. CASE ~CommitDocument(w)
  <2>1. vectors' = vectors
    BY <1>2, TablesMove DEF WriteEdges
  <2>2. Stored(document') = Stored(document)
    BY <1>2, StoredMoves
  <2>. QED
    BY <2>1, <2>2 DEF DocumentsAreWhole, Stored
<1>. QED
  BY <1>1, <1>2

\* The foreign keys: an edge goes with the documents it relates.
LEMMA EdgesKeep ==
    ASSUME TypeOK, FactsAreCorpora, TransactionFollowsPc, RowsAreLocked, EdgesAreStored,
           NEW w \in Worker, Start(w) \/ Step(w) \/ Crash(w)
    PROVE  EdgesAreStored'
<1>1. CASE CommitDocument(w)
  <2>1. ASSUME NEW e \in relation'
        PROVE  /\ {e.parent, e.child} \subseteq Stored(document)
               /\ tx[w].victim \notin {e.parent, e.child}
    BY <1>1 DEF CommitDocument, Cascaded, EdgesAreStored
  <2>2. \A d \in Stored(document) : d # tx[w].victim => d \in Stored(document')
    BY StoredMoves
  <2>. QED
    BY <2>1, <2>2 DEF EdgesAreStored
<1>2. CASE ~CommitDocument(w)
  <2>1. Stored(document) \subseteq Stored(document')
    BY <1>2, StoredMoves
  <2>2. CASE relation' = relation
    BY <2>1, <2>2 DEF EdgesAreStored
  <2>3. CASE WriteEdges(w) /\ ~Abandon(w)
    <3>1. /\ \A e \in BuildEdges(facts[w]) : {e.parent, e.child} \subseteq Stored(document)
          /\ relation' = (relation \ tx[w].swept) \union BuildEdges(facts[w])
      BY <2>3 DEF WriteEdges
    <3>. QED
      BY <2>1, <3>1 DEF EdgesAreStored
  <2>. QED
    BY <1>2, <2>2, <2>3, TablesMove
<1>. QED
  BY <1>1, <1>2

-----------------------------------------------------------------------------
(* Collections *)

\* Only the transaction that promotes its collection writes the statuses, and
\* only when it commits.
LEMMA CollectionMoves ==
    ASSUME TypeOK, TransactionFollowsPc, NEW w \in Worker, Start(w) \/ Step(w) \/ Crash(w)
    PROVE  \/ collection' = collection
           \/ tx[w].promoted /\ collection' = CollectionAfter(w) /\ tx'[w] = EmptyTx
           \/ /\ Promote(w) /\ ~Abandon(w) /\ tx[w].created /\ tx'[w] = EmptyTx
              /\ collection' = [c \in Collection |->
                                  IF c \in tx[w].retired THEN "retired"
                                  ELSE IF c = Target(w) THEN "active" ELSE collection[c]]
<1>1. (Abandon(w) \/ FailDocument(w)) => collection' = collection
  BY DEF Abandon, FailDocument, tables
<1>2. CASE CommitDocument(w) \/ RefreshCollectionCount(w)
  <2>1. collection' = CollectionAfter(w) /\ tx'[w] = EmptyTx
    BY <1>2 DEF CommitDocument, RefreshCollectionCount, TypeOK
  <2>2. ~tx[w].promoted => tx[w].retired = {}
    BY <1>2 DEF CommitDocument, Embedded, RefreshCollectionCount, At, TransactionFollowsPc, FollowsPc
  <2>3. ~tx[w].promoted => CollectionAfter(w) = collection
    BY <2>2 DEF CollectionAfter, TypeOK
  <2>. QED
    BY <2>1, <2>3
<1>3. CASE Promote(w)
  <2>1. CASE ~Abandon(w) /\ tx[w].created
    BY <1>3, <2>1 DEF Promote, TypeOK
  <2>2. CASE ~(~Abandon(w) /\ tx[w].created)
    BY <1>1, <1>3, <2>2 DEF Promote
  <2>. QED
    BY <2>1, <2>2
<1>4. CASE Start(w) \/ EnsureCollection(w) \/ CreateCollection(w) \/ RetireOthers(w)
  BY <1>1, <1>4 DEF Start, EnsureCollection, CreateCollection, RetireOthers, tables
<1>5. CASE IngestOne(w) /\ ~CommitDocument(w)
  BY <1>1, <1>5 DEF IngestOne, DocumentFails, CheckExisting, DeleteExisting, ResolveMunicipality,
                    WriteDocument, EmbedBatch, tables
<1>6. CASE ResolveLineage(w)
  BY <1>1, <1>6 DEF ResolveLineage, LoadCorpus, WriteStatus, SweepEdges, WriteEdges, tables
<1>7. CASE DeadlockAbort(w) \/ Crash(w)
  BY <1>1, <1>7 DEF DeadlockAbort, Crash
<1>. QED
  BY <1>2, <1>3, <1>4, <1>5, <1>6, <1>7 DEF Step

\* When a worker promotes its collection nobody else has one promoted, and it
\* holds every other active collection.
LEMMA PromoteExcludes ==
    ASSUME TypeOK, TransactionFollowsPc, ActivationIsExclusive, AtMostOneActive,
           NEW w \in Worker, Promote(w), ~Abandon(w)
    PROVE  /\ \A v \in Worker \ {w} : ~tx[v].promoted
           /\ \A c \in Collection : collection[c] = "active" => c \in tx[w].retired \union {Target(w)}
           /\ Target(w) \in Collection /\ ~tx[w].promoted
           /\ tx[w].created \/ collection[Target(w)] # "absent"
<1>1. pc[w] = "promote" /\ ~Refused(w) /\ Target(w) \in Collection /\ ~tx[w].promoted
  BY DEF Promote, At, TransactionFollowsPc, FollowsPc, OnPath
<1>2. \A c \in Collection : collection[c] = "active" => c \in tx[w].retired \union {Target(w)}
  BY <1>1 DEF Refused, AtMostOneActive
<1>3. ASSUME NEW v \in Worker \ {w}, tx[v].promoted
      PROVE  FALSE
  <2>0. ~Blocks(v, w)
    BY DEF Promote, At
  <2>1. /\ ~HoldsCollection(v, Target(w))
        /\ collection[Target(w)] # "active" => ~tx[v].promoted
    BY <1>1, <2>0 DEF Blocks
  <2>2. collection[Target(w)] = "active"
    BY <1>3, <2>1
  <2>3. Target(w) \in tx[v].retired \union {Target(v)}
    BY <1>1, <1>3, <2>2 DEF ActivationIsExclusive
  <2>. QED
    BY <1>3, <2>1, <2>3 DEF HoldsCollection
<1>. QED
  BY <1>1, <1>2, <1>3 DEF ActivationIsExclusive

LEMMA OneActiveKeeps ==
    ASSUME TypeOK, TransactionFollowsPc, ActivationIsExclusive, AtMostOneActive,
           NEW w \in Worker, Start(w) \/ Step(w) \/ Crash(w)
    PROVE  AtMostOneActive'
<1>1. CASE collection' = collection
  BY <1>1 DEF AtMostOneActive
<1>2. CASE tx[w].promoted /\ collection' = CollectionAfter(w)
  BY <1>2 DEF CollectionAfter, ActivationIsExclusive, AtMostOneActive
<1>3. CASE /\ Promote(w) /\ ~Abandon(w)
           /\ collection' = [c \in Collection |->
                               IF c \in tx[w].retired THEN "retired"
                               ELSE IF c = Target(w) THEN "active" ELSE collection[c]]
  BY <1>3, PromoteExcludes DEF AtMostOneActive
<1>. QED
  BY <1>1, <1>2, <1>3, CollectionMoves

\* Where a worker is between finding or inserting its collection and
\* promoting it.
LEMMA RetiringMoves ==
    ASSUME TypeOK, NEW w \in Worker, Start(w) \/ Step(w) \/ Crash(w), pc'[w] \in {"retire", "promote"}
    PROVE  /\ job'[w] = job[w] /\ collection' = collection
           /\ \/ EnsureCollection(w) /\ collection[Target(w)] # "absent"
              \/ CreateCollection(w) /\ tx'[w].created
              \/ RetireOthers(w) /\ tx'[w].created = tx[w].created /\ pc[w] = "retire"
<1>1. ~Abandon(w) /\ ~FailDocument(w)
  BY DEF Abandon, FailDocument, Goto, Onward, TypeOK
<1>2. CASE Start(w)
  BY <1>2 DEF Start, Goto, TypeOK
<1>3. CASE EnsureCollection(w)
  BY <1>3 DEF EnsureCollection, Goto, TypeOK, tables
<1>4. CASE CreateCollection(w)
  <2>1. tx' = [tx EXCEPT ![w] = [tx[w] EXCEPT !.created = TRUE, !.wants = ActiveOthers(w)]]
        /\ job' = job /\ collection' = collection
    BY <1>1, <1>4 DEF CreateCollection, TypeOK, tables
  <2>. QED
    BY <1>4, <2>1 DEF TypeOK, Tx
<1>5. CASE RetireOthers(w)
  <2>1. (\E C : tx' = [tx EXCEPT ![w] = [tx[w] EXCEPT !.retired = C]])
        /\ job' = job /\ collection' = collection /\ pc[w] = "retire"
    BY <1>5 DEF RetireOthers, At, tables
  <2>. QED
    BY <1>5, <2>1 DEF TypeOK, Tx
<1>6. CASE Promote(w)
  BY <1>1, <1>6 DEF Promote, Goto, Onward, TypeOK
<1>7. CASE IngestOne(w)
  BY <1>1, <1>7 DEF IngestOne, DocumentFails, CheckExisting, DeleteExisting, ResolveMunicipality,
                    WriteDocument, EmbedBatch, CommitDocument, Goto, Onward, TypeOK
<1>8. CASE RefreshCollectionCount(w) \/ ResolveLineage(w)
  BY <1>1, <1>8 DEF RefreshCollectionCount, ResolveLineage, LoadCorpus, WriteStatus, SweepEdges,
                    WriteEdges, Goto, TypeOK, At
<1>9. CASE DeadlockAbort(w) \/ Crash(w)
  BY <1>1, <1>9 DEF DeadlockAbort, Crash
<1>. QED
  BY <1>2, <1>3, <1>4, <1>5, <1>6, <1>7, <1>8, <1>9 DEF Step

LEMMA ActivationKeeps ==
    ASSUME TypeOK, TypeOK', TransactionFollowsPc, TransactionFollowsPc', ActivationIsExclusive, AtMostOneActive,
           NEW w \in Worker, Start(w) \/ Step(w) \/ Crash(w)
    PROVE  ActivationIsExclusive'
<1>0. FollowsPc(w) /\ FollowsPc(w)'
  BY DEF TransactionFollowsPc
<1>. DEFINE Same(v) == /\ Target(v)' = Target(v) /\ tx'[v].retired = tx[v].retired
                       /\ tx[v].promoted
\* What is promoted was promoted, or is by this step.
<1>1. ASSUME NEW v \in Worker, tx'[v].promoted
      PROVE  \/ Same(v)
             \/ /\ v = w /\ Promote(w) /\ ~Abandon(w) /\ ~tx[w].created /\ collection' = collection
                /\ Target(w)' = Target(w) /\ tx'[w].retired = tx[w].retired
  <2>1. CASE v # w
    BY <1>1, <2>1, OthersWait DEF Target
  <2>2. CASE v = w
    <3>1. tx'[w] # EmptyTx
      BY <1>1, <2>2 DEF EmptyTx
    <3>2. ~Abandon(w) /\ collection' = collection
      BY <3>1, CollectionMoves DEF Abandon, TypeOK
    <3>3. Promote(w) => ~tx[w].created
      BY <3>1, <3>2 DEF Promote, TypeOK
    <3>. QED
      BY <1>0, <1>1, <2>2, <3>2, <3>3, StepAcquires
  <2>. QED
    BY <2>1, <2>2
\* No row of the table goes back to absent.
<1>2. \A c \in Collection : collection[c] # "absent" => collection'[c] # "absent"
  BY CollectionMoves DEF CollectionAfter
<1>3. ASSUME NEW v \in Worker, tx'[v].promoted, NEW c \in Collection, collection'[c] = "active"
      PROVE  c \in tx'[v].retired \union {Target(v)'}
  <2>1. CASE Same(v)
    <3>1. CASE collection' = collection
      BY <1>3, <2>1, <3>1 DEF ActivationIsExclusive
    <3>2. CASE tx[w].promoted /\ tx'[w] = EmptyTx
      <4>1. v # w
        BY <1>3, <3>2 DEF EmptyTx
      <4>. QED
        BY <2>1, <3>2, <4>1 DEF ActivationIsExclusive
    <3>3. CASE Promote(w) /\ ~Abandon(w) /\ tx'[w] = EmptyTx
      <4>1. v # w
        BY <1>3, <3>3 DEF EmptyTx
      <4>. QED
        BY <2>1, <3>3, <4>1, PromoteExcludes
    <3>. QED
      BY <3>1, <3>2, <3>3, CollectionMoves
  <2>2. CASE ~Same(v)
    BY <1>1, <1>3, <2>2, PromoteExcludes
  <2>. QED
    BY <2>1, <2>2
<1>4. ASSUME NEW u \in Worker, NEW v \in Worker, tx'[u].promoted, tx'[v].promoted
      PROVE  u = v
  <2>1. tx[u].promoted \/ (u = w /\ Promote(w) /\ ~Abandon(w))
    BY <1>1, <1>4
  <2>2. tx[v].promoted \/ (v = w /\ Promote(w) /\ ~Abandon(w))
    BY <1>1, <1>4
  <2>. QED
    BY <2>1, <2>2, PromoteExcludes DEF ActivationIsExclusive
<1>5. ASSUME NEW v \in Worker, tx'[v].created
      PROVE  /\ Target(v)' = Target(v)
             /\ \/ tx[v].created
                \/ v = w /\ CreateCollection(w) /\ ~Abandon(w)
  <2>1. CASE v # w
    BY <1>5, <2>1, OthersWait DEF Target
  <2>2. CASE v = w
    <3>1. ~Abandon(w)
      BY <1>5, <2>2 DEF Abandon, EmptyTx, TypeOK
    <3>2. CreateCollection(w) => Target(w)' = Target(w)
      BY <3>1 DEF CreateCollection, Target
    <3>. QED
      BY <1>0, <1>5, <2>2, <3>1, <3>2, StepAcquires
  <2>. QED
    BY <2>1, <2>2
<1>6. ASSUME NEW v \in Worker, tx'[v].created
      PROVE  collection'[Target(v)'] = "absent"
  <2>1. Target(v) \in Collection /\ collection[Target(v)] = "absent"
    <3>1. Target(v)' \in Collection
      BY <1>6 DEF TransactionFollowsPc, FollowsPc
    <3>2. CASE tx[v].created
      BY <1>5, <1>6, <3>1, <3>2 DEF ActivationIsExclusive
    <3>3. CASE v = w /\ CreateCollection(w) /\ ~Abandon(w)
      BY <1>5, <1>6, <3>1, <3>3 DEF CreateCollection
    <3>. QED
      BY <1>5, <1>6, <3>2, <3>3
  <2>2. CASE collection' = collection
    BY <1>5, <1>6, <2>1, <2>2
  <2>3. CASE tx[w].promoted /\ collection' = CollectionAfter(w)
    <3>1. Target(v) # Target(w) /\ Target(v) \notin tx[w].retired
      BY <2>1, <2>3 DEF ActivationIsExclusive
    <3>. QED
      BY <1>5, <1>6, <2>1, <2>3, <3>1 DEF CollectionAfter
  <2>4. CASE /\ Promote(w) /\ tx[w].created /\ tx'[w] = EmptyTx
             /\ collection' = [c \in Collection |->
                                 IF c \in tx[w].retired THEN "retired"
                                 ELSE IF c = Target(w) THEN "active" ELSE collection[c]]
    <3>1. v # w
      BY <1>6, <2>4 DEF EmptyTx
    <3>2. tx[v].created
      BY <3>1, <1>5, <1>6
    <3>3. Target(v) # Target(w) /\ Target(v) \notin tx[w].retired
      BY <2>1, <2>4, <3>1, <3>2 DEF ActivationIsExclusive
    <3>. QED
      BY <1>5, <1>6, <2>1, <2>4, <3>3
  <2>. QED
    BY <2>2, <2>3, <2>4, CollectionMoves
<1>7. ASSUME NEW v \in Worker, tx'[v].promoted
      PROVE  collection'[Target(v)'] # "absent"
  <2>1. Target(v) \in Collection /\ collection[Target(v)] # "absent"
    <3>1. Target(v)' \in Collection
      BY <1>7 DEF TransactionFollowsPc, FollowsPc, OnPath
    <3>. QED
      BY <1>1, <1>7, <3>1, PromoteExcludes DEF ActivationIsExclusive
  <2>. QED
    BY <1>1, <1>2, <1>7, <2>1
<1>8. ASSUME NEW v \in Worker, NEW c \in tx'[v].retired
      PROVE  collection'[c] # "absent"
  <2>1. CASE tx'[v].retired = tx[v].retired
    <3>1. c \in Collection /\ collection[c] # "absent"
      BY <1>8, <2>1 DEF ActivationIsExclusive, TypeOK, Tx
    <3>. QED
      BY <1>2, <3>1
  <2>2. CASE v = w /\ RetireOthers(w)
    <3>. DEFINE C == {x \in tx[w].wants : collection[x] = "active"}
    <3>1. tx' = [tx EXCEPT ![w] = [tx[w] EXCEPT !.retired = C]] /\ collection' = collection
      BY <2>2 DEF RetireOthers, tables
    <3>2. tx'[w].retired = C
      <4>. HIDE DEF C
      <4>. QED
        BY <3>1 DEF TypeOK, Tx
    <3>. QED
      BY <1>8, <2>2, <3>1, <3>2
  <2>. QED
    BY <1>0, <1>8, <2>1, <2>2, StepAcquires, OthersWait
<1>9. ASSUME NEW v \in Worker, pc'[v] \in {"retire", "promote"}
      PROVE  tx'[v].created \/ collection'[Target(v)'] # "absent"
  <2>1. CASE v # w
    <3>1. pc'[v] = pc[v] /\ job'[v] = job[v] /\ tx'[v] = tx[v]
      BY <2>1, OthersWait
    <3>2. Target(v) \in Collection
      BY <1>9, <3>1 DEF TransactionFollowsPc, FollowsPc
    <3>. QED
      BY <1>2, <1>9, <3>1, <3>2 DEF ActivationIsExclusive, Target
  <2>2. CASE v = w
    BY <1>9, <2>2, RetiringMoves DEF ActivationIsExclusive, Target
  <2>. QED
    BY <2>1, <2>2
<1>10. ASSUME NEW u \in Worker, NEW v \in Worker, tx'[u].created, tx'[v].created, Target(u)' = Target(v)'
       PROVE  u = v
  <2>1. CASE tx[u].created /\ tx[v].created
    BY <1>5, <1>10, <2>1 DEF ActivationIsExclusive
  <2>2. CASE CreateCollection(w) /\ ~Abandon(w) /\ w \in {u, v}
    <3>1. \A x \in Worker \ {w} : ~(tx[x].created /\ Target(x) = Target(w))
      BY <2>2 DEF CreateCollection, At, Blocks
    <3>. QED
      BY <1>5, <1>10, <2>2, <3>1
  <2>. QED
    BY <1>5, <1>10, <2>1, <2>2
<1>. QED
  BY <1>3, <1>4, <1>6, <1>7, <1>8, <1>9, <1>10 DEF ActivationIsExclusive

-----------------------------------------------------------------------------
(* The theorems *)

LEMMA InitHolds == Init => IInv
<1>. SUFFICES ASSUME Init
              PROVE  IInv
  OBVIOUS
<1>1. TypeOK /\ FactsAreCorpora
  BY EmptyTxType, FS_EmptySet
     DEF Init, TypeOK, FactsAreCorpora, IsCorpus, CollectionStatus, PC, Job, NoJob
<1>2. TransactionFollowsPc
  BY DEF Init, TransactionFollowsPc, FollowsPc, EmptyTx, OnPath, InPass
<1>3. IdsAreFresh /\ RowsAreLocked /\ ContentsAreUnique /\ OneRowPerContent /\ EdgesAreStored
  BY AbsentAssumption
     DEF Init, IdsAreFresh, RowsAreLocked, ContentsAreUnique, OneRowPerContent, EdgesAreStored, Stored,
         HoldsRow, EmptyTx
<1>4. DocumentsAreWhole
  BY BatchesAssumption DEF Init, DocumentsAreWhole
<1>5. ActivationIsExclusive /\ AtMostOneActive
  BY DEF Init, ActivationIsExclusive, AtMostOneActive, EmptyTx
<1>. QED
  BY <1>1, <1>2, <1>3, <1>4, <1>5 DEF IInv

\* The operator's correction touches one row nobody holds, and the rest of the
\* system not at all.
LEMMA VerifyKeeps ==
    ASSUME IInv, NEW d \in DocId, NEW status \in Correction, VerifyByHuman(d, status)
    PROVE  IInv'
<1>1. TypeOK' /\ FactsAreCorpora' /\ TransactionFollowsPc'
  BY VerifyType DEF IInv, VerifyByHuman, FactsAreCorpora, TransactionFollowsPc, FollowsPc, Target
<1>2. /\ Stored(document') = Stored(document)
      /\ \A e \in Stored(document) : document'[e].file = document[e].file
      /\ \A e \in DocId \ {d} : document'[e] = document[e]
  BY VerifyMoves DEF IInv
<1>3. IdsAreFresh' /\ ContentsAreUnique' /\ OneRowPerContent' /\ EdgesAreStored'
  <2>1. IdsAreFresh' /\ EdgesAreStored'
    BY <1>2 DEF IInv, VerifyByHuman, IdsAreFresh, EdgesAreStored
  <2>2. OneRowPerContent'
    BY <1>2 DEF IInv, OneRowPerContent
  <2>3. ContentsAreUnique'
    BY <1>2 DEF IInv, VerifyByHuman, ContentsAreUnique, Current
  <2>. QED
    BY <2>1, <2>2, <2>3
<1>4. RowsAreLocked'
  <2>1. \A w \in Worker : d \notin tx[w].judged /\ tx[w].judged \subseteq DocId
    BY DEF VerifyByHuman, HoldsRow, IInv, TypeOK, Tx
  <2>. QED
    BY <1>2, <2>1 DEF IInv, VerifyByHuman, RowsAreLocked, HoldsRow
<1>5. DocumentsAreWhole'
  BY <1>2 DEF IInv, VerifyByHuman, DocumentsAreWhole, Stored
<1>6. ActivationIsExclusive' /\ AtMostOneActive'
  BY DEF IInv, VerifyByHuman, ActivationIsExclusive, AtMostOneActive, Target
<1>. QED
  BY <1>1, <1>3, <1>4, <1>5, <1>6 DEF IInv

LEMMA NextKeeps == IInv /\ [Next]_vars => IInv'
<1>. SUFFICES ASSUME IInv, [Next]_vars
              PROVE  IInv'
  OBVIOUS
<1>1. ASSUME NEW w \in Worker, Start(w) \/ Step(w) \/ Crash(w)
      PROVE  IInv'
  <2>1. TypeOK'
    BY <1>1, TypeKeeps DEF IInv, Next
  <2>2. FactsAreCorpora'
    BY <1>1, FactsKeep DEF IInv
  <2>3. TransactionFollowsPc'
    <3>1. FollowsPc(w)'
      BY <1>1, <2>1, WorkerFollows DEF IInv, TransactionFollowsPc
    <3>2. ASSUME NEW v \in Worker \ {w}
          PROVE  FollowsPc(v)'
      <4>1. pc'[v] = pc[v] /\ job'[v] = job[v] /\ tx'[v] = tx[v]
        BY <1>1, OthersWait DEF IInv
      <4>. QED
        BY <4>1 DEF IInv, TransactionFollowsPc, FollowsPc, Target
    <3>. QED
      BY <3>1, <3>2 DEF TransactionFollowsPc
  <2>4. IdsAreFresh'
    BY <1>1, <2>1, IdsKeep DEF IInv
  <2>5. RowsAreLocked'
    BY <1>1, <2>1, <2>3, RowsKeep DEF IInv
  <2>6. ContentsAreUnique'
    BY <1>1, <2>1, <2>4, ContentsKeep DEF IInv
  <2>7. OneRowPerContent' /\ DocumentsAreWhole' /\ EdgesAreStored'
    BY <1>1, OneRowKeeps, WholeKeeps, EdgesKeep DEF IInv
  <2>8. ActivationIsExclusive' /\ AtMostOneActive'
    BY <1>1, <2>1, <2>3, ActivationKeeps, OneActiveKeeps DEF IInv
  <2>. QED
    BY <2>1, <2>2, <2>3, <2>4, <2>5, <2>6, <2>7, <2>8 DEF IInv
<1>2. CASE UNCHANGED vars
  BY <1>2 DEF vars, tables, IInv, TypeOK, FactsAreCorpora, TransactionFollowsPc, FollowsPc, IdsAreFresh,
              RowsAreLocked, HoldsRow, ContentsAreUnique, OneRowPerContent, DocumentsAreWhole,
              EdgesAreStored, ActivationIsExclusive, AtMostOneActive, Current, Target
<1>. QED
  BY <1>1, <1>2, VerifyKeeps DEF Next

LEMMA InvariantHolds == Spec => []IInv
  BY InitHolds, NextKeeps, PTL DEF Spec

\* Every table, transaction and loaded corpus stays of its type; in particular
\* the commit of a pass judges stored rows only.
THEOREM RunsKeepTypes == Spec => []TypeOK
<1>1. IInv => TypeOK
  BY DEF IInv
<1>. QED
  BY <1>1, InvariantHolds, PTL

\* However many runs with different settings retire and activate collections at
\* the same time, one collection is active at most.
THEOREM OneCollectionServes == Spec => []AtMostOneActive
<1>1. IInv => AtMostOneActive
  BY DEF IInv
<1>. QED
  BY <1>1, InvariantHolds, PTL

\* A committed document has every batch of its vectors in some collection, and
\* no collection holds a part of one.
THEOREM CommitsAreWhole == Spec => []DocumentsAreWhole
<1>1. IInv => DocumentsAreWhole
  BY DEF IInv
<1>. QED
  BY <1>1, InvariantHolds, PTL

\* No two rows ever have the same content, whatever runs insert and re-ingest
\* at the same time.
THEOREM ContentIsStoredOnce == Spec => []OneRowPerContent
<1>1. IInv => OneRowPerContent
  BY DEF IInv
<1>. QED
  BY <1>1, InvariantHolds, PTL

\* No run touches the verdict of a row that a human has verified, although a
\* pass judges a corpus it has loaded long before.
THEOREM PassesSpareVerified == Spec => HumanVerdictKept
<1>. DEFINE Kept(d) == \/ document'[d] = document[d]
                       \/ \E status \in Correction : VerifyByHuman(d, status)
            A == \A d \in Stored(document) :
                    document[d].verified /\ document'[d] # Absent => Kept(d)
<1>1. IInv /\ [Next]_vars => [A]_vars
  <2>. SUFFICES ASSUME IInv, Next, NEW d \in Stored(document),
                       document[d].verified, document'[d] # Absent
                PROVE  Kept(d)
    OBVIOUS
  <2>0. d \in DocId
    BY DEF Stored
  <2>1. ASSUME NEW w \in Worker, Start(w) \/ Step(w) \/ Crash(w)
        PROVE  document'[d] = document[d]
    <3>1. CASE CommitDocument(w)
      <4>1. tx[w].id # Absent
        BY <3>1 DEF CommitDocument, Embedded, IInv, TransactionFollowsPc, FollowsPc
      <4>2. d # tx[w].id
        BY <4>1 DEF IInv, IdsAreFresh
      <4>. QED
        BY <2>0, <3>1, <4>2 DEF CommitDocument
    <3>2. CASE WriteEdges(w) /\ ~Abandon(w)
      <4>1. d \notin tx[w].judged
        BY DEF IInv, RowsAreLocked, Updatable
      <4>. QED
        BY <2>0, <3>2, <4>1 DEF WriteEdges
    <3>. QED
      BY <2>1, <3>1, <3>2, TablesMove
  <2>2. ASSUME NEW x \in DocId, NEW status \in Correction, VerifyByHuman(x, status)
        PROVE  Kept(d)
    <3>1. CASE x = d
      BY <2>2, <3>1
    <3>2. CASE x # d
      BY <2>0, <2>2, <3>2 DEF VerifyByHuman, IInv, TypeOK
    <3>. QED
      BY <3>1, <3>2
  <2>. QED
    BY <2>1, <2>2 DEF Next
<1>. QED
  BY <1>1, InvariantHolds, PTL DEF Spec, HumanVerdictKept

\* A document goes only in the step that brings its content back.
THEOREM ReingestLosesNothing == Spec => ContentNeverLost
<1>. DEFINE A == \A d \in Stored(document) :
                    document'[d] = Absent =>
                       \E e \in Stored(document') \ Stored(document) :
                          document'[e].file = document[d].file
<1>1. IInv /\ [Next]_vars => [A]_vars
  <2>. SUFFICES ASSUME IInv, Next, NEW d \in Stored(document), document'[d] = Absent
                PROVE  \E e \in Stored(document') \ Stored(document) :
                          document'[e].file = document[d].file
    OBVIOUS
  <2>0. d \notin Stored(document')
    BY DEF Stored
  <2>1. PICK w \in Worker : Start(w) \/ Step(w) \/ Crash(w)
    BY <2>0, VerifyMoves DEF Next, IInv
  <2>2. CommitDocument(w) /\ d = tx[w].victim
    BY <2>0, <2>1, StoredMoves DEF IInv
  <2>3. document[d].file = Current(w)
    BY <2>2 DEF IInv, ContentsAreUnique
  <2>4. tx[w].id # Absent /\ tx[w].id \in DocId \ Stored(document) /\ job[w].todo # <<>>
    BY <2>2 DEF CommitDocument, Embedded, IInv, TransactionFollowsPc, FollowsPc, OnPath, IdsAreFresh, TypeOK
  <2>5. NewRow(Current(w)) # Absent /\ NewRow(Current(w)).file = Current(w)
    BY <2>4, TailOfTodo, NewRowType, AbsentAssumption DEF IInv, NewRow
  <2>6. document'[tx[w].id] = NewRow(Current(w))
    BY <2>2, <2>4 DEF CommitDocument
  <2>7. tx[w].id \in Stored(document')
    BY <2>4, <2>5, <2>6 DEF Stored
  <2>. QED
    BY <2>3, <2>4, <2>5, <2>6, <2>7
<1>. QED
  BY <1>1, InvariantHolds, PTL DEF Spec, ContentNeverLost

-----------------------------------------------------------------------------
(* What the service keeps of the promise of module Corpus: for any number   *)
(* of runs, every step but the commit of a lineage pass; for one run at a   *)
(* time, all of it. The table and the resolver of that module are the       *)
(* service's own.                                                           *)

LEMMA SameStored ==
    ASSUME NEW table
    PROVE  Promise!Stored(table) = Stored(table)
  BY DEF Promise!Stored, Stored

LEMMA SameFacts ==
    ASSUME NEW d, NEW file
    PROVE  Promise!FactsOf(d, file) = FactsOf(d, file)
  BY DEF Promise!FactsOf, FactsOf, Promise!Detect, Detect, Promise!YearFor, YearFor,
         Promise!Classify, Classify, Promise!ReferencedNumbers, ReferencedNumbers,
         Promise!YearOf, YearOf, Promise!NoDate, NoDate, Promise!NoYear, NoYear

LEMMA SameLoad ==
    ASSUME NEW table
    PROVE  Promise!LoadFacts(table) = LoadFacts(table)
  BY SameFacts DEF Promise!LoadFacts, LoadFacts, Promise!Stored, Stored

LEMMA SameEdges ==
    ASSUME NEW F
    PROVE  Promise!BuildEdges(F) = BuildEdges(F)
  BY DEF Promise!BuildEdges, BuildEdges, Promise!ReferenceEdges, ReferenceEdges,
         Promise!VersionEdges, VersionEdges, Promise!Placed, Placed, Promise!Versions, Versions,
         Promise!Lookup, Lookup, Promise!Normalise, Normalise, Promise!HasNewer, HasNewer,
         Promise!Older, Older, Promise!VersionDate, VersionDate, Promise!IsConsolidation,
         IsConsolidation, Promise!NewYear, NewYear, Promise!NoDate, NoDate, Promise!NoYear, NoYear

LEMMA SameRows ==
    ASSUME NEW row, NEW file
    PROVE  /\ Promise!NewRow(file) = NewRow(file)
           /\ Promise!Updatable(row) = Updatable(row)
  BY DEF Promise!NewRow, NewRow, Promise!NoDate, NoDate, Promise!Updatable, Updatable

LEMMA SameVerdicts ==
    ASSUME NEW row, NEW F, NEW f
    PROVE  Promise!Judged(row, F, f) = Judged(row, F, f)
<1>1. Promise!ResolveOne(F, f) = ResolveOne(F, f)
  BY DEF Promise!ResolveOne, ResolveOne, Promise!Absorbed, Absorbed, Promise!Repealed, Repealed,
         Promise!Dated, Dated, Promise!Placed, Placed, Promise!Versions, Versions,
         Promise!Lookup, Lookup, Promise!Normalise, Normalise, Promise!HasNewer, HasNewer,
         Promise!Older, Older, Promise!VersionDate, VersionDate, Promise!IsConsolidation,
         IsConsolidation, Promise!NewYear, NewYear, Promise!NoDate, NoDate, Promise!NoYear, NoYear
<1>2. Promise!LastAmendmentDate(F, f) = LastAmendmentDate(F, f)
  BY DEF Promise!LastAmendmentDate, LastAmendmentDate, Promise!AmendmentDates, AmendmentDates,
         Promise!Dated, Dated, Promise!Placed, Placed, Promise!Normalise, Normalise,
         Promise!VersionDate, VersionDate, Promise!NewYear, NewYear, Promise!NoDate, NoDate,
         Promise!NoYear, NoYear, Promise!Max, Max
<1>. QED
  BY <1>1, <1>2 DEF Promise!Judged, Judged, Promise!NoDate, NoDate

-----------------------------------------------------------------------------
(* Commits of documents *)

\* A commit stores a new document or replaces one, whatever the other runs do.
LEMMA CommitStoresOrReplaces ==
    ASSUME IInv, NEW w \in Worker, CommitDocument(w)
    PROVE  \/ \E file \in File : Promise!Store(tx[w].id, file)
           \/ tx[w].victim \in DocId /\ Promise!Replace(tx[w].victim, tx[w].id)
<1>. DEFINE old == tx[w].victim
            new == tx[w].id
<1>1. /\ new \in DocId /\ new # old /\ document[new] = Absent /\ job[w].todo # <<>>
      /\ \A d \in Stored(document) \ {old} : document[d].file # Current(w)
      /\ old \in Stored(document) => document[old].file = Current(w)
  BY DEF IInv, CommitDocument, Embedded, TransactionFollowsPc, FollowsPc, OnPath, IdsAreFresh,
         ContentsAreUnique, TypeOK, Tx, Stored
<1>2. Current(w) \in File
  BY <1>1, TailOfTodo DEF IInv
<1>3. /\ document' = [d \in DocId |-> IF d = new THEN NewRow(Current(w))
                                      ELSE IF d = old THEN Absent ELSE document[d]]
      /\ relation' = {e \in relation : old \notin {e.parent, e.child}}
  BY DEF CommitDocument, Cascaded
<1>4. CASE old \in Stored(document)
  <2>1. document' = [document EXCEPT ![old] = Absent, ![new] = NewRow(document[old].file)]
    BY <1>1, <1>3, <1>4 DEF IInv, TypeOK, Stored
  <2>2. relation' = {e \in relation : e.parent # old /\ e.child # old}
    BY <1>3
  <2>. QED
    BY <1>1, <1>4, <2>1, <2>2, SameRows DEF Promise!Replace, Stored
<1>5. CASE old \notin Stored(document)
  <2>1. relation' = relation
    BY <1>3, <1>5 DEF IInv, EdgesAreStored
  <2>2. document' = [document EXCEPT ![new] = NewRow(Current(w))]
    BY <1>1, <1>3, <1>5 DEF IInv, TypeOK, Stored
  <2>3. \A d \in Stored(document) : document[d].file # Current(w)
    BY <1>1, <1>5
  <2>. QED
    BY <1>1, <1>2, <2>1, <2>2, <2>3, SameRows, SameStored DEF Promise!Store
<1>. QED
  BY <1>4, <1>5

LEMMA SameCorrection ==
    ASSUME IInv, NEW d \in DocId, NEW status \in Correction, VerifyByHuman(d, status)
    PROVE  Promise!VerifyByHuman(d, status)
  BY DEF VerifyByHuman, Promise!VerifyByHuman

\* However many runs there are, every step of the system stores a document,
\* replaces one, corrects a verdict, or leaves the corpus alone, except for the
\* step in which a lineage pass commits.
THEOREM OnlyPassesBreakThePromise ==
    Spec => [][Promise!Next \/ \E w \in Worker : WriteEdges(w)]_<<document, relation>>
<1>1. IInv /\ [Next]_vars => [Promise!Next \/ \E w \in Worker : WriteEdges(w)]_<<document, relation>>
  <2>. SUFFICES ASSUME IInv, [Next]_vars, ~UNCHANGED <<document, relation>>
                PROVE  Promise!Next \/ \E w \in Worker : WriteEdges(w)
    OBVIOUS
  <2>1. ASSUME NEW w \in Worker, Start(w) \/ Step(w) \/ Crash(w)
        PROVE  Promise!Next \/ WriteEdges(w)
    <3>1. CASE CommitDocument(w)
      <4>1. tx[w].id \in DocId
        BY <3>1 DEF IInv, CommitDocument, Embedded, TransactionFollowsPc, FollowsPc, TypeOK, Tx
      <4>. QED
        BY <3>1, <4>1, CommitStoresOrReplaces DEF Promise!Next
    <3>. QED
      BY <2>1, <3>1, TablesMove
  <2>2. ASSUME NEW d \in DocId, NEW status \in Correction, VerifyByHuman(d, status)
        PROVE  Promise!Next
    BY <2>2, SameCorrection DEF Promise!Next
  <2>. QED
    BY <2>1, <2>2 DEF Next, vars, tables
<1>. QED
  BY <1>1, InvariantHolds, PTL DEF Spec

-----------------------------------------------------------------------------
(* One run at a time *)

Alone == \A v, w \in Worker : v = w

\* Nothing a pass has loaded changes under it, and it visits every row it may
\* update and every edge there is.
PassIsCurrent ==
    \A w \in Worker :
        /\ pc[w] \in InPass => facts[w] = LoadFacts(document) /\ Stored(document) # {}
        /\ pc[w] = "statuses" =>
              \A d \in Stored(document) :
                 Updatable(document[d]) => d \in tx[w].judged \union tx[w].left \union {tx[w].row}
        /\ pc[w] \in {"sweep", "edges"} =>
              /\ tx[w].swept = relation
              /\ \A d \in Stored(document) : Updatable(document[d]) => d \in tx[w].judged

\* How a pass goes on.
LEMMA PassMoves ==
    ASSUME TypeOK, NEW w \in Worker, Start(w) \/ Step(w) \/ Crash(w), pc'[w] \in InPass
    PROVE  /\ document' = document /\ relation' = relation
           /\ \/ LoadCorpus(w) /\ Stored(document) # {}
              \/ WriteStatus(w)
              \/ SweepEdges(w)
<1>1. ~Abandon(w) /\ ~FailDocument(w)
  BY DEF Abandon, FailDocument, Goto, Onward, TypeOK, InPass
<1>2. CASE Start(w) \/ EnsureCollection(w) \/ CreateCollection(w) \/ RetireOthers(w) \/ Promote(w)
  BY <1>1, <1>2 DEF Start, EnsureCollection, CreateCollection, RetireOthers, Promote, Goto, Onward,
                    TypeOK, InPass
<1>3. CASE IngestOne(w)
  BY <1>1, <1>3 DEF IngestOne, DocumentFails, CheckExisting, DeleteExisting, ResolveMunicipality,
                    WriteDocument, EmbedBatch, CommitDocument, Goto, Onward, TypeOK, InPass
<1>4. CASE RefreshCollectionCount(w)
  BY <1>4 DEF RefreshCollectionCount, Goto, TypeOK, InPass
<1>5. CASE LoadCorpus(w)
  BY <1>5 DEF LoadCorpus, Goto, TypeOK, InPass, tables
<1>6. CASE WriteStatus(w) \/ SweepEdges(w)
  BY <1>6 DEF WriteStatus, SweepEdges, tables
<1>7. CASE WriteEdges(w)
  BY <1>1, <1>7 DEF WriteEdges, Goto, TypeOK, InPass
<1>8. CASE DeadlockAbort(w) \/ Crash(w)
  BY <1>1, <1>8 DEF DeadlockAbort, Crash
<1>. QED
  BY <1>2, <1>3, <1>4, <1>5, <1>6, <1>7, <1>8 DEF Step, ResolveLineage

LEMMA PassStaysCurrent ==
    ASSUME Alone, IInv, PassIsCurrent, NEW w \in Worker, Start(w) \/ Step(w) \/ Crash(w)
    PROVE  PassIsCurrent'
<1>. SUFFICES ASSUME pc'[w] \in InPass
              PROVE  /\ facts'[w] = LoadFacts(document) /\ Stored(document) # {}
                     /\ pc'[w] = "statuses" =>
                           \A d \in Stored(document) : Updatable(document[d]) =>
                              d \in tx'[w].judged \union tx'[w].left \union {tx'[w].row}
                     /\ pc'[w] \in {"sweep", "edges"} =>
                           /\ tx'[w].swept = relation
                           /\ \A d \in Stored(document) :
                                 Updatable(document[d]) => d \in tx'[w].judged
  <2>1. Worker = {w}
    BY DEF Alone
  <2>2. pc'[w] \in InPass => document' = document /\ relation' = relation
    BY PassMoves DEF IInv
  <2>. QED
    BY <2>1, <2>2 DEF PassIsCurrent, InPass
<1>0. TypeOK /\ tx[w] \in Tx
  BY DEF IInv, TypeOK
<1>1. CASE LoadCorpus(w) /\ Stored(document) # {}
  <2>1. PICK d \in Stored(document) :
           tx' = [tx EXCEPT ![w] = [tx[w] EXCEPT !.row = d, !.left = Stored(document) \ {d}]]
    BY <1>1 DEF LoadCorpus
  <2>2. tx'[w].row = d /\ tx'[w].left = Stored(document) \ {d}
    BY <1>0, <2>1 DEF TypeOK, Tx
  <2>3. pc'[w] = "statuses" /\ facts'[w] = LoadFacts(document)
    BY <1>0, <1>1 DEF LoadCorpus, Goto, TypeOK
  <2>. QED
    BY <1>1, <2>2, <2>3
<1>2. CASE WriteStatus(w)
  <2>. DEFINE J == tx[w].judged \union {x \in {tx[w].row} : Updatable(document[x])}
  <2>1. pc[w] = "statuses" /\ facts' = facts
    BY <1>2 DEF WriteStatus, At
  <2>2. facts[w] = LoadFacts(document) /\ Stored(document) # {}
    BY <2>1 DEF PassIsCurrent, InPass
  <2>3. \A d \in Stored(document) : Updatable(document[d]) => d \in J \union tx[w].left
    BY <2>1 DEF PassIsCurrent
  <2>4. CASE tx[w].left = {}
    <3>1. /\ tx' = [tx EXCEPT ![w] = [tx[w] EXCEPT !.judged = J, !.row = Absent, !.swept = relation]]
          /\ pc'[w] = "sweep"
      BY <1>0, <1>2, <2>4 DEF WriteStatus, Goto, TypeOK
    <3>. HIDE DEF J
    <3>2. tx'[w].judged = J /\ tx'[w].swept = relation
      BY <1>0, <3>1 DEF TypeOK, Tx
    <3>. QED
      BY <2>1, <2>2, <2>3, <2>4, <3>1, <3>2
  <2>5. CASE tx[w].left # {}
    <3>1. PICK e \in tx[w].left :
             tx' = [tx EXCEPT ![w] = [tx[w] EXCEPT !.judged = J, !.row = e,
                                                    !.left = tx[w].left \ {e}]]
      BY <1>2, <2>5 DEF WriteStatus
    <3>2. pc' = pc
      BY <1>2, <2>5 DEF WriteStatus
    <3>. HIDE DEF J
    <3>3. tx'[w].judged = J /\ tx'[w].row = e /\ tx'[w].left = tx[w].left \ {e}
      BY <1>0, <3>1 DEF TypeOK, Tx
    <3>. QED
      BY <2>1, <2>2, <2>3, <3>2, <3>3
  <2>. QED
    BY <2>4, <2>5
<1>3. CASE SweepEdges(w)
  <2>1. pc[w] = "sweep" /\ pc'[w] = "edges" /\ tx' = tx /\ facts' = facts
    BY <1>0, <1>3 DEF SweepEdges, At, Goto, TypeOK
  <2>. QED
    BY <2>1 DEF PassIsCurrent, InPass
<1>. QED
  BY <1>0, <1>1, <1>2, <1>3, PassMoves

LEMMA CorrectionKeepsPass ==
    ASSUME IInv, PassIsCurrent, NEW d \in DocId, NEW status \in Correction, VerifyByHuman(d, status)
    PROVE  PassIsCurrent'
<1>1. /\ Stored(document') = Stored(document)
      /\ \A e \in Stored(document) : document'[e].file = document[e].file
      /\ \A e \in DocId \ {d} : document'[e] = document[e]
  BY VerifyMoves DEF IInv
<1>2. LoadFacts(document') = LoadFacts(document)
  BY <1>1 DEF LoadFacts
<1>3. document[d] \in Row
  BY DEF VerifyByHuman, IInv, TypeOK
<1>4. document'[d].verified
  BY <1>3 DEF VerifyByHuman, Row, IInv, TypeOK
<1>5. \A e \in Stored(document) : Updatable(document'[e]) => Updatable(document[e])
  BY <1>1, <1>4 DEF Updatable, Stored
<1>. QED
  BY <1>1, <1>2, <1>5 DEF PassIsCurrent, VerifyByHuman

\* A pass that commits alone is the atomic pass of the promise.
LEMMA PassCommitsAtomically ==
    ASSUME IInv, PassIsCurrent, NEW w \in Worker, WriteEdges(w), ~Abandon(w)
    PROVE  Promise!ResolveLineage
<1>. DEFINE F == LoadFacts(document)
<1>1. /\ facts[w] = F /\ Stored(document) # {} /\ tx[w].swept = relation
      /\ \A d \in Stored(document) : Updatable(document[d]) => d \in tx[w].judged
  BY DEF WriteEdges, At, PassIsCurrent, InPass
<1>2. \A d \in DocId : d \in tx[w].judged <=> Updatable(document[d])
  BY <1>1 DEF IInv, RowsAreLocked, Updatable, Stored
<1>3. document' = [d \in DocId |-> IF Updatable(document[d])
                                   THEN Judged(document[d], F, FactsOf(d, document[d].file))
                                   ELSE document[d]]
  BY <1>1, <1>2 DEF WriteEdges
<1>4. relation' = BuildEdges(F)
  BY <1>1 DEF WriteEdges
<1>5. F # {}
  BY <1>1 DEF LoadFacts
<1>. HIDE DEF F
<1>6. document' = [d \in DocId |-> IF Promise!Updatable(document[d])
                                   THEN Promise!Judged(document[d], F,
                                                       Promise!FactsOf(d, document[d].file))
                                   ELSE document[d]]
  BY <1>3, SameFacts, SameRows, SameVerdicts
<1>. QED
  BY <1>4, <1>5, <1>6, SameLoad, SameEdges DEF Promise!ResolveLineage, F

\* One run at a time implements the atomic corpus: whatever it stores,
\* replaces, loses to a crash and judges row by row.
THEOREM OneRunKeepsThePromise ==
    ASSUME Alone
    PROVE  Spec => KeepsPromise
<1>1. Init => PassIsCurrent /\ Promise!Init
  BY DEF Init, PassIsCurrent, InPass, Promise!Init
<1>2. IInv /\ PassIsCurrent /\ [Next]_vars => PassIsCurrent'
  <2>. SUFFICES ASSUME IInv, PassIsCurrent, [Next]_vars
                PROVE  PassIsCurrent'
    OBVIOUS
  <2>1. CASE UNCHANGED vars
    BY <2>1 DEF vars, tables, PassIsCurrent
  <2>. QED
    BY <2>1, PassStaysCurrent, CorrectionKeepsPass DEF Next
<1>3. IInv /\ PassIsCurrent /\ [Next]_vars => [Promise!Next]_(Promise!vars)
  <2>. SUFFICES ASSUME IInv, PassIsCurrent, [Next]_vars, ~UNCHANGED <<document, relation>>
                PROVE  Promise!Next
    BY DEF Promise!vars
  <2>1. ASSUME NEW w \in Worker, Start(w) \/ Step(w) \/ Crash(w)
        PROVE  Promise!Next
    <3>1. CASE CommitDocument(w)
      <4>1. tx[w].id \in DocId
        BY <3>1 DEF IInv, CommitDocument, Embedded, TransactionFollowsPc, FollowsPc, TypeOK, Tx
      <4>. QED
        BY <3>1, <4>1, CommitStoresOrReplaces DEF Promise!Next
    <3>2. CASE WriteEdges(w) /\ ~Abandon(w)
      BY <3>2, PassCommitsAtomically DEF Promise!Next
    <3>. QED
      BY <2>1, <3>1, <3>2, TablesMove
  <2>2. ASSUME NEW d \in DocId, NEW status \in Correction, VerifyByHuman(d, status)
        PROVE  Promise!Next
    BY <2>2, SameCorrection DEF Promise!Next
  <2>. QED
    BY <2>1, <2>2 DEF Next, vars, tables
<1>. QED
  BY <1>1, <1>2, <1>3, InvariantHolds, PTL DEF Spec, KeepsPromise, Promise!Spec


-----------------------------------------------------------------------------
(* What the promise buys *)

\* No step of the promise puts a second version of a bylaw in force.
LEMMA PromiseLeavesOneInForce ==
    ASSUME IInv, OneInForce(document), Promise!Next
    PROVE  OneInForce(document')
<1>0. document \in Table
  BY DEF IInv, TypeOK, Table
<1>1. ASSUME NEW d \in DocId, NEW file \in File, Promise!Store(d, file)
      PROVE  OneInForce(document')
  <2>1. document' = [document EXCEPT ![d] = NewRow(file)]
    BY <1>1, SameRows DEF Promise!Store
  <2>. QED
    BY <1>0, <2>1, OneInForceKept DEF NewRow, Stored, Table
<1>2. ASSUME NEW old \in DocId, NEW d \in DocId, Promise!Replace(old, d)
      PROVE  OneInForce(document')
  <2>1. document' = [document EXCEPT ![old] = Absent, ![d] = NewRow(document[old].file)]
    BY <1>2, SameRows DEF Promise!Replace
  <2>. QED
    BY <1>0, <2>1, OneInForceKept DEF NewRow, Stored, Table
<1>3. CASE Promise!ResolveLineage
  <2>1. document' = Pass(document)
    BY <1>3, SameRows, SameVerdicts, SameFacts, SameLoad DEF Promise!ResolveLineage, Pass
  <2>. QED
    BY <1>0, <2>1, PassLeavesOneInForce
<1>4. ASSUME NEW d \in DocId, NEW status \in Correction, Promise!VerifyByHuman(d, status)
      PROVE  OneInForce(document')
  <2>1. document[d] \in Row
    BY <1>0, <1>4 DEF Promise!VerifyByHuman, Table
  <2>2. document'[d].verified
    BY <1>0, <1>4, <2>1 DEF Promise!VerifyByHuman, Table, Row
  <2>3. \A e \in DocId \ {d} : document'[e] = document[e]
    BY <1>0, <1>4 DEF Promise!VerifyByHuman, Table
  <2>. QED
    BY <2>2, <2>3, OneInForceKept DEF Stored
<1>. QED
  BY <1>1, <1>2, <1>3, <1>4 DEF Promise!Next

\* One run at a time leaves one version of a bylaw in force at most: what two
\* overlapping passes can break.
THEOREM OneRunLeavesOneInForce ==
    ASSUME Alone
    PROVE  Spec => []OneInForceAtRest
<1>1. OneInForce(document) => OneInForceAtRest
  BY SameFacts DEF OneInForceAtRest, OneInForce, Promise!OneInForcePerBylaw, Promise!SameBylaw,
         Promise!PaperOf, Promise!Stored, Stored, Promise!Placed, Placed,
         Promise!Normalise, Normalise
<1>2. Init => OneInForce(document)
  BY DEF Init, OneInForce, Stored
<1>3. IInv /\ OneInForce(document) /\ [Promise!Next]_(Promise!vars) => OneInForce(document)'
  BY PromiseLeavesOneInForce DEF Promise!vars
<1>4. Spec => KeepsPromise
  BY OneRunKeepsThePromise
<1>. QED
  BY <1>1, <1>2, <1>3, <1>4, InvariantHolds, PTL DEF Spec, KeepsPromise, Promise!Spec

=============================================================================
