----------------------------- MODULE Ingestion ------------------------------
(***************************************************************************)
(* IngestionService.ingest_paths (services/ingestion_service.py), run by   *)
(* several workers at once: background tasks of the API process, and the   *)
(* command line.  Each worker owns a database session, and what it writes  *)
(* is invisible to the others until it commits (PostgreSQL, READ           *)
(* COMMITTED): the tables below hold committed rows only, and a worker's   *)
(* uncommitted writes are kept in tx.  A statement that needs a row or an  *)
(* index key another transaction has written waits for that transaction.   *)
(***************************************************************************)
EXTENDS DocumentTable, Sequences

CONSTANTS
    Worker,      \* sessions that may run an ingest
    Collection,  \* names a CollectionSpec can have
    Batches,     \* embedding batches per document
    Request,     \* path lists an ingest may be started with
    Correction   \* statuses an operator may set by hand

ASSUME BatchesAssumption == Batches \in Nat \ {0}
ASSUME RequestAssumption == Request \subseteq Seq(File)
ASSUME CollectionAssumption == Collection # {} /\ Absent \notin Collection
ASSUME CorrectionAssumption == Correction \subseteq DocumentStatus

VARIABLES
    document,      \* committed rows, by id
    relation,      \* committed bylaw_relation rows
    collection,    \* committed status of each embedding_collection row
    vectors,       \* committed vectors: batches embedded per document and collection
    municipality,  \* committed municipality rows
    used,          \* document ids drawn so far; a uuid never comes back
    pc,            \* where each worker is
    job,           \* the run a worker is doing
    tx,            \* the uncommitted writes of a worker's transaction
    facts,         \* the corpus a lineage pass has loaded
    planned        \* paths requested so far, bounded by the ids there are

tables == <<document, relation, collection, vectors, municipality>>
vars == <<tables, used, pc, job, tx, facts, planned>>

CollectionStatus == {"absent", "building", "active", "retired"}

PC == { "idle", "ensure", "create", "retire", "promote", "next", "delete", "municipality",
        "insert", "embed", "refresh", "load", "statuses", "sweep", "edges" }

Job == [target : Collection \union {Absent}, force : BOOLEAN, todo : Seq(File)]

NoJob == [target |-> Absent, force |-> FALSE, todo |-> <<>>]

Tx == [ created  : BOOLEAN,                          \* inserted the collection row
        wants    : SUBSET Collection,                \* active rows its UPDATE has seen
        retired  : SUBSET Collection,                \* rows it has retired
        promoted : BOOLEAN,                          \* made its target active
        victim   : DocId \union {Absent},            \* row it is replacing
        deleted  : BOOLEAN,                          \* the DELETE has been executed
        slug     : Municipality \union {Undetected}, \* municipality row it inserts
        id       : DocId \union {Absent},            \* row it has inserted
        embedded : Nat,                              \* batches embedded
        row      : DocId \union {Absent},            \* row its status UPDATE is at
        left     : SUBSET DocId,                     \* rows still to update
        judged   : SUBSET DocId,                     \* rows it has updated
        swept    : SUBSET Edge ]                     \* edges its DELETE has seen

EmptyTx == [ created |-> FALSE, wants |-> {}, retired |-> {}, promoted |-> FALSE,
             victim |-> Absent, deleted |-> FALSE, slug |-> Undetected, id |-> Absent,
             embedded |-> 0, row |-> Absent, left |-> {}, judged |-> {}, swept |-> {} ]

Init ==
    /\ document = [d \in DocId |-> Absent]
    /\ relation = {}
    /\ collection = [c \in Collection |-> "absent"]
    /\ vectors = [d \in DocId |-> [c \in Collection |-> 0]]
    /\ municipality = {}
    /\ used = {} /\ planned = 0
    /\ pc = [w \in Worker |-> "idle"]
    /\ job = [w \in Worker |-> NoJob]
    /\ tx = [w \in Worker |-> EmptyTx]
    /\ facts = [w \in Worker |-> {}]

-----------------------------------------------------------------------------
(* What a worker's open transaction holds, and whom a statement waits for. *)

Current(w) == Head(job[w].todo)

Target(w) == job[w].target

HoldsRow(w, d) == (tx[w].victim = d /\ tx[w].deleted) \/ d \in tx[w].judged

HoldsCollection(w, c) ==
    c \in tx[w].retired \/ (Target(w) = c /\ (tx[w].promoted \/ tx[w].created))

\* The unique sha256 key, inserted or deleted.
HoldsContent(w, f) ==
    \/ tx[w].id # Absent /\ Current(w) = f
    \/ tx[w].deleted /\ document[tx[w].victim] # Absent /\ document[tx[w].victim].file = f

HoldsSlug(w, s) == pc[w] = "embed" /\ tx[w].slug = s /\ s # Undetected

HoldsEdge(w, e) ==
    (pc[w] = "edges" /\ e \in tx[w].swept) \/ (tx[w].deleted /\ tx[w].victim \in {e.parent, e.child})

\* Whether worker v's transaction makes the next statement of w wait.
Blocks(v, w) ==
    /\ v # w
    /\ CASE pc[w] = "create"   -> tx[v].created /\ Target(v) = Target(w)
         [] pc[w] = "retire"   -> \E c \in tx[w].wants : HoldsCollection(v, c)
         [] pc[w] = "promote"  -> \/ HoldsCollection(v, Target(w))
                                  \/ /\ collection[Target(w)] # "active"
                                     /\ tx[v].promoted \/ tx[v].retired # {}
         [] pc[w] = "delete"   -> \/ HoldsRow(v, tx[w].victim)
                                  \/ \E e \in relation : /\ HoldsEdge(v, e)
                                                         /\ tx[w].victim \in {e.parent, e.child}
         [] pc[w] = "insert"   -> HoldsContent(v, Current(w)) \/ HoldsSlug(v, tx[w].slug)
         [] pc[w] = "refresh"  -> HoldsCollection(v, Target(w))
         [] pc[w] = "statuses" -> HoldsRow(v, tx[w].row)
         [] pc[w] = "sweep"    -> \E e \in tx[w].swept : HoldsEdge(v, e)
         [] pc[w] = "edges"    -> \E e \in BuildEdges(facts[w]) :
                                     tx[v].deleted /\ tx[v].victim \in {e.parent, e.child}
         [] OTHER -> FALSE

At(w, label) == pc[w] = label /\ \A v \in Worker : ~Blocks(v, w)

Goto(w, label) == pc' = [pc EXCEPT ![w] = label]

\* Where a run goes that has these paths left.
Onward(todo) == IF todo = <<>> THEN "refresh" ELSE "next"

\* The exception leaves ingest_paths: the session is closed, its transaction lost.
Abandon(w) ==
    /\ Goto(w, "idle")
    /\ tx' = [tx EXCEPT ![w] = EmptyTx]
    /\ facts' = [facts EXCEPT ![w] = {}]
    /\ job' = [job EXCEPT ![w] = NoJob]
    /\ UNCHANGED <<tables, used, planned>>

\* Mutants: the exception leaves the DELETE to be committed; the path is tried
\* again instead of the next one.
FailDocumentUnrolled(w) ==
    /\ Goto(w, Onward(Tail(job[w].todo)))
    /\ tx' = [tx EXCEPT ![w] = EmptyTx]
    /\ job' = [job EXCEPT ![w].todo = Tail(@)]
    /\ document' = [d \in DocId |-> IF tx[w].deleted /\ d = tx[w].victim THEN Absent
                                    ELSE document[d]]
    /\ UNCHANGED <<relation, collection, vectors, municipality, used, facts, planned>>

FailDocumentRetried(w) ==
    /\ Goto(w, "next")
    /\ tx' = [tx EXCEPT ![w] = EmptyTx]
    /\ UNCHANGED <<tables, used, job, facts, planned>>

\* The exception is caught per document: roll back, go on with the next path.
FailDocument(w) ==
    /\ Goto(w, Onward(Tail(job[w].todo)))
    /\ tx' = [tx EXCEPT ![w] = EmptyTx]
    /\ job' = [job EXCEPT ![w].todo = Tail(@)]
    /\ UNCHANGED <<tables, used, facts, planned>>

\* Mutant: the collection that is replaced is marked "failed".
CollectionAfterFailing(w) ==
    [c \in Collection |->
       IF c \in tx[w].retired THEN "failed"
       ELSE IF c = Target(w) /\ tx[w].promoted THEN "active" ELSE collection[c]]

\* What COMMIT does to embedding_collection.
CollectionAfter(w) ==
    [c \in Collection |->
       IF c \in tx[w].retired THEN "retired"
       ELSE IF c = Target(w) /\ tx[w].promoted THEN "active" ELSE collection[c]]

-----------------------------------------------------------------------------
(* _ensure_collection and _activate *)

\* An upload or a command starts: any configuration, forced or not.
Start(w) ==
    /\ pc[w] = "idle"
    /\ \E c \in Collection, force \in BOOLEAN, todo \in Request :
          /\ planned + Len(todo) <= Cardinality(DocId)
          /\ planned' = planned + Len(todo)
          /\ job' = [job EXCEPT ![w] = [target |-> c, force |-> force, todo |-> todo]]
    /\ Goto(w, "ensure")
    /\ UNCHANGED <<tables, used, tx, facts>>

ActiveOthers(w) == {c \in Collection \ {Target(w)} : collection[c] = "active"}

\* SELECT id by name.  A collection that exists is activated at once: the
\* retiring UPDATE begins, and fixes the rows it will look at.
EnsureCollection(w) ==
    /\ pc[w] = "ensure"
    /\ IF collection[Target(w)] = "absent"
       THEN Goto(w, "create") /\ UNCHANGED tx
       ELSE Goto(w, "retire") /\ tx' = [tx EXCEPT ![w].wants = ActiveOthers(w)]
    /\ UNCHANGED <<tables, used, job, facts, planned>>

\* INSERT as "building"; the unique name refuses a second one.
CreateCollection(w) ==
    /\ At(w, "create")
    /\ IF collection[Target(w)] = "absent"
       THEN /\ Goto(w, "retire")
            /\ tx' = [tx EXCEPT ![w].created = TRUE, ![w].wants = ActiveOthers(w)]
            /\ UNCHANGED <<tables, used, job, facts, planned>>
       ELSE Abandon(w)

\* UPDATE ... SET status = 'retired' WHERE status = 'active' AND id <> :id
RetireOthers(w) ==
    /\ At(w, "retire")
    /\ Goto(w, "promote")
    /\ tx' = [tx EXCEPT ![w].retired = {c \in tx[w].wants : collection[c] = "active"}]
    /\ UNCHANGED <<tables, used, job, facts, planned>>

\* Mutant: the migration has no partial unique index.
RefusedNever(w) == FALSE

\* The partial unique index admits one active row.
Refused(w) ==
    /\ collection[Target(w)] # "active"
    /\ \E c \in Collection : collection[c] = "active" /\ c \notin tx[w].retired

\* UPDATE ... SET status = 'active' WHERE id = :id.  A new collection is committed here,
\* before anything is embedded into it; an existing one is not.
Promote(w) ==
    /\ At(w, "promote")
    /\ IF Refused(w)
       THEN Abandon(w)
       ELSE /\ Goto(w, Onward(job[w].todo))
            /\ IF tx[w].created
               THEN /\ collection' = [c \in Collection |->
                                         IF c \in tx[w].retired THEN "retired"
                                         ELSE IF c = Target(w) THEN "active" ELSE collection[c]]
                    /\ tx' = [tx EXCEPT ![w] = EmptyTx]
               ELSE /\ tx' = [tx EXCEPT ![w].promoted = TRUE]
                    /\ UNCHANGED collection
            /\ UNCHANGED <<document, relation, vectors, municipality, used, job, facts, planned>>

-----------------------------------------------------------------------------
(* _ingest_one, for the path at the head of todo *)

\* The pipeline fails on the PDF, or a batch cannot be embedded.
DocumentFails(w) ==
    /\ pc[w] = "next" \/ (pc[w] = "embed" /\ tx[w].embedded < Batches)
    /\ FailDocument(w)

\* SELECT id FROM document WHERE sha256 = :sha.  A skipped document ends
\* without commit or rollback.
CheckExisting(w) ==
    /\ pc[w] = "next"
    /\ LET E == {d \in Stored(document) : document[d].file = Current(w)}
       IN  IF E # {} /\ ~job[w].force
           THEN /\ job' = [job EXCEPT ![w].todo = Tail(@)]
                /\ Goto(w, Onward(Tail(job[w].todo)))
                /\ UNCHANGED tx
           ELSE /\ IF E = {}
                   THEN Goto(w, "municipality") /\ UNCHANGED tx
                   ELSE \E d \in E : /\ Goto(w, "delete")
                                     /\ tx' = [tx EXCEPT ![w].victim = d]
                /\ UNCHANGED job
    /\ UNCHANGED <<tables, used, facts, planned>>

\* DELETE FROM document WHERE id = :id; the schema cascades.
DeleteExisting(w) ==
    /\ At(w, "delete")
    /\ Goto(w, "municipality")
    /\ tx' = [tx EXCEPT ![w].deleted = TRUE]
    /\ UNCHANGED <<tables, used, job, facts, planned>>

\* _resolve_municipality: SELECT, and INSERT later if it found none.
ResolveMunicipality(w) ==
    /\ pc[w] = "municipality"
    /\ Goto(w, "insert")
    /\ LET slug == Detect(Printed[Current(w)]).slug
       IN  tx' = [tx EXCEPT ![w].slug = IF slug \in municipality THEN Undetected ELSE slug]
    /\ UNCHANGED <<tables, used, job, facts, planned>>

\* Mutant: document.sha256 is not unique.
DuplicateNever(w) == FALSE

Duplicate(w) == \E d \in Stored(document) \ {tx[w].victim} : document[d].file = Current(w)

\* The INSERTs, under the unique sha256 and the unique slug.
WriteDocument(w) ==
    /\ At(w, "insert")
    /\ IF Duplicate(w) \/ tx[w].slug \in municipality
       THEN FailDocument(w)
       ELSE /\ \E d \in DocId \ used :
                  /\ used' = used \union {d}
                  /\ tx' = [tx EXCEPT ![w].id = d]
            /\ Goto(w, "embed")
            /\ UNCHANGED <<tables, job, facts, planned>>

EmbedBatch(w) ==
    /\ pc[w] = "embed" /\ tx[w].embedded < Batches
    /\ tx' = [tx EXCEPT ![w].embedded = @ + 1]
    /\ UNCHANGED <<tables, used, pc, job, facts, planned>>

\* Mutant: committed before the chunks are embedded.
EmbeddedEarly(w) == pc[w] = "embed"

Embedded(w) == pc[w] = "embed" /\ tx[w].embedded = Batches

\* Mutant: the foreign keys of bylaw_relation do not cascade.
CascadedNot(w) == relation

Cascaded(w) == {e \in relation : tx[w].victim \notin {e.parent, e.child}}

CommitDocument(w) ==
    /\ Embedded(w)
    /\ Goto(w, Onward(Tail(job[w].todo)))
    /\ document' = [d \in DocId |-> IF d = tx[w].id THEN NewRow(Current(w))
                                    ELSE IF d = tx[w].victim THEN Absent ELSE document[d]]
    /\ vectors' = [d \in DocId |->
                      [c \in Collection |->
                         IF d = tx[w].id /\ c = Target(w) THEN tx[w].embedded
                         ELSE IF d \in {tx[w].id, tx[w].victim} THEN 0 ELSE vectors[d][c]]]
    /\ relation' = Cascaded(w)
    /\ municipality' = municipality \union ({tx[w].slug} \ {Undetected})
    /\ collection' = CollectionAfter(w)
    /\ tx' = [tx EXCEPT ![w] = EmptyTx]
    /\ job' = [job EXCEPT ![w].todo = Tail(@)]
    /\ UNCHANGED <<used, facts, planned>>

-----------------------------------------------------------------------------
(* After the last path *)

\* _refresh_collection_count writes a count no decision reads, and commits
\* whatever the run has left uncommitted.
RefreshCollectionCount(w) ==
    /\ At(w, "refresh")
    /\ Goto(w, "load")
    /\ collection' = CollectionAfter(w)
    /\ tx' = [tx EXCEPT ![w] = EmptyTx]
    /\ UNCHANGED <<document, relation, vectors, municipality, used, job, facts, planned>>

\* resolve_lineage: one SELECT, then one UPDATE per row in the order the
\* SELECT returned them, which SQL leaves open.
LoadCorpus(w) ==
    /\ pc[w] = "load"
    /\ IF Stored(document) = {}
       THEN /\ Goto(w, "idle")
            /\ job' = [job EXCEPT ![w] = NoJob]
            /\ UNCHANGED <<tx, facts>>
       ELSE /\ \E d \in Stored(document) :
                  tx' = [tx EXCEPT ![w].row = d, ![w].left = Stored(document) \ {d}]
            /\ facts' = [facts EXCEPT ![w] = LoadFacts(document)]
            /\ Goto(w, "statuses")
            /\ UNCHANGED job
    /\ UNCHANGED <<tables, used, planned>>

\* UPDATE document ... WHERE id = :id AND verified_by_human = false
WriteStatus(w) ==
    /\ At(w, "statuses")
    /\ LET d == tx[w].row
           judged == tx[w].judged \union {x \in {d} : Updatable(document[x])}
       IN  IF tx[w].left = {}
           THEN /\ tx' = [tx EXCEPT ![w].judged = judged, ![w].row = Absent,
                                    ![w].swept = relation]
                /\ Goto(w, "sweep")
           ELSE /\ \E e \in tx[w].left :
                      tx' = [tx EXCEPT ![w].judged = judged, ![w].row = e, ![w].left = @ \ {e}]
                /\ UNCHANGED pc
    /\ UNCHANGED <<tables, used, job, facts, planned>>

\* DELETE FROM bylaw_relation: the edges the statement sees as it begins, so
\* that it misses those of a pass it had to wait for.
SweepEdges(w) ==
    /\ At(w, "sweep")
    /\ Goto(w, "edges")
    /\ UNCHANGED <<tables, used, job, tx, facts, planned>>

\* The edge INSERTs, refused by the foreign keys when a document has gone,
\* and the COMMIT that publishes the pass.
WriteEdges(w) ==
    /\ At(w, "edges")
    /\ IF \E e \in BuildEdges(facts[w]) : ~({e.parent, e.child} \subseteq Stored(document))
       THEN Abandon(w)
       ELSE /\ document' = [d \in DocId |->
                              IF d \in tx[w].judged
                              THEN Judged(document[d], facts[w], FactsOf(d, document[d].file))
                              ELSE document[d]]
            /\ relation' = (relation \ tx[w].swept) \union BuildEdges(facts[w])
            /\ Goto(w, "idle")
            /\ tx' = [tx EXCEPT ![w] = EmptyTx]
            /\ facts' = [facts EXCEPT ![w] = {}]
            /\ job' = [job EXCEPT ![w] = NoJob]
            /\ UNCHANGED <<collection, vectors, municipality, used, planned>>

-----------------------------------------------------------------------------
(* The environment *)

\* PostgreSQL aborts one of several transactions that wait for each other.
DeadlockAbort(w) ==
    /\ \E S \in SUBSET Worker : w \in S /\ \A x \in S : \E y \in S : Blocks(y, x)
    /\ IF pc[w] \in {"delete", "insert"} THEN FailDocument(w) ELSE Abandon(w)

\* The process dies; the server rolls its transaction back.
Crash(w) == pc[w] # "idle" /\ Abandon(w)

\* An operator corrects a verdict.  No code under src/ does this yet.
VerifyByHuman(d, status) ==
    /\ document[d] # Absent
    /\ \A w \in Worker : ~HoldsRow(w, d)
    /\ document' = [document EXCEPT ![d].status = status, ![d].verified = TRUE]
    /\ UNCHANGED <<relation, collection, vectors, municipality, used, pc, job, tx, facts, planned>>

IngestOne(w) ==
    \/ DocumentFails(w) \/ CheckExisting(w) \/ DeleteExisting(w) \/ ResolveMunicipality(w)
    \/ WriteDocument(w) \/ EmbedBatch(w) \/ CommitDocument(w)

ResolveLineage(w) == LoadCorpus(w) \/ WriteStatus(w) \/ SweepEdges(w) \/ WriteEdges(w)

Step(w) ==
    \/ EnsureCollection(w) \/ CreateCollection(w) \/ RetireOthers(w) \/ Promote(w)
    \/ IngestOne(w) \/ RefreshCollectionCount(w) \/ ResolveLineage(w)
    \/ DeadlockAbort(w)

Next ==
    \/ \E w \in Worker : Start(w) \/ Step(w) \/ Crash(w)
    \/ \E d \in DocId, status \in Correction : VerifyByHuman(d, status)

Spec == Init /\ [][Next]_vars

\* A session that can run does run: the event loop is fair, a statement that
\* waits is woken, and PostgreSQL breaks deadlocks.
FairSpec == Spec /\ \A w \in Worker : WF_vars(Step(w))

-----------------------------------------------------------------------------
(* Properties *)

Promise == INSTANCE Corpus WITH document <- document, relation <- relation

TypeOK ==
    /\ document \in [DocId -> Row \union {Absent}]
    /\ relation \subseteq Edge
    /\ collection \in [Collection -> CollectionStatus]
    /\ vectors \in [DocId -> [Collection -> Nat]]
    /\ municipality \subseteq Municipality
    /\ used \subseteq DocId /\ planned \in Nat
    /\ pc \in [Worker -> PC]
    /\ job \in [Worker -> Job]
    /\ tx \in [Worker -> Tx]
    /\ facts \in [Worker -> SUBSET DocumentFacts]

\* Retrieval never has to choose: one collection is active at most, however
\* many runs with different settings activate theirs at the same time.
AtMostOneActive ==
    \A c, d \in Collection : collection[c] = "active" /\ collection[d] = "active" => c = d

\* A committed document is whole: some collection holds every batch of it,
\* and no collection holds a part, whatever failed or crashed on the way.
DocumentsAreWhole ==
    \A d \in DocId :
        /\ \A c \in Collection : vectors[d][c] \in {0, Batches}
        /\ document[d] # Absent <=> \E c \in Collection : vectors[d][c] = Batches

\* One row per content, so that re-running over a folder is idempotent.
OneRowPerContent ==
    \A d, e \in Stored(document) : document[d].file = document[e].file => d = e

\* A verdict a human gave survives every lineage pass: the row keeps it until
\* the operator changes it or the row itself is replaced.
HumanVerdictKept ==
    [][\A d \in Stored(document) :
         document[d].verified /\ document'[d] # Absent =>
            \/ document'[d] = document[d]
            \/ \E status \in Correction : VerifyByHuman(d, status)]_vars

\* A document leaves the corpus only in the step that brings the same content
\* back under a new id: a re-ingest that fails half way loses nothing.
ContentNeverLost ==
    [][\A d \in Stored(document) :
         document'[d] = Absent =>
            \E e \in Stored(document') \ Stored(document) :
               document'[e].file = document[d].file]_vars

\* Every run comes to an end, whatever it waits for.
RunsEnd == \A w \in Worker : pc[w] # "idle" ~> pc[w] = "idle"

\* One run at a time keeps the promise of module Corpus.
KeepsPromise == Promise!Spec

\* amendments.py, rule 2: the newest version of a bylaw is in force and the
\* older ones are superseded; at the latest when no run is in progress.
OneInForceAtRest == (\A w \in Worker : pc[w] = "idle") => Promise!OneInForcePerBylaw

\* CollectionStatus: the active collection serves queries, and there is never
\* a window where the index is half-rebuilt.
ActiveCollectionIsBuilt ==
    \A c \in Collection, d \in Stored(document) :
        collection[c] = "active" /\ document[d].status = "in_force" => vectors[d][c] = Batches

=============================================================================
