----------------------------- MODULE Retriever -----------------------------
(***************************************************************************)
(* HybridRetriever (rag/retriever.py, rag/fusion.py) and the two models it *)
(* loads lazily (adapters/embeddings, adapters/reranker).  Each request    *)
(* has a retriever and a database transaction of its own; the models and   *)
(* the rows are shared.  Every statement and every model call is a step:   *)
(* lineage passes and other requests run between them.                     *)
(***************************************************************************)
EXTENDS Excerpts

CONSTANTS
    Request,
    Collection,           \* Collection[n]: its dimensions and the chunks it has vectors of
    EmbedderDimensions,
    Query,
    Nearest, Matching,    \* per query: chunks by cosine distance, and by ts_rank_cd
    Relevance,            \* per query: chunks as the cross-encoder orders them
    DenseTopK, SparseTopK, PoolSize, RerankTopN, RrfK,
    MaxFaults             \* bound: statements and calls that fail

ASSUME RetrievalAssumption ==
    /\ {DenseTopK, SparseTopK, PoolSize, RerankTopN, RrfK} \subseteq Nat \ {0} /\ MaxFaults \in Nat
    /\ \A q \in Query : \A order \in {Nearest[q], Matching[q], Relevance[q]} :
          order \in Seq(Chunk) /\ IsInjective(order)
    /\ \A q \in Query : Chunk \subseteq ToSet(Relevance[q])
    /\ {"unread", "none"} \intersect DOMAIN Collection = {}

VARIABLES
    status,      \* document.status as committed
    active,      \* the collection with status 'active', if any
    embedder,    \* LocalEmbeddingProvider._model
    reranker,    \* CrossEncoderReranker._model and _unavailable_reason
    search,      \* the retrieve() call of each request, and its retriever's _collection
    aborted,     \* requests whose transaction PostgreSQL has aborted
    faults

retrieval == <<status, active, embedder, reranker, search, aborted, faults>>

IsFilters(f) ==
    DOMAIN f = {"towns", "inForceOnly", "excludeOcr"} /\ {f.inForceOnly, f.excludeOcr} \subseteq BOOLEAN

Idle == [at |-> "idle", collection |-> "unread"]

Failure == {"index", "retrieval", "embedding", "database"}

Fail(r, why) ==
    search' = [search EXCEPT ![r] = [at |-> "failed", collection |-> search[r].collection, error |-> why]]

Fault == faults < MaxFaults /\ faults' = faults + 1

At(r, step) == search[r].at = step

Goto(r, step) == search' = [search EXCEPT ![r].at = step]

-----------------------------------------------------------------------------
(* The call *)

\* Mutant: the collection is never resolved.
BeginUnresolved(r, query, filters, top) ==
    search' = [search EXCEPT ![r] =
        [at |-> "embed", collection |-> search[r].collection, query |-> query, filters |-> filters,
         top |-> top, dense |-> <<>>, fused |-> <<>>]]

\* retrieve() is called: a collection once resolved stays cached.
Begin(r, query, filters, top) ==
    search' = [search EXCEPT ![r] =
        [at |-> IF search[r].collection = "unread" THEN "collection" ELSE "embed",
         collection |-> search[r].collection, query |-> query, filters |-> filters, top |-> top,
         dense |-> <<>>, fused |-> <<>>]]

\* A statement in an aborted transaction fails, and any statement may.
StatementFails(r) == \/ r \in aborted /\ UNCHANGED faults
                     \/ r \notin aborted /\ Fault

StatementRuns(r) == r \notin aborted /\ UNCHANGED faults

ActiveCollection(r) ==
    /\ At(r, "collection")
    /\ \/ /\ StatementRuns(r) /\ active = "none" /\ Fail(r, "index") /\ UNCHANGED aborted
       \/ /\ StatementRuns(r) /\ active # "none" /\ UNCHANGED aborted
          /\ search' = [search EXCEPT ![r].collection = active, ![r].at = "embed"]
       \/ /\ StatementFails(r) /\ Fail(r, "database") /\ aborted' = aborted \union {r}
    /\ UNCHANGED <<status, active, embedder, reranker>>

\* embed_query with the model at hand, and the check of the vector's width.
Embed(r) ==
    IF Collection[search[r].collection].dimensions # EmbedderDimensions
    THEN Fail(r, "retrieval")
    ELSE Goto(r, "dense")

-----------------------------------------------------------------------------
(* Lazily loaded models: checked, waited for, checked again under the lock *)

Loading(step) == {r \in Request : At(r, step)}

\* The lock is an asyncio.Lock: at most one holder, and it is held to load.
Lock(step) == Loading(step) = {}

EnsureEmbedder(r) ==
    /\ At(r, "embed")
    /\ IF embedder = "ready"
       THEN \/ Embed(r) /\ UNCHANGED faults
            \/ Fault /\ Fail(r, "embedding")
       ELSE Goto(r, "waiting embedder") /\ UNCHANGED faults
    /\ UNCHANGED <<status, active, embedder, reranker, aborted>>

\* Mutant: the model is not looked at again under the lock.
EmbedderLockedBlindly(r) ==
    /\ At(r, "waiting embedder") /\ Lock("loading embedder") /\ Goto(r, "loading embedder")
    /\ UNCHANGED <<status, active, embedder, reranker, aborted, faults>>

EmbedderLocked(r) ==
    /\ At(r, "waiting embedder") /\ Lock("loading embedder")
    /\ IF embedder = "ready" THEN Embed(r) ELSE Goto(r, "loading embedder")
    /\ UNCHANGED <<status, active, embedder, reranker, aborted, faults>>

\* A load that fails raises, and leaves the model to be loaded by the next.
EmbedderLoaded(r) ==
    /\ At(r, "loading embedder")
    /\ \/ Embed(r) /\ embedder' = "ready" /\ UNCHANGED faults
       \/ Fault /\ Fail(r, "embedding") /\ UNCHANGED embedder
    /\ UNCHANGED <<status, active, reranker, aborted>>

-----------------------------------------------------------------------------
(* The two searches *)

Passes(c, filters) ==
    /\ filters.towns # {} => Held[c].town \in filters.towns
    /\ filters.inForceOnly => status[Held[c].document] = "in_force"
    /\ filters.excludeOcr => ~Held[c].fromOcr

First(k, s) == SubSeq(s, 1, IF k < Len(s) THEN k ELSE Len(s))

\* The places of an order whose chunks a statement selects.
Selected(order, chunks, filters) == {i \in DOMAIN order : order[i] \in chunks /\ Passes(order[i], filters)}

\* The rows a statement returns, best first, as they are when it runs.
Rows(order, selected, k) ==
    LET kept == First(k, Subsequence(order, selected))
    IN  [i \in DOMAIN kept |-> [chunk |-> kept[i], status |-> status[Held[kept[i]].document]]]

DenseSearch(r) ==
    /\ At(r, "dense")
    /\ \/ /\ StatementRuns(r) /\ UNCHANGED aborted
          /\ LET s == search[r]
             IN  \E selected \in {Selected(Nearest[s.query], Collection[s.collection].chunks, s.filters)} :
                    search' = [search EXCEPT ![r].dense = Rows(Nearest[s.query], selected, DenseTopK),
                                             ![r].at = "sparse"]
       \/ /\ StatementFails(r) /\ Fail(r, "database") /\ aborted' = aborted \union {r}
    /\ UNCHANGED <<status, active, embedder, reranker>>

\* Reciprocal rank fusion with equal weights.  Scale makes the scores whole.
Ranks == 1 .. (IF DenseTopK > SparseTopK THEN DenseTopK ELSE SparseTopK)

Scale == FoldFunction(LAMBDA a, b : a * b, 1, [i \in Ranks |-> RrfK + i])

RankIn(hits, c) == {i \in DOMAIN hits : hits[i].chunk = c}

Score(dense, sparse, c) ==
    LET part(hits) == IF RankIn(hits, c) = {} THEN 0
                      ELSE Scale \div (RrfK + CHOOSE i \in RankIn(hits, c) : TRUE)
    IN  part(dense) + part(sparse)

\* A chunk both found keeps the row of the first.
Fusion(dense, sparse) ==
    LET pool == ToSet(dense) \union {h \in ToSet(sparse) : RankIn(dense, h.chunk) = {}}
        before(g, h) == LET a == Score(dense, sparse, g.chunk)
                            b == Score(dense, sparse, h.chunk)
                        IN  a > b \/ (a = b /\ g.chunk < h.chunk)
    IN  First(PoolSize, InOrder(pool, {p \in Hit \X Hit : before(p[1], p[2])}))

\* Reranking is skipped for nothing, and for one candidate.
AfterFusion(s, fused) ==
    IF Len(fused) <= 1
    THEN [at |-> "found", collection |-> s.collection, filters |-> s.filters,
          hits |-> First(s.top, fused), fused |-> Len(fused)]
    ELSE [s EXCEPT !.at = "rerank", !.dense = <<>>, !.fused = fused]

\* A failing sparse search is an empty one: the exception is swallowed, and
\* the transaction stays aborted.
SparseSearch(r) ==
    /\ At(r, "sparse")
    /\ LET s == search[r]
           fusedWith(sparse) ==
               \E fused \in {Fusion(s.dense, sparse)} : search' = [search EXCEPT ![r] = AfterFusion(s, fused)]
       IN  \/ /\ StatementRuns(r) /\ UNCHANGED aborted
              /\ \E selected \in {Selected(Matching[s.query], Chunk, s.filters)} :
                    \E sparse \in {Rows(Matching[s.query], selected, SparseTopK)} : fusedWith(sparse)
           \/ StatementFails(r) /\ aborted' = aborted \union {r} /\ fusedWith(<<>>)
    /\ UNCHANGED <<status, active, embedder, reranker>>

-----------------------------------------------------------------------------
(* Reranking, which never fails a query *)

Found(r, order) ==
    LET s == search[r]
    IN  search' = [search EXCEPT ![r] =
            [at |-> "found", collection |-> s.collection, filters |-> s.filters,
             hits |-> First(s.top, order), fused |-> Len(s.fused)]]

Reranked(s) ==
    LET place(h) == CHOOSE i \in DOMAIN Relevance[s.query] : Relevance[s.query][i] = h.chunk
    IN  InOrder(ToSet(s.fused), {p \in Hit \X Hit : place(p[1]) < place(p[2])})

Rerank(r) ==
    /\ At(r, "rerank")
    /\ \/ reranker = "ready" /\ Found(r, Reranked(search[r])) /\ UNCHANGED faults
       \/ reranker = "ready" /\ Fault /\ Found(r, search[r].fused)
       \/ reranker = "unavailable" /\ Found(r, search[r].fused) /\ UNCHANGED faults
       \/ reranker = "cold" /\ Goto(r, "waiting reranker") /\ UNCHANGED faults
    /\ UNCHANGED <<status, active, embedder, reranker, aborted>>

RerankerLocked(r) ==
    /\ At(r, "waiting reranker") /\ Lock("loading reranker")
    /\ IF reranker = "cold" THEN Goto(r, "loading reranker") ELSE Goto(r, "rerank")
    /\ UNCHANGED <<status, active, embedder, reranker, aborted, faults>>

\* A load that fails is remembered for the life of the process.
RerankerLoaded(r) ==
    /\ At(r, "loading reranker")
    /\ Goto(r, "rerank")
    /\ \/ reranker' = "ready" /\ UNCHANGED faults
       \/ Fault /\ reranker' = "unavailable"
    /\ UNCHANGED <<status, active, embedder, aborted>>

SearchStep(r) ==
    \/ ActiveCollection(r)
    \/ EnsureEmbedder(r) \/ EmbedderLocked(r) \/ EmbedderLoaded(r)
    \/ DenseSearch(r) \/ SparseSearch(r)
    \/ Rerank(r) \/ RerankerLocked(r) \/ RerankerLoaded(r)
=============================================================================
