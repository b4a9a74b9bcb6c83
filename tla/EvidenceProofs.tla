--------------------------- MODULE EvidenceProofs ---------------------------
(* What questions, checks, comparisons and checklists rest on, for any      *)
(* corpus, any models and any requests in flight.                           *)
EXTENDS ApiProofs, ListProofs

-----------------------------------------------------------------------------
(* Hits: what a search may return under its filters *)

Fits(h, filters) ==
    /\ filters.towns # {} => Held[h.chunk].town \in filters.towns
    /\ filters.inForceOnly => h.status = "in_force"
    /\ filters.excludeOcr => ~Held[h.chunk].fromOcr

OncePerChunk(hits) == \A g, h \in hits : g.chunk = h.chunk => g = h

Listed(hits, filters) ==
    /\ hits \in Seq(Hit) /\ OncePerChunk(ToSet(hits))
    /\ \A h \in ToSet(hits) : Fits(h, filters)

LEMMA NothingListed ==
    ASSUME NEW filters
    PROVE  Listed(<<>>, filters)
  BY DEF Listed, OncePerChunk, ToSet

\* The beginning of a list.
LEMMA FirstListed ==
    ASSUME NEW filters, NEW hits, Listed(hits, filters), NEW k \in Nat
    PROVE  Listed(First(k, hits), filters) /\ Len(First(k, hits)) <= Len(hits)
<1>1. /\ First(k, hits) \in Seq(Hit) /\ Len(First(k, hits)) <= Len(hits)
      /\ ToSet(First(k, hits)) \subseteq ToSet(hits)
  BY BeginningOf DEF First, Listed
<1>. QED
  BY <1>1 DEF Listed, OncePerChunk

\* The rows of one statement: all of one moment, so a chunk has one status.
LEMMA RowsListed ==
    ASSUME status \in [Document -> DocumentStatus], NEW order \in Seq(Chunk),
           NEW chunks, NEW filters, NEW k \in Nat
    PROVE  Listed(Rows(order, Selected(order, chunks, filters), k), filters)
<1>. DEFINE places == Selected(order, chunks, filters)
            all  == Subsequence(order, places)
            kept == First(k, all)
            row(c) == [chunk |-> c, status |-> status[Held[c].document]]
            rows == [i \in DOMAIN kept |-> row(kept[i])]
<1>1. all \in Seq(Chunk) /\ ToSet(all) = {order[i] : i \in places}
  <2>1. places \in SUBSET DOMAIN order
    BY DEF Selected
  <2>. HIDE DEF places
  <2>. QED
    BY <2>1, SubsequenceOf
<1>2. kept \in Seq(Chunk) /\ ToSet(kept) \subseteq ToSet(all)
  <2>. HIDE DEF all
  <2>. QED
    BY <1>1, BeginningOf DEF First
<1>3. \A c \in ToSet(kept) : c \in Chunk /\ Passes(c, filters)
  <2>. HIDE DEF kept, all
  <2>1. \A c \in ToSet(kept) : \E i \in places : c = order[i]
    BY <1>1, <1>2
  <2>2. \A i \in places : order[i] \in Chunk /\ Passes(order[i], filters)
    BY DEF Selected
  <2>. HIDE DEF places
  <2>. QED
    BY <2>1, <2>2
<1>4. \A c \in Chunk : row(c) \in Hit
  BY HeldAssumption DEF Hit, RetrievedChunk
<1>5. ASSUME NEW c \in Chunk, Passes(c, filters)
      PROVE  Fits(row(c), filters)
  BY <1>5 DEF Fits, Passes
<1>6. rows \in Seq(Hit) /\ ToSet(rows) = {row(c) : c \in ToSet(kept)}
  <2>1. Len(kept) \in Nat /\ DOMAIN kept = 1..Len(kept) /\ \A i \in DOMAIN kept : kept[i] \in ToSet(kept)
    <3>. HIDE DEF kept
    <3>. QED
      BY <1>2 DEF ToSet
  <2>. HIDE DEF kept, row
  <2>2. rows \in Seq(Hit)
    BY <1>3, <1>4, <2>1
  <2>3. ToSet(rows) = {row(c) : c \in ToSet(kept)}
    BY DEF ToSet
  <2>. QED
    BY <2>2, <2>3
<1>7. OncePerChunk({row(c) : c \in ToSet(kept)})
  <2>1. \A c : row(c).chunk = c
    OBVIOUS
  <2>. HIDE DEF row, kept
  <2>. QED
    BY <2>1 DEF OncePerChunk
<1>8. \A h \in {row(c) : c \in ToSet(kept)} : Fits(h, filters)
  <2>. HIDE DEF row, kept
  <2>. QED
    BY <1>3, <1>5
<1>9. Rows(order, places, k) = rows
  BY DEF Rows
<1>. HIDE DEF rows, kept, row
<1>. QED
  BY <1>6, <1>7, <1>8, <1>9 DEF Listed

-----------------------------------------------------------------------------
(* Fusion and reranking put the hits in order, and change nothing else *)

LEMMA ScaleIsPositive == Scale \in Nat \ {0}
<1>. DEFINE w == [i \in Ranks |-> RrfK + i]
<1>1. IsFiniteSet(Ranks)
  <2>1. DenseTopK \in Nat /\ SparseTopK \in Nat
    BY RetrievalAssumption
  <2>. DEFINE n == IF DenseTopK > SparseTopK THEN DenseTopK ELSE SparseTopK
  <2>2. n \in Nat
    BY <2>1
  <2>. HIDE DEF n
  <2>3. IsFiniteSet(1..n)
    BY <2>2, FS_Interval
  <2>. QED
    BY <2>3 DEF Ranks, n
<1>2. w \in [Ranks -> Nat \ {0}]
  BY RetrievalAssumption DEF Ranks
<1>. HIDE DEF w
<1>3. FoldFunction(LAMBDA a, b : a * b, 1, w) \in Nat \ {0}
  BY <1>1, <1>2, ProductIsPositive
<1>. QED
  BY <1>3 DEF Scale, w

LEMMA ScoresAreNumbers ==
    ASSUME NEW dense \in Seq(Hit), NEW sparse \in Seq(Hit), NEW c
    PROVE  Score(dense, sparse, c) \in Nat
<1>. DEFINE part(hits) == IF RankIn(hits, c) = {} THEN 0
                          ELSE Scale \div (RrfK + CHOOSE i \in RankIn(hits, c) : TRUE)
<1>1. ASSUME NEW hits \in Seq(Hit)
      PROVE  part(hits) \in Nat
  <2>1. RankIn(hits, c) \subseteq Nat
    BY DEF RankIn
  <2>2. CASE RankIn(hits, c) # {}
    <3>. DEFINE i == CHOOSE i \in RankIn(hits, c) : TRUE
    <3>1. i \in Nat
      BY <2>1, <2>2
    <3>. HIDE DEF i
    <3>2. RrfK + i \in Nat \ {0}
      BY <3>1, RetrievalAssumption
    <3>3. Scale \div (RrfK + i) \in Nat
      BY <3>2, ScaleIsPositive
    <3>. QED
      BY <2>2, <3>3 DEF i
  <2>. QED
    BY <2>2
<1>2. part(dense) \in Nat /\ part(sparse) \in Nat
  <2>. HIDE DEF part
  <2>. QED
    BY <1>1
<1>3. Score(dense, sparse, c) = part(dense) + part(sparse)
  BY DEF Score
<1>. HIDE DEF part
<1>. QED
  BY <1>2, <1>3

LEMMA FusionListed ==
    ASSUME NEW filters, NEW dense, NEW sparse, Listed(dense, filters), Listed(sparse, filters)
    PROVE  Listed(Fusion(dense, sparse), filters)
<1>. DEFINE new  == {h \in ToSet(sparse) : RankIn(dense, h.chunk) = {}}
            pool == ToSet(dense) \union new
            score(h) == Score(dense, sparse, h.chunk)
            before(g, h) == score(g) > score(h) \/ (score(g) = score(h) /\ g.chunk < h.chunk)
            R == {p \in Hit \X Hit : before(p[1], p[2])}
            fused == InOrder(pool, R)
<1>1. dense \in Seq(Hit) /\ sparse \in Seq(Hit)
  BY DEF Listed
<1>2. IsFiniteSet(pool) /\ pool \subseteq Hit
  BY <1>1, MembersAreFinite, FS_Subset, FS_Union
<1>3. OncePerChunk(pool) /\ \A h \in pool : Fits(h, filters)
  <2>1. \A h \in ToSet(dense) : RankIn(dense, h.chunk) # {}
    BY <1>1 DEF RankIn, ToSet
  <2>. QED
    BY <2>1 DEF Listed, OncePerChunk
<1>4. \A h \in pool : score(h) \in Nat /\ h.chunk \in Nat
  BY <1>1, <1>2, ScoresAreNumbers, HeldAssumption DEF Hit
<1>. HIDE DEF pool, score
<1>5. \A g, h \in pool : <<g, h>> \in R <=> before(g, h)
  BY <1>2
<1>6. \A x \in pool : ~before(x, x)
  BY <1>4
<1>7. \A x, y, z \in pool : before(x, y) /\ before(y, z) => before(x, z)
  BY <1>4
<1>8. \A x, y \in pool : x # y => before(x, y) \/ before(y, x)
  BY <1>3, <1>4 DEF OncePerChunk
<1>. HIDE DEF R, before
<1>9. fused \in Seq(pool) /\ ToSet(fused) = pool
  BY <1>2, <1>5, <1>6, <1>7, <1>8, InOrderLists
<1>10. Listed(fused, filters)
  <2>. HIDE DEF fused
  <2>1. fused \in Seq(Hit)
    BY <1>2, <1>9
  <2>. QED
    BY <1>3, <1>9, <2>1 DEF Listed
<1>11. Fusion(dense, sparse) = First(PoolSize, fused)
  BY DEF Fusion, pool, R, before, score
<1>. HIDE DEF fused
<1>. QED
  BY <1>10, <1>11, FirstListed, RetrievalAssumption

\* Relevance has a place for every chunk, so the cross-encoder loses no hit.
LEMMA RerankedListed ==
    ASSUME NEW filters, NEW s, s.query \in Query, Listed(s.fused, filters)
    PROVE  Listed(Reranked(s), filters) /\ Len(Reranked(s)) <= Len(s.fused)
<1>. DEFINE order == Relevance[s.query]
            place(h) == CHOOSE i \in DOMAIN order : order[i] = h.chunk
            R == {p \in Hit \X Hit : place(p[1]) < place(p[2])}
            pool == ToSet(s.fused)
            ranked == InOrder(pool, R)
<1>1. s.fused \in Seq(Hit) /\ OncePerChunk(pool) /\ \A h \in pool : Fits(h, filters)
  BY DEF Listed
<1>2. IsFiniteSet(pool) /\ pool \subseteq Hit /\ Cardinality(pool) <= Len(s.fused)
  BY <1>1, MembersAreFinite
<1>3. DOMAIN order \subseteq Nat /\ \A c \in Chunk : \E i \in DOMAIN order : order[i] = c
  <2>1. order \in Seq(Chunk) /\ Chunk \subseteq ToSet(order)
    BY RetrievalAssumption
  <2>. QED
    BY <2>1 DEF ToSet
<1>4. \A h \in pool : place(h) \in Nat /\ order[place(h)] = h.chunk
  <2>1. \A h \in pool : h.chunk \in Chunk
    BY <1>2 DEF Hit
  <2>. HIDE DEF order, pool
  <2>. QED
    BY <1>3, <2>1
<1>. HIDE DEF place, order
<1>5. \A g, h \in pool : <<g, h>> \in R <=> place(g) < place(h)
  BY <1>2
<1>6. \A g, h \in pool : g # h => place(g) < place(h) \/ place(h) < place(g)
  BY <1>1, <1>4 DEF OncePerChunk
<1>. HIDE DEF R, pool
<1>7. \A x, y, z \in pool : <<x, y>> \in R /\ <<y, z>> \in R => <<x, z>> \in R
  BY <1>4, <1>5
<1>8. \A x \in pool : <<x, x>> \notin R
  BY <1>4, <1>5
<1>9. ranked \in Seq(pool) /\ ToSet(ranked) = pool /\ Len(ranked) = Cardinality(pool)
  BY <1>2, <1>5, <1>6, <1>7, <1>8, InOrderLists
<1>10. Reranked(s) = ranked
  BY DEF Reranked, ranked, R, pool, place, order
<1>. HIDE DEF ranked
<1>11. ranked \in Seq(Hit)
  BY <1>2, <1>9
<1>. QED
  BY <1>1, <1>2, <1>9, <1>10, <1>11 DEF Listed

-----------------------------------------------------------------------------
(* Searches.  What a search has found fits the filters it was made with,    *)
(* whatever lineage passes and activations come between its steps.          *)

Unfused == {"collection", "embed", "waiting embedder", "loading embedder", "dense", "sparse"}

Ranking == {"rerank", "waiting reranker", "loading reranker"}

\* The record of a search under way.
Call(at, collection, query, filters, top, dense, fused) ==
    [at |-> at, collection |-> collection, query |-> query, filters |-> filters, top |-> top,
     dense |-> dense, fused |-> fused]

IsCall(s) == s = Call(s.at, s.collection, s.query, s.filters, s.top, s.dense, s.fused)

\* A call with another value in one of its fields.
LEMMA AtChanges ==
    ASSUME NEW x, NEW a, NEW b, NEW c, NEW d, NEW e, NEW f, NEW v, NEW s, s = Call(x, a, b, c, d, e, f)
    PROVE  [s EXCEPT !.at = v] = Call(v, a, b, c, d, e, f)
  BY DEF Call

LEMMA CollectionChanges ==
    ASSUME NEW x, NEW a, NEW b, NEW c, NEW d, NEW e, NEW f, NEW v, NEW s, s = Call(x, a, b, c, d, e, f)
    PROVE  [s EXCEPT !.collection = v] = Call(x, v, b, c, d, e, f)
  BY DEF Call

LEMMA DenseChanges ==
    ASSUME NEW x, NEW a, NEW b, NEW c, NEW d, NEW e, NEW f, NEW v, NEW s, s = Call(x, a, b, c, d, e, f)
    PROVE  [s EXCEPT !.dense = v] = Call(x, a, b, c, d, v, f)
  BY DEF Call

LEMMA FusedChanges ==
    ASSUME NEW x, NEW a, NEW b, NEW c, NEW d, NEW e, NEW f, NEW v, NEW s, s = Call(x, a, b, c, d, e, f)
    PROVE  [s EXCEPT !.fused = v] = Call(x, a, b, c, d, e, v)
  BY DEF Call

SearchHolds(s) ==
    /\ s.at \in Steps
    /\ s.collection \in DOMAIN Collection \union {"unread"}
    /\ s.at \notin {"idle", "collection", "failed"} => s.collection # "unread"
    /\ s.at = "failed" => s.error \in Failure
    /\ s.at \in Unfused \union Ranking => IsCall(s) /\ s.query \in Query /\ s.top \in Nat \ {0}
    /\ s.at \notin {"idle", "failed"} => IsFilters(s.filters)
    /\ s.at = "sparse" => Listed(s.dense, s.filters)
    /\ s.at \in Ranking => Listed(s.fused, s.filters)
    /\ s.at = "found" => Listed(s.hits, s.filters) /\ s.fused \in Nat /\ Len(s.hits) <= s.fused

\* Another search of the same call, or one that failed.
Continues(s, next) ==
    /\ SearchHolds(next)
    /\ next.at = "failed" \/ (next.at # "idle" /\ next.filters = s.filters)

LEMMA SearchesFail ==
    ASSUME NEW s, SearchHolds(s), NEW why \in Failure
    PROVE  Continues(s, [at |-> "failed", collection |-> s.collection, error |-> why])
  BY DEF Continues, SearchHolds, Steps, Unfused, Ranking

LEMMA SearchesMove ==
    ASSUME NEW s, SearchHolds(s), s.at \in Unfused \union Ranking,
           NEW step \in (Unfused \union Ranking) \ {"collection", "sparse"},
           s.collection # "unread", step \in Ranking => s.at \in Ranking
    PROVE  Continues(s, [s EXCEPT !.at = step])
<1>. DEFINE next == Call(step, s.collection, s.query, s.filters, s.top, s.dense, s.fused)
<1>1. [s EXCEPT !.at = step] = next
  BY AtChanges DEF SearchHolds, IsCall
<1>2. /\ next.at = step /\ next.collection = s.collection /\ next.query = s.query
      /\ next.filters = s.filters /\ next.top = s.top /\ next.fused = s.fused /\ IsCall(next)
  BY DEF Call, IsCall
<1>3. step \in Steps /\ step \notin {"idle", "failed", "found", "sparse"}
  BY DEF Unfused, Ranking, Steps
<1>4. s.at \notin {"idle", "failed", "found"}
  BY DEF Unfused, Ranking
<1>. HIDE DEF next
<1>. QED
  BY <1>1, <1>2, <1>3, <1>4 DEF Continues, SearchHolds

\* A call begins.
LEMMA SearchesBegin ==
    ASSUME NEW s, SearchHolds(s), NEW query \in Query, NEW filters, IsFilters(filters), NEW top \in Nat \ {0}
    PROVE  SearchHolds([at |-> IF s.collection = "unread" THEN "collection" ELSE "embed",
                        collection |-> s.collection, query |-> query, filters |-> filters, top |-> top,
                        dense |-> <<>>, fused |-> <<>>])
<1>1. SearchHolds([at |-> "collection", collection |-> s.collection, query |-> query, filters |-> filters,
                   top |-> top, dense |-> <<>>, fused |-> <<>>])
  BY DEF SearchHolds, Steps, Unfused, Ranking, IsCall, Call
<1>2. s.collection # "unread" =>
        SearchHolds([at |-> "embed", collection |-> s.collection, query |-> query, filters |-> filters,
                     top |-> top, dense |-> <<>>, fused |-> <<>>])
  BY DEF SearchHolds, Steps, Unfused, Ranking, IsCall, Call
<1>. QED
  BY <1>1, <1>2

LEMMA IdleHolds == SearchHolds(Idle)
  BY DEF SearchHolds, Idle, Steps, Unfused, Ranking

\* The active collection is read.
LEMMA CollectionIsRead ==
    ASSUME NEW s, SearchHolds(s), s.at = "collection", NEW name \in DOMAIN Collection
    PROVE  Continues(s, [s EXCEPT !.collection = name, !.at = "embed"])
<1>. DEFINE next == Call("embed", name, s.query, s.filters, s.top, s.dense, s.fused)
<1>1. [s EXCEPT !.collection = name, !.at = "embed"] = next
  <2>. DEFINE read == Call(s.at, name, s.query, s.filters, s.top, s.dense, s.fused)
  <2>1. [s EXCEPT !.collection = name] = read
    BY CollectionChanges DEF SearchHolds, Unfused, IsCall
  <2>2. [read EXCEPT !.at = "embed"] = next
    BY AtChanges
  <2>. HIDE DEF read, next
  <2>. QED
    BY <2>1, <2>2
<1>2. /\ next.at = "embed" /\ next.collection = name /\ next.query = s.query
      /\ next.filters = s.filters /\ next.top = s.top /\ IsCall(next)
  BY DEF Call, IsCall
<1>3. name # "unread"
  BY RetrievalAssumption
<1>. HIDE DEF next
<1>. QED
  BY <1>1, <1>2, <1>3 DEF Continues, SearchHolds, Unfused, Ranking, Steps

\* The dense statement has run.
LEMMA DenseIsRead ==
    ASSUME NEW s, SearchHolds(s), s.at = "dense", NEW rows, Listed(rows, s.filters)
    PROVE  Continues(s, [s EXCEPT !.dense = rows, !.at = "sparse"])
<1>. DEFINE next == Call("sparse", s.collection, s.query, s.filters, s.top, rows, s.fused)
<1>1. [s EXCEPT !.dense = rows, !.at = "sparse"] = next
  <2>. DEFINE read == Call(s.at, s.collection, s.query, s.filters, s.top, rows, s.fused)
  <2>1. [s EXCEPT !.dense = rows] = read
    BY DenseChanges DEF SearchHolds, Unfused, IsCall
  <2>2. [read EXCEPT !.at = "sparse"] = next
    BY AtChanges
  <2>. HIDE DEF read, next
  <2>. QED
    BY <2>1, <2>2
<1>2. /\ next.at = "sparse" /\ next.collection = s.collection /\ next.query = s.query /\ next.dense = rows
      /\ next.filters = s.filters /\ next.top = s.top /\ IsCall(next)
  BY DEF Call, IsCall
<1>. HIDE DEF next
<1>. QED
  BY <1>1, <1>2 DEF Continues, SearchHolds, Unfused, Ranking, Steps

\* Both have, and what they found is fused.
LEMMA FusedIsKept ==
    ASSUME NEW s, SearchHolds(s), s.at = "sparse", NEW fused, Listed(fused, s.filters)
    PROVE  Continues(s, AfterFusion(s, fused))
<1>1. Len(fused) \in Nat /\ s.top \in Nat
  BY DEF Listed, SearchHolds, Unfused
<1>2. CASE Len(fused) <= 1
  <2>. DEFINE next == [at |-> "found", collection |-> s.collection, filters |-> s.filters,
                       hits |-> First(s.top, fused), fused |-> Len(fused)]
  <2>1. Listed(First(s.top, fused), s.filters) /\ Len(First(s.top, fused)) <= Len(fused)
    BY <1>1, FirstListed
  <2>2. Continues(s, next)
    BY <1>1, <2>1 DEF Continues, SearchHolds, Steps, Unfused, Ranking
  <2>. QED
    BY <1>2, <2>2 DEF AfterFusion
<1>3. CASE ~(Len(fused) <= 1)
  <2>. DEFINE next == Call("rerank", s.collection, s.query, s.filters, s.top, <<>>, fused)
  <2>1. [s EXCEPT !.at = "rerank", !.dense = <<>>, !.fused = fused] = next
    <3>. DEFINE ranked == Call("rerank", s.collection, s.query, s.filters, s.top, s.dense, s.fused)
                done   == Call("rerank", s.collection, s.query, s.filters, s.top, <<>>, s.fused)
    <3>1. [s EXCEPT !.at = "rerank"] = ranked
      BY AtChanges DEF SearchHolds, Unfused, IsCall
    <3>2. [ranked EXCEPT !.dense = <<>>] = done
      BY DenseChanges
    <3>3. [done EXCEPT !.fused = fused] = next
      BY FusedChanges
    <3>. HIDE DEF ranked, done, next
    <3>. QED
      BY <3>1, <3>2, <3>3
  <2>2. /\ next.at = "rerank" /\ next.collection = s.collection /\ next.query = s.query /\ next.fused = fused
        /\ next.filters = s.filters /\ next.top = s.top /\ IsCall(next)
    BY DEF Call, IsCall
  <2>3. Continues(s, next)
    <3>. HIDE DEF next
    <3>. QED
      BY <2>2 DEF Continues, SearchHolds, Unfused, Ranking, Steps
  <2>. QED
    BY <1>3, <2>1, <2>3 DEF AfterFusion
<1>. QED
  BY <1>2, <1>3

\* They are in their last order.
LEMMA HitsAreFound ==
    ASSUME NEW s, SearchHolds(s), s.at = "rerank", NEW order, Listed(order, s.filters), Len(order) <= Len(s.fused)
    PROVE  Continues(s, [at |-> "found", collection |-> s.collection, filters |-> s.filters,
                         hits |-> First(s.top, order), fused |-> Len(s.fused)])
<1>1. s.top \in Nat /\ Len(s.fused) \in Nat /\ Len(order) \in Nat
  BY DEF Listed, SearchHolds, Ranking
<1>2. Listed(First(s.top, order), s.filters) /\ Len(First(s.top, order)) <= Len(order)
  BY <1>1, FirstListed
<1>3. Len(First(s.top, order)) \in Nat
  BY <1>2 DEF Listed
<1>. QED
  BY <1>1, <1>2, <1>3 DEF Continues, SearchHolds, Steps, Unfused, Ranking

\* Every step of a search continues it.
LEMMA SearchGoesOn ==
    ASSUME Shapes, status \in [Document -> DocumentStatus], active \in DOMAIN Collection \union {"none"},
           NEW r \in Request, SearchHolds(search[r]), SearchStep(r)
    PROVE  search[r].at \in Unfused \union Ranking /\ Continues(search[r], search'[r])
<1>. DEFINE s == search[r]
<1>1. \A v : search' = [search EXCEPT ![r] = v] => search'[r] = v
  BY DEF Shapes
<1>2. ASSUME NEW why \in Failure, Fail(r, why)
      PROVE  Continues(s, search'[r])
  <2>1. search'[r] = [at |-> "failed", collection |-> s.collection, error |-> why]
    BY <1>1, <1>2 DEF Fail
  <2>. QED
    BY <2>1, SearchesFail
<1>3. ASSUME NEW step \in (Unfused \union Ranking) \ {"collection", "sparse"}, Goto(r, step),
             s.at \in (Unfused \union Ranking) \ {"collection"}, step \in Ranking => s.at \in Ranking
      PROVE  Continues(s, search'[r])
  <2>1. search'[r] = [s EXCEPT !.at = step]
    BY <1>3 DEF Goto, Shapes
  <2>2. s.collection # "unread"
    BY <1>3 DEF SearchHolds, Unfused, Ranking
  <2>. QED
    BY <1>3, <2>1, <2>2, SearchesMove
<1>4. Embed(r) /\ s.at \in Unfused \ {"collection"} => Continues(s, search'[r])
  BY <1>2, <1>3 DEF Embed, Failure, Unfused, Ranking
<1>5. CASE ActiveCollection(r)
  <2>1. s.at = "collection"
    BY <1>5 DEF ActiveCollection, At
  <2>2. CASE Fail(r, "index") \/ Fail(r, "database")
    BY <1>2, <2>1, <2>2 DEF Failure, Unfused
  <2>3. CASE active # "none" /\ search' = [search EXCEPT ![r].collection = active, ![r].at = "embed"]
    <3>1. search'[r] = [s EXCEPT !.collection = active, !.at = "embed"]
      BY <2>3 DEF Shapes
    <3>2. active \in DOMAIN Collection
      BY <2>3
    <3>3. Continues(s, [s EXCEPT !.collection = active, !.at = "embed"])
      BY <2>1, <3>2, CollectionIsRead
    <3>. QED
      BY <2>1, <3>1, <3>3 DEF Unfused
  <2>. QED
    BY <1>5, <2>2, <2>3 DEF ActiveCollection
<1>6. CASE EnsureEmbedder(r) \/ EmbedderLocked(r) \/ EmbedderLoaded(r)
  <2>1. s.at \in Unfused \ {"collection"}
    BY <1>6 DEF EnsureEmbedder, EmbedderLocked, EmbedderLoaded, At, Unfused
  <2>2. Embed(r) \/ Fail(r, "embedding") \/ Goto(r, "waiting embedder") \/ Goto(r, "loading embedder")
    BY <1>6 DEF EnsureEmbedder, EmbedderLocked, EmbedderLoaded
  <2>. QED
    BY <1>2, <1>3, <1>4, <2>1, <2>2 DEF Failure, Unfused, Ranking
<1>7. CASE DenseSearch(r)
  <2>1. s.at = "dense" /\ s.query \in Query
    BY <1>7 DEF DenseSearch, At, SearchHolds, Unfused
  <2>2. CASE Fail(r, "database")
    BY <1>2, <2>1, <2>2 DEF Failure, Unfused
  <2>3. CASE ~Fail(r, "database")
    <3>. DEFINE order == Nearest[s.query]
                 selected == Selected(order, Collection[s.collection].chunks, s.filters)
                 rows == Rows(order, selected, DenseTopK)
    <3>1. search' = [search EXCEPT ![r].dense = rows, ![r].at = "sparse"]
      BY <1>7, <2>3 DEF DenseSearch
    <3>2. Nearest[s.query] \in Seq(Chunk) /\ DenseTopK \in Nat
      BY <2>1, RetrievalAssumption
    <3>3. Listed(rows, s.filters)
      BY <3>2, RowsListed
    <3>. HIDE DEF rows
    <3>4. search'[r] = [s EXCEPT !.dense = rows, !.at = "sparse"]
      BY <3>1 DEF Shapes
    <3>5. Continues(s, [s EXCEPT !.dense = rows, !.at = "sparse"])
      BY <2>1, <3>3, DenseIsRead
    <3>. QED
      BY <2>1, <3>4, <3>5 DEF Unfused
  <2>. QED
    BY <2>2, <2>3
<1>8. CASE SparseSearch(r)
  <2>1. s.at = "sparse" /\ s.query \in Query /\ Listed(s.dense, s.filters)
    BY <1>8 DEF SparseSearch, At, SearchHolds, Unfused
  <2>2. ASSUME NEW sparse, Listed(sparse, s.filters),
               search' = [search EXCEPT ![r] = AfterFusion(s, Fusion(s.dense, sparse))]
        PROVE  Continues(s, search'[r])
    <3>1. Listed(Fusion(s.dense, sparse), s.filters)
      BY <2>1, <2>2, FusionListed
    <3>2. search'[r] = AfterFusion(s, Fusion(s.dense, sparse))
      BY <1>1, <2>2
    <3>. QED
      BY <2>1, <3>1, <3>2, FusedIsKept
  <2>. DEFINE order == Matching[s.query]
               rows == Rows(order, Selected(order, Chunk, s.filters), SparseTopK)
  <2>3. Listed(rows, s.filters) /\ Listed(<<>>, s.filters)
    <3>1. Matching[s.query] \in Seq(Chunk) /\ SparseTopK \in Nat
      BY <2>1, RetrievalAssumption
    <3>. QED
      BY <3>1, RowsListed, NothingListed
  <2>4. \/ search' = [search EXCEPT ![r] = AfterFusion(s, Fusion(s.dense, rows))]
        \/ search' = [search EXCEPT ![r] = AfterFusion(s, Fusion(s.dense, <<>>))]
    BY <1>8 DEF SparseSearch
  <2>. HIDE DEF rows
  <2>. QED
    BY <2>1, <2>2, <2>3, <2>4 DEF Unfused
<1>9. CASE Rerank(r)
  <2>1. s.at = "rerank" /\ s.query \in Query /\ Listed(s.fused, s.filters)
    BY <1>9 DEF Rerank, At, SearchHolds, Ranking
  <2>2. ASSUME NEW order, Listed(order, s.filters), Len(order) <= Len(s.fused), Found(r, order)
        PROVE  Continues(s, search'[r])
    <3>1. search'[r] = [at |-> "found", collection |-> s.collection, filters |-> s.filters,
                        hits |-> First(s.top, order), fused |-> Len(s.fused)]
      BY <1>1, <2>2 DEF Found
    <3>. QED
      BY <2>1, <2>2, <3>1, HitsAreFound
  <2>3. Listed(Reranked(s), s.filters) /\ Len(Reranked(s)) <= Len(s.fused)
    BY <2>1, RerankedListed
  <2>4. Len(s.fused) <= Len(s.fused)
    BY <2>1 DEF Listed
  <2>5. Found(r, Reranked(s)) \/ Found(r, s.fused) \/ Goto(r, "waiting reranker")
    BY <1>9 DEF Rerank
  <2>. QED
    BY <1>3, <2>1, <2>2, <2>3, <2>4, <2>5 DEF Ranking
<1>10. CASE RerankerLocked(r) \/ RerankerLoaded(r)
  <2>1. s.at \in Ranking
    BY <1>10 DEF RerankerLocked, RerankerLoaded, At, Ranking
  <2>2. Goto(r, "loading reranker") \/ Goto(r, "rerank")
    BY <1>10 DEF RerankerLocked, RerankerLoaded
  <2>3. /\ "collection" \notin Ranking /\ {"loading reranker", "rerank"} \subseteq Ranking
        /\ {"loading reranker", "rerank"} \intersect {"collection", "sparse"} = {}
    BY DEF Ranking
  <2>. QED
    BY <1>3, <2>1, <2>2, <2>3
<1>. QED
  BY <1>5, <1>6, <1>7, <1>8, <1>9, <1>10 DEF SearchStep

-----------------------------------------------------------------------------
(* Confidence.  Every factor stays in its range, and an answer that cites   *)
(* nothing cannot make up for it.                                           *)

LEMMA ThousandthsAreBounded ==
    ASSUME NEW whole \in Nat, NEW part \in Nat, part <= whole
    PROVE  Thousandths(part, whole) \in 0..1000
<1>1. CASE whole = 0
  BY <1>1 DEF Thousandths
<1>2. CASE whole # 0
  <2>. DEFINE top == 2 * 1000 * part + whole
              q == top \div (2 * whole)
  <2>1. top \in Nat /\ 2 * whole \in Nat \ {0} /\ top < 1001 * (2 * whole)
    BY <1>2
  <2>2. q \in Nat /\ q * (2 * whole) <= top
    <3>. DEFINE d == 2 * whole
    <3>1. \A m \in Nat, n \in Nat \ {0} : m \div n \in Nat /\ (m \div n) * n <= m
      OBVIOUS
    <3>. HIDE DEF top
    <3>. QED
      BY <2>1, <3>1
  <2>3. q <= 1000
    <3>1. SUFFICES ASSUME q >= 1001
                   PROVE  FALSE
      BY <2>2
    <3>2. \A m, n \in Nat : m >= 1001 => m * n >= 1001 * n
      OBVIOUS
    <3>3. q * (2 * whole) >= 1001 * (2 * whole)
      <4>. HIDE DEF q
      <4>. QED
        BY <2>1, <2>2, <3>1, <3>2
    <3>4. q * (2 * whole) \in Nat
      <4>1. \A m, n \in Nat : m * n \in Nat
        OBVIOUS
      <4>. HIDE DEF q
      <4>. QED
        BY <2>1, <2>2, <4>1
    <3>. HIDE DEF q, top
    <3>. QED
      BY <2>1, <2>2, <3>3, <3>4
  <2>4. Thousandths(part, whole) = q
    BY <1>2 DEF Thousandths
  <2>. HIDE DEF q
  <2>. QED
    BY <2>2, <2>3, <2>4
<1>. QED
  BY <1>1, <1>2

LEMMA CitationFactorIsBounded ==
    ASSUME NEW precision \in 0..1000, NEW uncited \in Nat, NEW cited
    PROVE  CitationFactor(precision, uncited, cited) \in 0..1000
<1>. DEFINE kept == 1000 - 250 * uncited
            factor == IF kept > 300 THEN kept ELSE 300
<1>1. uncited # 0 => factor \in 0..1000
  OBVIOUS
<1>2. \A m, n \in 0..1000 : m * n \in Nat /\ m * n <= 1000000
  <2>1. \A m, n \in 0..1000 : m * n \in Nat /\ m * n <= 1000 * n
    BY SMT
  <2>. QED
    BY <2>1, SMT
<1>. HIDE DEF factor
<1>3. ASSUME uncited # 0
      PROVE  Thousandths(precision * factor, 1000000) \in 0..1000
  <2>. DEFINE part == precision * factor
              whole == 1000000
  <2>1. part \in Nat /\ whole \in Nat /\ part <= whole
    <3>1. factor \in 0..1000
      BY <1>1, <1>3
    <3>. QED
      BY <1>2, <3>1, SMT
  <2>. HIDE DEF part, whole
  <2>2. Thousandths(part, whole) \in 0..1000
    BY <2>1, ThousandthsAreBounded, ZenonT(60)
  <2>. QED
    BY <2>2, SMT DEF part, whole
<1>. QED
  BY <1>3, SMT DEF CitationFactor, factor

LEMMA CurrencyFactorIsBounded ==
    ASSUME NEW hits, IsFiniteSet(hits)
    PROVE  CurrencyFactor(hits) \in 0..1000
<1>. DEFINE current == {h \in hits : Current(h)}
            unknown == {h \in hits : h.status = "unknown"}
<1>1. /\ IsFiniteSet(current) /\ IsFiniteSet(unknown)
      /\ Cardinality(current) \in Nat /\ Cardinality(unknown) \in Nat /\ Cardinality(hits) \in Nat
  BY FS_Subset, FS_CardinalityType
<1>2. current \intersect unknown = {}
  BY DEF Current
<1>3. Cardinality(current \union unknown) = Cardinality(current) + Cardinality(unknown)
  <2>1. Cardinality(current \intersect unknown) = 0
    BY <1>2, FS_EmptySet
  <2>. HIDE DEF current, unknown
  <2>2. Cardinality(current \union unknown)
            = Cardinality(current) + Cardinality(unknown) - Cardinality(current \intersect unknown)
    BY <1>1, FS_Union
  <2>. QED
    BY <1>1, <2>1, <2>2
<1>4. Cardinality(current \union unknown) <= Cardinality(hits)
  <2>1. current \union unknown \subseteq hits
    OBVIOUS
  <2>. HIDE DEF current, unknown
  <2>. QED
    BY <2>1, FS_Subset
<1>5. CurrencyFactor(hits)
        = Thousandths(10 * Cardinality(current) + 4 * Cardinality(unknown), 10 * Cardinality(hits))
  BY DEF CurrencyFactor
<1>. HIDE DEF current, unknown
<1>. DEFINE part == 10 * Cardinality(current) + 4 * Cardinality(unknown)
            whole == 10 * Cardinality(hits)
<1>6. part \in Nat /\ whole \in Nat /\ part <= whole
  BY <1>1, <1>3, <1>4
<1>7. CurrencyFactor(hits) = Thousandths(part, whole)
  BY <1>5
<1>. HIDE DEF part, whole
<1>8. Thousandths(part, whole) \in 0..1000
  BY <1>6, ThousandthsAreBounded, ZenonT(60)
<1>. QED
  BY <1>7, <1>8

LEMMA SourceQualityFactorIsBounded ==
    ASSUME NEW hits \in SUBSET Hit, IsFiniteSet(hits)
    PROVE  SourceQualityFactor(hits) \in 0..1000
<1>. DEFINE ocr == Cardinality({h \in hits : Held[h.chunk].fromOcr})
            w == [h \in hits |-> Extraction(h.chunk)]
            total == SumFunction(w) - 350 * ocr
<1>1. ocr \in Nat /\ Cardinality(hits) \in Nat
  BY FS_Subset, FS_CardinalityType
<1>2. w \in [hits -> 0..1000]
  <2>1. ASSUME NEW h \in hits
        PROVE  Extraction(h.chunk) \in 0..1000
    <3>. DEFINE range == 0..1000
    <3>1. Held[h.chunk].extraction \in range
      <4>1. h.chunk \in Chunk
        BY DEF Hit
      <4>2. Held[h.chunk] \in RetrievedChunk
        BY <4>1, HeldAssumption
      <4>. DEFINE numbers == SUBSET Seq(0..Point)
      <4>3. RetrievedChunk = [document : Document, town : STRING, section : STRING, fromOcr : BOOLEAN,
                              extraction : range, words : Seq(STRING), numbers : numbers,
                              rules : Seq(Rule), topics : SUBSET STRING]
        BY DEF RetrievedChunk
      <4>. HIDE DEF range, numbers
      <4>. QED
        BY <4>2, <4>3
    <3>. QED
      BY <3>1, SMTT(60) DEF Extraction
  <2>. QED
    BY <2>1
<1>. HIDE DEF w, ocr
<1>. DEFINE best == 1000
            whole == best * Cardinality(hits)
<1>3. SumFunction(w) \in 0..whole
  <2>1. w \in [hits -> 0..best] /\ best \in Nat
    BY <1>2
  <2>. HIDE DEF best
  <2>. QED
    BY <2>1, SumIsBounded
<1>4. whole \in Nat
  BY <1>1
<1>5. SourceQualityFactor(hits) = IF total <= 0 THEN 0 ELSE Thousandths(total, whole)
  BY DEF SourceQualityFactor, w, ocr
<1>. HIDE DEF best, whole
<1>6. total \in Int /\ total <= whole
  BY <1>1, <1>3, <1>4
<1>. HIDE DEF total
<1>7. ASSUME total > 0
      PROVE  Thousandths(total, whole) \in 0..1000
  <2>1. total \in Nat
    BY <1>6, <1>7
  <2>. QED
    BY <1>4, <1>6, <2>1, ThousandthsAreBounded, ZenonT(60)
<1>. QED
  BY <1>5, <1>6, <1>7

Share == 0..1000

LEMMA WeightedIsBounded ==
    ASSUME NEW a \in Share, NEW b \in Share, NEW c \in Share, NEW d \in Share, NEW e \in Share,
           NEW f \in Share
    PROVE  /\ Weighted(a, b, c, d, e, f) \in Share
           /\ a = 0 /\ c <= 250 /\ f <= 500 => Weighted(a, b, c, d, e, f) <= 500
<1>. DEFINE sum == 30 * a + 20 * b + 20 * c + 10 * d + 10 * e + 10 * f
<1>1. sum \in Nat /\ sum <= 100000
  BY SMT DEF Share
<1>2. a = 0 /\ c <= 250 /\ f <= 500 => sum <= 50000
  BY SMT DEF Share
<1>3. Weighted(a, b, c, d, e, f) = Thousandths(sum, 100000)
  BY SMT DEF Weighted
<1>. HIDE DEF sum
<1>4. sum <= 50000 => Thousandths(sum, 100000) <= 500
  BY <1>1, SMT DEF Thousandths
<1>. QED
  BY <1>1, <1>2, <1>3, <1>4, ThousandthsAreBounded, SMT DEF Share

-----------------------------------------------------------------------------
(* Results: what a question is answered with *)

LEMMA ConfidenceHolds ==
    ASSUME NEW reply \in Reply, NEW hits \in Seq(Hit), NEW resolved \in BOOLEAN, NEW margin \in Share
    PROVE  /\ Confidence(reply, hits, resolved, margin).score \in Share
           /\ CitedChunks(reply, hits) = {} => Confidence(reply, hits, resolved, margin).band # "high"
<1>. DEFINE all    == ToSet(hits)
            cited  == {h \in all : h.chunk \in CitedChunks(reply, hits)}
            judged == IF cited = {} THEN all ELSE cited
            valid  == Cardinality(ValidClaims(reply, hits))
            a == CitationFactor(Thousandths(valid, Len(reply.claims)), Uncited(reply), cited)
            b == CurrencyFactor(judged)
            c == CorroborationFactor(cited, reply.conflicts)
            d == MarginFactor(all, margin)
            e == SourceQualityFactor(judged)
            f == SpecificityFactor(resolved, cited)
            score == Weighted(a, b, c, d, e, f)
            band  == BandFor(score)
<1>1. IsFiniteSet(all) /\ all \subseteq Hit
  BY MembersAreFinite
<1>2. judged \in SUBSET Hit /\ IsFiniteSet(judged)
  <2>1. cited \subseteq all
    OBVIOUS
  <2>. HIDE DEF all, cited
  <2>. QED
    BY <1>1, <2>1, FS_Subset
<1>3. Len(reply.claims) \in Nat /\ valid \in Nat /\ valid <= Len(reply.claims)
  <2>1. reply.claims \in Seq(Claim)
    BY DEF Reply
  <2>2. IsFiniteSet(DOMAIN reply.claims) /\ Cardinality(DOMAIN reply.claims) = Len(reply.claims)
    BY <2>1, MembersAreFinite
  <2>3. ValidClaims(reply, hits) \subseteq DOMAIN reply.claims
    BY DEF ValidClaims
  <2>. QED
    BY <2>1, <2>2, <2>3, FS_Subset, FS_CardinalityType
<1>4. Uncited(reply) \in Nat
  <2>1. reply.sentences \in Seq(Sentence)
    BY DEF Reply
  <2>2. IsFiniteSet(DOMAIN reply.sentences)
    BY <2>1, MembersAreFinite
  <2>. QED
    BY <2>2, FS_Subset, FS_CardinalityType DEF Uncited
<1>5. a \in Share /\ b \in Share /\ e \in Share
  <2>1. Thousandths(valid, Len(reply.claims)) \in 0..1000
    <3>. HIDE DEF valid
    <3>. QED
      BY <1>3, ThousandthsAreBounded, ZenonT(60)
  <2>. HIDE DEF valid, judged, cited
  <2>2. a \in 0..1000
    BY <1>4, <2>1, CitationFactorIsBounded, ZenonT(60)
  <2>3. b \in 0..1000
    BY <1>2, CurrencyFactorIsBounded
  <2>4. e \in 0..1000
    BY <1>2, SourceQualityFactorIsBounded
  <2>. HIDE DEF a, b, e
  <2>. QED
    BY <2>2, <2>3, <2>4 DEF Share
<1>6. c \in Share /\ d \in Share /\ f \in Share
  <2>1. c \in Share
    BY SMT DEF CorroborationFactor, Share
  <2>2. d \in Share
    <3>1. 500 \in Share
      BY SMT DEF Share
    <3>2. d = 500 \/ d = margin
      <4>. HIDE DEF all
      <4>. QED
        BY DEF MarginFactor
    <3>. HIDE DEF d
    <3>. QED
      BY <3>1, <3>2
  <2>3. f \in Share
    <3>. DEFINE named == \E h \in cited : Held[h.chunk].section # "none"
    <3>1. f = (IF resolved THEN 500 ELSE 0) + (IF named THEN 500 ELSE 0)
      BY DEF SpecificityFactor
    <3>. HIDE DEF f, named
    <3>. QED
      BY <3>1, SMT DEF Share
  <2>. QED
    BY <2>1, <2>2, <2>3
<1>7. score \in Share
  <2>. HIDE DEF a, b, c, d, e, f
  <2>. QED
    BY <1>5, <1>6, WeightedIsBounded
<1>8. cited = {} => score <= 500
  <2>1. SUFFICES ASSUME cited = {}
                 PROVE  score <= 500
    OBVIOUS
  <2>2. a = 0
    BY <2>1 DEF CitationFactor
  <2>3. c <= 250
    <3>1. Cardinality({<<Held[h.chunk].document, Held[h.chunk].section>> :
                          h \in {g \in cited : Held[g.chunk].section # "none"}}) = 0
      BY <2>1, FS_EmptySet
    <3>. HIDE DEF cited
    <3>. QED
      BY <3>1 DEF CorroborationFactor
  <2>4. f <= 500
    BY <2>1 DEF SpecificityFactor
  <2>. HIDE DEF a, b, c, d, e, f
  <2>. QED
    BY <1>5, <1>6, <2>2, <2>3, <2>4, WeightedIsBounded
<1>9. Confidence(reply, hits, resolved, margin)
        = [score |-> score, band |-> IF \E h \in cited : ~Current(h) THEN AtMostLow(band) ELSE band]
  BY DEF Confidence
<1>10. cited = {} => band # "high"
  <2>. HIDE DEF score
  <2>. QED
    BY <1>7, <1>8, SMT DEF BandFor, Share
<1>11. CitedChunks(reply, hits) = {} => cited = {}
  OBVIOUS
<1>. HIDE DEF score, band, cited
<1>. QED
  BY <1>7, <1>9, <1>10, <1>11

\* No two documents speak for the same section of a municipality.
OneVersion(hits) ==
    \A g, h \in ToSet(hits) :
        /\ Held[g.chunk].section # "none"
        /\ Held[g.chunk].section = Held[h.chunk].section
        /\ Held[g.chunk].town = Held[h.chunk].town
        => Held[g.chunk].document = Held[h.chunk].document

\* Citations are of the excerpts and begin with words that stand in them.
Grounded(result) ==
    /\ result.rules => result.citations # {}
    /\ \A c \in result.citations :
          /\ \E h \in ToSet(result.hits) : h.chunk = c.chunk /\ h.status = c.status
          /\ Occurs(First(6, c.quote), Held[c.chunk].words)

ResultHolds(result, towns) ==
    /\ result.outcome \in Outcome /\ result.confidence.score \in Share
    /\ result.outcome = "answered" =>
          /\ \A c \in result.citations :
                c.status = "in_force" /\ (towns # {} => Held[c.chunk].town \in towns)
          /\ OneVersion(result.hits)
    /\ result.confidence.band = "high" => result.citations # {}
    /\ Grounded(result)

\* The beginning of what occurs occurs.
LEMMA BeginningOccurs ==
    ASSUME NEW S, NEW s \in Seq(S), NEW t \in Seq(S), Occurs(s, t), NEW k \in 0..Len(s)
    PROVE  Occurs(SubSeq(s, 1, k), t)
<1>1. PICK i \in 0 .. (Len(t) - Len(s)) : SubSeq(t, i + 1, i + Len(s)) = s
  BY DEF Occurs
<1>2. Len(s) \in Nat /\ Len(t) \in Nat /\ i + Len(s) <= Len(t) /\ k <= Len(s) /\ i \in Nat /\ k \in Nat
  OBVIOUS
<1>3. Len(SubSeq(s, 1, k)) = k
  BY <1>2
<1>4. i \in 0 .. (Len(t) - k)
  BY <1>2
<1>5. ASSUME NEW j \in 1..Len(s)
      PROVE  s[j] = t[i + j]
  <2>1. SubSeq(t, i + 1, i + Len(s))[j] = t[(i + 1) + j - 1]
    BY <1>2
  <2>. QED
    BY <1>1, <1>2, <2>1
<1>6. SubSeq(t, i + 1, i + k) = SubSeq(s, 1, k)
  <2>1. SubSeq(t, i + 1, i + k) = [j \in 1..k |-> t[i + j]]
    BY <1>2
  <2>2. SubSeq(s, 1, k) = [j \in 1..k |-> s[j]]
    BY <1>2
  <2>. QED
    BY <1>2, <1>5, <2>1, <2>2
<1>. QED
  BY <1>3, <1>4, <1>6 DEF Occurs

LEMMA FirstOccurs ==
    ASSUME NEW S, NEW s \in Seq(S), NEW t \in Seq(S), Occurs(s, t)
    PROVE  Occurs(First(6, s), t)
<1>. DEFINE k == IF 6 < Len(s) THEN 6 ELSE Len(s)
<1>1. k \in 0..Len(s)
  OBVIOUS
<1>. QED
  BY <1>1, BeginningOccurs DEF First

LEMMA WordsAreWords ==
    ASSUME NEW c \in Chunk
    PROVE  Held[c].words \in Seq(STRING)
<1>1. Held[c] \in RetrievedChunk
  BY HeldAssumption
<1>. DEFINE extraction == 0..1000
            numbers == SUBSET Seq(0..Point)
            rules == Seq(Rule)
<1>2. RetrievedChunk = [document : Document, town : STRING, section : STRING, fromOcr : BOOLEAN,
                        extraction : extraction, words : Seq(STRING), numbers : numbers,
                        rules : rules, topics : SUBSET STRING]
  BY DEF RetrievedChunk
<1>. HIDE DEF extraction, numbers, rules
<1>. QED
  BY <1>1, <1>2

\* A verified quotation begins with words of the text, and so does a text.
LEMMA QuotesBegin ==
    ASSUME NEW quote \in Seq(STRING), NEW body \in Seq(STRING), QuoteAppearsIn(quote, body)
    PROVE  Occurs(First(6, quote), body)
<1>1. CASE Occurs(quote, body)
  BY <1>1, FirstOccurs
<1>2. CASE ~Occurs(quote, body)
  <2>. DEFINE window == IF (Len(quote) * 2) \div 3 > 6 THEN (Len(quote) * 2) \div 3 ELSE 6
              most == SubSeq(quote, 1, window)
  <2>1. Len(quote) >= 8 /\ Occurs(most, body)
    BY <1>2 DEF QuoteAppearsIn
  <2>2. window \in Nat /\ window >= 6 /\ window <= Len(quote)
    BY <2>1
  <2>. HIDE DEF window
  <2>3. most \in Seq(STRING) /\ Len(most) = window /\ \A j \in 1..window : most[j] = quote[j]
    BY <2>2
  <2>4. Occurs(SubSeq(most, 1, 6), body)
    <3>. HIDE DEF most
    <3>1. 6 \in 0..Len(most)
      BY <2>2, <2>3
    <3>. QED
      BY <2>1, <2>3, <3>1, BeginningOccurs
  <2>5. SubSeq(most, 1, 6) = SubSeq(quote, 1, 6)
    <3>1. SubSeq(quote, 1, 6) = [j \in 1..6 |-> quote[j]]
      BY <2>1
    <3>. HIDE DEF most
    <3>2. SubSeq(most, 1, 6) = [j \in 1..6 |-> most[j]]
      BY <2>2, <2>3
    <3>3. \A j \in 1..6 : most[j] = quote[j]
      BY <2>2, <2>3
    <3>. QED
      BY <3>1, <3>2, <3>3
  <2>. HIDE DEF most
  <2>6. First(6, quote) = SubSeq(quote, 1, 6)
    BY <2>1 DEF First
  <2>. QED
    BY <2>4, <2>5, <2>6
<1>. QED
  BY <1>1, <1>2

LEMMA WordsBegin ==
    ASSUME NEW body \in Seq(STRING)
    PROVE  Occurs(First(6, body), body)
<1>1. SubSeq(body, 0 + 1, 0 + Len(body)) = body
  OBVIOUS
<1>2. 0 \in 0 .. (Len(body) - Len(body))
  OBVIOUS
<1>3. Occurs(body, body)
  BY <1>1, <1>2 DEF Occurs
<1>. QED
  BY <1>3, FirstOccurs

\* The citations of a verified claim are grounded.
LEMMA CitationsAreGrounded ==
    ASSUME NEW reply \in Reply, NEW hits \in Seq(Hit), NEW c \in CitationsOf(reply, hits)
    PROVE  /\ \E h \in ToSet(hits) : h.chunk = c.chunk /\ h.status = c.status
           /\ Occurs(First(6, c.quote), Held[c.chunk].words)
<1>1. PICK i \in ValidClaims(reply, hits) :
          c = [chunk |-> hits[reply.claims[i].source].chunk, status |-> hits[reply.claims[i].source].status,
               quote |-> reply.claims[i].quote]
  BY DEF CitationsOf
<1>. DEFINE claim == reply.claims[i]
            h == hits[claim.source]
<1>2. i \in DOMAIN reply.claims /\ claim.source \in DOMAIN hits /\ QuoteAppearsIn(claim.quote, Held[h.chunk].words)
  BY DEF ValidClaims, IsValid
<1>3. claim.quote \in Seq(STRING)
  <2>1. reply.claims \in Seq(Claim)
    <3>. DEFINE finishes == {"stop", "length"}
                sentences == Seq(Sentence)
                claims == Seq(Claim)
    <3>1. Reply = [finish : finishes, parses : BOOLEAN, answered : BOOLEAN, conflicts : BOOLEAN,
                   sentences : sentences, claims : claims]
      BY DEF Reply
    <3>. HIDE DEF finishes, sentences, claims
    <3>2. reply.claims \in claims
      BY <3>1
    <3>. QED
      BY <3>2 DEF claims
  <2>2. claim \in Claim
    BY <1>2, <2>1
  <2>. HIDE DEF claim
  <2>. DEFINE quotes == Seq(STRING)
  <2>3. Claim = [source : Nat, quote : quotes]
    BY DEF Claim
  <2>. HIDE DEF quotes
  <2>4. claim.quote \in quotes
    BY <2>2, <2>3
  <2>. QED
    BY <2>4 DEF quotes
<1>4. h \in ToSet(hits) /\ h \in Hit
  BY <1>2 DEF ToSet
<1>5. c.chunk = h.chunk /\ c.status = h.status /\ c.quote = claim.quote
  BY <1>1
<1>. HIDE DEF claim, h
<1>6. Held[h.chunk].words \in Seq(STRING)
  BY <1>4, WordsAreWords DEF Hit
<1>7. Occurs(First(6, claim.quote), Held[h.chunk].words)
  BY <1>2, <1>3, <1>6, QuotesBegin
<1>. QED
  BY <1>4, <1>5, <1>7

\* What survived verification states no rule without a citation.
LEMMA SynthesisIsGrounded ==
    ASSUME NEW reply, NEW hits, IsSynthesis(reply, hits), AssertsRules(reply)
    PROVE  CitationsOf(reply, hits) # {}
<1>1. Cardinality({}) = 0
  BY FS_EmptySet
<1>2. ValidClaims(reply, hits) # {}
  BY <1>1 DEF IsSynthesis, ShouldAbstain
<1>. QED
  BY <1>2 DEF CitationsOf

\* The conflict check leaves one version, of hits that are all in force.
LEMMA NoConflictLeavesOneVersion ==
    ASSUME NEW hits, \A h \in ToSet(hits) : h.status = "in_force", DetectConflicts(hits) = {}
    PROVE  OneVersion(hits)
<1>. SUFFICES ASSUME NEW g \in ToSet(hits), NEW h \in ToSet(hits),
                     Held[g.chunk].section # "none",
                     Held[g.chunk].section = Held[h.chunk].section,
                     Held[g.chunk].town = Held[h.chunk].town,
                     Held[g.chunk].document # Held[h.chunk].document
              PROVE  FALSE
  BY DEF OneVersion
<1>. DEFINE current == {x \in ToSet(hits) : Current(x) /\ Held[x.chunk].section # "none"}
            place(x) == <<Held[x.chunk].town, Held[x.chunk].section>>
<1>1. g \in current /\ h \in current /\ place(h) = place(g)
  BY DEF Current
<1>2. place(g) \in DetectConflicts(hits)
  BY <1>1 DEF DetectConflicts
<1>. QED
  BY <1>2

LEMMA SimpleHolds ==
    ASSUME NEW outcome \in Outcome \ {"answered"}, NEW hits, NEW towns
    PROVE  ResultHolds(Simple(outcome, hits), towns)
<1>1. /\ Simple(outcome, hits).outcome = outcome /\ ~Simple(outcome, hits).rules
      /\ Simple(outcome, hits).confidence = NoConfidence /\ Simple(outcome, hits).citations = {}
  BY DEF Simple
<1>2. 0 \in Share
  BY SMT DEF Share
<1>. QED
  BY <1>1, <1>2 DEF ResultHolds, Grounded, NoConfidence

\* The excerpts themselves are quoted.
LEMMA QuotingHolds ==
    ASSUME NEW hits \in Seq(Hit), NEW towns
    PROVE  ResultHolds(GenerationDown(hits), towns)
<1>. DEFINE simple == Simple("generation_unavailable", hits)
            quoting(h) == [chunk |-> h.chunk, status |-> h.status, quote |-> Held[h.chunk].words]
            listed == {quoting(h) : h \in ToSet(First(5, hits))}
            down == [simple EXCEPT !.citations = listed]
<1>1. GenerationDown(hits) = down
  BY DEF GenerationDown
<1>2. /\ simple.outcome = "generation_unavailable" /\ ~simple.rules /\ simple.confidence = NoConfidence
      /\ simple.hits = hits
      /\ DOMAIN simple = {"outcome", "hits", "citations", "rules", "confidence"}
  BY DEF Simple
<1>3. ToSet(First(5, hits)) \subseteq ToSet(hits)
  BY BeginningOf DEF First
<1>4. ASSUME NEW c \in listed
      PROVE  /\ \E h \in ToSet(hits) : h.chunk = c.chunk /\ h.status = c.status
             /\ Occurs(First(6, c.quote), Held[c.chunk].words)
  <2>1. PICK h \in ToSet(First(5, hits)) : c = quoting(h)
    OBVIOUS
  <2>2. h \in ToSet(hits)
    BY <1>3
  <2>3. h.chunk \in Chunk
    <3>1. \A i \in DOMAIN hits : hits[i] \in Hit
      OBVIOUS
    <3>2. h \in Hit
      BY <2>2, <3>1 DEF ToSet
    <3>. QED
      BY <3>2 DEF Hit
  <2>4. c.chunk = h.chunk /\ c.status = h.status /\ c.quote = Held[h.chunk].words
    BY <2>1
  <2>5. Occurs(First(6, Held[h.chunk].words), Held[h.chunk].words)
    BY <2>3, WordsAreWords, WordsBegin
  <2>. HIDE DEF listed
  <2>. QED
    BY <2>2, <2>4, <2>5
<1>. HIDE DEF simple, listed
<1>5. /\ down.outcome = "generation_unavailable" /\ ~down.rules /\ down.confidence = NoConfidence
      /\ down.hits = hits /\ down.citations = listed
  BY <1>2
<1>6. 0 \in Share
  BY SMT DEF Share
<1>. HIDE DEF down
<1>7. Grounded(down)
  BY <1>4, <1>5 DEF Grounded
<1>8. ResultHolds(down, towns)
  BY <1>5, <1>6, <1>7 DEF ResultHolds, NoConfidence, Outcome
<1>. QED
  BY <1>1, <1>8

\* What the model made of excerpts in force that do not conflict.
LEMMA SynthesisHolds ==
    ASSUME NEW hits \in Seq(Hit), NEW towns, DetectConflicts(hits) = {},
           \A h \in ToSet(hits) : h.status = "in_force" /\ (towns # {} => Held[h.chunk].town \in towns),
           NEW reply \in Replies, NEW margin \in Margins, NEW resolved \in BOOLEAN
    PROVE  ResultHolds(Result(IF IsSynthesis(reply, hits) THEN "answered" ELSE "unverified",
                              hits, reply, margin, resolved), towns)
<1>1. reply \in Reply /\ margin \in Share
  BY AnsweringAssumption DEF Share
<1>2. 0 \in Share
  BY SMT DEF Share
<1>3. CASE ~IsSynthesis(reply, hits)
  <2>. DEFINE result == Result("unverified", hits, reply, margin, resolved)
  <2>1. /\ result.outcome = "unverified" /\ ~result.rules /\ result.confidence = NoConfidence
        /\ result.citations = {}
    BY DEF Result
  <2>. HIDE DEF result
  <2>2. ResultHolds(result, towns)
    BY <1>2, <2>1 DEF ResultHolds, Grounded, NoConfidence, Outcome
  <2>. QED
    BY <1>3, <2>2 DEF result
<1>4. CASE IsSynthesis(reply, hits)
  <2>. DEFINE citations == CitationsOf(reply, hits)
              confidence == Confidence(reply, hits, resolved, margin)
              rules == AssertsRules(reply)
              result == Result("answered", hits, reply, margin, resolved)
  <2>1. /\ result.outcome = "answered" /\ result.hits = hits /\ result.citations = citations
        /\ result.rules <=> rules
        /\ result.confidence = confidence
    BY DEF Result
  <2>2. confidence.score \in Share /\ (CitedChunks(reply, hits) = {} => confidence.band # "high")
    BY <1>1, ConfidenceHolds
  <2>3. citations = {} => CitedChunks(reply, hits) = {}
    BY DEF CitationsOf, CitedChunks
  <2>4. ASSUME NEW c \in citations
        PROVE  c.status = "in_force" /\ (towns # {} => Held[c.chunk].town \in towns)
    <3>1. PICK i \in ValidClaims(reply, hits) :
              c = [chunk |-> hits[reply.claims[i].source].chunk, status |-> hits[reply.claims[i].source].status,
                   quote |-> reply.claims[i].quote]
      BY DEF CitationsOf
    <3>. DEFINE h == hits[reply.claims[i].source]
    <3>2. h \in ToSet(hits)
      BY DEF ValidClaims, IsValid, ToSet
    <3>3. c.chunk = h.chunk /\ c.status = h.status
      BY <3>1
    <3>. HIDE DEF h
    <3>. QED
      BY <3>2, <3>3
  <2>5. OneVersion(hits)
    BY NoConflictLeavesOneVersion
  <2>6. /\ rules => citations # {}
        /\ \A c \in citations : /\ \E h \in ToSet(hits) : h.chunk = c.chunk /\ h.status = c.status
                               /\ Occurs(First(6, c.quote), Held[c.chunk].words)
    BY <1>1, <1>4, SynthesisIsGrounded, CitationsAreGrounded
  <2>. HIDE DEF citations, confidence, rules, result
  <2>7. Grounded(result)
    BY <2>1, <2>6 DEF Grounded
  <2>8. ResultHolds(result, towns)
    BY <2>1, <2>2, <2>3, <2>4, <2>5, <2>7 DEF ResultHolds, Outcome
  <2>. QED
    BY <1>4, <2>8 DEF result
<1>. QED
  BY <1>3, <1>4

-----------------------------------------------------------------------------
(* Checks, comparisons and checklists: what an entry of a report rests on   *)

Unit == {"m2", "m", "ft2", "ft", "%"}

LEMMA LimitsHaveUnits ==
    ASSUME NEW c \in Chunk, NEW units, NEW l \in ExtractLimit(Held[c].rules, units)
    PROVE  l.unit \in Unit /\ l.ratio \in BOOLEAN
<1>. DEFINE rules == Held[c].rules
<1>1. rules \in Seq(Rule)
  <2>1. Held[c] \in RetrievedChunk
    BY HeldAssumption
  <2>. DEFINE extraction == 0..1000
              numbers == SUBSET Seq(0..Point)
  <2>2. RetrievedChunk = [document : Document, town : STRING, section : STRING, fromOcr : BOOLEAN,
                          extraction : extraction, words : Seq(STRING), numbers : numbers,
                          rules : Seq(Rule), topics : SUBSET STRING]
    BY DEF RetrievedChunk
  <2>. HIDE DEF extraction, numbers
  <2>. QED
    BY <2>1, <2>2
<1>2. \E i \in DOMAIN rules : l \in Yield(rules[i], units)
  BY DEF ExtractLimit, FirstOf
<1>. HIDE DEF rules
<1>3. PICK i \in DOMAIN rules : l \in Yield(rules[i], units)
  BY <1>2
<1>4. rules[i].ratio \in SUBSET Limit /\ rules[i].maximum \in SUBSET Limit
  <2>1. rules[i] \in Rule
    BY <1>1
  <2>. QED
    BY <2>1 DEF Rule
<1>5. \E k \in Limit : \E ratio \in BOOLEAN : l = [value |-> k.value, unit |-> k.unit, ratio |-> ratio]
  BY <1>3, <1>4 DEF Yield, Acceptable
<1>. QED
  BY <1>5 DEF Limit, Unit

\* A limit is read from a hit.
LEMMA LimitsAreRead ==
    ASSUME NEW hits \in Seq(Hit), NEW units, NEW m \in Measured(hits, units)
    PROVE  /\ m.limit.unit \in Unit /\ m.limit.ratio \in BOOLEAN
           /\ \E h \in ToSet(hits) : m.chunk = h.chunk
<1>. DEFINE limits(i) == ExtractLimit(Held[hits[i].chunk].rules, units)
<1>1. \E i \in DOMAIN hits : \E l \in limits(i) : m = [chunk |-> hits[i].chunk, limit |-> l]
  BY DEF Measured, FirstOf
<1>2. PICK i \in DOMAIN hits : \E l \in limits(i) : m = [chunk |-> hits[i].chunk, limit |-> l]
  BY <1>1
<1>3. PICK l \in limits(i) : m = [chunk |-> hits[i].chunk, limit |-> l]
  BY <1>2
<1>4. hits[i] \in ToSet(hits) /\ hits[i].chunk \in Chunk
  <2>1. hits[i] \in ToSet(hits)
    BY DEF ToSet
  <2>2. hits[i] \in Hit
    OBVIOUS
  <2>. QED
    BY <2>1, <2>2 DEF Hit
<1>5. l.unit \in Unit /\ l.ratio \in BOOLEAN
  BY <1>3, <1>4, LimitsHaveUnits
<1>. QED
  BY <1>3, <1>4, <1>5

\* What a check says of a municipality stands in its own bylaw.
CheckHolds(c, excludeOcr) ==
    /\ c.outcome \in {"complies", "exceeds", "insufficient_information"}
    /\ c.outcome = "complies" => c.measured # {}
    /\ \A m \in c.measured : /\ m.limit.unit \in Unit /\ m.limit.ratio \in BOOLEAN
                             /\ Held[m.chunk].town = c.town
                             /\ excludeOcr => ~Held[m.chunk].fromOcr

LEMMA ChecksHold ==
    ASSUME NEW task, NEW hits, Listed(hits, TaskFilters(task))
    PROVE  /\ CheckHolds(CheckOf(task, hits), task.excludeOcr)
           /\ CheckOf(task, hits).dimension = task.location.dimension
           /\ CheckOf(task, hits).town = task.town
<1>. DEFINE measured == Measured(hits, task.location.units)
            limits == UNION {LimitFor(m.limit, task.spec.frontage) : m \in measured}
            check(outcome) == [dimension |-> task.location.dimension, town |-> task.town, row |-> task.row,
                               outcome |-> outcome, limits |-> limits, measured |-> measured]
<1>1. ASSUME NEW m \in measured
      PROVE  /\ m.limit.unit \in Unit /\ m.limit.ratio \in BOOLEAN
             /\ Held[m.chunk].town = task.town
             /\ task.excludeOcr => ~Held[m.chunk].fromOcr
  <2>1. hits \in Seq(Hit) /\ \A h \in ToSet(hits) : Fits(h, TaskFilters(task))
    BY DEF Listed
  <2>2. m.limit.unit \in Unit /\ m.limit.ratio \in BOOLEAN
    BY <2>1, LimitsAreRead
  <2>3. PICK h \in ToSet(hits) : m.chunk = h.chunk
    BY <2>1, LimitsAreRead
  <2>4. Fits(h, TaskFilters(task))
    BY <2>1
  <2>. QED
    BY <2>2, <2>3, <2>4 DEF Fits, TaskFilters
<1>2. limits # {} => measured # {}
  OBVIOUS
<1>3. \/ limits = {} /\ CheckOf(task, hits) = check("insufficient_information")
      \/ limits # {} /\ CheckOf(task, hits) \in {check("complies"), check("exceeds")}
  BY DEF CheckOf
<1>. HIDE DEF limits, measured
<1>4. \A outcome : /\ check(outcome).outcome = outcome /\ check(outcome).measured = measured
                   /\ check(outcome).town = task.town /\ check(outcome).dimension = task.location.dimension
  OBVIOUS
<1>. HIDE DEF check
<1>. QED
  BY <1>1, <1>2, <1>3, <1>4 DEF CheckHolds

\* And what a checklist quotes.
LEMMA ItemsHold ==
    ASSUME NEW task, NEW hits, Listed(hits, TaskFilters(task))
    PROVE  \A c \in ItemOf(task, hits).evidence : Held[c].town = task.town
<1>1. ASSUME NEW c \in ItemOf(task, hits).evidence
      PROVE  \E i \in DOMAIN hits : c = hits[i].chunk
  BY DEF ItemOf, FirstOf
<1>2. \A i \in DOMAIN hits : hits[i] \in ToSet(hits)
  BY DEF ToSet
<1>3. \A h \in ToSet(hits) : Held[h.chunk].town = task.town
  BY DEF Listed, Fits, TaskFilters
<1>. QED
  BY <1>1, <1>2, <1>3


-----------------------------------------------------------------------------
(* Requests.  What a handler holds between two of its steps: a question is  *)
(* searched for under its own filters, the model is asked only about hits   *)
(* that do not conflict, what is to be recorded is already what holds of an *)
(* answer; and of the searches of a check, a comparison or a checklist each *)
(* is still to be made or has its entry among what was done.                *)

AskWaits(filters, step, held, s) ==
    /\ step \in {"retrieving", "generating"} /\ s.at \notin {"idle", "failed"} => s.filters = filters
    /\ step = "generating" =>
          s.at = "found" /\ DetectConflicts(s.hits) = {} /\ held.attempts \in 0..MaxRetries
    /\ step = "recording" => ResultHolds(held, filters.towns)
    /\ step = "closing" => ResultHolds(held.result, filters.towns) /\ held.recorded \in BOOLEAN

AskHolds(filters, step, held, answer, s) ==
    /\ AskWaits(filters, step, held, s)
    /\ answer.code = 200 => ResultHolds(answer, filters.towns)

Tasks(input) == ToSet(SearchesFor(input))

EntryHolds(input, task, entry) ==
    IF input.kind = "permits"
    THEN \A c \in entry.evidence : Held[c].town = task.town
    ELSE /\ CheckHolds(entry, task.excludeOcr)
         /\ entry.dimension = task.location.dimension /\ entry.town = task.town

DoneHolds(input, todo, done) ==
    /\ todo \in Seq(Tasks(input)) /\ done \in Seq(ToSet(done))
    /\ \A e \in ToSet(done) : \E t \in Tasks(input) : EntryHolds(input, t, e)
    /\ \A t \in Tasks(input) : t \in ToSet(todo) \/ \E e \in ToSet(done) : EntryHolds(input, t, e)

PassHolds(input, report) ==
    report.outcome = "complies" =>
        \A l \in LocationsFor(input.sign) :
            l.dimension \in DOMAIN input.proposed =>
                \E c \in ToSet(report.checks) :
                    /\ c.dimension = l.dimension /\ c.outcome = "complies" /\ c.measured # {}
                    /\ \A m \in c.measured : Held[m.chunk].town = input.town /\ ~Held[m.chunk].fromOcr

RowHolds(row) ==
    /\ \A i \in DOMAIN row.sides : \A m \in row.sides[i].measured : Held[m.chunk].town = row.sides[i].town
    /\ row.comparable =>
          \A i, j \in DOMAIN row.sides : \A m \in row.sides[i].measured, n \in row.sides[j].measured :
              m.limit.unit = n.limit.unit /\ m.limit.ratio = n.limit.ratio

ReportHolds(input, report) ==
    /\ input.kind = "check" => PassHolds(input, report)
    /\ input.kind = "compare" => \A row \in report.rows : RowHolds(row)
    /\ input.kind = "permits" =>
          \A item \in ToSet(report.items) : \A c \in item.evidence : Held[c].town = input.town

DeskWaits(input, step, held, s) ==
    step = "searching" => /\ input.sign \in SignType /\ held.todo # <<>>
                          /\ DoneHolds(input, held.todo, held.done)
                          /\ s.at \notin {"idle", "failed"} => s.filters = TaskFilters(held.todo[1])

DeskHolds(input, step, held, answer, s) ==
    /\ DeskWaits(input, step, held, s)
    /\ answer.code = 200 => ReportHolds(input, answer)

AskPhases == {"retrieving", "probing", "generating", "recording", "closing"}

ZonePhases == {"configuring", "reading", "asking", "storing"}

\* Where a request of a kind may be.
PhasesOf(kind) ==
    {"received", "ended"}
    \union (IF kind = "ask" THEN AskPhases ELSE IF kind = "zone" THEN ZonePhases
             ELSE IF kind \in DeskKinds THEN {"searching"} ELSE {})

RequestHolds(input, filters, step, held, answer, s) ==
    /\ SearchHolds(s)
    /\ step \in PhasesOf(input.kind) /\ answer.code \in {0, 200, 400, 404, 500, 503}
    /\ input.kind = "ask" => AskHolds(filters, step, held, answer, s)
    /\ input.kind \in DeskKinds => DeskHolds(input, step, held, answer, s)

RequestsHold ==
    /\ status \in [Document -> DocumentStatus] /\ active \in DOMAIN Collection \union {"none"}
    /\ \A r \in Request :
          /\ IsInput(asked[r])
          /\ RequestHolds(asked[r], FiltersFor(r), phase[r], work[r], response[r], search[r])


-----------------------------------------------------------------------------
(* The searches of a check, a comparison and a checklist *)

TaskHolds(input, task) ==
    /\ task.query \in Query /\ task.top \in Nat \ {0} /\ task.excludeOcr \in BOOLEAN
    /\ input.kind = "check" => task.excludeOcr /\ task.town = input.town
    /\ input.kind = "permits" => task.town = input.town

LEMMA HasItsMembers ==
    ASSUME NEW n \in Nat, NEW s, s = [i \in 1..n |-> s[i]]
    PROVE  s \in Seq(ToSet(s)) /\ DOMAIN s = 1..n /\ Len(s) = n
<1>1. s \in [1..n -> ToSet(s)]
  BY DEF ToSet
<1>. QED
  BY <1>1

\* The searches of one check: in its municipality, without OCR, and one for
\* every location of a dimension that is proposed.
LEMMA CheckSearches ==
    ASSUME NEW spec, NEW row
    PROVE  LET s == SearchesOf(spec, row)
           IN  /\ s \in Seq(ToSet(s))
               /\ \A t \in ToSet(s) : /\ t.query \in Query /\ t.top \in Nat \ {0} /\ t.excludeOcr = TRUE
                                      /\ t.town = spec.town
               /\ \A l \in LocationsFor(spec.sign) :
                     l.dimension \in DOMAIN spec.proposed => \E t \in ToSet(s) : t.location = l
<1>. DEFINE wanted(l) == l \in LocationsFor(spec.sign) /\ l.dimension \in DOMAIN spec.proposed
            places == {i \in DOMAIN RuleLocations : wanted(RuleLocations[i])}
            located == Subsequence(RuleLocations, places)
            task(l) == [query |-> l.query, town |-> spec.town, excludeOcr |-> TRUE, top |-> CheckTopN,
                        spec |-> spec, location |-> l, row |-> row]
            Location == [sign : SignType, dimension : STRING, query : Query, units : SUBSET STRING]
            s == [i \in DOMAIN located |-> task(located[i])]
<1>1. SearchesOf(spec, row) = s
  BY DEF SearchesOf
<1>2. RuleLocations \in Seq(Location) /\ CheckTopN \in Nat \ {0}
  BY RulesAssumption
<1>3. located \in Seq(Location) /\ ToSet(located) = {RuleLocations[i] : i \in places}
  <2>. places \in SUBSET DOMAIN RuleLocations
    OBVIOUS
  <2>. HIDE DEF places, Location
  <2>. QED
    BY <1>2, SubsequenceOf
<1>4. \A l : /\ task(l).query = l.query /\ task(l).town = spec.town /\ task(l).excludeOcr = TRUE
             /\ task(l).top = CheckTopN /\ task(l).location = l
  OBVIOUS
<1>5. \A l \in Location : l.query \in Query
  OBVIOUS
<1>6. \A l \in LocationsFor(spec.sign) : l.dimension \in DOMAIN spec.proposed => l \in ToSet(located)
  <2>1. ASSUME NEW l \in LocationsFor(spec.sign), l.dimension \in DOMAIN spec.proposed
        PROVE  l \in {RuleLocations[i] : i \in places}
    <3>1. PICK i \in DOMAIN RuleLocations : l = RuleLocations[i]
      BY DEF LocationsFor, ToSet
    <3>. QED
      BY <2>1, <3>1
  <2>. QED
    BY <1>3, <2>1
<1>. HIDE DEF located, task, Location
<1>7. Len(located) \in Nat /\ DOMAIN located = 1..Len(located) /\ \A i \in DOMAIN located : located[i] \in Location
  BY <1>3
<1>8. s \in Seq(ToSet(s))
  <2>1. s = [i \in 1..Len(located) |-> s[i]]
    BY <1>7
  <2>. HIDE DEF s
  <2>. QED
    BY <1>7, <2>1, HasItsMembers
<1>9. ToSet(s) = {task(l) : l \in ToSet(located)}
  BY DEF ToSet
<1>10. \A l \in ToSet(located) : l \in Location
  BY <1>7 DEF ToSet
<1>. HIDE DEF s
<1>11. ASSUME NEW t \in ToSet(s)
       PROVE  /\ t.query \in Query /\ t.top \in Nat \ {0} /\ t.excludeOcr = TRUE
              /\ t.town = spec.town
  <2>1. PICK l \in ToSet(located) : t = task(l)
    BY <1>9
  <2>. QED
    BY <1>2, <1>4, <1>5, <1>10, <2>1
<1>12. ASSUME NEW l \in LocationsFor(spec.sign), l.dimension \in DOMAIN spec.proposed
       PROVE  \E t \in ToSet(s) : t.location = l
  <2>1. task(l) \in ToSet(s)
    BY <1>6, <1>9, <1>12
  <2>. QED
    BY <1>4, <2>1
<1>. QED
  BY <1>1, <1>8, <1>11, <1>12

\* A comparison makes such checks only.
LEMMA ComparisonTasks ==
    ASSUME NEW sign, NEW towns \in Seq(STRING)
    PROVE  LET s == ComparisonSearches(sign, towns)
           IN  /\ s \in Seq(ToSet(s))
               /\ \A t \in ToSet(s) : t.query \in Query /\ t.top \in Nat \ {0} /\ t.excludeOcr = TRUE
<1>. DEFINE dimensions == ComparedDimensions(sign)
            check(d, i) == SearchesOf(Probe(sign, towns[i]), d)
            row(d) == FlattenSeq([i \in DOMAIN towns |-> check(d, i)])
            T(d) == UNION {ToSet(check(d, i)) : i \in DOMAIN towns}
            rows == [j \in DOMAIN dimensions |-> row(dimensions[j])]
            All == UNION {T(dimensions[j]) : j \in DOMAIN dimensions}
<1>1. Len(dimensions) \in Nat /\ DOMAIN dimensions = 1..Len(dimensions)
  <2>. DEFINE names == [i \in DOMAIN RuleLocations |-> RuleLocations[i].dimension]
              of(d) == {i \in DOMAIN RuleLocations : RuleLocations[i].sign = sign /\ RuleLocations[i].dimension = d}
              places == UNION {FirstOf(of(d)) : d \in Measurable}
  <2>1. names \in Seq(ToSet(names)) /\ DOMAIN names = DOMAIN RuleLocations
    <3>1. Len(RuleLocations) \in Nat /\ DOMAIN RuleLocations = 1..Len(RuleLocations)
      BY RulesAssumption
    <3>2. names = [i \in 1..Len(RuleLocations) |-> names[i]]
      BY <3>1
    <3>. HIDE DEF names
    <3>. QED
      BY <3>1, <3>2, HasItsMembers
  <2>2. places \in SUBSET DOMAIN names
    BY DEF FirstOf
  <2>3. dimensions = Subsequence(names, places)
    BY DEF ComparedDimensions
  <2>. HIDE DEF names, places, dimensions
  <2>4. dimensions \in Seq(ToSet(names))
    BY <2>1, <2>2, <2>3, SubsequenceOf
  <2>. QED
    BY <2>4
<1>2. \A d, i : /\ check(d, i) \in Seq(ToSet(check(d, i)))
                /\ \A t \in ToSet(check(d, i)) : t.query \in Query /\ t.top \in Nat \ {0} /\ t.excludeOcr = TRUE
  BY CheckSearches
<1>. HIDE DEF check
<1>3. \A S, U, s : s \in Seq(S) /\ S \subseteq U => s \in Seq(U)
  OBVIOUS
<1>4. ASSUME NEW d
      PROVE  row(d) \in Seq(T(d))
  <2>. DEFINE checks == [i \in DOMAIN towns |-> check(d, i)]
  <2>1. checks \in Seq(Seq(T(d)))
    <3>1. \A i \in DOMAIN towns : check(d, i) \in Seq(T(d))
      <4>1. \A i \in DOMAIN towns : ToSet(check(d, i)) \subseteq T(d)
        OBVIOUS
      <4>. HIDE DEF T
      <4>. QED
        BY <1>2, <1>3, <4>1
    <3>. HIDE DEF T
    <3>. QED
      BY <3>1
  <2>. HIDE DEF T, checks
  <2>2. FlattenSeq(checks) \in Seq(T(d))
    BY <2>1, FlattenedHolds
  <2>. QED
    BY <2>2 DEF checks
<1>. HIDE DEF row
<1>5. FlattenSeq(rows) \in Seq(All)
  <2>1. rows \in Seq(Seq(All))
    <3>1. \A j \in DOMAIN dimensions : row(dimensions[j]) \in Seq(All)
      <4>1. \A j \in DOMAIN dimensions : T(dimensions[j]) \subseteq All
        OBVIOUS
      <4>. HIDE DEF T, All
      <4>. QED
        BY <1>3, <1>4, <4>1
    <3>. HIDE DEF All, dimensions
    <3>. QED
      BY <1>1, <3>1
  <2>. HIDE DEF rows, All
  <2>. QED
    BY <2>1, FlattenedHolds
<1>6. \A t \in All : t.query \in Query /\ t.top \in Nat \ {0} /\ t.excludeOcr = TRUE
  BY <1>2
<1>7. ComparisonSearches(sign, towns) = IF Len(towns) < 2 THEN <<>> ELSE FlattenSeq(rows)
  BY DEF ComparisonSearches, row, check
<1>. HIDE DEF rows, All
<1>8. ASSUME NEW s \in Seq(All)
      PROVE  s \in Seq(ToSet(s)) /\ ToSet(s) \subseteq All
  BY DEF ToSet
<1>9. <<>> \in Seq(All)
  OBVIOUS
<1>. QED
  BY <1>5, <1>6, <1>7, <1>8, <1>9

LEMMA TasksAre ==
    ASSUME NEW input, IsInput(input), input.kind \in DeskKinds, input.sign \in SignType
    PROVE  /\ SearchesFor(input) \in Seq(Tasks(input))
           /\ \A t \in Tasks(input) : TaskHolds(input, t)
           /\ input.kind = "check" =>
                 \A l \in LocationsFor(input.sign) :
                     l.dimension \in DOMAIN input.proposed => \E t \in Tasks(input) : t.location = l
<1>1. CASE input.kind = "check"
  <2>1. SearchesFor(input) = SearchesOf(input, "none")
    BY <1>1 DEF SearchesFor
  <2>. DEFINE s == SearchesOf(input, "none")
  <2>2. /\ s \in Seq(ToSet(s))
        /\ \A t \in ToSet(s) : /\ t.query \in Query /\ t.top \in Nat \ {0} /\ t.excludeOcr = TRUE
                               /\ t.town = input.town
        /\ \A l \in LocationsFor(input.sign) :
              l.dimension \in DOMAIN input.proposed => \E t \in ToSet(s) : t.location = l
    BY CheckSearches
  <2>. HIDE DEF s
  <2>3. SearchesFor(input) \in Seq(Tasks(input)) /\ Tasks(input) = ToSet(s)
    BY <2>1, <2>2 DEF Tasks, s
  <2>4. \A t \in ToSet(s) : TaskHolds(input, t)
    BY <1>1, <2>2 DEF TaskHolds
  <2>. QED
    BY <2>2, <2>3, <2>4
<1>2. CASE input.kind = "compare"
  <2>1. SearchesFor(input) = ComparisonSearches(input.sign, input.towns) /\ input.towns \in Seq(STRING)
    BY <1>2 DEF SearchesFor, IsInput, NoRequest
  <2>. DEFINE s == ComparisonSearches(input.sign, input.towns)
  <2>2. /\ s \in Seq(ToSet(s))
        /\ \A t \in ToSet(s) : t.query \in Query /\ t.top \in Nat \ {0} /\ t.excludeOcr = TRUE
    BY <2>1, ComparisonTasks
  <2>. HIDE DEF s
  <2>3. SearchesFor(input) \in Seq(Tasks(input)) /\ Tasks(input) = ToSet(s)
    BY <2>1, <2>2 DEF Tasks, s
  <2>4. \A t \in ToSet(s) : TaskHolds(input, t)
    BY <1>2, <2>2 DEF TaskHolds
  <2>. QED
    BY <1>2, <2>3, <2>4
<1>3. CASE input.kind = "permits"
  <2>. DEFINE task(i) == [query |-> TopicQuery[<<Topics[i], input.sign>>], town |-> input.town,
                          excludeOcr |-> FALSE, top |-> PermitTopN, topic |-> Topics[i]]
              s == [i \in DOMAIN Topics |-> task(i)]
  <2>1. SearchesFor(input) = s
    BY <1>3 DEF SearchesFor, PermitSearches
  <2>2. Len(Topics) \in Nat /\ DOMAIN Topics = 1..Len(Topics) /\ PermitTopN \in Nat \ {0}
    BY RulesAssumption
  <2>3. ASSUME NEW i \in DOMAIN Topics
        PROVE  TaskHolds(input, task(i))
    <3>1. <<Topics[i], input.sign>> \in ToSet(Topics) \X SignType
      BY DEF ToSet
    <3>2. TopicQuery[<<Topics[i], input.sign>>] \in Query
      BY <3>1, RulesAssumption
    <3>. QED
      BY <1>3, <2>2, <3>2 DEF TaskHolds
  <2>4. s \in Seq(ToSet(s))
    <3>1. s = [i \in 1..Len(Topics) |-> s[i]]
      BY <2>2
    <3>. HIDE DEF s
    <3>. QED
      BY <2>2, <3>1, HasItsMembers
  <2>5. \A t \in ToSet(s) : TaskHolds(input, t)
    BY <2>3 DEF ToSet
  <2>. HIDE DEF s
  <2>. QED
    BY <1>3, <2>1, <2>4, <2>5 DEF Tasks
<1>. QED
  BY <1>1, <1>2, <1>3 DEF DeskKinds


\* What one search leaves in a report.
LEMMA EntriesHold ==
    ASSUME NEW input, NEW task, NEW hits, Listed(hits, TaskFilters(task))
    PROVE  EntryHolds(input, task, Entry(input, task, hits))
  BY ChecksHold, ItemsHold DEF EntryHolds, Entry

LEMMA OneMore ==
    ASSUME NEW s, s \in Seq(ToSet(s)), NEW e
    PROVE  Append(s, e) \in Seq(ToSet(Append(s, e))) /\ ToSet(Append(s, e)) = ToSet(s) \union {e}
<1>. DEFINE more == Append(s, e)
            n == Len(s)
<1>1. n \in Nat /\ DOMAIN s = 1..n
  OBVIOUS
<1>2. Len(more) = n + 1 /\ DOMAIN more = 1..n + 1
  OBVIOUS
<1>3. \A i \in 1..n + 1 : more[i] = IF i = n + 1 THEN e ELSE s[i]
  OBVIOUS
<1>4. more = [i \in 1..n + 1 |-> more[i]]
  <2>. DEFINE T == ToSet(s) \union {e}
  <2>1. s \in Seq(T) /\ e \in T
    <3>1. ToSet(s) \subseteq T /\ e \in T
      OBVIOUS
    <3>. HIDE DEF T
    <3>. QED
      BY <3>1
  <2>. HIDE DEF T
  <2>2. more \in Seq(T)
    BY <2>1
  <2>. HIDE DEF more
  <2>. QED
    BY <1>2, <2>2
<1>. HIDE DEF more, n
<1>5. ToSet(more) = ToSet(s) \union {e}
  <2>1. ToSet(more) = {more[i] : i \in 1..n + 1} /\ ToSet(s) = {s[i] : i \in 1..n}
    BY <1>1, <1>2 DEF ToSet
  <2>2. \A i : i \in 1..n + 1 <=> i \in 1..n \/ i = n + 1
    BY <1>1
  <2>3. \A i \in 1..n : i # n + 1
    BY <1>1
  <2>. QED
    BY <1>3, <2>1, <2>2, <2>3
<1>6. more \in Seq(ToSet(more))
  BY <1>1, <1>4, HasItsMembers
<1>. QED
  BY <1>5, <1>6 DEF more

\* The searches that are left, one done.
LEMMA OneFewer ==
    ASSUME NEW T, NEW s \in Seq(T), s # <<>>
    PROVE  /\ s[1] \in T /\ s[1] \in ToSet(s)
           /\ Tail(s) \in Seq(T) /\ ToSet(s) \subseteq ToSet(Tail(s)) \union {s[1]}
<1>1. Len(s) \in Nat /\ Len(s) >= 1 /\ DOMAIN s = 1..Len(s) /\ 1 \in DOMAIN s
  OBVIOUS
<1>2. /\ Tail(s) \in Seq(T) /\ DOMAIN Tail(s) = 1..Len(s) - 1
      /\ \A i \in 1..Len(s) - 1 : Tail(s)[i] = s[i + 1]
  OBVIOUS
<1>3. ASSUME NEW e \in ToSet(s), e # s[1]
      PROVE  e \in ToSet(Tail(s))
  <2>1. PICK i \in DOMAIN s : e = s[i]
    BY DEF ToSet
  <2>2. i - 1 \in 1..Len(s) - 1 /\ (i - 1) + 1 = i
    BY <1>1, <1>3, <2>1
  <2>3. e = Tail(s)[i - 1]
    BY <1>2, <2>1, <2>2
  <2>. QED
    BY <1>2, <2>2, <2>3 DEF ToSet
<1>. QED
  BY <1>1, <1>2, <1>3 DEF ToSet

LEMMA EntryIsAdded ==
    ASSUME NEW input, NEW todo, NEW done, DoneHolds(input, todo, done), todo # <<>>,
           NEW hits, Listed(hits, TaskFilters(todo[1]))
    PROVE  DoneHolds(input, Tail(todo), Append(done, Entry(input, todo[1], hits)))
<1>. DEFINE e == Entry(input, todo[1], hits)
            more == Append(done, e)
<1>1. EntryHolds(input, todo[1], e)
  BY EntriesHold
<1>2. /\ todo[1] \in Tasks(input) /\ Tail(todo) \in Seq(Tasks(input))
      /\ ToSet(todo) \subseteq ToSet(Tail(todo)) \union {todo[1]}
  <2>1. todo \in Seq(Tasks(input))
    BY DEF DoneHolds
  <2>. QED
    BY <2>1, OneFewer
<1>. HIDE DEF e
<1>3. more \in Seq(ToSet(more)) /\ ToSet(more) = ToSet(done) \union {e}
  BY OneMore DEF DoneHolds
<1>. HIDE DEF more
<1>4. \A x \in ToSet(more) : \E t \in Tasks(input) : EntryHolds(input, t, x)
  BY <1>1, <1>2, <1>3 DEF DoneHolds
<1>5. \A t \in Tasks(input) : t \in ToSet(Tail(todo)) \/ \E x \in ToSet(more) : EntryHolds(input, t, x)
  BY <1>1, <1>2, <1>3 DEF DoneHolds
<1>6. DoneHolds(input, Tail(todo), more)
  BY <1>2, <1>3, <1>4, <1>5 DEF DoneHolds
<1>. QED
  BY <1>6 DEF more, e

-----------------------------------------------------------------------------
(* The reports *)

\* A pass means that no search was without a result.
LEMMA PassesHold ==
    ASSUME NEW input, IsInput(input), input.kind = "check", input.sign \in SignType,
           NEW done, DoneHolds(input, <<>>, done), ReportOutcome(done) = "complies",
           NEW l \in LocationsFor(input.sign), l.dimension \in DOMAIN input.proposed
    PROVE  \E c \in ToSet(done) :
              /\ c.dimension = l.dimension /\ c.outcome = "complies" /\ c.measured # {}
              /\ \A m \in c.measured : Held[m.chunk].town = input.town /\ ~Held[m.chunk].fromOcr
<1>1. PICK t \in Tasks(input) : t.location = l /\ TaskHolds(input, t)
  BY TasksAre DEF DeskKinds
<1>2. ToSet(<<>>) = {}
  BY DEF ToSet
<1>3. PICK c \in ToSet(done) : EntryHolds(input, t, c)
  BY <1>1, <1>2 DEF DoneHolds
<1>4. CheckHolds(c, t.excludeOcr) /\ c.dimension = l.dimension /\ c.town = input.town /\ t.excludeOcr
  BY <1>1, <1>3 DEF EntryHolds, TaskHolds
<1>5. c.outcome = "complies"
  <2>1. c.outcome \in {done[i].outcome : i \in DOMAIN done}
    BY DEF ToSet
  <2>2. c.outcome \notin {"exceeds", "insufficient_information"}
    BY <2>1 DEF ReportOutcome
  <2>. QED
    BY <1>4, <2>2 DEF CheckHolds
<1>. QED
  BY <1>4, <1>5 DEF CheckHolds

\* One unit among the sides means that they are of the same, and so with ratios.
LEMMA OfOneKind ==
    ASSUME NEW T, IsFiniteSet(T), NEW S \in SUBSET T, Cardinality(S) = 1
    PROVE  \A a, b \in S : a = b
<1>1. IsFiniteSet(S)
  BY FS_Subset
<1>. QED
  BY <1>1, FS_Singleton

LEMMA KindsAreFinite == IsFiniteSet(Unit) /\ IsFiniteSet(BOOLEAN)
<1>1. IsFiniteSet(Unit)
  <2>1. IsFiniteSet({"m2"})
    BY FS_Singleton
  <2>2. IsFiniteSet({"m2"} \union {"m"})
    BY <2>1, FS_AddElement
  <2>3. IsFiniteSet({"m2"} \union {"m"} \union {"ft2"})
    BY <2>2, FS_AddElement
  <2>4. IsFiniteSet({"m2"} \union {"m"} \union {"ft2"} \union {"ft"})
    BY <2>3, FS_AddElement
  <2>5. IsFiniteSet({"m2"} \union {"m"} \union {"ft2"} \union {"ft"} \union {"%"})
    BY <2>4, FS_AddElement
  <2>6. Unit = {"m2"} \union {"m"} \union {"ft2"} \union {"ft"} \union {"%"}
    BY DEF Unit
  <2>. QED
    BY <2>5, <2>6
<1>2. IsFiniteSet(BOOLEAN)
  <2>1. IsFiniteSet({TRUE})
    BY FS_Singleton
  <2>2. IsFiniteSet({TRUE} \union {FALSE})
    BY <2>1, FS_AddElement
  <2>3. BOOLEAN = {TRUE} \union {FALSE}
    OBVIOUS
  <2>. QED
    BY <2>2, <2>3
<1>. QED
  BY <1>1, <1>2

LEMMA RowsHold ==
    ASSUME NEW input, input.kind = "compare", NEW done, DoneHolds(input, <<>>, done),
           NEW row \in RowsOf(input.sign, input.towns, done)
    PROVE  RowHolds(row)
<1>. DEFINE side(d, i) == SideOf(done, d, input.towns[i])
            sides(d) == [i \in DOMAIN input.towns |-> side(d, i)]
            full(d) == [dimension |-> d, sides |-> sides(d), comparable |-> IsComparable(sides(d))]
<1>1. \E d : row = full(d)
  <2>1. row \in {full(d) : d \in ToSet(ComparedDimensions(input.sign))}
    BY DEF RowsOf
  <2>. HIDE DEF full
  <2>. QED
    BY <2>1
<1>2. ASSUME NEW d, NEW i \in DOMAIN input.towns
      PROVE  /\ side(d, i).town = input.towns[i]
             /\ \A m \in side(d, i).measured : /\ m.limit.unit \in Unit /\ m.limit.ratio \in BOOLEAN
                                               /\ Held[m.chunk].town = input.towns[i]
  <2>. DEFINE town == input.towns[i]
              own(c) == c.row = d /\ c.town = town /\ c.dimension = d
              known == {j \in FirstOf({j \in DOMAIN done : own(done[j])}) :
                           done[j].outcome # "insufficient_information"}
  <2>1. side(d, i).town = town /\ side(d, i).measured = UNION {done[j].measured : j \in known}
    BY DEF SideOf
  <2>2. ASSUME NEW m \in UNION {done[j].measured : j \in known}
        PROVE  m.limit.unit \in Unit /\ m.limit.ratio \in BOOLEAN /\ Held[m.chunk].town = town
    <3>1. PICK j \in DOMAIN done : own(done[j]) /\ m \in done[j].measured
      BY DEF FirstOf
    <3>2. done[j] \in ToSet(done)
      BY DEF ToSet
    <3>3. PICK t \in Tasks(input) : EntryHolds(input, t, done[j])
      BY <3>2 DEF DoneHolds
    <3>4. CheckHolds(done[j], t.excludeOcr)
      BY <3>3 DEF EntryHolds
    <3>. QED
      BY <3>1, <3>4 DEF CheckHolds
  <2>. HIDE DEF known
  <2>. QED
    BY <2>1, <2>2
<1>. HIDE DEF side
<1>3. ASSUME NEW d, IsComparable(sides(d)),
             NEW i \in DOMAIN sides(d), NEW j \in DOMAIN sides(d),
             NEW m \in side(d, i).measured, NEW n \in side(d, j).measured
      PROVE  m.limit.unit = n.limit.unit /\ m.limit.ratio = n.limit.ratio
  <2>. DEFINE known == UNION {sides(d)[k].measured : k \in DOMAIN sides(d)}
              units == {x.limit.unit : x \in known}
              ratios == {x.limit.ratio : x \in known}
  <2>1. known = UNION {side(d, k).measured : k \in DOMAIN input.towns}
    OBVIOUS
  <2>2. Cardinality(units) = 1 /\ Cardinality(ratios) = 1
    BY <1>3 DEF IsComparable
  <2>3. m \in known /\ n \in known
    BY <2>1
  <2>4. \A x \in known : x.limit.unit \in Unit /\ x.limit.ratio \in BOOLEAN
    BY <1>2, <2>1
  <2>. HIDE DEF known
  <2>5. units \in SUBSET Unit /\ m.limit.unit \in units /\ n.limit.unit \in units
    BY <2>3, <2>4
  <2>6. ratios \in SUBSET BOOLEAN /\ m.limit.ratio \in ratios /\ n.limit.ratio \in ratios
    BY <2>3, <2>4
  <2>. HIDE DEF units, ratios
  <2>7. m.limit.unit = n.limit.unit
    BY <2>2, <2>5, KindsAreFinite, OfOneKind
  <2>8. m.limit.ratio = n.limit.ratio
    BY <2>2, <2>6, KindsAreFinite, OfOneKind
  <2>. QED
    BY <2>7, <2>8
<1>4. ASSUME NEW d
      PROVE  RowHolds(full(d))
  <2>1. full(d).sides = sides(d) /\ full(d).comparable = IsComparable(sides(d))
    OBVIOUS
  <2>2. DOMAIN sides(d) = DOMAIN input.towns /\ \A i \in DOMAIN input.towns : sides(d)[i] = side(d, i)
    OBVIOUS
  <2>. HIDE DEF full, sides
  <2>. QED
    BY <1>2, <1>3, <2>1, <2>2 DEF RowHolds
<1>. HIDE DEF full
<1>. QED
  BY <1>1, <1>4

LEMMA ReportsHold ==
    ASSUME NEW input, IsInput(input), input.kind \in DeskKinds, input.sign \in SignType,
           NEW done, DoneHolds(input, <<>>, done)
    PROVE  ReportFor(input, done).code = 200 /\ ReportHolds(input, ReportFor(input, done))
<1>. DEFINE report == ReportFor(input, done)
<1>1. CASE input.kind = "check"
  <2>1. report.code = 200 /\ report.checks = done /\ report.outcome = ReportOutcome(done)
    BY <1>1 DEF ReportFor
  <2>. HIDE DEF report
  <2>. QED
    BY <1>1, <2>1, PassesHold DEF ReportHolds, PassHolds, report
<1>2. CASE input.kind = "compare"
  <2>1. report.code = 200 /\ report.rows = RowsOf(input.sign, input.towns, done)
    BY <1>2 DEF ReportFor
  <2>. QED
    BY <1>2, <2>1, RowsHold DEF ReportHolds
<1>3. CASE input.kind = "permits"
  <2>1. report.code = 200 /\ report.items = done
    BY <1>3 DEF ReportFor
  <2>2. ASSUME NEW item \in ToSet(done), NEW c \in item.evidence
        PROVE  Held[c].town = input.town
    <3>1. PICK t \in Tasks(input) : EntryHolds(input, t, item)
      BY DEF DoneHolds
    <3>2. TaskHolds(input, t)
      BY TasksAre
    <3>. QED
      BY <1>3, <3>1, <3>2 DEF EntryHolds, TaskHolds
  <2>. QED
    BY <1>3, <2>1, <2>2 DEF ReportHolds
<1>. QED
  BY <1>1, <1>2, <1>3 DEF DeskKinds


-----------------------------------------------------------------------------
(* The steps of requests *)

\* One request moves on, to where it should be.
LEMMA OneRequestGoesOn ==
    ASSUME RequestsHold, Shapes, NEW r \in Request, StepOf(r), UNCHANGED <<status, active>>,
           RequestHolds(asked[r], FiltersFor(r), phase'[r], work'[r], response'[r], search'[r])
    PROVE  RequestsHold'
<1>1. OthersStay(r) /\ UNCHANGED asked
  BY StepsStayApart DEF StepOf
<1>2. \A q : FiltersFor(q)' = FiltersFor(q)
  BY <1>1 DEF FiltersFor, PlanFor
<1>3. ASSUME NEW q \in Request
      PROVE  RequestHolds(asked'[q], FiltersFor(q)', phase'[q], work'[q], response'[q], search'[q])
  <2>1. CASE q = r
    BY <1>1, <1>2, <2>1
  <2>2. CASE q # r
    <3>1. phase'[q] = phase[q] /\ work'[q] = work[q] /\ response'[q] = response[q] /\ search'[q] = search[q]
      BY <1>1, <2>2 DEF OthersStay
    <3>. QED
      BY <1>1, <1>2, <3>1 DEF RequestsHold
  <2>. QED
    BY <2>1, <2>2
<1>4. \A q \in Request : RequestHolds(asked[q], FiltersFor(q), phase[q], work[q], response[q], search[q])'
  BY <1>3
<1>5. \A q \in Request : IsInput(asked[q])'
  BY <1>1 DEF RequestsHold
<1>. QED
  BY <1>4, <1>5 DEF RequestsHold

\* What is known of a request before its step.
LEMMA RequestStands ==
    ASSUME RequestsHold, NEW r \in Request
    PROVE  /\ IsInput(asked[r]) /\ SearchHolds(search[r])
           /\ RequestHolds(asked[r], FiltersFor(r), phase[r], work[r], response[r], search[r])
           /\ asked[r].kind = "ask" => AskHolds(FiltersFor(r), phase[r], work[r], response[r], search[r])
           /\ asked[r].kind \in DeskKinds => DeskHolds(asked[r], phase[r], work[r], response[r], search[r])
  BY DEF RequestsHold, RequestHolds

\* A search goes on while its handler waits for it.
LEMMA SearchKeepsRequests ==
    ASSUME RequestsHold, Shapes, NEW r \in Request, SearchStep(r), UNCHANGED <<answering, zoning>>
    PROVE  RequestsHold'
<1>1. search[r].at \in Unfused \union Ranking /\ Continues(search[r], search'[r])
  BY RequestStands, SearchGoesOn DEF RequestsHold
<1>2. UNCHANGED <<status, active, asked, phase, work, response>>
  BY DEF SearchStep, ActiveCollection, EnsureEmbedder, EmbedderLocked, EmbedderLoaded, DenseSearch, SparseSearch,
         Rerank, RerankerLocked, RerankerLoaded, answering
<1>3. StepOf(r)
  BY SearchIsOwn, RequestStepIsOwn DEF RequestStep
<1>4. search[r].at \notin {"idle", "failed", "found"}
  BY <1>1 DEF Unfused, Ranking
<1>5. /\ SearchHolds(search'[r])
      /\ search'[r].at \notin {"idle", "failed"} => search'[r].filters = search[r].filters
  BY <1>1 DEF Continues
<1>. DEFINE input == asked[r]
            filters == FiltersFor(r)
            step == phase[r]
            held == work[r]
            answer == response[r]
            s == search[r]
            next == search'[r]
<1>6. RequestHolds(input, filters, step, held, answer, s)
  BY RequestStands
<1>. HIDE DEF input, filters, step, held, answer, s, next
<1>7. SearchHolds(next) /\ (next.at \notin {"idle", "failed"} => next.filters = s.filters)
  BY <1>5 DEF next, s
<1>8. s.at \notin {"idle", "failed", "found"}
  BY <1>4 DEF s
<1>9. RequestHolds(input, filters, step, held, answer, next)
  BY <1>6, <1>7, <1>8 DEF RequestHolds, AskHolds, AskWaits, DeskHolds, DeskWaits
<1>10. RequestHolds(asked[r], FiltersFor(r), phase'[r], work'[r], response'[r], search'[r])
  BY <1>2, <1>9 DEF input, filters, step, held, answer, next
<1>. QED
  BY <1>2, <1>3, <1>10, OneRequestGoesOn

\* A request ends with an answer of which all holds that should.
LEMMA RequestsEndWell ==
    ASSUME RequestsHold, Shapes, NEW r \in Request, StepOf(r), UNCHANGED <<status, active>>,
           NEW answer, Return(r, answer), answer.code \in {200, 400, 404, 500, 503},
           answer.code = 200 /\ asked[r].kind = "ask" => ResultHolds(answer, FiltersFor(r).towns),
           answer.code = 200 /\ asked[r].kind \in DeskKinds => ReportHolds(asked[r], answer)
    PROVE  RequestsHold'
<1>1. phase'[r] = "ended" /\ work'[r] = Nothing /\ response'[r] = answer /\ search'[r] = Idle
  BY OwnEntries
<1>. DEFINE filters == FiltersFor(r)
<1>. HIDE DEF filters
<1>2. RequestHolds(asked[r], filters, "ended", Nothing, answer, Idle)
  BY IdleHolds DEF RequestHolds, AskHolds, AskWaits, DeskHolds, DeskWaits, PhasesOf, filters
<1>. QED
  BY <1>1, <1>2, OneRequestGoesOn DEF filters

\* A question goes on.
LEMMA QuestionGoesOn ==
    ASSUME RequestsHold, Shapes, NEW r \in Request, StepOf(r), UNCHANGED <<status, active, response>>,
           asked[r].kind = "ask", phase'[r] \in AskPhases, SearchHolds(search'[r]),
           AskWaits(FiltersFor(r), phase'[r], work'[r], search'[r])
    PROVE  RequestsHold'
<1>1. RequestHolds(asked[r], FiltersFor(r), phase'[r], work'[r], response'[r], search'[r])
  BY RequestStands DEF RequestHolds, AskHolds, DeskKinds, PhasesOf
<1>. QED
  BY <1>1, OneRequestGoesOn

LEMMA QuestionIsFinished ==
    ASSUME RequestsHold, Shapes, NEW r \in Request, StepOf(r), UNCHANGED <<status, active, response, search>>,
           asked[r].kind = "ask", NEW result, ResultHolds(result, FiltersFor(r).towns), Finish(r, result)
    PROVE  RequestsHold'
<1>1. phase'[r] = "recording" /\ work'[r] = result
  BY OwnEntries DEF Finish
<1>2. AskWaits(FiltersFor(r), phase'[r], work'[r], search'[r])
  BY <1>1 DEF AskWaits
<1>. QED
  BY <1>1, <1>2, RequestStands, QuestionGoesOn DEF AskPhases

\* A search begins.
LEMMA SearchBegins ==
    ASSUME Shapes, NEW r \in Request, SearchHolds(search[r]), NEW query \in Query, NEW filters, IsFilters(filters),
           NEW top \in Nat \ {0}, Begin(r, query, filters, top)
    PROVE  SearchHolds(search'[r]) /\ search'[r].filters = filters
<1>. DEFINE next == [at |-> IF search[r].collection = "unread" THEN "collection" ELSE "embed",
                     collection |-> search[r].collection, query |-> query, filters |-> filters, top |-> top,
                     dense |-> <<>>, fused |-> <<>>]
<1>1. search'[r] = next
  BY DEF Begin, Shapes
<1>2. SearchHolds(next) /\ next.filters = filters
  BY SearchesBegin
<1>. QED
  BY <1>1, <1>2

LEMMA QuestionIsSearched ==
    ASSUME RequestsHold, Shapes, NEW r \in Request, StepOf(r), UNCHANGED <<status, active, response>>,
           asked[r].kind = "ask", NEW filters, IsFilters(filters), NEW step \in {"retrieving", "probing"},
           step = "retrieving" => filters = FiltersFor(r),
           Begin(r, QueryOf[asked[r].text], filters, RerankTopN), Proceed(r, step)
    PROVE  RequestsHold'
<1>1. QueryOf[asked[r].text] \in Query /\ RerankTopN \in Nat \ {0}
  BY RequestStands, AnsweringAssumption, RetrievalAssumption DEF IsInput, NoRequest
<1>2. SearchHolds(search'[r]) /\ search'[r].filters = filters
  BY <1>1, RequestStands, SearchBegins
<1>3. phase'[r] = step
  BY OwnEntries
<1>4. AskWaits(FiltersFor(r), phase'[r], work'[r], search'[r])
  BY <1>2, <1>3 DEF AskWaits
<1>. QED
  BY <1>2, <1>3, <1>4, QuestionGoesOn DEF AskPhases

\* What was found for a question: in force, of the municipalities asked about.
LEMMA QuestionIsFound ==
    ASSUME RequestsHold, NEW r \in Request, asked[r].kind = "ask", phase[r] \in {"retrieving", "generating"},
           search[r].at = "found"
    PROVE  /\ search[r].hits \in Seq(Hit)
           /\ \A h \in ToSet(search[r].hits) :
                 /\ h.status = "in_force"
                 /\ FiltersFor(r).towns # {} => Held[h.chunk].town \in FiltersFor(r).towns
<1>1. Listed(search[r].hits, search[r].filters) /\ search[r].filters = FiltersFor(r)
  BY RequestStands DEF SearchHolds, AskHolds, AskWaits
<1>2. FiltersFor(r).inForceOnly
  BY DEF FiltersFor
<1>. QED
  BY <1>1, <1>2 DEF Listed, Fits

LEMMA AnswerHolds ==
    ASSUME NEW result, NEW towns, ResultHolds(result, towns)
    PROVE  ResultHolds(Answer(result), towns) /\ Answer(result).code = 200
<1>1. /\ Answer(result).outcome = result.outcome /\ Answer(result).hits = result.hits
      /\ Answer(result).citations = result.citations /\ Answer(result).rules = result.rules
      /\ Answer(result).confidence = result.confidence
      /\ Answer(result).code = 200
  BY DEF Answer
<1>. QED
  BY <1>1 DEF ResultHolds, Grounded


LEMMA AskStepKeepsRequests ==
    ASSUME RequestsHold, Shapes, NEW r \in Request, AskStep(r)
    PROVE  RequestsHold'
<1>1. StepOf(r) /\ asked[r].kind = "ask"
  BY AskIsOwn DEF AskStep, AskRefused, AskRouted, RetrievalFailed, RetrievalCrashed, NothingFound, Probed,
                  Retrieved, TimedOut, Rejected, Malformed, Synthesized, Recorded, Closed, In
<1>2. UNCHANGED <<status, active>>
  BY DEF AskStep, AskRefused, AskRouted, RetrievalFailed, RetrievalCrashed, NothingFound, Probed, Retrieved,
         TimedOut, Rejected, Malformed, Synthesized, Recorded, Closed, Settled, Crash
<1>3. /\ AskHolds(FiltersFor(r), phase[r], work[r], response[r], search[r])
      /\ SearchHolds(search[r])
  BY <1>1, RequestStands
<1>4. ASSUME NEW outcome \in Outcome \ {"answered"}, NEW hits, Finish(r, Simple(outcome, hits)),
             UNCHANGED <<response, search>>
      PROVE  RequestsHold'
  BY <1>1, <1>2, <1>4, SimpleHolds, QuestionIsFinished
<1>5. ASSUME phase[r] = "generating", Finish(r, GenerationDown(search[r].hits)), UNCHANGED <<response, search>>
      PROVE  RequestsHold'
  <2>1. search[r].at = "found"
    BY <1>3, <1>5 DEF AskHolds, AskWaits
  <2>2. search[r].hits \in Seq(Hit)
    BY <1>1, <1>5, <2>1, QuestionIsFound
  <2>. QED
    BY <1>1, <1>2, <1>5, <2>2, QuotingHolds, QuestionIsFinished
<1>6. ASSUME NEW code \in {404, 500, 503}, Return(r, [code |-> code])
      PROVE  RequestsHold'
  <2>. DEFINE answer == [code |-> code]
  <2>1. answer.code = code
    OBVIOUS
  <2>. HIDE DEF answer
  <2>2. answer.code \in {200, 400, 404, 500, 503} /\ answer.code # 200
    BY <1>6, <2>1
  <2>. QED
    BY <1>1, <1>2, <1>6, <2>2, RequestsEndWell DEF answer
<1>7. ASSUME Crash(r)
      PROVE  RequestsHold'
  BY <1>6, <1>7 DEF Crash
<1>8. CASE AskRefused(r)
  BY <1>6, <1>8 DEF AskRefused
<1>9. CASE AskRouted(r)
  <2>1. IsFilters(FiltersFor(r))
    BY DEF IsFilters, FiltersFor
  <2>2. UNCHANGED response
    BY <1>9 DEF AskRouted, Answered
  <2>3. CASE Begin(r, QueryOf[asked[r].text], FiltersFor(r), RerankTopN) /\ Proceed(r, "retrieving")
    BY <1>1, <1>2, <2>1, <2>2, <2>3, QuestionIsSearched
  <2>4. CASE \E outcome \in {"out_of_scope", "needs_clarification"} :
                Finish(r, Simple(outcome, <<>>)) /\ UNCHANGED search
    BY <1>4, <2>2, <2>4 DEF Outcome
  <2>. QED
    BY <1>9, <2>3, <2>4 DEF AskRouted
<1>10. CASE RetrievalFailed(r)
  <2>1. PICK outcome \in {"index_not_ready", "no_relevant_bylaw"} : Finish(r, Simple(outcome, <<>>))
    BY <1>10 DEF RetrievalFailed
  <2>2. outcome \in Outcome \ {"answered"} /\ UNCHANGED <<response, search>>
    BY <1>10 DEF RetrievalFailed, Answered, Outcome
  <2>. QED
    BY <1>4, <2>1, <2>2
<1>11. CASE RetrievalCrashed(r) \/ Malformed(r)
  BY <1>7, <1>11 DEF RetrievalCrashed, Malformed
<1>12. CASE NothingFound(r)
  <2>. DEFINE filters == [search[r].filters EXCEPT !.inForceOnly = FALSE]
  <2>1. IsFilters(search[r].filters)
    BY <1>3, <1>12 DEF NothingFound, At, SearchHolds
  <2>2. IsFilters(filters)
    BY <2>1 DEF IsFilters
  <2>3. /\ Begin(r, QueryOf[asked[r].text], filters, RerankTopN) /\ Proceed(r, "probing")
        /\ UNCHANGED response
    BY <1>12 DEF NothingFound, Answered
  <2>. HIDE DEF filters
  <2>. QED
    BY <1>1, <1>2, <2>2, <2>3, QuestionIsSearched
<1>13. CASE Probed(r)
  <2>1. PICK outcome \in {"only_outdated", "no_relevant_bylaw"} : Finish(r, Simple(outcome, <<>>))
    BY <1>13 DEF Probed
  <2>2. outcome \in Outcome \ {"answered"} /\ UNCHANGED <<response, search>>
    BY <1>13 DEF Probed, Answered, Outcome
  <2>. QED
    BY <1>4, <2>1, <2>2
<1>14. CASE Retrieved(r)
  <2>1. /\ search[r].at = "found" /\ UNCHANGED <<response, search>>
        /\ search[r].filters = FiltersFor(r)
    BY <1>3, <1>14 DEF Retrieved, In, At, Answered, AskHolds, AskWaits
  <2>2. CASE DetectConflicts(search[r].hits) # {}
    <3>1. "conflicting_amendments" \in Outcome \ {"answered"}
      BY DEF Outcome
    <3>. QED
      BY <1>4, <1>14, <2>1, <2>2, <3>1 DEF Retrieved
  <2>3. CASE DetectConflicts(search[r].hits) = {}
    <3>1. Hold(r, [attempts |-> 0]) /\ Proceed(r, "generating")
      BY <1>14, <2>3 DEF Retrieved
    <3>2. phase'[r] = "generating" /\ work'[r].attempts = 0
      BY <3>1, OwnEntries
    <3>3. 0 \in 0..MaxRetries
      BY AnsweringAssumption
    <3>4. AskWaits(FiltersFor(r), phase'[r], work'[r], search'[r])
      BY <2>1, <2>3, <3>2, <3>3 DEF AskWaits
    <3>. QED
      BY <1>1, <1>2, <1>3, <2>1, <3>2, <3>4, QuestionGoesOn DEF AskPhases
  <2>. QED
    BY <2>2, <2>3
<1>15. CASE TimedOut(r)
  <2>1. /\ phase[r] = "generating" /\ UNCHANGED <<response, search>>
        /\ AskWaits(FiltersFor(r), phase[r], work[r], search[r])
    BY <1>3, <1>15 DEF TimedOut, In, Answered, AskHolds
  <2>2. CASE work[r].attempts < MaxRetries
    <3>1. Hold(r, [attempts |-> work[r].attempts + 1]) /\ UNCHANGED phase
      BY <1>15, <2>2 DEF TimedOut
    <3>2. phase'[r] = "generating" /\ work'[r].attempts = work[r].attempts + 1
      BY <2>1, <3>1, OwnEntries
    <3>3. work[r].attempts \in 0..MaxRetries
      BY <2>1 DEF AskWaits
    <3>4. work'[r].attempts \in 0..MaxRetries
      <4>. DEFINE n == work[r].attempts
      <4>. HIDE DEF n
      <4>1. n \in 0..MaxRetries /\ n < MaxRetries /\ MaxRetries \in Nat
        BY <2>2, <3>3, AnsweringAssumption DEF n
      <4>2. n + 1 \in 0..MaxRetries
        BY <4>1
      <4>. QED
        BY <3>2, <4>2 DEF n
    <3>5. AskWaits(FiltersFor(r), phase'[r], work'[r], search'[r])
      BY <2>1, <3>2, <3>4 DEF AskWaits
    <3>. QED
      BY <1>1, <1>2, <1>3, <2>1, <3>2, <3>5, QuestionGoesOn DEF AskPhases
  <2>. QED
    BY <1>5, <1>15, <2>1, <2>2 DEF TimedOut
<1>16. CASE Rejected(r)
  BY <1>5, <1>16 DEF Rejected, Answered, In
<1>17. CASE Synthesized(r)
  <2>1. PICK reply \in Replies, margin \in Margins :
            Finish(r, Result(IF IsSynthesis(reply, search[r].hits) THEN "answered" ELSE "unverified",
                             search[r].hits, reply, margin, PlanFor(r).towns # <<>>))
    BY <1>17 DEF Synthesized
  <2>2. /\ phase[r] = "generating" /\ search[r].at = "found" /\ DetectConflicts(search[r].hits) = {}
        /\ UNCHANGED <<response, search>>
    BY <1>3, <1>17 DEF Synthesized, In, Answered, AskHolds, AskWaits
  <2>. DEFINE hits == search[r].hits
              resolved == PlanFor(r).towns # <<>>
              result == Result(IF IsSynthesis(reply, hits) THEN "answered" ELSE "unverified",
                               hits, reply, margin, resolved)
              towns == FiltersFor(r).towns
  <2>3. /\ hits \in Seq(Hit)
        /\ \A h \in ToSet(hits) : h.status = "in_force" /\ (towns # {} => Held[h.chunk].town \in towns)
    BY <1>1, <2>2, QuestionIsFound
  <2>4. resolved \in BOOLEAN
    OBVIOUS
  <2>. HIDE DEF hits, resolved, towns
  <2>5. ResultHolds(result, towns)
    BY <2>2, <2>3, <2>4, SynthesisHolds DEF hits
  <2>6. Finish(r, result)
    BY <2>1 DEF hits, resolved
  <2>. HIDE DEF result
  <2>. QED
    BY <1>1, <1>2, <2>2, <2>5, <2>6, QuestionIsFinished DEF towns
<1>18. CASE Recorded(r)
  <2>1. ResultHolds(work[r], FiltersFor(r).towns) /\ UNCHANGED <<response, search>> /\ phase'[r] = "closing"
    BY <1>3, <1>18, OwnEntries DEF Recorded, In, Answered, AskHolds, AskWaits
  <2>2. PICK recorded \in BOOLEAN : Hold(r, [result |-> work[r], recorded |-> recorded])
    BY <1>18 DEF Recorded
  <2>3. work'[r].result = work[r] /\ work'[r].recorded = recorded
    BY <2>2, OwnEntries
  <2>4. AskWaits(FiltersFor(r), phase'[r], work'[r], search'[r])
    BY <2>1, <2>3 DEF AskWaits
  <2>. QED
    BY <1>1, <1>2, <1>3, <2>1, <2>4, QuestionGoesOn DEF AskPhases
<1>19. CASE Closed(r)
  <2>1. ResultHolds(work[r].result, FiltersFor(r).towns)
    BY <1>3, <1>19 DEF Closed, In, AskHolds, AskWaits
  <2>2. ASSUME Return(r, Answer(work[r].result))
        PROVE  RequestsHold'
    <3>1. ResultHolds(Answer(work[r].result), FiltersFor(r).towns) /\ Answer(work[r].result).code = 200
      BY <2>1, AnswerHolds
    <3>. QED
      BY <1>1, <1>2, <2>2, <3>1, RequestsEndWell DEF DeskKinds
  <2>. QED
    BY <1>6, <1>19, <2>2 DEF Closed
<1>. QED
  BY <1>8, <1>9, <1>10, <1>11, <1>12, <1>13, <1>14, <1>15, <1>16, <1>17, <1>18, <1>19 DEF AskStep

-----------------------------------------------------------------------------

\* The next search begins, or the report is returned.
LEMMA AdvanceKeepsRequests ==
    ASSUME RequestsHold, Shapes, NEW r \in Request, StepOf(r), UNCHANGED <<status, active>>,
           asked[r].kind \in DeskKinds, asked[r].sign \in SignType,
           NEW todo, NEW done, DoneHolds(asked[r], todo, done), Advance(r, todo, done)
    PROVE  RequestsHold'
<1>1. IsInput(asked[r]) /\ SearchHolds(search[r])
      /\ RequestHolds(asked[r], FiltersFor(r), phase[r], work[r], response[r], search[r])
  BY RequestStands
<1>2. CASE todo = <<>>
  <2>. DEFINE report == ReportFor(asked[r], done)
  <2>1. report.code = 200 /\ ReportHolds(asked[r], report)
    BY <1>1, <1>2, ReportsHold
  <2>2. Return(r, report)
    BY <1>2 DEF Advance
  <2>3. asked[r].kind # "ask"
    BY DEF DeskKinds
  <2>. HIDE DEF report
  <2>. QED
    BY <2>1, <2>2, <2>3, RequestsEndWell
<1>3. CASE todo # <<>>
  <2>1. /\ Begin(r, todo[1].query, TaskFilters(todo[1]), todo[1].top)
        /\ Hold(r, [todo |-> todo, done |-> done]) /\ Proceed(r, "searching") /\ UNCHANGED response
    BY <1>3 DEF Advance
  <2>2. todo[1] \in Tasks(asked[r])
    BY <1>3, OneFewer DEF DoneHolds
  <2>3. TaskHolds(asked[r], todo[1])
    BY <1>1, <2>2, TasksAre
  <2>. DEFINE filters == TaskFilters(todo[1])
  <2>4. IsFilters(filters)
    BY <2>3 DEF TaskHolds, IsFilters, TaskFilters
  <2>. HIDE DEF filters
  <2>5. SearchHolds(search'[r]) /\ search'[r].filters = filters
    BY <1>1, <2>1, <2>3, <2>4, SearchBegins DEF TaskHolds, filters
  <2>6. phase'[r] = "searching" /\ work'[r].todo = todo /\ work'[r].done = done /\ response'[r] = response[r]
    BY <2>1, OwnEntries
  <2>7. DeskWaits(asked[r], phase'[r], work'[r], search'[r])
    BY <1>3, <2>5, <2>6 DEF DeskWaits, filters
  <2>8. RequestHolds(asked[r], FiltersFor(r), phase'[r], work'[r], response'[r], search'[r])
    BY <1>1, <2>5, <2>6, <2>7 DEF RequestHolds, DeskHolds, DeskKinds, PhasesOf
  <2>. QED
    BY <2>8, OneRequestGoesOn
<1>. QED
  BY <1>2, <1>3

LEMMA DeskStepKeepsRequests ==
    ASSUME RequestsHold, Shapes, NEW r \in Request, DeskStep(r)
    PROVE  RequestsHold'
<1>1. StepOf(r) /\ UNCHANGED <<status, active>> /\ asked[r].kind \in DeskKinds
  BY DeskIsOwn DEF DeskStep, DeskAsked, DeskRead
<1>2. /\ IsInput(asked[r]) /\ SearchHolds(search[r])
      /\ DeskHolds(asked[r], phase[r], work[r], response[r], search[r])
  BY <1>1, RequestStands
<1>3. CASE DeskAsked(r)
  <2>1. ASSUME NEW code \in {400, 404}, Return(r, [code |-> code])
        PROVE  RequestsHold'
    <3>. DEFINE answer == [code |-> code]
    <3>1. answer.code = code
      OBVIOUS
    <3>. HIDE DEF answer
    <3>2. answer.code \in {200, 400, 404, 500, 503} /\ answer.code # 200
      BY <2>1, <3>1
    <3>. QED
      BY <1>1, <2>1, <3>2, RequestsEndWell DEF answer
  <2>2. ASSUME asked[r].sign \in SignType, Advance(r, SearchesFor(asked[r]), <<>>)
        PROVE  RequestsHold'
    <3>1. SearchesFor(asked[r]) \in Seq(Tasks(asked[r])) /\ \A t \in Tasks(asked[r]) : t \in ToSet(SearchesFor(asked[r]))
      BY <1>1, <1>2, <2>2, TasksAre DEF Tasks
    <3>2. <<>> \in Seq(ToSet(<<>>)) /\ ToSet(<<>>) = {}
      BY DEF ToSet
    <3>3. DoneHolds(asked[r], SearchesFor(asked[r]), <<>>)
      BY <3>1, <3>2 DEF DoneHolds
    <3>. QED
      BY <1>1, <2>2, <3>3, AdvanceKeepsRequests
  <2>. QED
    BY <1>3, <2>1, <2>2 DEF DeskAsked
<1>4. CASE DeskRead(r)
  <2>. DEFINE todo == work[r].todo
              hits == IF search[r].at = "found" THEN search[r].hits ELSE <<>>
  <2>1. /\ asked[r].sign \in SignType /\ todo # <<>> /\ DoneHolds(asked[r], todo, work[r].done)
        /\ search[r].at \notin {"idle", "failed"} => search[r].filters = TaskFilters(todo[1])
    BY <1>2, <1>4 DEF DeskRead, DeskHolds, DeskWaits
  <2>2. Listed(hits, TaskFilters(todo[1]))
    <3>1. CASE search[r].at = "found"
      BY <1>2, <2>1, <3>1 DEF SearchHolds
    <3>. QED
      BY <3>1, NothingListed
  <2>3. Advance(r, Tail(todo), Append(work[r].done, Entry(asked[r], todo[1], hits)))
    BY <1>4 DEF DeskRead, At
  <2>. HIDE DEF todo, hits
  <2>4. DoneHolds(asked[r], Tail(todo), Append(work[r].done, Entry(asked[r], todo[1], hits)))
    BY <2>1, <2>2, EntryIsAdded
  <2>. QED
    BY <1>1, <2>1, <2>3, <2>4, AdvanceKeepsRequests
<1>. QED
  BY <1>3, <1>4 DEF DeskStep

\* A lookup searches nothing.
LEMMA ZoneStepKeepsRequests ==
    ASSUME RequestsHold, Shapes, NEW r \in Request, ZoneStep(r)
    PROVE  RequestsHold'
<1>1. StepOf(r) /\ UNCHANGED <<status, active>> /\ asked[r].kind = "zone"
  BY ZoneIsOwn DEF ZoneStep, ZoneParsed, ZoneConfigured, ZoneCached, ZoneAnswered, ZoneMalformed, ZoneStored,
                   LookupFails, Untouched, Looking, In
<1>2. SearchHolds(search[r]) /\ response[r].code \in {0, 200, 400, 404, 500, 503}
  BY RequestStands DEF RequestHolds
<1>3. ASSUME NEW answer, Return(r, answer), answer.code \in {200, 500}
      PROVE  RequestsHold'
  BY <1>1, <1>3, RequestsEndWell DEF DeskKinds
<1>4. ASSUME NEW step \in ZonePhases, phase'[r] = step, UNCHANGED <<search, response>>
      PROVE  RequestsHold'
  <2>1. RequestHolds(asked[r], FiltersFor(r), phase'[r], work'[r], response'[r], search'[r])
    BY <1>1, <1>2, <1>4 DEF RequestHolds, DeskKinds, PhasesOf
  <2>. QED
    BY <1>1, <2>1, OneRequestGoesOn
<1>5. \A o, z, t : Reported(o, z, t).code = 200
  BY DEF Reported
<1>6. \A lookup, outcome : Without(lookup, outcome).code = 200
  <2>1. ASSUME NEW lookup, NEW outcome
        PROVE  Without(lookup, outcome).code = 200
    <3>1. \A a, b, c, d : [code |-> 200, zoning |-> a, zone |-> b, asOf |-> c, at |-> d, candidates |-> {}].code = 200
      OBVIOUS
    <3>2. \E a, b, c, d : Without(lookup, outcome)
                            = [code |-> 200, zoning |-> a, zone |-> b, asOf |-> c, at |-> d, candidates |-> {}]
      BY Zenon DEF Without, FromCache, Reported
    <3>. QED
      BY <3>1, <3>2
  <2>. QED
    BY <2>1
<1>7. ASSUME NEW town, NEW address, Look(r, town, address)
      PROVE  RequestsHold'
  BY <1>4, <1>7, OwnEntries DEF Look, ZonePhases
<1>8. CASE ZoneParsed(r)
  <2>1. ASSUME NEW parsed, FollowAddress(r, parsed)
        PROVE  RequestsHold'
    <3>. DEFINE asking == [Reported(parsed.outcome, "", 0) EXCEPT !.candidates = parsed.candidates]
    <3>1. asking.code = 200
      BY DEF Reported
    <3>. HIDE DEF asking
    <3>2. ASSUME NEW answer, answer.code = 200, Return(r, answer)
          PROVE  RequestsHold'
      BY <1>3, <3>2
    <3>3. \/ Look(r, parsed.town, parsed.street)
          \/ \E answer : answer.code = 200 /\ Return(r, answer)
      <4>1. \/ Look(r, parsed.town, parsed.street)
            \/ Return(r, asking) \/ Return(r, Reported("not_found", "", 0))
        BY <2>1 DEF FollowAddress, asking
      <4>2. Reported("not_found", "", 0).code = 200
        BY DEF Reported
      <4>. QED
        BY <3>1, <4>1, <4>2
    <3>. QED
      BY <1>7, <3>2, <3>3
  <2>. QED
    BY <1>7, <1>8, <2>1 DEF ZoneParsed
<1>9. CASE ZoneConfigured(r)
  <2>1. CASE Return(r, Reported("unsupported", "", 0))
    <3>1. \E answer : answer.code = 200 /\ Return(r, answer)
      BY <2>1 DEF Reported
    <3>. QED
      BY <1>3, <3>1
  <2>2. CASE Proceed(r, "reading") /\ UNCHANGED <<response, search>>
    BY <1>4, <2>2, OwnEntries DEF ZonePhases
  <2>. QED
    BY <1>9, <2>1, <2>2 DEF ZoneConfigured
<1>10. CASE ZoneCached(r)
  <2>1. CASE \E answer : Return(r, answer) /\ answer.code = 200
    BY <1>3, <2>1
  <2>2. CASE Proceed(r, "asking") /\ UNCHANGED <<response, search>>
    BY <1>4, <2>2, OwnEntries DEF ZonePhases
  <2>. QED
    BY <1>5, <1>6, <1>10, <2>1, <2>2 DEF ZoneCached, FromCache
<1>11. CASE ZoneAnswered(r)
  <2>1. CASE Return(r, Without(work[r], "not_found"))
    BY <1>3, <1>6, <2>1
  <2>2. CASE Proceed(r, "storing") /\ UNCHANGED <<response, search>>
    BY <1>4, <2>2, OwnEntries DEF ZonePhases
  <2>. QED
    BY <1>11, <2>1, <2>2 DEF ZoneAnswered
<1>12. CASE ZoneStored(r)
  BY <1>3, <1>5, <1>12 DEF ZoneStored
<1>13. CASE LookupFails(r) \/ ZoneMalformed(r)
  <2>1. Return(r, [code |-> 500])
    BY <1>13 DEF LookupFails, ZoneMalformed
  <2>. QED
    BY <1>3, <2>1
<1>. QED
  BY <1>8, <1>9, <1>10, <1>11, <1>12, <1>13 DEF ZoneStep

-----------------------------------------------------------------------------

LEMMA RequestsAlwaysHold == Spec => []RequestsHold
<1>1. Init => RequestsHold
  <2>. SUFFICES ASSUME Init
                PROVE  RequestsHold
    OBVIOUS
  <2>1. status \in [Document -> DocumentStatus] /\ active \in DOMAIN Collection \union {"none"}
    BY DEF Init, DocumentStatus
  <2>2. ASSUME NEW r \in Request
        PROVE  /\ IsInput(asked[r])
               /\ RequestHolds(asked[r], FiltersFor(r), phase[r], work[r], response[r], search[r])
    <3>1. IsInput(asked[r])
      BY ApiAssumption DEF Init
    <3>2. phase[r] \in {"received", "ended"} /\ response[r].code = 0 /\ search[r] = Idle
      BY DEF Init
    <3>. QED
      BY <3>1, <3>2, IdleHolds DEF RequestHolds, AskHolds, AskWaits, DeskHolds, DeskWaits, PhasesOf
  <2>. QED
    BY <2>1, <2>2 DEF RequestsHold
<1>2. RequestsHold /\ Shapes /\ [Next]_vars => RequestsHold'
  <2>. SUFFICES ASSUME RequestsHold, Shapes, [Next]_vars
                PROVE  RequestsHold'
    OBVIOUS
  <2>1. ASSUME NEW r \in Request, RequestStep(r)
        PROVE  RequestsHold'
    BY <2>1, SearchKeepsRequests, AskStepKeepsRequests, DeskStepKeepsRequests, ZoneStepKeepsRequests
       DEF RequestStep
  <2>2. ASSUME status' \in [Document -> DocumentStatus], active' \in DOMAIN Collection \union {"none"},
               UNCHANGED <<asked, phase, work, response, search>>
        PROVE  RequestsHold'
    <3>1. \A r : FiltersFor(r)' = FiltersFor(r)
      BY <2>2 DEF FiltersFor, PlanFor
    <3>. QED
      BY <2>2, <3>1 DEF RequestsHold
  <2>3. CASE LineagePass
    BY <2>2, <2>3, ApiAssumption DEF LineagePass, answering, RequestsHold
  <2>4. CASE Activate
    BY <2>2, <2>4 DEF Activate, answering, RequestsHold
  <2>5. CASE Administration \/ UNCHANGED vars
    BY <2>2, <2>5 DEF Administration, PutZoningConfig, Tick, vars, answering, retrieval, RequestsHold
  <2>. QED
    BY <2>1, <2>3, <2>4, <2>5 DEF Next
<1>. QED
  BY <1>1, <1>2, ShapesHold, PTL DEF Spec

\* An answer rests on one version of the law, whatever lineage passes and
\* activations come between the searches of a question and its answer, for any
\* corpus, questions and replies (rag_service.py 521-560).
THEOREM AnswersKeepToOneVersion == Spec => []OneVersionPerSection
<1>1. RequestsHold => OneVersionPerSection
  BY DEF RequestsHold, RequestHolds, AskHolds, ResultHolds, OneVersion, OneVersionPerSection, Succeeded
<1>. QED
  BY <1>1, RequestsAlwaysHold, PTL

\* A rule is never shown without its source, nor called of high confidence: with
\* nothing cited the weights leave at most 500 of the 1000, whatever the hits, the
\* margin and the reply.  And every citation, those of an answer that could not be
\* generated too, is of an excerpt of the answer and begins with words that stand
\* there (verifier.py 195-255, confidence.py, rag_service.py 483-517).
THEOREM RulesAreAlwaysCited == Spec => []RulesAreCited
<1>1. RequestsHold => RulesAreCited
  BY DEF RequestsHold, RequestHolds, AskHolds, ResultHolds, Grounded, RulesAreCited, Succeeded
<1>. QED
  BY <1>1, RequestsAlwaysHold, PTL

\* A sign complies only when every proposed dimension with a rule location was
\* read from the municipality's own bylaw, and from no OCR, whatever searches
\* failed and whatever rows changed meanwhile (engine.py, base.py 178-190).
THEOREM PassesMeanEveryRuleRead == Spec => []PassMeansEveryRuleRead
<1>1. RequestsHold => PassMeansEveryRuleRead
  BY DEF RequestsHold, RequestHolds, DeskHolds, ReportHolds, PassHolds, PassMeansEveryRuleRead, Succeeded,
         DeskKinds
<1>. QED
  BY <1>1, RequestsAlwaysHold, PTL

\* A comparison and a checklist quote each municipality's own bylaw, and the limits
\* of a row that is called comparable are of one unit, all or none of them for each
\* metre of frontage (comparison.py 53-68 and 115-190, permits.py 133-203).
THEOREM EvidenceIsAlwaysItsOwn == Spec => []EvidenceIsItsOwn
<1>1. RequestsHold => EvidenceIsItsOwn
  BY DEF RequestsHold, RequestHolds, DeskHolds, ReportHolds, RowHolds, EvidenceIsItsOwn, Succeeded, DeskKinds
<1>. QED
  BY <1>1, RequestsAlwaysHold, PTL


-----------------------------------------------------------------------------
(* Types.  What the other invariants leave open: the faults, the aborted    *)
(* transactions and the municipalities of cached zones.                     *)

TypesHold ==
    /\ aborted \subseteq Request /\ faults \in 0..MaxFaults
    /\ \A key \in DOMAIN parcels : key[1] \in Indexed
    /\ \A r \in Request :
          asked[r].kind = "zone" /\ phase[r] \in {"reading", "asking", "storing"} => work[r].town \in Indexed

FaultsAndAborts(r) == (UNCHANGED faults \/ Fault) /\ aborted' \subseteq aborted \union {r}

LEMMA FaultsAreBounded ==
    ASSUME NEW r \in Request, RequestStep(r)
    PROVE  FaultsAndAborts(r)
<1>1. CASE SearchStep(r)
  <2>1. CASE ActiveCollection(r) \/ DenseSearch(r) \/ SparseSearch(r)
    BY <2>1 DEF ActiveCollection, DenseSearch, SparseSearch, StatementRuns, StatementFails, FaultsAndAborts
  <2>2. CASE EnsureEmbedder(r) \/ EmbedderLocked(r) \/ EmbedderLoaded(r)
    BY <2>2 DEF EnsureEmbedder, EmbedderLocked, EmbedderLoaded, FaultsAndAborts
  <2>3. CASE Rerank(r) \/ RerankerLocked(r) \/ RerankerLoaded(r)
    BY <2>3 DEF Rerank, RerankerLocked, RerankerLoaded, FaultsAndAborts
  <2>. QED
    BY <1>1, <2>1, <2>2, <2>3 DEF SearchStep
<1>2. CASE AskStep(r)
  BY <1>2 DEF AskStep, AskRefused, AskRouted, RetrievalFailed, RetrievalCrashed, NothingFound, Probed, Retrieved,
              TimedOut, Rejected, Malformed, Synthesized, Recorded, Closed, Settled, Crash, StatementRuns,
              StatementFails, FaultsAndAborts
<1>3. CASE DeskStep(r)
  BY <1>3 DEF DeskStep, DeskAsked, DeskRead, Advance, FaultsAndAborts
<1>4. CASE ZoneStep(r)
  BY <1>4 DEF ZoneStep, ZoneParsed, ZoneConfigured, ZoneCached, ZoneAnswered, ZoneMalformed, ZoneStored,
              LookupFails, Untouched, FaultsAndAborts
<1>. QED
  BY <1>1, <1>2, <1>3, <1>4 DEF RequestStep

\* A lookup past its configuration is of a municipality with a row.
LEMMA LookupsAreIndexed ==
    ASSUME TypesHold, ZonesHold, Shapes, NEW r \in Request, ZoneStep(r)
    PROVE  /\ \A key \in DOMAIN parcels' : key[1] \in Indexed
           /\ phase'[r] \in {"reading", "asking", "storing"} => work'[r].town \in Indexed
<1>. DEFINE past == {"reading", "asking", "storing"}
<1>1. asked[r].kind = "zone"
  BY DEF ZoneStep, ZoneParsed, ZoneConfigured, ZoneCached, ZoneAnswered, ZoneMalformed, ZoneStored, LookupFails,
         Looking, In
<1>2. phase[r] \in past => work[r].town \in Indexed
  BY <1>1 DEF TypesHold
<1>3. phase[r] \in {"configuring"} \union past =>
        work[r] = Lookup(work[r].town, work[r].address, work[r].config, work[r].cached, work[r].zone)
  BY <1>1 DEF ZonesHold, LookupHolds
<1>4. ASSUME NEW answer, Return(r, answer)
      PROVE  phase'[r] \notin past
  BY <1>4, OwnEntries
<1>5. ASSUME NEW town, NEW address, Look(r, town, address)
      PROVE  phase'[r] \notin past
  BY <1>5, OwnEntries DEF Look
<1>6. CASE ZoneParsed(r)
  BY <1>1, <1>4, <1>5, <1>6 DEF ZoneParsed, FollowAddress, TypesHold
<1>7. CASE ZoneConfigured(r)
  <2>1. phase[r] = "configuring" /\ UNCHANGED parcels
    BY <1>7 DEF ZoneConfigured, Looking, In
  <2>2. [work[r] EXCEPT !.config = gis[work[r].town]].town = work[r].town
    BY <1>3, <2>1 DEF Lookup
  <2>3. CASE work[r].town \in Indexed
    <3>1. work'[r] = [work[r] EXCEPT !.config = gis[work[r].town]]
      BY <1>7, <2>3, OwnEntries DEF ZoneConfigured
    <3>. QED
      BY <1>1, <2>1, <2>2, <2>3, <3>1 DEF TypesHold
  <2>4. CASE work[r].town \notin Indexed
    BY <1>1, <1>4, <1>7, <2>1, <2>4 DEF ZoneConfigured, TypesHold
  <2>. QED
    BY <2>3, <2>4
<1>8. CASE ZoneCached(r)
  <2>1. phase[r] = "reading" /\ UNCHANGED parcels
    BY <1>8 DEF ZoneCached, Looking, In
  <2>. DEFINE lookup == [work[r] EXCEPT !.cached = Cached(work[r])]
  <2>2. lookup.town = work[r].town
    BY <1>3, <2>1 DEF Lookup
  <2>3. Hold(r, lookup) \/ \E answer : Return(r, answer)
    BY <1>8 DEF ZoneCached
  <2>. HIDE DEF lookup
  <2>4. phase'[r] \in past => work'[r].town \in Indexed
    BY <1>2, <1>4, <2>1, <2>2, <2>3, OwnEntries
  <2>. QED
    BY <1>1, <2>1, <2>4 DEF TypesHold
<1>9. CASE ZoneAnswered(r)
  <2>1. phase[r] = "asking" /\ UNCHANGED parcels
    BY <1>9 DEF ZoneAnswered, Looking, In
  <2>2. \A z : [work[r] EXCEPT !.zone = z].town = work[r].town
    BY <1>3, <2>1 DEF Lookup
  <2>3. (\E z : Hold(r, [work[r] EXCEPT !.zone = z])) \/ \E answer : Return(r, answer)
    BY <1>9 DEF ZoneAnswered
  <2>4. ASSUME NEW z, Hold(r, [work[r] EXCEPT !.zone = z])
        PROVE  work'[r].town \in Indexed
    <3>. DEFINE lookup == [work[r] EXCEPT !.zone = z]
    <3>1. lookup.town \in Indexed
      BY <1>2, <2>1, <2>2
    <3>2. work'[r] = lookup
      BY <2>4, OwnEntries
    <3>. HIDE DEF lookup
    <3>. QED
      BY <3>1, <3>2
  <2>5. phase'[r] \in past => work'[r].town \in Indexed
    BY <1>4, <2>3, <2>4
  <2>. QED
    BY <1>1, <2>1, <2>5 DEF TypesHold
<1>10. CASE ZoneStored(r)
  <2>. DEFINE key == <<work[r].town, Normalize(work[r].address)>>
  <2>1. DOMAIN parcels' = {key} \union DOMAIN parcels
    BY <1>10 DEF ZoneStored
  <2>2. key[1] = work[r].town /\ phase[r] = "storing"
    BY <1>10 DEF ZoneStored, Looking, In
  <2>3. \E answer : Return(r, answer)
    BY <1>10 DEF ZoneStored
  <2>. HIDE DEF key
  <2>. QED
    BY <1>1, <1>2, <1>4, <2>1, <2>2, <2>3 DEF TypesHold
<1>11. CASE LookupFails(r) \/ ZoneMalformed(r)
  BY <1>1, <1>4, <1>11 DEF LookupFails, ZoneMalformed, TypesHold
<1>. QED
  BY <1>6, <1>7, <1>8, <1>9, <1>10, <1>11 DEF ZoneStep

LEMMA TypesAlwaysHold == Spec => []TypesHold
<1>1. Init => TypesHold
  <2>. SUFFICES ASSUME Init
                PROVE  TypesHold
    OBVIOUS
  <2>1. DOMAIN parcels = {}
    BY DEF Init
  <2>2. aborted = {} /\ faults = 0 /\ \A r \in Request : phase[r] \in {"received", "ended"}
    BY DEF Init
  <2>. QED
    BY <2>1, <2>2, RetrievalAssumption DEF TypesHold
<1>2. TypesHold /\ ZonesHold /\ Shapes /\ [Next]_vars => TypesHold'
  <2>. SUFFICES ASSUME TypesHold, ZonesHold, Shapes, [Next]_vars
                PROVE  TypesHold'
    OBVIOUS
  <2>1. ASSUME NEW r \in Request, RequestStep(r)
        PROVE  TypesHold'
    <3>1. StepOf(r) /\ OthersStay(r) /\ UNCHANGED asked
      BY <2>1, RequestStepIsOwn, StepsStayApart DEF StepOf
    <3>2. aborted' \subseteq Request /\ faults' \in 0..MaxFaults
      <4>1. FaultsAndAborts(r)
        BY <2>1, FaultsAreBounded
      <4>. QED
        BY <4>1, RetrievalAssumption DEF FaultsAndAborts, Fault, TypesHold
    <3>3. /\ \A key \in DOMAIN parcels' : key[1] \in Indexed
          /\ asked[r].kind = "zone" /\ phase'[r] \in {"reading", "asking", "storing"} => work'[r].town \in Indexed
      <4>1. CASE SearchStep(r) /\ UNCHANGED <<answering, zoning>>
        BY <4>1 DEF answering, zoning, TypesHold
      <4>2. CASE (AskStep(r) \/ DeskStep(r)) /\ UNCHANGED zoning
        <5>1. asked[r].kind # "zone"
          BY <4>2 DEF AskStep, AskRefused, AskRouted, RetrievalFailed, RetrievalCrashed, NothingFound, Probed,
                      Retrieved, TimedOut, Rejected, Malformed, Synthesized, Recorded, Closed, In,
                      DeskStep, DeskAsked, DeskRead, DeskKinds
        <5>. QED
          BY <4>2, <5>1 DEF zoning, TypesHold
      <4>. QED
        BY <2>1, <4>1, <4>2, LookupsAreIndexed DEF RequestStep
    <3>4. ASSUME NEW q \in Request, asked'[q].kind = "zone", phase'[q] \in {"reading", "asking", "storing"}
          PROVE  work'[q].town \in Indexed
      <4>1. CASE q = r
        BY <3>1, <3>3, <3>4, <4>1
      <4>2. CASE q # r
        BY <3>1, <3>4, <4>2 DEF OthersStay, TypesHold
      <4>. QED
        BY <4>1, <4>2
    <3>. QED
      BY <3>2, <3>3, <3>4 DEF TypesHold
  <2>2. CASE PutZoningConfig
    BY <2>2 DEF PutZoningConfig, retrieval, answering, TypesHold
  <2>3. CASE Tick \/ LineagePass \/ Activate \/ UNCHANGED vars
    BY <2>3 DEF Tick, LineagePass, Activate, vars, retrieval, answering, zoning, TypesHold
  <2>. QED
    BY <2>1, <2>2, <2>3 DEF Next, Administration
<1>. QED
  BY <1>1, <1>2, ZonesAlwaysHold, ShapesHold, PTL DEF Spec

\* The types of all the state of the API process: a step of a search and a
\* handler have what they read, retries run out, and every score is a share.
THEOREM RequestsKeepTypes == Spec => []TypeOK
<1>1. RequestsHold /\ TypesHold /\ ZonesHold /\ LocksHold /\ AuditHolds /\ Shapes => TypeOK
  <2>. SUFFICES ASSUME RequestsHold, TypesHold, ZonesHold, LocksHold, AuditHolds, Shapes
                PROVE  TypeOK
    OBVIOUS
  <2>1. phase \in [Request -> Phases]
    <3>1. \A kind : PhasesOf(kind) \subseteq Phases
      BY DEF PhasesOf, AskPhases, ZonePhases, Phases
    <3>2. \A r \in Request : phase[r] \in Phases
      BY <3>1 DEF RequestsHold, RequestHolds
    <3>. QED
      BY <3>2 DEF Shapes
  <2>2. ASSUME NEW r \in Request
        PROVE  /\ SearchOK(search[r]) /\ WorkOK(r)
               /\ response[r].code \in {0, 200, 400, 404, 500, 503}
               /\ messages[r].outcome \in Outcome \union {"none"}
    <3>1. /\ SearchHolds(search[r]) /\ phase[r] \in PhasesOf(asked[r].kind)
          /\ response[r].code \in {0, 200, 400, 404, 500, 503}
          /\ asked[r].kind = "ask" => AskHolds(FiltersFor(r), phase[r], work[r], response[r], search[r])
          /\ asked[r].kind \in DeskKinds => DeskHolds(asked[r], phase[r], work[r], response[r], search[r])
      BY DEF RequestsHold, RequestHolds
    <3>2. SearchOK(search[r])
      BY <3>1 DEF SearchHolds, SearchOK, Listed
    <3>. DEFINE kind == asked[r].kind
                step == phase[r]
    <3>. HIDE DEF kind, step
    <3>3. step \in {"generating", "recording", "closing"} => kind = "ask"
      BY <3>1 DEF PhasesOf, ZonePhases, kind, step
    <3>4. step = "searching" => kind \in DeskKinds
      BY <3>1 DEF PhasesOf, AskPhases, ZonePhases, kind, step
    <3>5. WorkOK(r)
      <4>. DEFINE held == work[r]
      <4>. HIDE DEF held
      <4>1. kind = "ask" => AskWaits(FiltersFor(r), step, held, search[r])
        BY <3>1 DEF AskHolds, kind, step, held
      <4>2. kind \in DeskKinds => DeskWaits(asked[r], step, held, search[r])
        BY <3>1 DEF DeskHolds, kind, step, held
      <4>3. step = "generating" => held.attempts \in 0..MaxRetries
        BY <3>3, <4>1 DEF AskWaits
      <4>4. step = "recording" => held.outcome \in Outcome /\ held.confidence.score \in Share
        BY <3>3, <4>1 DEF AskWaits, ResultHolds
      <4>5. step = "closing" => held.recorded \in BOOLEAN /\ held.result.outcome \in Outcome
        BY <3>3, <4>1 DEF AskWaits, ResultHolds
      <4>6. step = "searching" => held.todo # <<>>
        BY <3>4, <4>2 DEF DeskWaits
      <4>. QED
        BY <4>3, <4>4, <4>5, <4>6, ZenonT(60) DEF WorkOK, step, held, Share
    <3>6. messages[r].outcome \in Outcome \union {"none"}
      <4>1. CASE messages[r] = NoMessage
        BY <4>1 DEF NoMessage
      <4>2. CASE messages[r] # NoMessage
        <5>1. asked[r].kind = "ask" /\ response[r].code = 200 /\ messages[r] = TraceOf(response[r])
          BY <4>2 DEF AuditHolds, RequestAudited
        <5>2. response[r].outcome \in Outcome
          BY <3>1, <5>1 DEF AskHolds, ResultHolds
        <5>. QED
          BY <5>1, <5>2 DEF TraceOf
      <4>. QED
        BY <4>1, <4>2
    <3>. QED
      BY <3>1, <3>2, <3>5, <3>6
  <2>3. \A key \in DOMAIN parcels :
            key[1] \in Indexed /\ parcels[key].fetched \in 0..now
            /\ parcels[key].expires = parcels[key].fetched + TTL
    BY DEF TypesHold, ZonesHold, RowIsDated
  <2>. QED
    BY <2>1, <2>2, <2>3 DEF TypeOK, RequestsHold, TypesHold, ZonesHold, GisHolds, LocksHold
<1>. QED
  BY <1>1, RequestsAlwaysHold, TypesAlwaysHold, ZonesAlwaysHold, LocksAlwaysHold, AuditAlwaysHolds, ShapesHold, PTL

=============================================================================
