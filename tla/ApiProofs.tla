----------------------------- MODULE ApiProofs ------------------------------
(* The API process, for any number of requests of any kind.                *)
EXTENDS Api, FiniteSetTheorems, TLAPS

-----------------------------------------------------------------------------
(* The locks of the lazily loaded models: between the check under the lock *)
(* and the end of the load nobody else gets there, as the step "loading" is *)
(* the lock itself.                                                         *)

Loads == {"loading embedder", "loading reranker"}

LocksHold ==
    /\ embedder \in {"cold", "ready"} /\ reranker \in {"cold", "ready", "unavailable"}
    /\ search = [r \in Request |-> search[r]]
    /\ \A r \in Request : "at" \in DOMAIN search[r]
    /\ \A r, q \in Loading("loading embedder") : r = q
    /\ \A r, q \in Loading("loading reranker") : r = q
    /\ Loading("loading embedder") # {} => embedder = "cold"
    /\ Loading("loading reranker") # {} => reranker = "cold"

\* A step of one request that is not, or no longer, loading anything.
LEMMA SearchMoves ==
    ASSUME LocksHold, NEW r \in Request, NEW s, search' = [search EXCEPT ![r] = s],
           "at" \in DOMAIN s, s.at \notin Loads, UNCHANGED <<embedder, reranker>>
    PROVE  LocksHold'
<1>1. search' = [q \in Request |-> IF q = r THEN s ELSE search[q]]
  BY DEF LocksHold
<1>2. /\ Loading("loading embedder")' \subseteq Loading("loading embedder")
      /\ Loading("loading reranker")' \subseteq Loading("loading reranker")
  BY <1>1 DEF Loading, At, Loads
<1>3. \A q \in Request : "at" \in DOMAIN search'[q]
  BY <1>1 DEF LocksHold
<1>. QED
  BY <1>1, <1>2, <1>3 DEF LocksHold

LEMMA FailMoves ==
    ASSUME LocksHold, NEW r \in Request, NEW why, Fail(r, why), UNCHANGED <<embedder, reranker>>
    PROVE  LocksHold'
<1>. DEFINE s == [at |-> "failed", collection |-> search[r].collection, error |-> why]
<1>1. "at" \in DOMAIN s /\ s.at \notin Loads
  BY DEF Loads
<1>. QED
  BY <1>1, SearchMoves DEF Fail

LEMMA GotoMoves ==
    ASSUME LocksHold, NEW r \in Request, NEW step, step \notin Loads, Goto(r, step),
           UNCHANGED <<embedder, reranker>>
    PROVE  LocksHold'
<1>. DEFINE s == [search[r] EXCEPT !.at = step]
<1>1. "at" \in DOMAIN s /\ s.at = step
  BY DEF LocksHold
<1>2. search' = [search EXCEPT ![r] = s]
  BY DEF Goto
<1>. QED
  BY <1>1, <1>2, SearchMoves

LEMMA EmbedMoves ==
    ASSUME LocksHold, NEW r \in Request, Embed(r), UNCHANGED <<embedder, reranker>>
    PROVE  LocksHold'
  BY FailMoves, GotoMoves DEF Embed, Loads

LEMMA BeginMoves ==
    ASSUME LocksHold, NEW r \in Request, NEW query, NEW filters, NEW top,
           Begin(r, query, filters, top), UNCHANGED <<embedder, reranker>>
    PROVE  LocksHold'
<1>. DEFINE s == [at |-> IF search[r].collection = "unread" THEN "collection" ELSE "embed",
                  collection |-> search[r].collection, query |-> query, filters |-> filters,
                  top |-> top, dense |-> <<>>, fused |-> <<>>]
<1>1. "at" \in DOMAIN s /\ s.at \notin Loads
  BY DEF Loads
<1>. QED
  BY <1>1, SearchMoves DEF Begin

LEMMA ReturnMoves ==
    ASSUME LocksHold, NEW r \in Request, NEW answer, Return(r, answer), UNCHANGED <<embedder, reranker>>
    PROVE  LocksHold'
<1>1. "at" \in DOMAIN Idle /\ Idle.at \notin Loads
  BY DEF Idle, Loads
<1>. QED
  BY <1>1, SearchMoves DEF Return

LEMMA NothingMoves ==
    ASSUME LocksHold, UNCHANGED <<search, embedder, reranker>>
    PROVE  LocksHold'
  BY DEF LocksHold, Loading, At

-----------------------------------------------------------------------------
(* Steps of a search *)

LEMMA EmbedderLocks ==
    ASSUME LocksHold, NEW r \in Request, EmbedderLocked(r)
    PROVE  LocksHold'
<1>1. UNCHANGED <<embedder, reranker>> /\ Loading("loading embedder") = {}
  BY DEF EmbedderLocked, Lock
<1>2. CASE embedder = "ready"
  BY <1>1, <1>2, EmbedMoves DEF EmbedderLocked
<1>3. CASE embedder # "ready"
  <2>1. embedder = "cold" /\ Goto(r, "loading embedder")
    BY <1>3 DEF EmbedderLocked, LocksHold
  <2>. DEFINE s == [search[r] EXCEPT !.at = "loading embedder"]
  <2>2. "at" \in DOMAIN s /\ s.at = "loading embedder"
    BY DEF LocksHold
  <2>3. search' = [q \in Request |-> IF q = r THEN s ELSE search[q]]
    BY <2>1 DEF Goto, LocksHold
  <2>4. Loading("loading embedder")' \subseteq {r}
    BY <1>1, <2>3 DEF Loading, At
  <2>5. Loading("loading reranker")' \subseteq Loading("loading reranker")
    BY <2>2, <2>3 DEF Loading, At
  <2>6. \A q \in Request : "at" \in DOMAIN search'[q]
    BY <2>2, <2>3 DEF LocksHold
  <2>. QED
    BY <1>1, <2>1, <2>3, <2>4, <2>5, <2>6 DEF LocksHold
<1>. QED
  BY <1>2, <1>3

LEMMA RerankerLocks ==
    ASSUME LocksHold, NEW r \in Request, RerankerLocked(r)
    PROVE  LocksHold'
<1>1. UNCHANGED <<embedder, reranker>> /\ Loading("loading reranker") = {}
  BY DEF RerankerLocked, Lock
<1>2. CASE reranker # "cold"
  BY <1>1, <1>2, GotoMoves DEF RerankerLocked, Loads
<1>3. CASE reranker = "cold"
  <2>. DEFINE s == [search[r] EXCEPT !.at = "loading reranker"]
  <2>1. Goto(r, "loading reranker")
    BY <1>3 DEF RerankerLocked
  <2>2. "at" \in DOMAIN s /\ s.at = "loading reranker"
    BY DEF LocksHold
  <2>3. search' = [q \in Request |-> IF q = r THEN s ELSE search[q]]
    BY <2>1 DEF Goto, LocksHold
  <2>4. Loading("loading reranker")' \subseteq {r}
    BY <1>1, <2>3 DEF Loading, At
  <2>5. Loading("loading embedder")' \subseteq Loading("loading embedder")
    BY <2>2, <2>3 DEF Loading, At
  <2>6. \A q \in Request : "at" \in DOMAIN search'[q]
    BY <2>2, <2>3 DEF LocksHold
  <2>. QED
    BY <1>1, <1>3, <2>3, <2>4, <2>5, <2>6 DEF LocksHold
<1>. QED
  BY <1>2, <1>3

\* A load ends by leaving the step that is the lock, whatever came of it.
LEMMA EmbedderUnlocks ==
    ASSUME LocksHold, NEW r \in Request, EmbedderLoaded(r)
    PROVE  LocksHold'
<1>1. PICK s : /\ search' = [search EXCEPT ![r] = s] /\ "at" \in DOMAIN s /\ s.at \notin Loads
  <2>. DEFINE failed(why) == [at |-> "failed", collection |-> search[r].collection, error |-> why]
              dense == [search[r] EXCEPT !.at = "dense"]
  <2>1. "at" \in DOMAIN dense /\ dense.at = "dense"
    BY DEF LocksHold
  <2>2. \A why : "at" \in DOMAIN failed(why) /\ failed(why).at = "failed"
    OBVIOUS
  <2>3. \/ search' = [search EXCEPT ![r] = dense]
        \/ \E why : search' = [search EXCEPT ![r] = failed(why)]
    BY DEF EmbedderLoaded, Embed, Fail, Goto
  <2>. QED
    BY <2>1, <2>2, <2>3 DEF Loads
<1>2. search' = [q \in Request |-> IF q = r THEN s ELSE search[q]]
  BY <1>1 DEF LocksHold
<1>3. Loading("loading embedder")' = {}
  <2>1. r \in Loading("loading embedder")
    BY DEF EmbedderLoaded, Loading
  <2>2. ASSUME NEW q \in Loading("loading embedder")'
        PROVE  FALSE
    <3>1. q # r
      BY <1>1, <1>2, <2>2 DEF Loading, At, Loads
    <3>2. q \in Loading("loading embedder")
      BY <1>2, <2>2, <3>1 DEF Loading, At
    <3>. QED
      BY <2>1, <3>1, <3>2 DEF LocksHold
  <2>. QED
    BY <2>2
<1>4. Loading("loading reranker")' \subseteq Loading("loading reranker")
  BY <1>1, <1>2 DEF Loading, At, Loads
<1>5. \A q \in Request : "at" \in DOMAIN search'[q]
  BY <1>1, <1>2 DEF LocksHold
<1>6. embedder' \in {"cold", "ready"} /\ reranker' = reranker
  BY DEF EmbedderLoaded, LocksHold
<1>. QED
  BY <1>2, <1>3, <1>4, <1>5, <1>6 DEF LocksHold

LEMMA RerankerUnlocks ==
    ASSUME LocksHold, NEW r \in Request, RerankerLoaded(r)
    PROVE  LocksHold'
<1>. DEFINE s == [search[r] EXCEPT !.at = "rerank"]
<1>1. search' = [search EXCEPT ![r] = s] /\ "at" \in DOMAIN s /\ s.at = "rerank"
  BY DEF RerankerLoaded, Goto, LocksHold
<1>2. search' = [q \in Request |-> IF q = r THEN s ELSE search[q]]
  BY <1>1 DEF LocksHold
<1>3. Loading("loading reranker")' = {}
  <2>1. r \in Loading("loading reranker")
    BY DEF RerankerLoaded, Loading
  <2>2. ASSUME NEW q \in Loading("loading reranker")'
        PROVE  FALSE
    <3>1. q # r
      BY <1>1, <1>2, <2>2 DEF Loading, At, Loads
    <3>2. q \in Loading("loading reranker")
      BY <1>2, <2>2, <3>1 DEF Loading, At
    <3>. QED
      BY <2>1, <3>1, <3>2 DEF LocksHold
  <2>. QED
    BY <2>2
<1>4. Loading("loading embedder")' \subseteq Loading("loading embedder")
  BY <1>1, <1>2 DEF Loading, At
<1>5. \A q \in Request : "at" \in DOMAIN search'[q]
  BY <1>1, <1>2 DEF LocksHold
<1>6. reranker' \in {"cold", "ready", "unavailable"} /\ embedder' = embedder
  BY DEF RerankerLoaded
<1>. QED
  BY <1>2, <1>3, <1>4, <1>5, <1>6 DEF LocksHold

LEMMA SearchStepKeepsLocks ==
    ASSUME LocksHold, NEW r \in Request, SearchStep(r)
    PROVE  LocksHold'
<1>1. CASE ActiveCollection(r)
  <2>. DEFINE s == [search[r] EXCEPT !.collection = active, !.at = "embed"]
  <2>1. "at" \in DOMAIN s /\ s.at \notin Loads
    BY DEF LocksHold, Loads
  <2>2. UNCHANGED <<embedder, reranker>>
    BY <1>1 DEF ActiveCollection
  <2>3. CASE search' = [search EXCEPT ![r] = s]
    BY <2>1, <2>2, <2>3, SearchMoves
  <2>4. CASE \E why : Fail(r, why)
    BY <2>2, <2>4, FailMoves
  <2>5. search' = [search EXCEPT ![r] = s] \/ \E why : Fail(r, why)
    BY <1>1 DEF ActiveCollection, At
  <2>. QED
    BY <2>3, <2>4, <2>5
<1>2. CASE EnsureEmbedder(r)
  <2>1. UNCHANGED <<embedder, reranker>>
    BY <1>2 DEF EnsureEmbedder
  <2>2. Embed(r) \/ (\E why : Fail(r, why)) \/ Goto(r, "waiting embedder")
    BY <1>2 DEF EnsureEmbedder
  <2>. QED
    BY <2>1, <2>2, EmbedMoves, FailMoves, GotoMoves DEF Loads
<1>3. CASE DenseSearch(r)
  <2>1. UNCHANGED <<embedder, reranker>>
    BY <1>3 DEF DenseSearch
  <2>2. CASE \E why : Fail(r, why)
    BY <2>1, <2>2, FailMoves
  <2>3. CASE \E rows : search' = [search EXCEPT ![r].dense = rows, ![r].at = "sparse"]
    <3>1. PICK rows : search' = [search EXCEPT ![r].dense = rows, ![r].at = "sparse"]
      BY <2>3
    <3>. DEFINE s == [search[r] EXCEPT !.dense = rows, !.at = "sparse"]
    <3>2. search' = [search EXCEPT ![r] = s]
      BY <3>1 DEF LocksHold
    <3>3. "at" \in DOMAIN s /\ s.at = "sparse"
      BY DEF LocksHold
    <3>. QED
      BY <2>1, <3>2, <3>3, SearchMoves DEF Loads
  <2>. QED
    BY <1>3, <2>2, <2>3 DEF DenseSearch
<1>4. CASE SparseSearch(r)
  <2>1. UNCHANGED <<embedder, reranker>>
    BY <1>4 DEF SparseSearch
  <2>2. PICK fused : search' = [search EXCEPT ![r] = AfterFusion(search[r], fused)]
    BY <1>4 DEF SparseSearch
  <2>3. "at" \in DOMAIN AfterFusion(search[r], fused) /\ AfterFusion(search[r], fused).at \notin Loads
    BY DEF AfterFusion, LocksHold, Loads
  <2>. QED
    BY <2>1, <2>2, <2>3, SearchMoves
<1>5. CASE Rerank(r)
  <2>1. UNCHANGED <<embedder, reranker>>
    BY <1>5 DEF Rerank
  <2>2. Goto(r, "waiting reranker") \/ \E order : Found(r, order)
    BY <1>5 DEF Rerank
  <2>3. CASE \E order : Found(r, order)
    <3>1. PICK order : Found(r, order)
      BY <2>3
    <3>. DEFINE s == [at |-> "found", collection |-> search[r].collection, filters |-> search[r].filters,
                      hits |-> First(search[r].top, order), fused |-> Len(search[r].fused)]
    <3>2. "at" \in DOMAIN s /\ s.at \notin Loads
      BY DEF Loads
    <3>. QED
      BY <2>1, <3>1, <3>2, SearchMoves DEF Found
  <2>. QED
    BY <2>1, <2>2, <2>3, GotoMoves DEF Loads
<1>. QED
  BY <1>1, <1>2, <1>3, <1>4, <1>5, EmbedderLocks, EmbedderUnlocks, RerankerLocks, RerankerUnlocks
     DEF SearchStep

-----------------------------------------------------------------------------
(* The handlers: they begin a search, end it, or leave it alone *)

HandlerMoves(r) ==
    /\ UNCHANGED <<embedder, reranker>>
    /\ \/ UNCHANGED search
       \/ \E answer : Return(r, answer)
       \/ \E query, filters, top : Begin(r, query, filters, top)

LEMMA HandlerKeepsLocks ==
    ASSUME LocksHold, NEW r \in Request, HandlerMoves(r)
    PROVE  LocksHold'
  BY NothingMoves, ReturnMoves, BeginMoves DEF HandlerMoves

LEMMA AskMoves ==
    ASSUME NEW r \in Request, AskStep(r)
    PROVE  HandlerMoves(r)
<1>1. CASE AskRefused(r)
  BY <1>1 DEF AskRefused, HandlerMoves
<1>2. CASE AskRouted(r)
  BY <1>2 DEF AskRouted, HandlerMoves
<1>3. CASE RetrievalFailed(r) \/ Probed(r) \/ Retrieved(r)
  BY <1>3 DEF RetrievalFailed, Probed, Retrieved, Settled, HandlerMoves
<1>4. CASE RetrievalCrashed(r) \/ Malformed(r)
  BY <1>4 DEF RetrievalCrashed, Malformed, Crash, HandlerMoves
<1>5. CASE NothingFound(r)
  BY <1>5 DEF NothingFound, Settled, HandlerMoves
<1>6. CASE TimedOut(r) \/ Rejected(r) \/ Synthesized(r)
  BY <1>6 DEF TimedOut, Rejected, Synthesized, Settled, HandlerMoves
<1>7. CASE Recorded(r)
  BY <1>7 DEF Recorded, HandlerMoves
<1>8. CASE Closed(r)
  BY <1>8 DEF Closed, HandlerMoves
<1>. QED
  BY <1>1, <1>2, <1>3, <1>4, <1>5, <1>6, <1>7, <1>8 DEF AskStep

LEMMA DeskMoves ==
    ASSUME NEW r \in Request, DeskStep(r)
    PROVE  HandlerMoves(r)
<1>1. ASSUME NEW todo, NEW done, Advance(r, todo, done)
      PROVE  \/ \E answer : Return(r, answer)
             \/ \E query, filters, top : Begin(r, query, filters, top)
  BY <1>1 DEF Advance
<1>2. CASE DeskAsked(r)
  BY <1>1, <1>2 DEF DeskAsked, HandlerMoves
<1>3. CASE DeskRead(r)
  BY <1>1, <1>3 DEF DeskRead, HandlerMoves
<1>. QED
  BY <1>2, <1>3 DEF DeskStep

LEMMA ZoneMoves ==
    ASSUME NEW r \in Request, ZoneStep(r)
    PROVE  HandlerMoves(r)
<1>1. UNCHANGED <<embedder, reranker>>
  BY DEF ZoneStep, ZoneParsed, ZoneConfigured, ZoneCached, ZoneAnswered, ZoneMalformed, ZoneStored, LookupFails,
         Untouched
<1>2. CASE ZoneParsed(r)
  <2>1. ASSUME NEW town, NEW address, Look(r, town, address)
        PROVE  UNCHANGED search
    BY <2>1 DEF Look
  <2>. QED
    BY <1>1, <1>2, <2>1 DEF ZoneParsed, FollowAddress, HandlerMoves
<1>3. CASE ZoneConfigured(r) \/ ZoneCached(r)
  BY <1>1, <1>3 DEF ZoneConfigured, ZoneCached, HandlerMoves
<1>4. CASE ZoneAnswered(r) \/ ZoneMalformed(r)
  BY <1>1, <1>4 DEF ZoneAnswered, ZoneMalformed, HandlerMoves
<1>5. CASE ZoneStored(r) \/ LookupFails(r)
  BY <1>1, <1>5 DEF ZoneStored, LookupFails, HandlerMoves
<1>. QED
  BY <1>2, <1>3, <1>4, <1>5 DEF ZoneStep

-----------------------------------------------------------------------------

LEMMA LocksAlwaysHold == Spec => []LocksHold
<1>1. Init => LocksHold
  BY DEF Init, LocksHold, Idle, Loading, At
<1>2. LocksHold /\ [Next]_vars => LocksHold'
  <2>. SUFFICES ASSUME LocksHold, [Next]_vars
                PROVE  LocksHold'
    OBVIOUS
  <2>1. ASSUME NEW r \in Request, RequestStep(r)
        PROVE  LocksHold'
    BY <2>1, SearchStepKeepsLocks, AskMoves, DeskMoves, ZoneMoves, HandlerKeepsLocks DEF RequestStep
  <2>2. CASE LineagePass \/ Activate \/ Administration
    BY <2>2, NothingMoves DEF LineagePass, Activate, Administration, PutZoningConfig, Tick, retrieval
  <2>3. CASE UNCHANGED vars
    BY <2>3, NothingMoves DEF vars, retrieval
  <2>. QED
    BY <2>1, <2>2, <2>3 DEF Next
<1>. QED
  BY <1>1, <1>2, PTL DEF Spec

\* However many requests need a model at once, one loads it, and only while it
\* is not there (embeddings/local.py 141-154, reranker/local.py 143-171).
THEOREM ModelsAreLoadedOnce == Spec => []LoadedOnce
<1>1. ASSUME NEW S, \A r, q \in S : r = q
      PROVE  Cardinality(S) <= 1
  <2>1. CASE S = {}
    BY <2>1, FS_EmptySet
  <2>2. CASE S # {}
    <3>1. PICK r \in S : S = {r}
      BY <1>1, <2>2
    <3>. QED
      BY <3>1, FS_Singleton
  <2>. QED
    BY <2>1, <2>2
<1>2. LocksHold => LoadedOnce
  BY <1>1 DEF LocksHold, LoadedOnce
<1>. QED
  BY <1>2, LocksAlwaysHold, PTL

-----------------------------------------------------------------------------
(* The audit.  What is held between the trace and the end of a request is   *)
(* its answer, and nothing is stored or returned before the request ends.   *)
(* Every transaction that is aborted, every trace that was not recorded and *)
(* every answer that was not stored took a fault of its own.                *)

RequestAudited(kind, at, held, answer, message) ==
    /\ at # "ended" => message = NoMessage /\ answer.code = 0
    /\ kind = "ask" /\ at = "recording" => held.outcome \in Outcome
    /\ kind = "ask" /\ at = "closing" => held.result.outcome \in Outcome
    /\ message # NoMessage => kind = "ask" /\ answer.code = 200 /\ message = TraceOf(answer)

\* The trace of a question is lost, or is about to be.
Missed(kind, at, held, answer, message) ==
    /\ kind = "ask"
    /\ \/ at = "closing" /\ held.recorded # TRUE
       \/ answer.code = 200 /\ message = NoMessage

Hurt == aborted \union
            {r \in Request : Missed(asked[r].kind, phase[r], work[r], response[r], messages[r])}

AuditHolds ==
    /\ faults \in Nat /\ IsFiniteSet(Hurt) /\ Cardinality(Hurt) <= faults
    /\ phase = [r \in Request |-> phase[r]] /\ work = [r \in Request |-> work[r]]
    /\ response = [r \in Request |-> response[r]] /\ messages = [r \in Request |-> messages[r]]
    /\ \A r \in Request : RequestAudited(asked[r].kind, phase[r], work[r], response[r], messages[r])

\* A step of r: no transaction but its own is aborted, and that one by a fault.
Orderly(r) ==
    /\ aborted' \subseteq aborted \union {r}
    /\ \/ faults' = faults /\ aborted' \subseteq aborted
       \/ faults' = faults + 1

\* One more is hurt only when one more fault is counted.
LEMMA FaultsCount ==
    ASSUME AuditHolds, NEW r, Orderly(r), NEW S, S \subseteq Hurt \union {r},
           S \subseteq Hurt \/ faults' = faults + 1
    PROVE  faults' \in Nat /\ IsFiniteSet(S) /\ Cardinality(S) <= faults'
<1>1. faults \in Nat /\ IsFiniteSet(Hurt) /\ Cardinality(Hurt) <= faults
  BY DEF AuditHolds
<1>2. faults' \in Nat /\ faults <= faults'
  BY <1>1 DEF Orderly
<1>3. Cardinality(Hurt) \in Nat
  BY <1>1, FS_CardinalityType
<1>4. CASE S \subseteq Hurt
  <2>1. IsFiniteSet(S) /\ Cardinality(S) <= Cardinality(Hurt) /\ Cardinality(S) \in Nat
    BY <1>1, <1>4, FS_Subset, FS_CardinalityType
  <2>. QED
    BY <1>1, <1>2, <1>3, <2>1
<1>5. CASE faults' = faults + 1
  <2>. DEFINE more == Hurt \union {r}
  <2>1. IsFiniteSet(more) /\ Cardinality(more) <= Cardinality(Hurt) + 1 /\ Cardinality(more) \in Nat
    <3>1. IsFiniteSet(more) /\ Cardinality(more) \in {Cardinality(Hurt), Cardinality(Hurt) + 1}
      BY <1>1, FS_AddElement
    <3>. QED
      BY <1>3, <3>1, FS_CardinalityType
  <2>2. IsFiniteSet(S) /\ Cardinality(S) <= Cardinality(more) /\ Cardinality(S) \in Nat
    <3>. HIDE DEF more
    <3>. QED
      BY <2>1, FS_Subset, FS_CardinalityType DEF more
  <2>. QED
    BY <1>1, <1>2, <1>3, <1>5, <2>1, <2>2
<1>. QED
  BY <1>4, <1>5

\* A request moves on to where it should be, and its trace is missed only if
\* it was before, or by a fault.
MovesTo(r, p, w, a, m) ==
    /\ phase' = [phase EXCEPT ![r] = p] /\ work' = [work EXCEPT ![r] = w]
    /\ response' = [response EXCEPT ![r] = a] /\ messages' = [messages EXCEPT ![r] = m]
    /\ RequestAudited(asked[r].kind, p, w, a, m)
    /\ Missed(asked[r].kind, p, w, a, m) => r \in Hurt \/ faults' = faults + 1

LEMMA OneRequestMoves ==
    ASSUME AuditHolds, NEW r \in Request, Orderly(r), UNCHANGED asked,
           NEW p, NEW w, NEW a, NEW m, MovesTo(r, p, w, a, m)
    PROVE  AuditHolds'
<1>1. /\ phase' = [q \in Request |-> IF q = r THEN p ELSE phase[q]]
      /\ work' = [q \in Request |-> IF q = r THEN w ELSE work[q]]
      /\ response' = [q \in Request |-> IF q = r THEN a ELSE response[q]]
      /\ messages' = [q \in Request |-> IF q = r THEN m ELSE messages[q]]
  BY DEF AuditHolds, MovesTo
<1>2. ASSUME NEW q \in Request
      PROVE  RequestAudited(asked'[q].kind, phase'[q], work'[q], response'[q], messages'[q])
  <2>1. CASE q = r
    <3>1. phase'[q] = p /\ work'[q] = w /\ response'[q] = a /\ messages'[q] = m
      BY <1>1, <2>1
    <3>. QED
      BY <2>1, <3>1 DEF MovesTo
  <2>2. CASE q # r
    <3>1. /\ phase'[q] = phase[q] /\ work'[q] = work[q]
          /\ response'[q] = response[q] /\ messages'[q] = messages[q]
      BY <1>1, <2>2
    <3>2. RequestAudited(asked[q].kind, phase[q], work[q], response[q], messages[q])
      BY DEF AuditHolds
    <3>. QED
      BY <3>1, <3>2
  <2>. QED
    BY <2>1, <2>2
<1>3. /\ phase' = [q \in Request |-> phase'[q]] /\ work' = [q \in Request |-> work'[q]]
      /\ response' = [q \in Request |-> response'[q]] /\ messages' = [q \in Request |-> messages'[q]]
  BY <1>1
<1>4. ASSUME NEW q \in Request \ {r}
      PROVE  Missed(asked'[q].kind, phase'[q], work'[q], response'[q], messages'[q])
                <=> Missed(asked[q].kind, phase[q], work[q], response[q], messages[q])
  <2>1. /\ phase'[q] = phase[q] /\ work'[q] = work[q]
        /\ response'[q] = response[q] /\ messages'[q] = messages[q]
    BY <1>1
  <2>. QED
    BY <2>1
<1>5. Missed(asked'[r].kind, phase'[r], work'[r], response'[r], messages'[r])
        => r \in Hurt \/ faults' = faults + 1
  <2>1. phase'[r] = p /\ work'[r] = w /\ response'[r] = a /\ messages'[r] = m
    BY <1>1
  <2>. QED
    BY <2>1 DEF MovesTo
<1>6. Hurt' \subseteq Hurt \union {r} /\ (Hurt' \subseteq Hurt \/ faults' = faults + 1)
  BY <1>4, <1>5 DEF Hurt, Orderly
<1>7. faults' \in Nat /\ IsFiniteSet(Hurt') /\ Cardinality(Hurt') <= faults'
  BY <1>6, FaultsCount
<1>. QED
  BY <1>2, <1>3, <1>7 DEF AuditHolds

\* A search, a pass, an activation or an administrator leaves the requests alone.
LEMMA NoRequestMoves ==
    ASSUME AuditHolds, NEW r, Orderly(r), UNCHANGED answering
    PROVE  AuditHolds'
<1>1. Hurt' \subseteq Hurt \union {r} /\ (Hurt' \subseteq Hurt \/ faults' = faults + 1)
  BY DEF Hurt, Orderly, answering
<1>2. faults' \in Nat /\ IsFiniteSet(Hurt') /\ Cardinality(Hurt') <= faults'
  BY <1>1, FaultsCount
<1>. QED
  BY <1>2 DEF AuditHolds, answering

\* A request goes on: nothing is recorded, stored or returned yet.
LEMMA GoingOn ==
    ASSUME AuditHolds, NEW r \in Request, Orderly(r), phase[r] # "ended", UNCHANGED <<asked, response, messages>>,
           NEW p, p \notin {"recording", "closing", "ended"}, phase' = [phase EXCEPT ![r] = p],
           NEW w, work' = [work EXCEPT ![r] = w]
    PROVE  AuditHolds'
<1>1. response' = [response EXCEPT ![r] = response[r]] /\ messages' = [messages EXCEPT ![r] = messages[r]]
  BY DEF AuditHolds
<1>2. messages[r] = NoMessage /\ response[r].code = 0
  BY DEF AuditHolds, RequestAudited
<1>3. RequestAudited(asked[r].kind, p, w, response[r], messages[r])
  BY <1>2 DEF RequestAudited
<1>4. ~Missed(asked[r].kind, p, w, response[r], messages[r])
  <2>1. p # "closing"
    OBVIOUS
  <2>2. response[r].code # 200
    BY <1>2
  <2>. QED
    BY <2>1, <2>2 DEF Missed
<1>5. MovesTo(r, p, w, response[r], messages[r])
  BY <1>1, <1>3, <1>4 DEF MovesTo
<1>. QED
  BY <1>5, OneRequestMoves

\* A request of another kind, or one in error, ends: it has stored nothing.
LEMMA RequestIsOver ==
    ASSUME AuditHolds, NEW r \in Request, Orderly(r), phase[r] # "ended", UNCHANGED <<asked, messages>>,
           NEW answer, Return(r, answer), asked[r].kind = "ask" => answer.code # 200
    PROVE  AuditHolds'
<1>1. messages' = [messages EXCEPT ![r] = messages[r]] /\ messages[r] = NoMessage
  BY DEF AuditHolds, RequestAudited
<1>2. RequestAudited(asked[r].kind, "ended", Nothing, answer, messages[r])
      /\ ~Missed(asked[r].kind, "ended", Nothing, answer, messages[r])
  BY <1>1 DEF RequestAudited, Missed
<1>3. /\ phase' = [phase EXCEPT ![r] = "ended"] /\ work' = [work EXCEPT ![r] = Nothing]
      /\ response' = [response EXCEPT ![r] = answer]
  BY DEF Return, Proceed, Hold
<1>4. MovesTo(r, "ended", Nothing, answer, messages[r])
  BY <1>1, <1>2, <1>3 DEF MovesTo
<1>. QED
  BY <1>4, OneRequestMoves

\* What may be recorded.
IsResult(result) == result.outcome \in Outcome

LEMMA Finishing ==
    ASSUME AuditHolds, NEW r \in Request, Orderly(r), phase[r] # "ended", UNCHANGED <<asked, response, messages>>,
           NEW result, IsResult(result), Finish(r, result)
    PROVE  AuditHolds'
<1>1. response' = [response EXCEPT ![r] = response[r]] /\ messages' = [messages EXCEPT ![r] = messages[r]]
  BY DEF AuditHolds
<1>2. /\ RequestAudited(asked[r].kind, "recording", result, response[r], messages[r])
      /\ ~Missed(asked[r].kind, "recording", result, response[r], messages[r])
  <2>1. messages[r] = NoMessage /\ response[r].code = 0
    BY DEF AuditHolds, RequestAudited
  <2>. QED
    BY <2>1 DEF RequestAudited, Missed, IsResult, NoMessage
<1>3. phase' = [phase EXCEPT ![r] = "recording"] /\ work' = [work EXCEPT ![r] = result]
  BY DEF Finish, Hold, Proceed
<1>4. MovesTo(r, "recording", result, response[r], messages[r])
  BY <1>1, <1>2, <1>3 DEF MovesTo
<1>. QED
  BY <1>4, OneRequestMoves

LEMMA Results ==
    ASSUME NEW hits, NEW outcome \in Outcome
    PROVE  /\ IsResult(Simple(outcome, hits))
           /\ IsResult(GenerationDown(hits))
           /\ \A reply, margin, resolved : IsResult(Result(outcome, hits, reply, margin, resolved))
<1>1. IsResult(Simple(outcome, hits)) /\ IsResult(Simple("generation_unavailable", hits))
  BY DEF IsResult, Simple, Outcome
<1>2. IsResult(GenerationDown(hits))
  <2>. DEFINE simple == Simple("generation_unavailable", hits)
              listed == {[chunk |-> h.chunk, status |-> h.status, quote |-> Held[h.chunk].words] : h \in ToSet(First(5, hits))}
  <2>1. GenerationDown(hits) = [simple EXCEPT !.citations = listed]
    BY DEF GenerationDown
  <2>2. simple.outcome = "generation_unavailable"
    BY DEF Simple
  <2>. HIDE DEF simple, listed
  <2>. QED
    BY <1>1, <2>1, <2>2 DEF IsResult, simple
<1>3. ASSUME NEW reply, NEW margin, NEW resolved
      PROVE  IsResult(Result(outcome, hits, reply, margin, resolved))
  BY DEF IsResult, Result
<1>. QED
  BY <1>1, <1>2, <1>3

-----------------------------------------------------------------------------
(* Every step is orderly, and one of these *)

LEMMA FaultsAreOrderly ==
    ASSUME AuditHolds, NEW r
    PROVE  /\ UNCHANGED <<faults, aborted>> => Orderly(r)
           /\ Fault /\ UNCHANGED aborted => Orderly(r)
           /\ StatementRuns(r) /\ UNCHANGED aborted => Orderly(r)
           /\ StatementFails(r) /\ aborted' = aborted \union {r} => Orderly(r)
           /\ UNCHANGED faults /\ aborted' = aborted \ {r} => Orderly(r)
  BY DEF AuditHolds, Orderly, Fault, StatementRuns, StatementFails

LEMMA SearchIsOrderly ==
    ASSUME AuditHolds, NEW r \in Request, SearchStep(r)
    PROVE  Orderly(r)
<1>1. CASE ActiveCollection(r) \/ DenseSearch(r) \/ SparseSearch(r)
  BY <1>1, FaultsAreOrderly DEF ActiveCollection, DenseSearch, SparseSearch
<1>2. CASE EnsureEmbedder(r) \/ EmbedderLocked(r) \/ EmbedderLoaded(r)
  BY <1>2, FaultsAreOrderly DEF EnsureEmbedder, EmbedderLocked, EmbedderLoaded
<1>3. CASE Rerank(r) \/ RerankerLocked(r) \/ RerankerLoaded(r)
  BY <1>3, FaultsAreOrderly DEF Rerank, RerankerLocked, RerankerLoaded
<1>. QED
  BY <1>1, <1>2, <1>3 DEF SearchStep

LEMMA TraceIsRecorded ==
    ASSUME AuditHolds, NEW r \in Request, Recorded(r)
    PROVE  AuditHolds'
<1>. DEFINE held(kept) == [result |-> work[r], recorded |-> kept]
<1>1. Orderly(r)
  BY FaultsAreOrderly DEF Recorded
<1>2. PICK kept \in BOOLEAN : /\ work' = [work EXCEPT ![r] = held(kept)]
                              /\ kept \/ r \in Hurt \/ faults' = faults + 1
  <2>1. CASE StatementRuns(r) /\ Hold(r, [result |-> work[r], recorded |-> TRUE])
    BY <2>1 DEF Hold
  <2>2. CASE StatementFails(r) /\ Hold(r, [result |-> work[r], recorded |-> FALSE])
    <3>1. r \in Hurt \/ faults' = faults + 1
      BY <2>2 DEF StatementFails, Fault, Hurt
    <3>. QED
      BY <2>2, <3>1 DEF Hold
  <2>. QED
    BY <2>1, <2>2 DEF Recorded
<1>3. /\ asked[r].kind = "ask" /\ phase[r] = "recording"
      /\ RequestAudited(asked[r].kind, phase[r], work[r], response[r], messages[r])
  BY DEF Recorded, In, AuditHolds
<1>4. held(kept).result.outcome \in Outcome /\ held(kept).recorded = kept
  BY <1>3 DEF RequestAudited
<1>5. /\ RequestAudited(asked[r].kind, "closing", held(kept), response[r], messages[r])
      /\ Missed(asked[r].kind, "closing", held(kept), response[r], messages[r]) => ~kept
  <2>. HIDE DEF held
  <2>1. messages[r] = NoMessage /\ response[r].code = 0
    BY <1>3 DEF RequestAudited
  <2>2. response[r].code # 200 /\ (kept => held(kept).recorded = TRUE)
    BY <1>4, <2>1
  <2>3. RequestAudited(asked[r].kind, "closing", held(kept), response[r], messages[r])
    BY <1>4, <2>1 DEF RequestAudited
  <2>4. Missed(asked[r].kind, "closing", held(kept), response[r], messages[r]) => ~kept
    BY <2>2 DEF Missed
  <2>. QED
    BY <2>3, <2>4
<1>6. /\ phase' = [phase EXCEPT ![r] = "closing"] /\ UNCHANGED asked
      /\ response' = [response EXCEPT ![r] = response[r]]
      /\ messages' = [messages EXCEPT ![r] = messages[r]]
  BY DEF Recorded, Proceed, Answered, AuditHolds
<1>7. MovesTo(r, "closing", held(kept), response[r], messages[r])
  <2>. HIDE DEF held
  <2>. QED
    BY <1>2, <1>5, <1>6 DEF MovesTo
<1>. QED
  BY <1>1, <1>6, <1>7, OneRequestMoves

LEMMA TraceIsCommitted ==
    ASSUME AuditHolds, NEW r \in Request, Closed(r)
    PROVE  AuditHolds'
<1>1. Orderly(r)
  BY FaultsAreOrderly DEF Closed
<1>2. /\ asked[r].kind = "ask" /\ phase[r] = "closing"
      /\ RequestAudited(asked[r].kind, phase[r], work[r], response[r], messages[r])
  BY DEF Closed, In, AuditHolds
<1>. DEFINE result == work[r].result
<1>3. CASE result.outcome = "index_not_ready"
  <2>1. Return(r, [code |-> 503]) /\ UNCHANGED <<asked, messages>>
    BY <1>3 DEF Closed
  <2>. QED
    BY <1>1, <1>2, <2>1, RequestIsOver
<1>4. CASE result.outcome # "index_not_ready"
  <2>. DEFINE answer == Answer(result)
              message == IF work[r].recorded /\ r \notin aborted THEN TraceOf(result) ELSE messages[r]
  <2>1. answer.code = 200 /\ TraceOf(answer) = TraceOf(result)
    BY DEF Answer, TraceOf
  <2>2. TraceOf(result) # NoMessage
    <3>1. result.outcome \in Outcome
      BY <1>2 DEF RequestAudited
    <3>2. TraceOf(result).outcome = result.outcome
      BY DEF TraceOf
    <3>3. NoMessage.outcome = "none" /\ "none" \notin Outcome
      BY DEF NoMessage, Outcome
    <3>. QED
      BY <3>1, <3>2, <3>3
  <2>3. messages[r] = NoMessage
    BY <1>2 DEF RequestAudited
  <2>4. (work[r].recorded = TRUE /\ r \notin aborted) \/ r \in Hurt
    BY <1>2 DEF Hurt, Missed
  <2>5. message \in {TraceOf(result), NoMessage} /\ (message = TraceOf(result) \/ r \in Hurt)
    BY <2>3, <2>4
  <2>6. /\ RequestAudited(asked[r].kind, "ended", Nothing, answer, message)
        /\ Missed(asked[r].kind, "ended", Nothing, answer, message) => r \in Hurt
    <3>. HIDE DEF answer, message
    <3>. QED
      BY <1>2, <2>1, <2>2, <2>5 DEF RequestAudited, Missed
  <2>7. /\ phase' = [phase EXCEPT ![r] = "ended"] /\ work' = [work EXCEPT ![r] = Nothing]
        /\ response' = [response EXCEPT ![r] = answer] /\ UNCHANGED asked
    BY <1>4 DEF Closed, Return, Proceed, Hold
  <2>8. messages' = [messages EXCEPT ![r] = message]
    BY <1>4 DEF Closed, Committed, AuditHolds
  <2>. HIDE DEF answer, message
  <2>9. MovesTo(r, "ended", Nothing, answer, message)
    BY <2>6, <2>7, <2>8 DEF MovesTo
  <2>. QED
    BY <1>1, <2>7, <2>9, OneRequestMoves
<1>. QED
  BY <1>3, <1>4

LEMMA AskStepKeepsAudit ==
    ASSUME AuditHolds, NEW r \in Request, AskStep(r)
    PROVE  AuditHolds'
<1>1. CASE AskRefused(r)
  <2>1. Orderly(r) /\ phase[r] # "ended" /\ UNCHANGED <<asked, messages>> /\ Return(r, [code |-> 404])
    BY <1>1, FaultsAreOrderly DEF AskRefused, In
  <2>. QED
    BY <2>1, RequestIsOver
<1>2. CASE AskRouted(r)
  <2>1. Orderly(r) /\ phase[r] # "ended" /\ UNCHANGED <<asked, response, messages>>
    BY <1>2, FaultsAreOrderly DEF AskRouted, In, Answered
  <2>2. CASE \E outcome \in Outcome : Finish(r, Simple(outcome, <<>>))
    BY <2>1, <2>2, Results, Finishing
  <2>3. CASE Proceed(r, "retrieving") /\ UNCHANGED work
    <3>1. work' = [work EXCEPT ![r] = work[r]]
      BY <2>3 DEF AuditHolds
    <3>. QED
      BY <2>1, <2>3, <3>1, GoingOn DEF Proceed
  <2>4. "out_of_scope" \in Outcome /\ "needs_clarification" \in Outcome
    BY DEF Outcome
  <2>. QED
    BY <1>2, <2>2, <2>3, <2>4 DEF AskRouted
<1>3. CASE RetrievalFailed(r)
  <2>1. Orderly(r) /\ phase[r] # "ended" /\ UNCHANGED <<asked, response, messages>>
    BY <1>3, FaultsAreOrderly DEF RetrievalFailed, In, Answered, Settled
  <2>2. PICK outcome \in Outcome : Finish(r, Simple(outcome, <<>>))
    BY <1>3 DEF RetrievalFailed, Outcome
  <2>. QED
    BY <2>1, <2>2, Results, Finishing
<1>4. CASE RetrievalCrashed(r) \/ Malformed(r)
  <2>1. Orderly(r) /\ phase[r] # "ended" /\ UNCHANGED <<asked, messages>> /\ Return(r, [code |-> 500])
    BY <1>4, FaultsAreOrderly DEF RetrievalCrashed, Malformed, In, Crash
  <2>. QED
    BY <2>1, RequestIsOver
<1>5. CASE NothingFound(r)
  <2>1. Orderly(r) /\ phase[r] # "ended" /\ UNCHANGED <<asked, response, messages>>
    BY <1>5, FaultsAreOrderly DEF NothingFound, In, Answered, Settled
  <2>2. phase' = [phase EXCEPT ![r] = "probing"] /\ work' = [work EXCEPT ![r] = work[r]]
    BY <1>5 DEF NothingFound, Proceed, AuditHolds
  <2>. QED
    BY <2>1, <2>2, GoingOn
<1>6. CASE Probed(r)
  <2>1. Orderly(r) /\ phase[r] # "ended" /\ UNCHANGED <<asked, response, messages>>
    BY <1>6, FaultsAreOrderly DEF Probed, In, Answered, Settled
  <2>2. PICK outcome \in Outcome : Finish(r, Simple(outcome, <<>>))
    BY <1>6 DEF Probed, Outcome
  <2>. QED
    BY <2>1, <2>2, Results, Finishing
<1>7. CASE Retrieved(r)
  <2>1. Orderly(r) /\ phase[r] # "ended" /\ UNCHANGED <<asked, response, messages>>
    BY <1>7, FaultsAreOrderly DEF Retrieved, In, Answered, Settled
  <2>2. "conflicting_amendments" \in Outcome
    BY DEF Outcome
  <2>3. CASE Finish(r, Simple("conflicting_amendments", search[r].hits))
    BY <2>1, <2>2, <2>3, Results, Finishing
  <2>4. CASE Hold(r, [attempts |-> 0]) /\ Proceed(r, "generating")
    BY <2>1, <2>4, GoingOn DEF Hold, Proceed
  <2>. QED
    BY <1>7, <2>3, <2>4 DEF Retrieved
<1>8. CASE TimedOut(r) \/ Rejected(r)
  <2>1. /\ Orderly(r) /\ phase[r] = "generating" /\ UNCHANGED <<asked, response, messages>>
    BY <1>8, FaultsAreOrderly DEF TimedOut, Rejected, In, Answered, Settled
  <2>2. CASE Finish(r, GenerationDown(search[r].hits))
    <3>1. IsResult(GenerationDown(search[r].hits))
      BY Results DEF Outcome
    <3>. QED
      BY <2>1, <2>2, <3>1, Finishing
  <2>3. CASE UNCHANGED phase /\ \E held : Hold(r, held)
    <3>1. phase' = [phase EXCEPT ![r] = phase[r]]
      BY <2>3 DEF AuditHolds
    <3>. QED
      BY <2>1, <2>3, <3>1, GoingOn DEF Hold
  <2>. QED
    BY <1>8, <2>2, <2>3 DEF TimedOut, Rejected
<1>9. CASE Synthesized(r)
  <2>1. Orderly(r) /\ phase[r] # "ended" /\ UNCHANGED <<asked, response, messages>>
    BY <1>9, FaultsAreOrderly DEF Synthesized, In, Answered, Settled
  <2>2. PICK outcome \in Outcome, reply \in Replies, margin \in Margins :
            Finish(r, Result(outcome, search[r].hits, reply, margin, PlanFor(r).towns # <<>>))
    BY <1>9 DEF Synthesized, Outcome
  <2>. QED
    BY <2>1, <2>2, Results, Finishing
<1>. QED
  BY <1>1, <1>2, <1>3, <1>4, <1>5, <1>6, <1>7, <1>8, <1>9, TraceIsRecorded, TraceIsCommitted DEF AskStep

LEMMA AdvanceKeepsAudit ==
    ASSUME AuditHolds, NEW r \in Request, NEW todo, NEW done, Advance(r, todo, done),
           phase[r] # "ended", asked[r].kind # "ask", UNCHANGED <<faults, asked, messages>>
    PROVE  AuditHolds'
<1>1. aborted' = aborted \/ aborted' = aborted \ {r}
  BY DEF Advance
<1>2. Orderly(r)
  BY <1>1, FaultsAreOrderly
<1>3. CASE todo = <<>>
  <2>1. Return(r, ReportFor(asked[r], done))
    BY <1>3 DEF Advance
  <2>. QED
    BY <1>2, <2>1, RequestIsOver
<1>4. CASE todo # <<>>
  <2>1. /\ Hold(r, [todo |-> todo, done |-> done]) /\ Proceed(r, "searching")
        /\ UNCHANGED response
    BY <1>4 DEF Advance
  <2>. QED
    BY <1>2, <2>1, GoingOn DEF Hold, Proceed
<1>. QED
  BY <1>3, <1>4

LEMMA DeskStepKeepsAudit ==
    ASSUME AuditHolds, NEW r \in Request, DeskStep(r)
    PROVE  AuditHolds'
<1>1. /\ asked[r].kind # "ask" /\ phase[r] # "ended"
      /\ UNCHANGED <<faults, asked, messages>>
  BY DEF DeskStep, DeskAsked, DeskRead, DeskKinds
<1>2. CASE DeskAsked(r)
  <2>1. CASE UNCHANGED aborted /\ \E answer : Return(r, answer)
    <3>1. Orderly(r)
      BY <1>1, <2>1, FaultsAreOrderly
    <3>. QED
      BY <1>1, <2>1, <3>1, RequestIsOver
  <2>2. CASE Advance(r, SearchesFor(asked[r]), <<>>)
    BY <1>1, <2>2, AdvanceKeepsAudit
  <2>. QED
    BY <1>2, <2>1, <2>2 DEF DeskAsked
<1>3. CASE DeskRead(r)
  <2>1. PICK todo, done : Advance(r, todo, done)
    BY <1>3 DEF DeskRead
  <2>. QED
    BY <1>1, <2>1, AdvanceKeepsAudit
<1>. QED
  BY <1>2, <1>3 DEF DeskStep

LEMMA ZoneStepKeepsAudit ==
    ASSUME AuditHolds, NEW r \in Request, ZoneStep(r)
    PROVE  AuditHolds'
<1>1. asked[r].kind # "ask" /\ phase[r] # "ended"
  BY DEF ZoneStep, ZoneParsed, ZoneConfigured, ZoneCached, ZoneAnswered, ZoneMalformed, ZoneStored,
         LookupFails, Looking, In
<1>2. UNCHANGED <<aborted, asked, messages>>
  BY DEF ZoneStep, ZoneParsed, ZoneConfigured, ZoneCached, ZoneAnswered, ZoneMalformed, ZoneStored,
         LookupFails, Untouched
<1>3. Orderly(r)
  <2>1. CASE LookupFails(r)
    BY <1>2, <2>1, FaultsAreOrderly DEF LookupFails, Fault, Orderly, AuditHolds
  <2>2. CASE UNCHANGED faults
    BY <1>2, <2>2, FaultsAreOrderly
  <2>. QED
    BY <2>1, <2>2 DEF ZoneStep, ZoneParsed, ZoneConfigured, ZoneCached, ZoneAnswered, ZoneMalformed, ZoneStored
<1>4. ASSUME NEW answer, Return(r, answer)
      PROVE  AuditHolds'
  BY <1>1, <1>2, <1>3, <1>4, RequestIsOver
<1>5. ASSUME NEW w, NEW p \in {"configuring", "reading", "asking", "storing"},
             Hold(r, w), Proceed(r, p), UNCHANGED response
      PROVE  AuditHolds'
  BY <1>1, <1>2, <1>3, <1>5, GoingOn DEF Hold, Proceed
<1>6. ASSUME NEW town, NEW address, Look(r, town, address)
      PROVE  AuditHolds'
  BY <1>5, <1>6 DEF Look
<1>7. CASE ZoneParsed(r)
  BY <1>4, <1>6, <1>7 DEF ZoneParsed, FollowAddress
<1>8. CASE ZoneConfigured(r)
  BY <1>4, <1>5, <1>8 DEF ZoneConfigured
<1>9. CASE ZoneCached(r)
  BY <1>4, <1>5, <1>9 DEF ZoneCached
<1>10. CASE ZoneAnswered(r)
  BY <1>4, <1>5, <1>10 DEF ZoneAnswered
<1>11. CASE ZoneMalformed(r) \/ ZoneStored(r) \/ LookupFails(r)
  BY <1>4, <1>11 DEF ZoneMalformed, ZoneStored, LookupFails
<1>. QED
  BY <1>7, <1>8, <1>9, <1>10, <1>11 DEF ZoneStep

-----------------------------------------------------------------------------

LEMMA AuditAlwaysHolds == Spec => []AuditHolds
<1>1. Init => AuditHolds
  <2>. SUFFICES ASSUME Init
                PROVE  AuditHolds
    OBVIOUS
  <2>1. ASSUME NEW r \in Request
        PROVE  /\ RequestAudited(asked[r].kind, phase[r], work[r], response[r], messages[r])
               /\ ~Missed(asked[r].kind, phase[r], work[r], response[r], messages[r])
    <3>1. phase[r] \in {"received", "ended"} /\ response[r].code = 0 /\ messages[r] = NoMessage
      BY DEF Init
    <3>2. phase[r] # "closing" /\ phase[r] # "recording" /\ response[r].code # 200
      BY <3>1
    <3>. QED
      BY <3>1, <3>2 DEF RequestAudited, Missed
  <2>2. Hurt = {}
    BY <2>1 DEF Hurt, Init
  <2>3. faults \in Nat /\ IsFiniteSet(Hurt) /\ Cardinality(Hurt) <= faults
    BY <2>2, FS_EmptySet DEF Init
  <2>. QED
    BY <2>1, <2>3 DEF AuditHolds, Init
<1>2. AuditHolds /\ [Next]_vars => AuditHolds'
  <2>. SUFFICES ASSUME AuditHolds, [Next]_vars
                PROVE  AuditHolds'
    OBVIOUS
  <2>1. ASSUME NEW r \in Request, RequestStep(r)
        PROVE  AuditHolds'
    BY <2>1, SearchIsOrderly, NoRequestMoves, AskStepKeepsAudit, DeskStepKeepsAudit, ZoneStepKeepsAudit
       DEF RequestStep
  <2>2. ASSUME LineagePass \/ Activate \/ Administration \/ UNCHANGED vars
        PROVE  AuditHolds'
    <3>1. UNCHANGED <<faults, aborted, answering>>
      BY <2>2 DEF LineagePass, Activate, Administration, PutZoningConfig, Tick, vars, retrieval
    <3>2. Orderly(0)
      BY <3>1, FaultsAreOrderly
    <3>. QED
      BY <3>1, <3>2, NoRequestMoves
  <2>. QED
    BY <2>1, <2>2 DEF Next
<1>. QED
  BY <1>1, <1>2, PTL DEF Spec

\* What is stored of a question is what was answered, an error stores nothing,
\* and there are never more answers of which nothing is stored than faults, for
\* any number of requests, questions and answers of the model (deps.py 55-118).
THEOREM AnswersAreAlwaysAudited == Spec => []AnswersAreAudited
<1>1. SUFFICES ASSUME AuditHolds
               PROVE  AnswersAreAudited
  BY AuditAlwaysHolds, PTL
<1>2. ASSUME NEW r \in Request, messages[r] # NoMessage
      PROVE  /\ Succeeded(r, "ask")
             /\ messages[r].outcome = response[r].outcome /\ messages[r].hits = response[r].hits
             /\ response[r].outcome = "answered" => messages[r].citations = response[r].citations
  <2>1. Succeeded(r, "ask") /\ messages[r] = TraceOf(response[r])
    BY <1>1, <1>2 DEF AuditHolds, RequestAudited, Succeeded
  <2>. QED
    BY <2>1 DEF TraceOf
<1>3. Cardinality(Unaudited) <= faults
  <2>1. Unaudited \subseteq Hurt
    BY DEF Unaudited, Hurt, Missed, Succeeded
  <2>2. IsFiniteSet(Hurt) /\ Cardinality(Hurt) <= faults /\ faults \in Nat
    BY <1>1 DEF AuditHolds
  <2>3. /\ Cardinality(Unaudited) <= Cardinality(Hurt)
        /\ Cardinality(Unaudited) \in Nat /\ Cardinality(Hurt) \in Nat
    BY <2>1, <2>2, FS_Subset, FS_CardinalityType
  <2>. QED
    BY <2>2, <2>3
<1>. QED
  BY <1>2, <1>3 DEF AnswersAreAudited
-----------------------------------------------------------------------------
(* A step of a request is its own: what every other request holds stays.   *)

Shapes ==
    /\ search = [r \in Request |-> search[r]] /\ phase = [r \in Request |-> phase[r]]
    /\ work = [r \in Request |-> work[r]] /\ response = [r \in Request |-> response[r]]

\* g is f with at most another entry of r.
EntryOf(r, f, g) == g = f \/ \E v : g = [f EXCEPT ![r] = v]

StepOf(r) ==
    /\ EntryOf(r, search, search') /\ EntryOf(r, phase, phase')
    /\ EntryOf(r, work, work') /\ EntryOf(r, response, response')
    /\ UNCHANGED asked

OthersStay(r) ==
    \A q \in Request \ {r} : /\ search'[q] = search[q] /\ phase'[q] = phase[q]
                             /\ work'[q] = work[q] /\ response'[q] = response[q]

LEMMA OneEntry ==
    ASSUME NEW r \in Request, NEW f, NEW g, f = [q \in Request |-> f[q]], EntryOf(r, f, g)
    PROVE  g = [q \in Request |-> g[q]] /\ \A q \in Request \ {r} : g[q] = f[q]
<1>1. CASE g = f
  BY <1>1
<1>2. CASE \E v : g = [f EXCEPT ![r] = v]
  <2>1. PICK v : g = [f EXCEPT ![r] = v]
    BY <1>2
  <2>2. g = [q \in Request |-> IF q = r THEN v ELSE f[q]]
    BY <2>1
  <2>. QED
    BY <2>2
<1>. QED
  BY <1>1, <1>2 DEF EntryOf

LEMMA StepsStayApart ==
    ASSUME Shapes, NEW r \in Request, StepOf(r)
    PROVE  Shapes' /\ OthersStay(r)
<1>1. search' = [q \in Request |-> search'[q]] /\ \A q \in Request \ {r} : search'[q] = search[q]
  BY OneEntry DEF Shapes, StepOf
<1>2. phase' = [q \in Request |-> phase'[q]] /\ \A q \in Request \ {r} : phase'[q] = phase[q]
  BY OneEntry DEF Shapes, StepOf
<1>3. work' = [q \in Request |-> work'[q]] /\ \A q \in Request \ {r} : work'[q] = work[q]
  BY OneEntry DEF Shapes, StepOf
<1>4. response' = [q \in Request |-> response'[q]] /\ \A q \in Request \ {r} : response'[q] = response[q]
  BY OneEntry DEF Shapes, StepOf
<1>. QED
  BY <1>1, <1>2, <1>3, <1>4 DEF Shapes, OthersStay

\* The building blocks of the actions change entries of their request.
LEMMA Entries ==
    ASSUME NEW r
    PROVE  /\ \A f : EntryOf(r, f, f)
           /\ \A why : Fail(r, why) => EntryOf(r, search, search')
           /\ \A step : Goto(r, step) => EntryOf(r, search, search')
           /\ \A query, filters, top : Begin(r, query, filters, top) => EntryOf(r, search, search')
           /\ \A step : Proceed(r, step) => EntryOf(r, phase, phase')
           /\ \A what : Hold(r, what) => EntryOf(r, work, work')
           /\ \A answer : Return(r, answer) => /\ EntryOf(r, search, search') /\ EntryOf(r, phase, phase')
                                               /\ EntryOf(r, work, work') /\ EntryOf(r, response, response')
<1>1. \A f : EntryOf(r, f, f)
  BY DEF EntryOf
<1>2. ASSUME NEW why, Fail(r, why)
      PROVE  EntryOf(r, search, search')
  BY <1>2 DEF EntryOf, Fail
<1>3. ASSUME NEW step, Goto(r, step)
      PROVE  EntryOf(r, search, search')
  BY <1>3 DEF EntryOf, Goto
<1>4. ASSUME NEW query, NEW filters, NEW top, Begin(r, query, filters, top)
      PROVE  EntryOf(r, search, search')
  BY <1>4 DEF EntryOf, Begin
<1>5. ASSUME NEW step, Proceed(r, step)
      PROVE  EntryOf(r, phase, phase')
  BY <1>5 DEF EntryOf, Proceed
<1>6. ASSUME NEW what, Hold(r, what)
      PROVE  EntryOf(r, work, work')
  BY <1>6 DEF EntryOf, Hold
<1>7. ASSUME NEW answer, Return(r, answer)
      PROVE  /\ EntryOf(r, search, search') /\ EntryOf(r, phase, phase')
             /\ EntryOf(r, work, work') /\ EntryOf(r, response, response')
  <2>1. EntryOf(r, phase, phase') /\ EntryOf(r, work, work')
    BY <1>5, <1>6, <1>7 DEF Return
  <2>2. EntryOf(r, search, search') /\ EntryOf(r, response, response')
    BY <1>7 DEF EntryOf, Return
  <2>. QED
    BY <2>1, <2>2
<1>. QED
  BY <1>1, <1>2, <1>3, <1>4, <1>5, <1>6, <1>7

LEMMA SearchIsOwn ==
    ASSUME NEW r \in Request, SearchStep(r)
    PROVE  EntryOf(r, search, search')
<1>1. CASE ActiveCollection(r) \/ DenseSearch(r)
  <2>1. ASSUME NEW why, Fail(r, why)
        PROVE  EntryOf(r, search, search')
    BY <2>1, Entries
  <2>2. ASSUME UNCHANGED search
        PROVE  EntryOf(r, search, search')
    BY <2>2, Entries
  <2>3. ASSUME NEW v, search' = [search EXCEPT ![r] = v]
        PROVE  EntryOf(r, search, search')
    BY <2>3 DEF EntryOf
  <2>. QED
    BY <1>1, <2>1, <2>2, <2>3 DEF ActiveCollection, DenseSearch
<1>2. CASE EnsureEmbedder(r) \/ EmbedderLocked(r) \/ EmbedderLoaded(r)
  <2>1. Embed(r) => EntryOf(r, search, search')
    BY Entries DEF Embed
  <2>. QED
    BY <1>2, <2>1, Entries DEF EnsureEmbedder, EmbedderLocked, EmbedderLoaded
<1>3. CASE SparseSearch(r)
  <2>1. ASSUME NEW v, search' = [search EXCEPT ![r] = v]
        PROVE  EntryOf(r, search, search')
    BY <2>1 DEF EntryOf
  <2>. QED
    BY <1>3, <2>1 DEF SparseSearch
<1>4. CASE Rerank(r) \/ RerankerLocked(r) \/ RerankerLoaded(r)
  <2>1. ASSUME NEW order, Found(r, order)
        PROVE  EntryOf(r, search, search')
    BY <2>1 DEF EntryOf, Found
  <2>. QED
    BY <1>4, <2>1, Entries DEF Rerank, RerankerLocked, RerankerLoaded
<1>. QED
  BY <1>1, <1>2, <1>3, <1>4 DEF SearchStep

LEMMA AskIsOwn ==
    ASSUME NEW r \in Request, AskStep(r)
    PROVE  StepOf(r)
<1>1. CASE AskRefused(r) \/ AskRouted(r)
  BY <1>1, Entries DEF AskRefused, AskRouted, Finish, Answered, StepOf
<1>2. CASE RetrievalFailed(r) \/ RetrievalCrashed(r)
  BY <1>2, Entries DEF RetrievalFailed, RetrievalCrashed, Finish, Answered, Crash, StepOf
<1>3. CASE NothingFound(r) \/ Probed(r) \/ Retrieved(r)
  BY <1>3, Entries DEF NothingFound, Probed, Retrieved, Finish, Answered, StepOf
<1>4. CASE TimedOut(r) \/ Rejected(r) \/ Malformed(r)
  BY <1>4, Entries DEF TimedOut, Rejected, Malformed, Finish, Answered, Crash, StepOf
<1>5. CASE Synthesized(r)
  BY <1>5, Entries DEF Synthesized, Finish, Answered, StepOf
<1>6. CASE Recorded(r) \/ Closed(r)
  BY <1>6, Entries DEF Recorded, Closed, Answered, StepOf
<1>. QED
  BY <1>1, <1>2, <1>3, <1>4, <1>5, <1>6 DEF AskStep

LEMMA DeskIsOwn ==
    ASSUME NEW r \in Request, DeskStep(r)
    PROVE  StepOf(r)
<1>1. ASSUME NEW todo, NEW done, Advance(r, todo, done), UNCHANGED asked
      PROVE  StepOf(r)
  BY <1>1, Entries DEF Advance, StepOf
<1>2. CASE DeskAsked(r)
  BY <1>1, <1>2, Entries DEF DeskAsked, StepOf
<1>3. CASE DeskRead(r)
  BY <1>1, <1>3 DEF DeskRead
<1>. QED
  BY <1>2, <1>3 DEF DeskStep

LEMMA ZoneIsOwn ==
    ASSUME NEW r \in Request, ZoneStep(r)
    PROVE  StepOf(r)
<1>1. ASSUME NEW town, NEW address, Look(r, town, address), UNCHANGED asked
      PROVE  StepOf(r)
  BY <1>1, Entries DEF Look, StepOf
<1>2. ASSUME NEW answer, Return(r, answer), UNCHANGED asked
      PROVE  StepOf(r)
  BY <1>2, Entries DEF StepOf
<1>3. CASE ZoneParsed(r)
  BY <1>1, <1>2, <1>3 DEF ZoneParsed, FollowAddress, Untouched
<1>4. ASSUME NEW what, NEW step, Hold(r, what), Proceed(r, step), UNCHANGED <<asked, response, search>>
      PROVE  StepOf(r)
  BY <1>4, Entries DEF StepOf
<1>5. CASE ZoneConfigured(r) \/ ZoneCached(r) \/ ZoneAnswered(r)
  BY <1>2, <1>4, <1>5 DEF ZoneConfigured, ZoneCached, ZoneAnswered, Untouched
<1>6. CASE ZoneMalformed(r) \/ ZoneStored(r) \/ LookupFails(r)
  BY <1>2, <1>6 DEF ZoneMalformed, ZoneStored, LookupFails, Untouched
<1>. QED
  BY <1>3, <1>5, <1>6 DEF ZoneStep

LEMMA RequestStepIsOwn ==
    ASSUME NEW r \in Request, RequestStep(r)
    PROVE  StepOf(r)
<1>1. CASE SearchStep(r) /\ UNCHANGED <<answering, zoning>>
  BY <1>1, SearchIsOwn, Entries DEF answering, StepOf
<1>. QED
  BY <1>1, AskIsOwn, DeskIsOwn, ZoneIsOwn DEF RequestStep

LEMMA ShapesHold == Spec => []Shapes
<1>1. Init => Shapes
  BY DEF Init, Shapes
<1>2. Shapes /\ [Next]_vars => Shapes'
  <2>. SUFFICES ASSUME Shapes, [Next]_vars
                PROVE  Shapes'
    OBVIOUS
  <2>1. ASSUME NEW r \in Request, RequestStep(r)
        PROVE  Shapes'
    BY <2>1, RequestStepIsOwn, StepsStayApart
  <2>2. ASSUME LineagePass \/ Activate \/ Administration \/ UNCHANGED vars
        PROVE  Shapes'
    BY <2>2 DEF Shapes, LineagePass, Activate, Administration, PutZoningConfig, Tick, vars, answering, retrieval
  <2>. QED
    BY <2>1, <2>2 DEF Next
<1>. QED
  BY <1>1, <1>2, PTL DEF Spec

-----------------------------------------------------------------------------
(* Zones.  What a lookup holds was listed by its municipality, for its      *)
(* address, at the moment its date says, and once the city is asked, the    *)
(* row of the cache has expired: time only goes on, so it stays expired     *)
(* until the answer is given.                                               *)

\* The municipality listed the zone, for a spelling that folds to this one, at
\* some moment up to this one.
Attested(town, folded, zone, moment) ==
    /\ town \in DOMAIN Published
    /\ \E spelling \in DOMAIN Published[town], t \in 0..moment :
          LET records == Published[town][spelling][t]
          IN  /\ Normalize(spelling) = folded
              /\ records # <<>> /\ Head(records) = zone
              /\ Len(records) > 1 => \E config \in GisConfigs[town] : config.kind = "opendatasoft"

\* A row of the cache under its key.
RowIsDated(key, row) ==
    /\ row.fetched \in 0..now /\ row.expires = row.fetched + TTL
    /\ Attested(key[1], key[2], row.code, row.fetched)

KeyOf(subject) == <<subject.town, Normalize(subject.street)>>

Configured(held) == held.town \in Indexed /\ held.config \in GisConfigs[held.town] \union {Unconfigured}

LookupHolds(subject, step, held, answer) ==
    /\ step \in {"configuring", "reading", "asking", "storing"} =>
          /\ held = Lookup(held.town, held.address, held.config, held.cached, held.zone)
          /\ held.town = subject.town /\ held.address = subject.street
    /\ step \in {"reading", "asking"} => Configured(held)
    /\ step = "asking" => \A row \in held.cached : RowIsDated(KeyOf(subject), row) /\ Expired(row)
    /\ step = "storing" => Attested(subject.town, Normalize(subject.street), held.zone, now)
    /\ answer.code = 200 /\ answer.zone # "" =>
          /\ answer.zoning = "resolved" <=> answer.asOf + TTL > answer.at
          /\ Attested(subject.town, Normalize(subject.street), answer.zone, answer.asOf)

GisHolds == DOMAIN gis = Indexed /\ \A town \in Indexed : gis[town] \in GisConfigs[town] \union {Unconfigured}

ZonesHold ==
    /\ now \in 0..MaxClock /\ GisHolds
    /\ \A key \in DOMAIN parcels : RowIsDated(key, parcels[key])
    /\ \A r \in Request :
          asked[r].kind = "zone" => LookupHolds(Subject(r), phase[r], work[r], response[r])

LEMMA TimeGoesOn ==
    ASSUME now \in Nat, now' \in Nat, now <= now'
    PROVE  /\ \A town, folded, zone : Attested(town, folded, zone, now) => Attested(town, folded, zone, now')
           /\ \A key, row : RowIsDated(key, row) => RowIsDated(key, row)'
           /\ \A key, row : RowIsDated(key, row) /\ Expired(row) => Expired(row)'
<1>1. 0..now \subseteq 0..now'
  OBVIOUS
<1>2. ASSUME NEW key, NEW row, RowIsDated(key, row), Expired(row)
      PROVE  Expired(row)'
  <2>1. row.expires \in Int
    BY <1>2, ZoningAssumption DEF RowIsDated
  <2>. QED
    BY <1>2, <2>1 DEF Expired
<1>. QED
  BY <1>1, <1>2 DEF Attested, RowIsDated

\* The clock ticks, or stands still, and the handlers stand still.
LEMMA LookupsWait ==
    ASSUME ZonesHold, now' \in 0..MaxClock, now <= now', GisHolds',
           UNCHANGED <<asked, parcels, phase, work, response>>
    PROVE  ZonesHold'
<1>1. now \in Nat /\ now' \in Nat
  BY ZoningAssumption DEF ZonesHold
<1>2. ASSUME NEW r \in Request, asked[r].kind = "zone"
      PROVE  LookupHolds(Subject(r), phase[r], work[r], response[r])'
  BY <1>1, <1>2, TimeGoesOn DEF ZonesHold, LookupHolds, Subject, KeyOf, Configured
<1>3. \A key \in DOMAIN parcels : RowIsDated(key, parcels[key])'
  BY <1>1, TimeGoesOn DEF ZonesHold
<1>. QED
  BY <1>2, <1>3 DEF ZonesHold

\* One request moves on, and if it is a lookup, to where it should be.
LEMMA OneLookupMoves ==
    ASSUME ZonesHold, Shapes, NEW r \in Request, StepOf(r), UNCHANGED <<now, gis>>,
           \A key \in DOMAIN parcels' : RowIsDated(key, parcels'[key]),
           asked[r].kind = "zone" => LookupHolds(Subject(r), phase'[r], work'[r], response'[r])
    PROVE  ZonesHold'
<1>1. OthersStay(r) /\ UNCHANGED asked
  BY StepsStayApart DEF StepOf
<1>2. ASSUME NEW q \in Request, asked[q].kind = "zone"
      PROVE  LookupHolds(Subject(q), phase'[q], work'[q], response'[q])
  <2>1. CASE q = r
    BY <1>2, <2>1
  <2>2. CASE q # r
    <3>1. phase'[q] = phase[q] /\ work'[q] = work[q] /\ response'[q] = response[q]
      BY <1>1, <2>2 DEF OthersStay
    <3>. QED
      BY <1>2, <3>1 DEF ZonesHold
  <2>. QED
    BY <2>1, <2>2
<1>3. \A q \in Request : asked[q].kind = "zone" => LookupHolds(Subject(q), phase[q], work[q], response[q])'
  <2>1. \A q : Subject(q)' = Subject(q)
    BY <1>1 DEF Subject
  <2>2. \A key, row : /\ RowIsDated(key, row)' <=> RowIsDated(key, row)
                      /\ Expired(row)' <=> Expired(row)
    BY DEF RowIsDated, Expired, Attested
  <2>3. ASSUME NEW subject, NEW step, NEW held, NEW answer
        PROVE  LookupHolds(subject, step, held, answer)' <=> LookupHolds(subject, step, held, answer)
    BY <2>2 DEF LookupHolds, Configured, Attested, KeyOf
  <2>. QED
    BY <1>1, <1>2, <2>1, <2>3
<1>4. \A key \in DOMAIN parcels' : RowIsDated(key, parcels[key])'
  BY DEF RowIsDated, Attested
<1>. QED
  BY <1>1, <1>3, <1>4 DEF ZonesHold, GisHolds

-----------------------------------------------------------------------------
(* The steps of a lookup *)

\* What a step of the handler leaves in the entries of its request.
LEMMA OwnEntries ==
    ASSUME Shapes, NEW r \in Request
    PROVE  /\ \A step : Proceed(r, step) => phase'[r] = step
           /\ \A what : Hold(r, what) => work'[r] = what
           /\ \A answer : Return(r, answer) =>
                 phase'[r] = "ended" /\ work'[r] = Nothing /\ response'[r] = answer /\ search'[r] = Idle
  BY DEF Shapes, Proceed, Hold, Return

\* An answer without a zone says nothing that could be wrong.
LEMMA NoZone ==
    ASSUME NEW subject, NEW outcome, NEW held
    PROVE  /\ LookupHolds(subject, "ended", held, Reported(outcome, "", 0))
           /\ \A c : LookupHolds(subject, "ended", held, [Reported(outcome, "", 0) EXCEPT !.candidates = c])
           /\ LookupHolds(subject, "ended", held, [code |-> 500])
  BY DEF LookupHolds, Reported

\* A row is served as resolved before it expires, and as stale after.
LEMMA RowsAreServed ==
    ASSUME now \in Nat, NEW subject, NEW held, NEW row, RowIsDated(KeyOf(subject), row)
    PROVE  /\ ~Expired(row) => LookupHolds(subject, "ended", held, FromCache(row, "resolved"))
           /\ \A outcome : outcome # "resolved" /\ Expired(row) =>
                 LookupHolds(subject, "ended", held, FromCache(row, outcome))
<1>1. row.fetched \in Nat /\ row.expires = row.fetched + TTL /\ Attested(subject.town, Normalize(subject.street), row.code, row.fetched)
  BY DEF RowIsDated, KeyOf
<1>2. ASSUME NEW outcome
      PROVE  LET a == FromCache(row, outcome)
             IN  a.zoning = outcome /\ a.zone = row.code /\ a.asOf = row.fetched /\ a.at = now
  BY DEF FromCache, Reported
<1>3. ASSUME NEW outcome, outcome = "resolved" <=> row.fetched + TTL > now
      PROVE  LookupHolds(subject, "ended", held, FromCache(row, outcome))
  <2>. DEFINE a == FromCache(row, outcome)
  <2>1. a.zoning = outcome /\ a.zone = row.code /\ a.asOf = row.fetched /\ a.at = now
    BY <1>2
  <2>2. LookupHolds(subject, "ended", held, a)
    <3>. HIDE DEF a
    <3>. QED
      BY <1>1, <1>3, <2>1 DEF LookupHolds
  <2>. QED
    BY <2>2
<1>. QED
  BY <1>1, <1>3, ZoningAssumption DEF Expired

LEMMA WithoutTheCity ==
    ASSUME now \in Nat, NEW subject, NEW lookup, NEW held, NEW outcome, outcome # "resolved",
           \A row \in lookup.cached : RowIsDated(KeyOf(subject), row) /\ Expired(row)
    PROVE  LookupHolds(subject, "ended", held, Without(lookup, outcome))
<1>1. CASE lookup.cached = {}
  BY <1>1, NoZone DEF Without
<1>2. CASE lookup.cached # {}
  <2>1. PICK row \in lookup.cached : Without(lookup, outcome) = FromCache(row, "stale")
    BY <1>2 DEF Without
  <2>2. RowIsDated(KeyOf(subject), row) /\ Expired(row)
    BY <2>1
  <2>. QED
    BY <2>1, <2>2, RowsAreServed
<1>. QED
  BY <1>1, <1>2

\* What the city lists now, it lists by now.
LEMMA CityListsZones ==
    ASSUME now \in 0..MaxClock, NEW town, NEW address, NEW config \in GisConfigs[town] \union {Unconfigured},
           NEW records, records \in {Matches(town, address), <<>>}, NEW zone \in ZoneIn(config, records)
    PROVE  Attested(town, Normalize(address), zone, now)
<1>1. records # <<>> /\ zone = Head(records) /\ (config.kind = "opendatasoft" \/ Len(records) = 1)
  BY DEF ZoneIn
<1>2. /\ town \in DOMAIN Published /\ address \in DOMAIN Published[town]
      /\ records = Published[town][address][now]
  BY <1>1 DEF Matches
<1>3. Len(records) > 1 => \E c \in GisConfigs[town] : c.kind = "opendatasoft"
  <2>1. Unconfigured.kind = "none"
    BY DEF Unconfigured
  <2>2. Len(records) > 1 => config.kind = "opendatasoft"
    <3>1. \A n : n = 1 => ~(n > 1)
      OBVIOUS
    <3>. QED
      BY <1>1, <3>1, Zenon
  <2>3. config.kind = "opendatasoft" => config \in GisConfigs[town]
    BY <2>1
  <2>. QED
    BY <2>2, <2>3
<1>4. now \in 0..now
  BY ZoningAssumption
<1>. QED
  BY <1>1, <1>2, <1>3, <1>4 DEF Attested

LEMMA LookupStepKeepsZones ==
    ASSUME ZonesHold, Shapes, NEW r \in Request, ZoneStep(r)
    PROVE  ZonesHold'
<1>. DEFINE subject == Subject(r)
<1>1. /\ now \in Nat /\ now \in 0..MaxClock /\ UNCHANGED <<now, gis>> /\ StepOf(r) /\ asked[r].kind = "zone"
      /\ LookupHolds(subject, phase[r], work[r], response[r])
  <2>1. UNCHANGED <<now, gis>> /\ asked[r].kind = "zone"
    BY DEF ZoneStep, ZoneParsed, ZoneConfigured, ZoneCached, ZoneAnswered, ZoneMalformed, ZoneStored,
           LookupFails, Untouched, Looking, In
  <2>. QED
    BY <2>1, ZoneIsOwn, ZoningAssumption DEF ZonesHold
<1>2. ASSUME UNCHANGED parcels, LookupHolds(subject, phase'[r], work'[r], response'[r])
      PROVE  ZonesHold'
  BY <1>1, <1>2, OneLookupMoves DEF ZonesHold
<1>3. ASSUME UNCHANGED parcels, NEW answer, Return(r, answer), LookupHolds(subject, "ended", Nothing, answer)
      PROVE  ZonesHold'
  BY <1>2, <1>3, OwnEntries
<1>. HIDE DEF subject
<1>4. CASE ZoneParsed(r)
  <2>1. ASSUME Look(r, subject.town, subject.street)
        PROVE  ZonesHold'
    <3>. DEFINE held == Lookup(subject.town, subject.street, Unconfigured, {}, "")
    <3>1. /\ held = Lookup(held.town, held.address, held.config, held.cached, held.zone)
          /\ held.town = subject.town /\ held.address = subject.street
      BY DEF Lookup
    <3>2. LookupHolds(subject, "configuring", held, response[r])
      BY <1>1, <3>1 DEF LookupHolds
    <3>. QED
      BY <1>2, <1>4, <2>1, <3>2, OwnEntries DEF Look, ZoneParsed
  <2>2. UNCHANGED parcels
    BY <1>4 DEF ZoneParsed
  <2>. QED
    BY <1>3, <1>4, <2>1, <2>2, NoZone DEF ZoneParsed, FollowAddress, subject
<1>5. CASE ZoneConfigured(r)
  <2>1. /\ work[r] = Lookup(work[r].town, work[r].address, work[r].config, work[r].cached, work[r].zone)
        /\ work[r].town = subject.town /\ work[r].address = subject.street
    BY <1>1, <1>5 DEF ZoneConfigured, Looking, In, LookupHolds
  <2>. DEFINE held == [work[r] EXCEPT !.config = gis[work[r].town]]
  <2>2. /\ held = Lookup(held.town, held.address, held.config, held.cached, held.zone)
        /\ held.town = subject.town /\ held.address = subject.street /\ held.config = gis[subject.town]
    BY <2>1 DEF Lookup
  <2>3. subject.town \in Indexed => LookupHolds(subject, "reading", held, response[r])
    BY <1>1, <2>2 DEF LookupHolds, Configured, ZonesHold, GisHolds
  <2>4. UNCHANGED parcels
    BY <1>5 DEF ZoneConfigured
  <2>5. CASE subject.town \in Indexed /\ Hold(r, held) /\ Proceed(r, "reading") /\ UNCHANGED response
    <3>. HIDE DEF held
    <3>. QED
      BY <1>2, <2>3, <2>4, <2>5, OwnEntries
  <2>6. CASE Return(r, Reported("unsupported", "", 0))
    BY <1>3, <2>4, <2>6, NoZone
  <2>. QED
    BY <1>5, <2>1, <2>5, <2>6 DEF ZoneConfigured
<1>6. CASE ZoneCached(r)
  <2>1. /\ work[r] = Lookup(work[r].town, work[r].address, work[r].config, work[r].cached, work[r].zone)
        /\ work[r].town = subject.town /\ work[r].address = subject.street /\ Configured(work[r])
    BY <1>1, <1>6 DEF ZoneCached, Looking, In, LookupHolds
  <2>. DEFINE lookup == [work[r] EXCEPT !.cached = Cached(work[r])]
              fresh  == {row \in lookup.cached : ~Expired(row)}
  <2>2. /\ lookup = Lookup(lookup.town, lookup.address, lookup.config, lookup.cached, lookup.zone)
        /\ lookup.cached = Cached(work[r])
        /\ lookup.town = subject.town /\ lookup.address = subject.street /\ Configured(lookup)
    BY <2>1 DEF Lookup, Configured
  <2>3. \A row \in Cached(work[r]) : RowIsDated(KeyOf(subject), row)
    BY <2>1 DEF Cached, KeyOf, ZonesHold
  <2>4. UNCHANGED parcels
    BY <1>6 DEF ZoneCached
  <2>5. \/ fresh # {} /\ Return(r, FromCache(CHOOSE row \in fresh : TRUE, "resolved"))
        \/ fresh = {} /\ Return(r, Without(lookup, "unsupported"))
        \/ fresh = {} /\ Hold(r, lookup) /\ Proceed(r, "asking") /\ UNCHANGED <<response, search>>
    BY <1>6 DEF ZoneCached
  <2>. HIDE DEF lookup
  <2>6. CASE fresh # {} /\ Return(r, FromCache(CHOOSE row \in fresh : TRUE, "resolved"))
    <3>1. PICK row \in fresh : Return(r, FromCache(row, "resolved"))
      BY <2>6
    <3>2. RowIsDated(KeyOf(subject), row) /\ ~Expired(row)
      BY <2>2, <2>3
    <3>. QED
      BY <1>1, <1>3, <2>4, <3>1, <3>2, RowsAreServed
  <2>7. ASSUME fresh = {}
        PROVE  \A row \in lookup.cached : RowIsDated(KeyOf(subject), row) /\ Expired(row)
    BY <2>2, <2>3, <2>7
  <2>8. CASE fresh = {} /\ Return(r, Without(lookup, "unsupported"))
    BY <1>1, <1>3, <2>4, <2>7, <2>8, WithoutTheCity
  <2>9. CASE fresh = {} /\ Hold(r, lookup) /\ Proceed(r, "asking") /\ UNCHANGED <<response, search>>
    <3>1. LookupHolds(subject, "asking", lookup, response[r])
      BY <1>1, <2>2, <2>7, <2>9 DEF LookupHolds
    <3>. QED
      BY <1>2, <2>4, <2>9, <3>1, OwnEntries
  <2>. QED
    BY <2>5, <2>6, <2>8, <2>9
<1>7. CASE ZoneAnswered(r)
  <2>1. /\ work[r] = Lookup(work[r].town, work[r].address, work[r].config, work[r].cached, work[r].zone)
        /\ work[r].town = subject.town /\ work[r].address = subject.street /\ Configured(work[r])
        /\ \A row \in work[r].cached : RowIsDated(KeyOf(subject), row) /\ Expired(row)
    BY <1>1, <1>7 DEF ZoneAnswered, Looking, In, LookupHolds
  <2>2. UNCHANGED parcels
    BY <1>7 DEF ZoneAnswered
  <2>3. PICK records \in {Matches(work[r].town, work[r].address), <<>>} :
            LET zones == ZoneIn(work[r].config, records)
            IN  IF zones = {} THEN Return(r, Without(work[r], "not_found"))
                ELSE /\ Hold(r, [work[r] EXCEPT !.zone = CHOOSE z \in zones : TRUE]) /\ Proceed(r, "storing")
                     /\ UNCHANGED <<response, search>>
    BY <1>7 DEF ZoneAnswered
  <2>4. CASE ZoneIn(work[r].config, records) = {}
    BY <1>1, <1>3, <2>1, <2>2, <2>3, <2>4, WithoutTheCity
  <2>5. CASE ZoneIn(work[r].config, records) # {}
    <3>1. PICK zone \in ZoneIn(work[r].config, records) : Hold(r, [work[r] EXCEPT !.zone = zone])
      BY <2>3, <2>5
    <3>2. Attested(subject.town, Normalize(subject.street), zone, now)
      BY <1>1, <2>1, CityListsZones DEF Configured
    <3>. DEFINE held == [work[r] EXCEPT !.zone = zone]
    <3>3. /\ held = Lookup(held.town, held.address, held.config, held.cached, held.zone) /\ held.zone = zone
          /\ held.town = subject.town /\ held.address = subject.street
      BY <2>1 DEF Lookup
    <3>4. Hold(r, held) /\ Proceed(r, "storing") /\ UNCHANGED response
      BY <2>3, <2>5, <3>1
    <3>. HIDE DEF held
    <3>5. LookupHolds(subject, "storing", held, response[r])
      BY <1>1, <3>2, <3>3 DEF LookupHolds
    <3>. QED
      BY <1>2, <2>2, <3>4, <3>5, OwnEntries
  <2>. QED
    BY <2>4, <2>5
<1>8. CASE ZoneStored(r)
  <2>. DEFINE key == <<work[r].town, Normalize(work[r].address)>>
              row == [code |-> work[r].zone, fetched |-> now, expires |-> now + TTL]
              answer == Reported("resolved", work[r].zone, now)
  <2>1. parcels' = [k \in {key} \union DOMAIN parcels |-> IF k = key THEN row ELSE parcels[k]]
    BY <1>8 DEF ZoneStored
  <2>2. /\ Attested(subject.town, Normalize(subject.street), work[r].zone, now)
        /\ work[r].town = subject.town /\ work[r].address = subject.street
    BY <1>1, <1>8 DEF ZoneStored, Looking, In, LookupHolds
  <2>3. RowIsDated(key, row)
    BY <1>1, <2>2 DEF RowIsDated
  <2>. HIDE DEF row, key
  <2>4. ASSUME NEW k \in DOMAIN parcels'
        PROVE  RowIsDated(k, parcels'[k])
    <3>1. CASE k = key
      BY <2>1, <2>3, <3>1
    <3>2. CASE k # key
      <4>1. k \in DOMAIN parcels /\ parcels'[k] = parcels[k]
        BY <2>1, <3>2
      <4>. QED
        BY <4>1 DEF ZonesHold
    <3>. QED
      BY <3>1, <3>2
  <2>5. LookupHolds(subject, "ended", Nothing, answer)
    <3>1. now + TTL > now
      BY <1>1, ZoningAssumption
    <3>2. answer.zoning = "resolved" /\ answer.asOf = now /\ answer.at = now /\ answer.zone = work[r].zone
      BY DEF Reported
    <3>. HIDE DEF answer
    <3>. QED
      BY <2>2, <3>1, <3>2 DEF LookupHolds
  <2>6. LookupHolds(subject, phase'[r], work'[r], response'[r])
    <3>1. Return(r, answer)
      BY <1>8 DEF ZoneStored
    <3>. HIDE DEF answer
    <3>. QED
      BY <2>5, <3>1, OwnEntries
  <2>. QED
    BY <1>1, <2>4, <2>6, OneLookupMoves DEF subject
<1>9. CASE ZoneMalformed(r) \/ LookupFails(r)
  BY <1>3, <1>9, NoZone DEF ZoneMalformed, LookupFails
<1>. QED
  BY <1>4, <1>5, <1>6, <1>7, <1>8, <1>9 DEF ZoneStep

LEMMA ZonesAlwaysHold == Spec => []ZonesHold
<1>1. Init => ZonesHold
  <2>. SUFFICES ASSUME Init
                PROVE  ZonesHold
    OBVIOUS
  <2>1. now \in 0..MaxClock /\ DOMAIN parcels = {} /\ GisHolds
    BY ZoningAssumption DEF Init, GisHolds
  <2>2. ASSUME NEW r \in Request
        PROVE  LookupHolds(Subject(r), phase[r], work[r], response[r])
    <3>1. phase[r] \in {"received", "ended"} /\ response[r] = [code |-> 0]
      BY DEF Init
    <3>. QED
      BY <3>1 DEF LookupHolds
  <2>. QED
    BY <2>1, <2>2 DEF ZonesHold
<1>2. Shapes /\ ZonesHold /\ [Next]_vars => ZonesHold'
  <2>. SUFFICES ASSUME Shapes, ZonesHold, [Next]_vars
                PROVE  ZonesHold'
    OBVIOUS
  <2>1. ASSUME NEW r \in Request, RequestStep(r)
        PROVE  ZonesHold'
    <3>1. StepOf(r)
      BY <2>1, RequestStepIsOwn
    <3>2. CASE SearchStep(r) /\ UNCHANGED <<answering, zoning>>
      BY <3>2, LookupsWait DEF ZonesHold, GisHolds, answering, zoning
    <3>3. CASE (AskStep(r) \/ DeskStep(r)) /\ UNCHANGED zoning
      <4>1. asked[r].kind # "zone"
        BY <3>3 DEF AskStep, AskRefused, AskRouted, RetrievalFailed, RetrievalCrashed, NothingFound, Probed,
                    Retrieved, TimedOut, Rejected, Malformed, Synthesized, Recorded, Closed, In,
                    DeskStep, DeskAsked, DeskRead, DeskKinds
      <4>. QED
        BY <3>1, <3>3, <4>1, OneLookupMoves DEF ZonesHold, zoning
    <3>. QED
      BY <2>1, <3>2, <3>3, LookupStepKeepsZones DEF RequestStep
  <2>2. CASE Administration
    <3>1. CASE PutZoningConfig
      <4>1. GisHolds'
        BY <3>1 DEF PutZoningConfig, ZonesHold, GisHolds
      <4>. QED
        BY <3>1, <4>1, LookupsWait DEF PutZoningConfig, answering, ZonesHold
    <3>2. CASE Tick
      <4>1. now' \in 0..MaxClock /\ now <= now'
        BY <3>2, ZoningAssumption DEF Tick, ZonesHold
      <4>. QED
        BY <3>2, <4>1, LookupsWait DEF Tick, answering, ZonesHold, GisHolds
    <3>. QED
      BY <2>2, <3>1, <3>2 DEF Administration
  <2>3. CASE LineagePass \/ Activate \/ UNCHANGED vars
    BY <2>3, LookupsWait DEF LineagePass, Activate, vars, answering, zoning, ZonesHold, GisHolds
  <2>. QED
    BY <2>1, <2>2, <2>3 DEF Next
<1>. QED
  BY <1>1, <1>2, ShapesHold, PTL DEF Spec

\* A zone is the address's own and as old as it says, and one called resolved
\* has not expired when it is served, for any number of lookups over one cache,
\* configurations put under way and listings that change with time
\* (zoning_service.py 87-150).
THEOREM ZonesAreAlwaysDated == Spec => []ZonesAreDated
<1>1. ASSUME NEW subject, NEW zone, NEW moment, Attested(subject.town, Normalize(subject.street), zone, moment)
      PROVE  /\ subject.town \in DOMAIN Published
             /\ \E t \in 0..moment : ListedBy(subject.town, subject.street, zone, t)
  BY <1>1 DEF Attested, ListedBy
<1>2. ZonesHold => ZonesAreDated
  BY <1>1 DEF ZonesHold, LookupHolds, ZonesAreDated, Succeeded
<1>. QED
  BY <1>2, ZonesAlwaysHold, PTL

=============================================================================
