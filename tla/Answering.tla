----------------------------- MODULE Answering -----------------------------
(***************************************************************************)
(* POST /ask: RagService (services/rag_service.py) with its synthesizer,   *)
(* the Ollama client, the trace sink and the request's session             *)
(* (api/deps.py, api/v1/ask.py).                                           *)
(***************************************************************************)
EXTENDS Retriever, Evidence, Places

CONSTANTS
    QueryOf,      \* the query a question's text is
    Replies,      \* what the model may write
    Margins,      \* margins the scores may show
    MaxRetries    \* of the Ollama client

ASSUME AnsweringAssumption ==
    /\ MaxRetries \in Nat /\ Margins \subseteq 0..1000 /\ Margins # {}
    /\ Replies \subseteq Reply /\ QueryOf \in [Text -> Query]

VARIABLES
    asked,      \* the input of each request, of any kind
    phase,      \* where its handler is
    work,       \* what its handler holds between two steps
    response,   \* what it returned
    messages    \* chat_message: the committed trace of each request

answering == <<asked, phase, work, response, messages>>

Outcome == {"answered", "needs_clarification", "out_of_scope", "no_relevant_bylaw", "only_outdated",
            "conflicting_amendments", "unverified", "generation_unavailable", "index_not_ready"}

In(r, kind, step) == asked[r].kind = kind /\ phase[r] = step

Proceed(r, step) == phase' = [phase EXCEPT ![r] = step]

Hold(r, what) == work' = [work EXCEPT ![r] = what]

\* work[r] when nothing is held.
Nothing == [held |-> FALSE]

Answered(r) == UNCHANGED <<asked, response, messages>>

\* An answer ready to be recorded: `hits` are the excerpts it was made from.
Result(outcome, hits, reply, margin, resolved) ==
    LET shown == outcome = "answered"
    IN  [ outcome    |-> outcome, hits |-> hits,
          citations  |-> IF shown THEN CitationsOf(reply, hits) ELSE {},
          rules      |-> shown /\ AssertsRules(reply),
          confidence |-> IF shown THEN Confidence(reply, hits, resolved, margin) ELSE NoConfidence ]

Simple(outcome, hits) ==
    [ outcome |-> outcome, hits |-> hits, citations |-> {}, rules |-> FALSE,
      confidence |-> NoConfidence ]

\* The excerpts themselves are quoted when the model is down.
GenerationDown(hits) ==
    [Simple("generation_unavailable", hits) EXCEPT !.citations =
        {[chunk |-> h.chunk, status |-> h.status, quote |-> Held[h.chunk].words] : h \in ToSet(First(5, hits))}]

\* _finish: the trace is recorded next, then the handler returns.
Finish(r, result) == Proceed(r, "recording") /\ Hold(r, result)

Return(r, answer) ==
    /\ response' = [response EXCEPT ![r] = answer]
    /\ Proceed(r, "ended") /\ Hold(r, Nothing)
    /\ search' = [search EXCEPT ![r] = Idle]

\* An exception nobody catches: get_db rolls back, and the error is a 500.
Crash(r) ==
    /\ Return(r, [code |-> 500])
    /\ aborted' = aborted \ {r}
    /\ UNCHANGED <<status, active, embedder, reranker, faults, asked, messages>>

-----------------------------------------------------------------------------
(* Routing *)

PlanFor(r) == Plan[asked[r].text]

\* The municipality the client picked replaces what the question names.
FiltersFor(r) ==
    [ towns |-> IF asked[r].municipality = "none" THEN ToSet(PlanFor(r).towns)
                ELSE {asked[r].municipality},
      inForceOnly |-> TRUE, excludeOcr |-> FALSE ]

AskRefused(r) ==
    /\ In(r, "ask", "received")
    /\ asked[r].municipality # "none" /\ ~Catalogued(asked[r].municipality)
    /\ Return(r, [code |-> 404])
    /\ UNCHANGED <<status, active, embedder, reranker, aborted, faults, asked, messages>>

AskRouted(r) ==
    /\ In(r, "ask", "received")
    /\ asked[r].municipality # "none" => Catalogued(asked[r].municipality)
    /\ LET plan == PlanFor(r)
       IN  IF plan.intent = "out_of_scope"
           THEN Finish(r, Simple("out_of_scope", <<>>)) /\ UNCHANGED search
           ELSE IF plan.ambiguous # {}
           THEN Finish(r, Simple("needs_clarification", <<>>)) /\ UNCHANGED search
           ELSE /\ Begin(r, QueryOf[asked[r].text], FiltersFor(r), RerankTopN)
                /\ Proceed(r, "retrieving") /\ UNCHANGED work
    /\ Answered(r)
    /\ UNCHANGED <<status, active, embedder, reranker, aborted, faults>>

-----------------------------------------------------------------------------
(* Retrieval *)

Settled == UNCHANGED <<status, active, embedder, reranker, aborted, faults>>

\* Expected failures become outcomes.
RetrievalFailed(r) ==
    /\ In(r, "ask", "retrieving") /\ At(r, "failed") /\ search[r].error # "database"
    /\ Finish(r, Simple(IF search[r].error = "index" THEN "index_not_ready" ELSE "no_relevant_bylaw", <<>>))
    /\ Answered(r) /\ Settled /\ UNCHANGED search

\* A database error is not one of them.
RetrievalCrashed(r) ==
    /\ In(r, "ask", "retrieving") /\ At(r, "failed") /\ search[r].error = "database"
    /\ Crash(r)

\* Nothing found: look again without the in-force filter.
NothingFound(r) ==
    /\ In(r, "ask", "retrieving") /\ At(r, "found") /\ search[r].hits = <<>>
    /\ Begin(r, QueryOf[asked[r].text], [search[r].filters EXCEPT !.inForceOnly = FALSE], RerankTopN)
    /\ Proceed(r, "probing")
    /\ Answered(r) /\ Settled /\ UNCHANGED work

\* The probe never fails the request.
Probed(r) ==
    /\ In(r, "ask", "probing") /\ search[r].at \in {"found", "failed"}
    /\ LET outdated == At(r, "found") /\ \E h \in ToSet(search[r].hits) : h.status # "in_force"
       IN  Finish(r, Simple(IF outdated THEN "only_outdated" ELSE "no_relevant_bylaw", <<>>))
    /\ Answered(r) /\ Settled /\ UNCHANGED search

Retrieved(r) ==
    /\ In(r, "ask", "retrieving") /\ At(r, "found") /\ search[r].hits # <<>>
    /\ IF DetectConflicts(search[r].hits) # {}
       THEN Finish(r, Simple("conflicting_amendments", search[r].hits))
       ELSE Hold(r, [attempts |-> 0]) /\ Proceed(r, "generating")
    /\ Answered(r) /\ Settled /\ UNCHANGED search

-----------------------------------------------------------------------------
(* Generation: the attempts counted are those that timed out or met a 5xx *)

TimedOut(r) ==
    /\ In(r, "ask", "generating")
    /\ IF work[r].attempts < MaxRetries
       THEN Hold(r, [attempts |-> work[r].attempts + 1]) /\ UNCHANGED phase
       ELSE Finish(r, GenerationDown(search[r].hits))
    /\ Answered(r) /\ Settled /\ UNCHANGED search

\* A 4xx, or an empty completion, is not retried.
Rejected(r) ==
    /\ In(r, "ask", "generating")
    /\ Finish(r, GenerationDown(search[r].hits))
    /\ Answered(r) /\ Settled /\ UNCHANGED search

\* A body that is no JSON raises an error that nothing here expects.
Malformed(r) == In(r, "ask", "generating") /\ Crash(r)

Synthesized(r) ==
    /\ In(r, "ask", "generating")
    /\ Answered(r) /\ Settled /\ UNCHANGED search
    /\ \E reply \in Replies, margin \in Margins :
          Finish(r, Result(IF IsSynthesis(reply, search[r].hits) THEN "answered" ELSE "unverified",
                           search[r].hits, reply, margin, PlanFor(r).towns # <<>>))

-----------------------------------------------------------------------------
(* The trace, and the end of the request *)

\* The excerpts quoted for want of an answer are not in it.
TraceOf(result) ==
    [ outcome |-> result.outcome, hits |-> result.hits,
      citations |-> IF result.outcome = "answered" THEN result.citations ELSE {} ]

\* The rows are inserted; a failure is swallowed, and what was recorded stays
\* to be committed.
Recorded(r) ==
    /\ In(r, "ask", "recording")
    /\ \/ /\ StatementRuns(r) /\ UNCHANGED aborted
          /\ Hold(r, [result |-> work[r], recorded |-> TRUE])
       \/ /\ StatementFails(r) /\ aborted' = aborted \union {r}
          /\ Hold(r, [result |-> work[r], recorded |-> FALSE])
    /\ Proceed(r, "closing")
    /\ Answered(r)
    /\ UNCHANGED <<status, active, embedder, reranker, search>>

\* _to_response
Answer(result) ==
    [ code |-> 200, outcome |-> result.outcome, hits |-> result.hits, citations |-> result.citations,
      rules |-> result.rules, confidence |-> result.confidence ]

\* get_db commits, which an aborted transaction turns into a rollback.
Committed(r) ==
    IF work[r].recorded /\ r \notin aborted
    THEN [messages EXCEPT ![r] = TraceOf(work[r].result)] ELSE messages

\* Mutant: the trace is committed before the index is found not to be ready.
ClosedEarly(r) ==
    /\ In(r, "ask", "closing")
    /\ Return(r, IF work[r].result.outcome = "index_not_ready" THEN [code |-> 503]
                 ELSE Answer(work[r].result))
    /\ messages' = Committed(r)
    /\ aborted' = aborted \ {r}
    /\ UNCHANGED <<status, active, embedder, reranker, faults, asked>>

\* The handler returns.  An index that is not ready is raised as a 503.
Closed(r) ==
    /\ In(r, "ask", "closing")
    /\ IF work[r].result.outcome = "index_not_ready"
       THEN Return(r, [code |-> 503]) /\ UNCHANGED messages
       ELSE Return(r, Answer(work[r].result)) /\ messages' = Committed(r)
    /\ aborted' = aborted \ {r}
    /\ UNCHANGED <<status, active, embedder, reranker, faults, asked>>

AskStep(r) ==
    \/ AskRefused(r) \/ AskRouted(r)
    \/ RetrievalFailed(r) \/ RetrievalCrashed(r) \/ NothingFound(r) \/ Probed(r) \/ Retrieved(r)
    \/ TimedOut(r) \/ Rejected(r) \/ Malformed(r) \/ Synthesized(r)
    \/ Recorded(r) \/ Closed(r)
=============================================================================
