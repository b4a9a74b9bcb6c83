-------------------------------- MODULE Api --------------------------------
(***************************************************************************)
(* The API process: requests in flight together, over shared models, a     *)
(* shared zoning cache and rows that lineage passes, activations and an    *)
(* administrator change underneath them.                                   *)
(***************************************************************************)
EXTENDS SignRules, Zoning

CONSTANTS
    Traffic,    \* the inputs that may be in flight together: functions of Request
    Verdicts    \* bound: the statuses a lineage pass may leave

vars == <<retrieval, answering, zoning>>

NoRequest == [kind |-> "none"]

\* What a client may send, of each kind.
IsInput(input) ==
    \/ input = NoRequest
    \/ input.kind \in {"ask", "zone"} /\ input.text \in Text /\ input.municipality \in STRING
    \/ input.kind = "compare" /\ input.towns \in Seq(STRING)
    \/ input.kind \in {"check", "permits"} /\ input.town \in STRING

ASSUME ApiAssumption ==
    /\ Verdicts \subseteq [Document -> DocumentStatus]
    /\ \A sent \in Traffic : DOMAIN sent = Request /\ \A r \in Request : IsInput(sent[r])

NoMessage == [outcome |-> "none", citations |-> {}, hits |-> <<>>]

Init ==
    /\ status = [d \in Document |-> "unknown"] /\ active = "none"
    /\ embedder = "cold" /\ reranker = "cold"
    /\ search = [r \in Request |-> Idle] /\ aborted = {} /\ faults = 0
    /\ asked \in Traffic
    /\ phase = [r \in Request |-> IF asked[r] = NoRequest THEN "ended" ELSE "received"]
    /\ work = [r \in Request |-> Nothing]
    /\ response = [r \in Request |-> [code |-> 0]]
    /\ messages = [r \in Request |-> NoMessage]
    /\ gis = [town \in Indexed |-> Unconfigured] /\ parcels = <<>> /\ now = 0

-----------------------------------------------------------------------------
(* What other processes commit.  Bound: only while a request that reads it  *)
(* is in flight, and the active collection only until every one has cached  *)
(* it: nothing reads it after that.                                         *)

InFlight(kinds) == \E r \in Request : asked[r].kind \in kinds /\ phase[r] # "ended"

Searching == InFlight(DeskKinds \union {"ask"})

LineagePass ==
    /\ Searching /\ \E verdict \in Verdicts : status' = verdict
    /\ UNCHANGED <<active, embedder, reranker, search, aborted, faults, answering, zoning>>

\* The requests that have yet to resolve their collection.
Unresolved == {r \in Request : /\ asked[r].kind \in DeskKinds \union {"ask"}
                               /\ phase[r] # "ended" /\ search[r].collection = "unread"}

Activate ==
    /\ Unresolved # {} /\ \E name \in DOMAIN Collection : active' = name
    /\ UNCHANGED <<status, embedder, reranker, search, aborted, faults, answering, zoning>>

Administration == InFlight({"zone"}) /\ (PutZoningConfig \/ Tick)

-----------------------------------------------------------------------------

RequestStep(r) ==
    \/ SearchStep(r) /\ UNCHANGED <<answering, zoning>>
    \/ (AskStep(r) \/ DeskStep(r)) /\ UNCHANGED zoning
    \/ ZoneStep(r)

Next ==
    \/ \E r \in Request : RequestStep(r)
    \/ LineagePass \/ Activate \/ Administration

\* The event loop runs every handler that can run; the models, the database
\* and the network answer or time out.
Spec == Init /\ [][Next]_vars /\ \A r \in Request : WF_vars(RequestStep(r))

-----------------------------------------------------------------------------
(* Types *)

Steps == { "idle", "collection", "embed", "waiting embedder", "loading embedder", "dense", "sparse",
           "rerank", "waiting reranker", "loading reranker", "found", "failed" }

Phases == { "received", "retrieving", "probing", "generating", "recording", "closing", "searching",
            "configuring", "reading", "asking", "storing", "ended" }

SearchOK(s) ==
    /\ s.at \in Steps
    /\ s.collection \in DOMAIN Collection \union {"unread"}
    /\ s.at = "failed" => s.error \in Failure
    /\ s.at \notin {"idle", "failed"} => IsFilters(s.filters)
    /\ s.at = "found" => s.hits \in Seq(Hit) /\ Len(s.hits) <= s.fused
    /\ s.at \notin {"idle", "collection", "failed"} => s.collection # "unread"

WorkOK(r) ==
    /\ phase[r] = "generating" => work[r].attempts \in 0..MaxRetries
    /\ phase[r] = "recording" => work[r].outcome \in Outcome /\ work[r].confidence.score \in 0..1000
    /\ phase[r] = "closing" => work[r].recorded \in BOOLEAN /\ work[r].result.outcome \in Outcome
    /\ phase[r] = "searching" => work[r].todo # <<>>

\* The types of all state: a step of a search has the fields it reads, a
\* handler holds what its next step needs, and a score stays in its range.
TypeOK ==
    /\ status \in [Document -> DocumentStatus] /\ active \in DOMAIN Collection \union {"none"}
    /\ embedder \in {"cold", "ready"} /\ reranker \in {"cold", "ready", "unavailable"}
    /\ aborted \subseteq Request /\ faults \in 0..MaxFaults
    /\ phase \in [Request -> Phases]
    /\ \A r \in Request : /\ SearchOK(search[r]) /\ WorkOK(r)
                          /\ response[r].code \in {0, 200, 400, 404, 500, 503}
                          /\ messages[r].outcome \in Outcome \union {"none"}
    /\ DOMAIN gis = Indexed /\ now \in 0..MaxClock
    /\ \A town \in Indexed : gis[town] \in GisConfigs[town] \union {Unconfigured}
    /\ \A key \in DOMAIN parcels :
          key[1] \in Indexed /\ parcels[key].fetched \in 0..now
          /\ parcels[key].expires = parcels[key].fetched + TTL

-----------------------------------------------------------------------------
(* Properties *)

Succeeded(r, kind) == asked[r].kind = kind /\ response[r].code = 200

\* An answer rests on one version of the law: every citation was in force when
\* it was read, comes from a municipality that was asked about, and no two
\* documents speak for the same section, although the two searches of a
\* question see the corpus at different moments (rag_service.py 521-560).
OneVersionPerSection ==
    \A r \in Request :
        Succeeded(r, "ask") /\ response[r].outcome = "answered" =>
            /\ \A c \in response[r].citations :
                  c.status = "in_force"
                  /\ (FiltersFor(r).towns # {} => Held[c.chunk].town \in FiltersFor(r).towns)
            /\ \A g, h \in ToSet(response[r].hits) :
                  /\ Held[g.chunk].section # "none"
                  /\ Held[g.chunk].section = Held[h.chunk].section
                  /\ Held[g.chunk].town = Held[h.chunk].town
                  => Held[g.chunk].document = Held[h.chunk].document

\* A rule is never shown without its source: an answer that states one, or is of
\* high confidence, has a citation, and every citation is of an excerpt it was
\* made from, in the status it was read with, and begins with words that stand
\* there (verifier.py 195-255, confidence.py, rag_service.py 483-517).
RulesAreCited ==
    \A r \in Request : Succeeded(r, "ask") =>
        /\ response[r].rules \/ response[r].confidence.band = "high" => response[r].citations # {}
        /\ \A c \in response[r].citations :
              /\ \E h \in ToSet(response[r].hits) : h.chunk = c.chunk /\ h.status = c.status
              /\ Occurs(First(6, c.quote), Held[c.chunk].words)

\* The answers of which nothing is stored.
Unaudited == {r \in Request : Succeeded(r, "ask") /\ messages[r] = NoMessage}

\* What is stored of a question is what was answered, from the same excerpts and
\* with the same citations; an error stores nothing; and an answer goes missing
\* only by a fault of its own: there are never more of them than statements and
\* calls that failed (deps.py 55-118, trace_store.py 50-110).
AnswersAreAudited ==
    /\ \A r \in Request : messages[r] # NoMessage =>
          /\ Succeeded(r, "ask")
          /\ messages[r].outcome = response[r].outcome /\ messages[r].hits = response[r].hits
          /\ response[r].outcome = "answered" => messages[r].citations = response[r].citations
    /\ Cardinality(Unaudited) <= faults

\* A sign complies only when the limit of every dimension proposed, that has a
\* rule location, was read from that municipality's own bylaw, from text that is
\* no OCR, and holds (engine.py, base.py 178-190).
PassMeansEveryRuleRead ==
    \A r \in Request :
        Succeeded(r, "check") /\ response[r].outcome = "complies" =>
            \A l \in LocationsFor(asked[r].sign) :
                l.dimension \in DOMAIN asked[r].proposed =>
                    \E c \in ToSet(response[r].checks) :
                        /\ c.dimension = l.dimension /\ c.outcome = "complies"
                        /\ c.measured # {}
                        /\ \A m \in c.measured : Held[m.chunk].town = asked[r].town
                                                 /\ ~Held[m.chunk].fromOcr

\* A comparison and a checklist quote each municipality's own bylaw, and a row
\* compares like with like: limits in one unit, and all or none of them for each
\* metre of frontage (comparison.py 53-68 and 115-190, permits.py 133-203).
EvidenceIsItsOwn ==
    \A r \in Request :
        /\ Succeeded(r, "compare") =>
              \A row \in response[r].rows :
                  /\ \A i \in DOMAIN row.sides : \A m \in row.sides[i].measured :
                        Held[m.chunk].town = row.sides[i].town
                  /\ row.comparable =>
                        \A i, j \in DOMAIN row.sides :
                            \A m \in row.sides[i].measured, n \in row.sides[j].measured :
                                m.limit.unit = n.limit.unit /\ m.limit.ratio = n.limit.ratio
        /\ Succeeded(r, "permits") =>
              \A item \in ToSet(response[r].items) : \A c \in item.evidence :
                  Held[c].town = asked[r].town

\* A municipality listed the zone for the address, in some spelling of it: first,
\* and alone where none of its providers is an Opendatasoft one.
ListedBy(town, address, zone, t) ==
    \E spelling \in DOMAIN Published[town] :
        LET records == Published[town][spelling][t]
        IN  /\ Normalize(spelling) = Normalize(address)
            /\ records # <<>> /\ Head(records) = zone
            /\ Len(records) > 1 => \E config \in GisConfigs[town] : config.kind = "opendatasoft"

\* A zone is the address's own and as old as it says: the very municipality
\* asked about listed it for that address at some moment up to its date, though
\* another lookup, of another spelling, may have stored the row, and the
\* configuration and the clock move between the steps.  It is called resolved
\* while it has not expired (zoning_service.py 87-150, arcgis.py 91-107).
ZonesAreDated ==
    \A r \in Request :
        Succeeded(r, "zone") /\ response[r].zone # "" =>
            /\ response[r].zoning = "resolved" <=> response[r].asOf + TTL > response[r].at
            /\ Subject(r).town \in DOMAIN Published
            /\ \E t \in 0..response[r].asOf :
                  ListedBy(Subject(r).town, Subject(r).street, response[r].zone, t)

\* A model is loaded by one request at a time and never again once it is there
\* (embeddings/local.py, reranker/local.py).
LoadedOnce ==
    /\ Cardinality(Loading("loading embedder")) <= 1 /\ Cardinality(Loading("loading reranker")) <= 1
    /\ Loading("loading embedder") # {} => embedder = "cold"
    /\ Loading("loading reranker") # {} => reranker = "cold"

\* Every request ends: nobody waits for a lock that is not let go, the retries
\* of a model that is down run out (ollama.py 183-256), and no search is made
\* again in a transaction that cannot succeed any more.
RequestsEnd == \A r \in Request : <>(phase[r] = "ended")

\* An address that ends in a name two municipalities share is not looked up: the
\* client is asked which one is meant (address.py 10-13, municipalities.py 418-424).
AmbiguousIsAsked ==
    \A r \in Request :
        Succeeded(r, "zone") /\ asked[r].municipality = "none" /\ TrailingAmbiguous(asked[r].text) # {}
            => response[r].zoning = "ambiguous_municipality"
=============================================================================
