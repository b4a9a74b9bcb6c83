----------------------------- MODULE SignRules -----------------------------
(***************************************************************************)
(* The requests that read limits and requirements out of bylaw text        *)
(* (api/v1/phase3.py): compliance checks (services/compliance), municipal  *)
(* comparison (services/comparison.py) and permit checklists               *)
(* (services/permits.py).  Each is a list of searches, one after another   *)
(* on the same retriever and transaction; lengths are in tenths.           *)
(***************************************************************************)
EXTENDS Answering

CONSTANTS
    RuleLocations,   \* rules.py: where each rule of a sign type is looked for
    Topics,          \* permits.py: the topics, in order
    TopicQuery,      \* the query of a topic for a sign type
    CheckTopN, PermitTopN

SignType == {"fascia", "channel_letter", "pylon", "freestanding", "window", "digital", "awning",
             "projecting", "canopy"}

ASSUME RulesAssumption ==
    /\ RuleLocations \in Seq([sign : SignType, dimension : STRING, query : Query, units : SUBSET STRING])
    /\ Topics \in Seq(STRING)
    /\ \A key \in ToSet(Topics) \X SignType : TopicQuery[key] \in Query
    /\ {CheckTopN, PermitTopN} \subseteq Nat \ {0}

\* The dimensions a number can be compared in, and those it is a minimum of.
Measurable == {"area", "height", "setback"}

Minimums == {"setback"}

LocationsFor(sign) == {l \in ToSet(RuleLocations) : l.sign = sign}

-----------------------------------------------------------------------------
(* parsing.py *)

Acceptable(limits, units) == {l \in limits : units = {} \/ l.unit \in units}

\* What a sentence yields: its ratio, else its maximum, in an expected unit.
Yield(rule, units) ==
    IF rule.defers \/ rule.range THEN {}
    ELSE IF Acceptable(rule.ratio, units) # {}
         THEN {[value |-> l.value, unit |-> l.unit, ratio |-> TRUE] : l \in Acceptable(rule.ratio, units)}
         ELSE {[value |-> l.value, unit |-> l.unit, ratio |-> FALSE] : l \in Acceptable(rule.maximum, units)}

\* The first usable sentence wins.
ExtractLimit(rules, units) ==
    UNION {Yield(rules[i], units) : i \in FirstOf({i \in DOMAIN rules : Yield(rules[i], units) # {}})}

-----------------------------------------------------------------------------
(* ComplianceEngine *)

\* The searches of one check: the dimensions proposed that have a location.  A
\* check is made for a row of a comparison, or for none.
SearchesOf(spec, row) ==
    LET wanted(l) == l \in LocationsFor(spec.sign) /\ l.dimension \in DOMAIN spec.proposed
        located   == Subsequence(RuleLocations, {i \in DOMAIN RuleLocations : wanted(RuleLocations[i])})
    IN  [i \in DOMAIN located |->
            [query |-> located[i].query, town |-> spec.town, excludeOcr |-> TRUE, top |-> CheckTopN,
             spec |-> spec, location |-> located[i], row |-> row]]

\* The limit of the best hit that yields one.  A score of bge-reranker
\* is a sigmoid, so the least score of 0.0 that engine.py asks for leaves none out.
Measured(hits, units) ==
    LET limits(i) == ExtractLimit(Held[hits[i].chunk].rules, units)
    IN  UNION {{[chunk |-> hits[i].chunk, limit |-> l] : l \in limits(i)} :
                  i \in FirstOf({i \in DOMAIN hits : limits(i) # {}})}

\* What a measured limit comes to: a ratio needs the frontage.
LimitFor(limit, frontage) ==
    IF limit.ratio THEN {limit.value * f : f \in frontage} ELSE {limit.value}

IsWithin(dimension, proposed, limit) ==
    IF dimension \in Minimums THEN proposed >= limit ELSE proposed <= limit

\* _check_one, on the hits of its search.
CheckOf(task, hits) ==
    LET dimension == task.location.dimension
        measured  == Measured(hits, task.location.units)
        limits    == UNION {LimitFor(m.limit, task.spec.frontage) : m \in measured}
        check(outcome) == [ dimension |-> dimension, town |-> task.town, row |-> task.row,
                            outcome |-> outcome, limits |-> limits, measured |-> measured ]
    IN  IF limits = {} THEN check("insufficient_information")
        ELSE IF \A l \in limits : IsWithin(dimension, task.spec.proposed[dimension], l)
             THEN check("complies") ELSE check("exceeds")

\* Mutant: one dimension that complies is enough.
ReportOutcomeLenient(checks) ==
    LET outcomes == {checks[i].outcome : i \in DOMAIN checks}
    IN  IF "exceeds" \in outcomes THEN "exceeds"
        ELSE IF "complies" \in outcomes THEN "complies" ELSE "insufficient_information"

\* ComplianceReport.outcome
ReportOutcome(checks) ==
    LET outcomes == {checks[i].outcome : i \in DOMAIN checks}
    IN  IF "exceeds" \in outcomes THEN "exceeds"
        ELSE IF checks = <<>> \/ "insufficient_information" \in outcomes THEN "insufficient_information"
        ELSE "complies"

-----------------------------------------------------------------------------
(* MunicipalityComparisonService *)

ComparedDimensions(sign) ==
    LET of(dimension) == {i \in DOMAIN RuleLocations :
                             RuleLocations[i].sign = sign /\ RuleLocations[i].dimension = dimension}
    IN  Subsequence([i \in DOMAIN RuleLocations |-> RuleLocations[i].dimension],
                    UNION {FirstOf(of(dimension)) : dimension \in Measurable})

\* One unit of everything, so that every check is made.
Probe(sign, town) == [sign |-> sign, town |-> town, proposed |-> [d \in Measurable |-> 10], frontage |-> {1}]

\* For every dimension and municipality a whole check of the probe.
ComparisonSearches(sign, towns) ==
    LET row(d) == FlattenSeq([i \in DOMAIN towns |-> SearchesOf(Probe(sign, towns[i]), d)])
        dimensions == ComparedDimensions(sign)
    IN  IF Len(towns) < 2 THEN <<>> ELSE FlattenSeq([i \in DOMAIN dimensions |-> row(dimensions[i])])

\* _side: the check of the row's own dimension, if it is determinate.
SideOf(done, row, town) ==
    LET own(c) == c.row = row /\ c.town = town /\ c.dimension = row
        known  == {i \in FirstOf({i \in DOMAIN done : own(done[i])}) :
                      done[i].outcome # "insufficient_information"}
    IN  [town |-> town, measured |-> UNION {done[i].measured : i \in known},
         value |-> UNION {done[i].limits : i \in known}]

\* Mutant: square feet are compared with square metres.
IsComparableInAnyUnit(sides) ==
    LET known == UNION {sides[i].measured : i \in DOMAIN sides}
    IN  /\ Cardinality({i \in DOMAIN sides : sides[i].value # {}}) >= 2
        /\ Cardinality({m.limit.ratio : m \in known}) = 1

IsComparable(sides) ==
    LET known == UNION {sides[i].measured : i \in DOMAIN sides}
    IN  /\ Cardinality({i \in DOMAIN sides : sides[i].value # {}}) >= 2
        /\ Cardinality({m.limit.unit : m \in known}) = 1
        /\ Cardinality({m.limit.ratio : m \in known}) = 1

RowsOf(sign, towns, done) ==
    IF Len(towns) < 2 THEN {}
    ELSE LET side(d, i) == SideOf(done, d, towns[i])
         IN  { [ dimension |-> d, sides |-> [i \in DOMAIN towns |-> side(d, i)],
                 comparable |-> IsComparable([i \in DOMAIN towns |-> side(d, i)]) ] :
               d \in ToSet(ComparedDimensions(sign)) }

-----------------------------------------------------------------------------
(* PermitChecklistService *)

PermitSearches(sign, town) ==
    [i \in DOMAIN Topics |-> [query |-> TopicQuery[<<Topics[i], sign>>], town |-> town,
                              excludeOcr |-> FALSE, top |-> PermitTopN, topic |-> Topics[i]]]

\* _best: the first hit that mentions the topic.
ItemOf(task, hits) ==
    LET mentioning == {i \in DOMAIN hits : task.topic \in Held[hits[i].chunk].topics}
    IN  [topic |-> task.topic, found |-> mentioning # {},
         evidence |-> {hits[i].chunk : i \in FirstOf(mentioning)}]

-----------------------------------------------------------------------------
(* The handlers *)

DeskKinds == {"check", "compare", "permits"}

TownsOf(input) == IF input.kind = "compare" THEN input.towns ELSE <<input.town>>

SearchesFor(input) ==
    CASE input.kind = "check"   -> SearchesOf(input, "none")
      [] input.kind = "compare" -> ComparisonSearches(input.sign, input.towns)
      [] input.kind = "permits" -> PermitSearches(input.sign, input.town)

Entry(input, task, hits) ==
    IF input.kind = "permits" THEN ItemOf(task, hits) ELSE CheckOf(task, hits)

ReportFor(input, done) ==
    CASE input.kind = "check"   -> [code |-> 200, checks |-> done, outcome |-> ReportOutcome(done)]
      [] input.kind = "compare" -> [code |-> 200, rows |-> RowsOf(input.sign, input.towns, done)]
      [] input.kind = "permits" -> [code |-> 200, items |-> done]

TaskFilters(task) == [towns |-> {task.town}, inForceOnly |-> TRUE, excludeOcr |-> task.excludeOcr]

\* The next search begins at once; after the last, the report is returned.
Advance(r, todo, done) ==
    IF todo = <<>>
    THEN Return(r, ReportFor(asked[r], done)) /\ aborted' = aborted \ {r}
    ELSE /\ Begin(r, todo[1].query, TaskFilters(todo[1]), todo[1].top)
         /\ Hold(r, [todo |-> todo, done |-> done]) /\ Proceed(r, "searching")
         /\ UNCHANGED <<aborted, response>>

DeskAsked(r) ==
    /\ asked[r].kind \in DeskKinds /\ phase[r] = "received"
    /\ IF asked[r].sign \notin SignType
       THEN Return(r, [code |-> 400]) /\ UNCHANGED aborted
       ELSE IF \E i \in DOMAIN TownsOf(asked[r]) : ~Catalogued(TownsOf(asked[r])[i])
       THEN Return(r, [code |-> 404]) /\ UNCHANGED aborted
       ELSE Advance(r, SearchesFor(asked[r]), <<>>)
    /\ UNCHANGED <<status, active, embedder, reranker, faults, asked, messages>>

\* Mutant: a search that failed is made again.
DeskReadInsisting(r) ==
    /\ asked[r].kind \in DeskKinds /\ phase[r] = "searching" /\ search[r].at \in {"found", "failed"}
    /\ LET todo == work[r].todo
       IN  IF At(r, "failed") THEN Advance(r, todo, work[r].done)
           ELSE Advance(r, Tail(todo), Append(work[r].done, Entry(asked[r], todo[1], search[r].hits)))
    /\ UNCHANGED <<status, active, embedder, reranker, faults, asked, messages>>

\* Every failure of a search is an empty result.
DeskRead(r) ==
    /\ asked[r].kind \in DeskKinds /\ phase[r] = "searching" /\ search[r].at \in {"found", "failed"}
    /\ UNCHANGED <<status, active, embedder, reranker, faults, asked, messages>>
    /\ LET todo == work[r].todo
           hits == IF At(r, "found") THEN search[r].hits ELSE <<>>
       IN  \E done \in {Append(work[r].done, Entry(asked[r], todo[1], hits))} : Advance(r, Tail(todo), done)

DeskStep(r) == DeskAsked(r) \/ DeskRead(r)
=============================================================================
