------------------------------ MODULE Evidence ------------------------------
(***************************************************************************)
(* What makes an answer of the model acceptable, and how far it is to be   *)
(* trusted: CitationVerifier (rag/verifier.py), ConfidenceScorer           *)
(* (domain/confidence.py) and the conflict check of rag_service.py.        *)
(* Scores are in thousandths.                                              *)
(***************************************************************************)
EXTENDS Excerpts

\* What the model wrote.  A sentence may assert a rule, carry an [S#] marker, be
\* a hedge, and state numbers; a claim cites the excerpt with that marker.
Sentence == [rule : BOOLEAN, marked : BOOLEAN, hedge : BOOLEAN, numbers : SUBSET Seq(0..Point)]

Claim == [source : Nat, quote : Seq(STRING)]

Reply == [ finish : {"stop", "length"}, parses : BOOLEAN, answered : BOOLEAN, conflicts : BOOLEAN,
           sentences : Seq(Sentence), claims : Seq(Claim) ]

Occurs(s, t) == \E i \in 0 .. (Len(t) - Len(s)) : SubSeq(t, i + 1, i + Len(s)) = s

Thousandths(part, whole) == IF whole = 0 THEN 0 ELSE (2 * 1000 * part + whole) \div (2 * whole)

-----------------------------------------------------------------------------
(* CitationVerifier *)

\* Verbatim, or of eight words and more the first two thirds.
QuoteAppearsIn(quote, body) ==
    /\ quote # <<>>
    /\ \/ Occurs(quote, body)
       \/ /\ Len(quote) >= 8
          /\ LET window == IF (Len(quote) * 2) \div 3 > 6 THEN (Len(quote) * 2) \div 3 ELSE 6
             IN  Occurs(SubSeq(quote, 1, window), body)

\* [S1] is the first hit, and so on; a claim, by its place, holds up or not.
IsValid(claim, hits) ==
    /\ claim.source \in DOMAIN hits
    /\ QuoteAppearsIn(claim.quote, Held[hits[claim.source].chunk].words)

ValidClaims(reply, hits) == {i \in DOMAIN reply.claims : IsValid(reply.claims[i], hits)}

CitedChunks(reply, hits) == {hits[reply.claims[i].source].chunk : i \in ValidClaims(reply, hits)}

AssertsRules(reply) == \E s \in ToSet(reply.sentences) : s.rule

Uncited(reply) ==
    LET bare(s) == s.rule /\ ~s.hedge /\ ~s.marked
    IN  Cardinality({i \in DOMAIN reply.sentences : bare(reply.sentences[i])})

NumbersOf(reply) == UNION {s.numbers : s \in ToSet(reply.sentences)}

\* A year or a bylaw number is no limit, whether or not zeros follow its point.
IsRegulatoryNumber(digits) ==
    LET points   == {i \in DOMAIN digits : digits[i] = Point}
        decimals == {i \in DOMAIN digits : \E p \in points : i > p}
        whole    == SubSeq(digits, 1, Len(digits) - Cardinality(points \union decimals))
        value    == FoldLeft(LAMBDA v, d : 10 * v + d, 0, whole)
    IN  /\ Cardinality(points) <= 1 /\ points # DOMAIN digits
        /\ \/ \E i \in decimals : digits[i] # 0
           \/ value \notin 1800..2200 /\ value <= 9999

\* The digits occur somewhere in the cited text, be it inside a longer number.
\* With nothing cited, nothing is looked for.
UngroundedNumbers(reply, hits) ==
    IF CitedChunks(reply, hits) = {} THEN {}
    ELSE { n \in NumbersOf(reply) :
             /\ IsRegulatoryNumber(n)
             /\ ~\E c \in CitedChunks(reply, hits) : \E m \in Held[c].numbers : Occurs(n, m) }

\* Mutant: an answer without any claim passes.
ShouldAbstainByRatio(reply, hits) ==
    LET valid == Cardinality(ValidClaims(reply, hits))
        total == Len(reply.claims)
    IN  \/ total > 0 /\ 10 * valid < 6 * total
        \/ UngroundedNumbers(reply, hits) # {}

ShouldAbstain(reply, hits) ==
    LET valid == Cardinality(ValidClaims(reply, hits))
        total == Len(reply.claims)
    IN  \/ AssertsRules(reply) /\ valid = 0
        \/ total > 0 /\ 10 * valid < 6 * total
        \/ UngroundedNumbers(reply, hits) # {}

\* Synthesis shows the answer: it is whole, parses and survives verification.
IsSynthesis(reply, hits) ==
    /\ reply.finish = "stop" /\ reply.parses /\ reply.answered
    /\ ~ShouldAbstain(reply, hits)

\* _build_citations: one for each verified claim.
CitationsOf(reply, hits) ==
    LET citation(c) == [chunk |-> hits[c.source].chunk, status |-> hits[c.source].status, quote |-> c.quote]
    IN  {citation(reply.claims[i]) : i \in ValidClaims(reply, hits)}

-----------------------------------------------------------------------------
(* Two documents in force that regulate the same section *)

\* Mutant: the documents are told apart before they are compared.
DetectConflictsByDocument(hits) ==
    LET place(h) == <<Held[h.chunk].town, Held[h.chunk].section, Held[h.chunk].document>>
    IN  { place(h) : h \in {g \in ToSet(hits) : \E o \in ToSet(hits) :
                              place(o) = place(g) /\ Held[o.chunk].document # Held[g.chunk].document} }

DetectConflicts(hits) ==
    LET current == {h \in ToSet(hits) : Current(h) /\ Held[h.chunk].section # "none"}
        place(h) == <<Held[h.chunk].town, Held[h.chunk].section>>
    IN  { place(h) : h \in {g \in current : \E o \in current :
                              place(o) = place(g) /\ Held[o.chunk].document # Held[g.chunk].document} }

-----------------------------------------------------------------------------
(* ConfidenceScorer *)

\* precision counts for less with every statement left uncited.
CitationFactor(precision, uncited, cited) ==
    IF cited = {} THEN 0
    ELSE IF uncited = 0 THEN precision
    ELSE LET kept == 1000 - 250 * uncited
         IN  Thousandths(precision * (IF kept > 300 THEN kept ELSE 300), 1000000)

CurrencyFactor(hits) ==
    LET current == Cardinality({h \in hits : Current(h)})
        unknown == Cardinality({h \in hits : h.status = "unknown"})
    IN  Thousandths(10 * current + 4 * unknown, 10 * Cardinality(hits))

CorroborationFactor(cited, conflicts) ==
    LET count == Cardinality({<<Held[h.chunk].document, Held[h.chunk].section>> :
                                h \in {g \in cited : Held[g.chunk].section # "none"}})
    IN  IF conflicts THEN 250
        ELSE IF count = 0 THEN 200
        ELSE IF count = 1 THEN 600
        ELSE IF count = 2 THEN 850 ELSE 1000

SourceQualityFactor(hits) ==
    LET ocr   == Cardinality({h \in hits : Held[h.chunk].fromOcr})
        total == SumFunction([h \in hits |-> Extraction(h.chunk)]) - 350 * ocr
    IN  IF total <= 0 THEN 0 ELSE Thousandths(total, 1000 * Cardinality(hits))

SpecificityFactor(resolved, cited) ==
    (IF resolved THEN 500 ELSE 0)
    + (IF \E h \in cited : Held[h.chunk].section # "none" THEN 500 ELSE 0)

\* The margin of the best hit over the rest, an input here: real scores are
\* compared for it.  One hit alone has none to compare with.
MarginFactor(hits, margin) == IF Cardinality(hits) < 2 THEN 500 ELSE margin

Weighted(citation, currency, corroboration, margin, quality, specificity) ==
    Thousandths(30 * citation + 20 * currency + 20 * corroboration + 10 * margin + 10 * quality
            + 10 * specificity, 100000)

BandFor(score) ==
    IF score >= 750 THEN "high" ELSE IF score >= 500 THEN "medium"
    ELSE IF score >= 250 THEN "low" ELSE "insufficient"

AtMostLow(band) == IF band = "insufficient" THEN band ELSE "low"

Confidence(reply, hits, resolved, margin) ==
    LET all    == ToSet(hits)
        cited  == {h \in all : h.chunk \in CitedChunks(reply, hits)}
        judged == IF cited = {} THEN all ELSE cited
        score  == Weighted(
                     CitationFactor(Thousandths(Cardinality(ValidClaims(reply, hits)), Len(reply.claims)),
                                    Uncited(reply), cited),
                     CurrencyFactor(judged), CorroborationFactor(cited, reply.conflicts),
                     MarginFactor(all, margin), SourceQualityFactor(judged),
                     SpecificityFactor(resolved, cited))
        band   == BandFor(score)
    IN  [ score |-> score,
          band  |-> IF \E h \in cited : ~Current(h) THEN AtMostLow(band) ELSE band ]

\* An abstention, and every outcome that is no answer.
NoConfidence == [score |-> 0, band |-> "insufficient"]
=============================================================================
