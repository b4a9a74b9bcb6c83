------------------------------- MODULE Places -------------------------------
(***************************************************************************)
(* Which municipality a text names: the registry                           *)
(* (domain/municipalities.py), the routing of a question                   *)
(* (domain/query_router.py) and the reading of an address                  *)
(* (services/address.py).  A text is the sequence of its words, in lower   *)
(* case and without punctuation, postal code and province.                 *)
(***************************************************************************)
EXTENDS Integers, FiniteSetsExt, SequencesExt

CONSTANTS
    Registry,         \* BC_MUNICIPALITIES: the records, in order
    ProvinceOf,       \* provinces.py: the province of every catalogued slug
    DomainTerms, OutOfScopeTerms, CompareMarkers, DefinitionMarkers,  \* of the router
    CivicNumbers,     \* words that are building numbers
    Text              \* the questions and addresses that clients send

\* official is the name with its incorporation prefix.
MunicipalityRecord(m) ==
    /\ DOMAIN m = {"id", "slug", "name", "official", "aliases", "ambiguousBareName"}
    /\ IsSuffix(m.name, m.official) /\ m.name # <<>>

ASSUME RegistryAssumption == \A i \in DOMAIN Registry : MunicipalityRecord(Registry[i])

Within(s, t) == \E i \in 0 .. (Len(t) - Len(s)) : SubSeq(t, i + 1, i + Len(s)) = s

Ending(k, s) == SubSeq(s, Len(s) - k + 1, Len(s))

-----------------------------------------------------------------------------
(* MunicipalityRegistry *)

IncorporationPrefix == { SubSeq(Registry[i].official, 1, Len(Registry[i].official) - Len(Registry[i].name)) :
                         i \in DOMAIN Registry }

\* slugify: the name without its prefix.
Bare(text) ==
    LET prefixes == {p \in IncorporationPrefix : IsPrefix(p, text)}
    IN  IF prefixes = {} THEN text
        ELSE SubSeq(text, 1 + Len(CHOOSE p \in prefixes : TRUE), Len(text))

Keys(m) == {m.slug, m.official, m.name} \union m.aliases \union {Bare(a) : a \in m.aliases}

AmbiguousNames == {Registry[i].ambiguousBareName : i \in DOMAIN Registry} \ {<<>>}

\* _by_key: the first record to claim a key has it, and nobody an ambiguous one.
Known == UNION {Keys(Registry[i]) : i \in DOMAIN Registry} \ AmbiguousNames

Holder(key) ==
    LET claims == {i \in DOMAIN Registry : key \in Keys(Registry[i])}
    IN  Registry[CHOOSE i \in claims : \A j \in claims : i <= j]

IsAmbiguous(text) == text \notin Known /\ Bare(text) \in AmbiguousNames

Candidates(text) ==
    IF text \in Known THEN {Holder(text)}
    ELSE IF Bare(text) \in AmbiguousNames
         THEN {m \in ToSet(Registry) : m.ambiguousBareName = Bare(text)}
         ELSE {Holder(key) : key \in {Bare(text)} \intersect Known}

\* Characters of a key, whose words are joined by hyphens.
Size(key) == FoldLeft(LAMBDA n, w : n + Len(w) + 1, 0, key) - 1

\* The keys searched for, longest first.
Longest(keys) == CHOOSE k \in keys : \A l \in keys : Size(l) <= Size(k)

LongestFirst(keys) ==
    LET left[n \in 0 .. Cardinality(keys)] ==
            IF n = 0 THEN keys ELSE LET rest == left[n - 1] IN rest \ {Longest(rest)}
    IN  [n \in 1 .. Cardinality(keys) |-> Longest(left[n - 1])]

SearchOrder == LongestFirst({key \in Known : Size(key) >= 4})

\* Where a key stands in what is left of the text: whole words, between
\* separators that are left or the ends of the text.
Occurrences(key, left) ==
    { i \in 1 .. (Len(left.words) - Len(key) + 1) :
        /\ SubSeq(left.words, i, i + Len(key) - 1) = key
        /\ i = 1 \/ (i - 1) \in left.gaps
        /\ i + Len(key) - 1 = Len(left.words) \/ (i + Len(key) - 1) \in left.gaps }

\* The first occurrence is blanked out together with the separators around it.
BlankOut(left, places, id) ==
    [ words |-> [n \in DOMAIN left.words |-> IF n \in places THEN "#" ELSE left.words[n]],
      gaps  |-> left.gaps \ (places \union {Min(places) - 1}),
      found |-> IF Contains(left.found, id) THEN left.found ELSE Append(left.found, id) ]

Search(left, key) ==
    IF Occurrences(key, left) = {} THEN left
    ELSE LET i == Min(Occurrences(key, left))
         IN  BlankOut(left, i .. (i + Len(key) - 1), Holder(key).id)

SearchAll(text, order) ==
    LET after[n \in 0 .. Len(order)] ==
            IF n = 0 THEN [words |-> text, gaps |-> 1 .. (Len(text) - 1), found |-> <<>>]
            ELSE Search(after[n - 1], order[n])
    IN  after[Len(order)]

FindInText(text) == SearchAll(text, SearchOrder).found

Record(id) == CHOOSE m \in ToSet(Registry) : m.id = id

\* find_municipality, over every province.
Catalogued(id) == id \in DOMAIN ProvinceOf

-----------------------------------------------------------------------------
(* QueryRouter *)

Mentions(text, terms) == ToSet(text) \intersect terms # {}

IsOutOfScope(text) == Mentions(text, OutOfScopeTerms) \/ ~Mentions(text, DomainTerms)

Classify(text, towns) ==
    IF Len(towns) >= 2 \/ (towns # <<>> /\ Mentions(text, CompareMarkers)) THEN "multi_city_compare"
    ELSE IF towns # <<>> THEN "single_city"
    ELSE IF Mentions(text, DefinitionMarkers) THEN "definition" ELSE "keyword"

\* A qualifier anywhere in the question qualifies every ambiguous name in it.
AmbiguousIn(text) ==
    LET qualified == \E p \in {<<"city", "of">>, <<"township", "of">>, <<"district", "of">>} : Within(p, text)
    IN  {name \in {<<"langley">>, <<"north", "vancouver">>} :
            Within(name, text) /\ IsAmbiguous(name) /\ ~qualified}

RouteAmong(text, towns) ==
    IF text = <<>> \/ IsOutOfScope(text)
    THEN [intent |-> "out_of_scope", towns |-> <<>>, ambiguous |-> {}]
    ELSE [intent |-> Classify(text, towns), towns |-> towns, ambiguous |-> AmbiguousIn(text)]

Route(text) == RouteAmong(text, FindInText(text))

-----------------------------------------------------------------------------
(* AddressParser *)

Spellings(m) == {m.official, m.name} \union m.aliases

\* Where a municipality is last named in a text, and 0 for one that is not.
LastNamed(id, text) ==
    Max({0} \union {i \in DOMAIN text : \E n \in Spellings(Record(id)) :
                        IsPrefix(n, Ending(Len(text) - i + 1, text))})

\* _trailing: the municipality named last.
Trailing(text, found) ==
    LET latest == {i \in DOMAIN found : \A j \in DOMAIN found :
                       LastNamed(found[j], text) <= LastNamed(found[i], text)}
    IN  found[Min(latest)]

\* Only a name at the end is removed, the longest that is there.
StripMunicipality(text, id) ==
    LET ends == {n \in Spellings(Record(id)) : IsSuffix(n, text)}
        longest == CHOOSE n \in ends : \A o \in ends : Size(o) <= Size(n)
    IN  IF ends = {} THEN text ELSE SubSeq(text, 1, Len(text) - Len(longest))

HasCivicNumber(street) == Len(street) >= 2 /\ street[1] \in CivicNumbers

\* The longest ambiguous name the text ends with, of up to three words.
TrailingAmbiguous(text) ==
    LET sizes == {k \in 1..3 : k <= Len(text) /\ IsAmbiguous(Ending(k, text))}
    IN  IF sizes = {} THEN {} ELSE {m.id : m \in Candidates(Ending(Max(sizes), text))}

ParsedAddress(outcome, street, town, candidates) ==
    [outcome |-> outcome, street |-> street, town |-> town, candidates |-> candidates]

Resolved(street, id) ==
    IF HasCivicNumber(street) THEN ParsedAddress("resolved", street, id, {})
    ELSE ParsedAddress("no_civic_number", <<>>, id, {})

Unnamed(candidates) ==
    IF candidates # {} THEN ParsedAddress("ambiguous_municipality", <<>>, "none", candidates)
    ELSE ParsedAddress("no_municipality", <<>>, "none", {})

\* One municipality named, or the last of several.
ParseAmong(text, found) ==
    IF text = <<>> THEN ParsedAddress("no_civic_number", <<>>, "none", {})
    ELSE IF found = <<>> THEN Unnamed(TrailingAmbiguous(text))
    ELSE LET id == Trailing(text, found) IN Resolved(StripMunicipality(text, id), id)

Parse(text) == ParseAmong(text, FindInText(text))

-----------------------------------------------------------------------------
(* Both depend on the text alone *)

Plan == [text \in Text |-> Route(text)]

Address == [text \in Text |-> Parse(text)]
=============================================================================
