-------------------------------- MODULE MCApi --------------------------------
(* Two versions of Surrey's bylaw and one of Delta's; the registry's pairs of *)
(* municipalities that share a name; a handful of requests, alone or in pairs. *)
EXTENDS Api

City(id, name, aliases, shared) ==
    [id |-> id, slug |-> name, name |-> name, official |-> <<"city", "of">> \o name, aliases |-> aliases,
     ambiguousBareName |-> shared]

Langley == <<"langley">>

NorthVancouver == <<"north", "vancouver">>

MCRegistry == <<
    City("vancouver", <<"vancouver">>, {<<"vancouver", "bc">>}, <<>>),
    City("surrey", <<"surrey">>, {}, <<>>),
    City("delta", <<"delta">>, {<<"corporation", "of", "delta">>}, <<>>),
    [City("langley-city", Langley, {<<"city", "of", "langley">>}, Langley) EXCEPT !.slug = <<"langley", "city">>],
    [City("langley-township", Langley, {<<"township", "of", "langley">>}, Langley)
        EXCEPT !.slug = <<"langley", "township">>, !.official = <<"township", "of", "langley">>],
    [City("north-vancouver-city", NorthVancouver, {<<"cnv">>}, NorthVancouver)
        EXCEPT !.slug = <<"north", "vancouver", "city">>],
    [City("north-vancouver-district", NorthVancouver, {<<"dnv">>}, NorthVancouver)
        EXCEPT !.slug = <<"north", "vancouver", "district">>,
               !.official = <<"district", "of", "north", "vancouver">>] >>

MCProvinceOf == [id \in {MCRegistry[i].id : i \in DOMAIN MCRegistry} |-> "BC"]

-----------------------------------------------------------------------------
M2(n) == [value |-> n, unit |-> "m2"]

Sentences(ratio, maximum) == <<[defers |-> FALSE, range |-> FALSE, ratio |-> ratio, maximum |-> maximum]>>

Row(document, town, section, fromOcr, words, numbers, rules, topics) ==
    [document |-> document, town |-> town, section |-> section, fromOcr |-> fromOcr, extraction |-> 900,
     words |-> words, numbers |-> numbers, rules |-> rules, topics |-> topics]

\* Limits are in tenths: three square metres, half a metre for each of frontage.
\* Delta's area compares with that of Surrey's new bylaw, its height does not.
MCHeld == <<
    Row("old", "surrey", "5.1", FALSE, <<"maximum", "area", "2">>, {<<2>>}, Sentences({M2(5)}, {}), {"fee"}),
    Row("new", "surrey", "5.1", FALSE, <<"maximum", "area", "3">>, {<<3>>}, Sentences({}, {M2(30)}), {"fee"}),
    Row("new", "surrey", "none", TRUE, <<"height", "4">>, {<<4>>},
        Sentences({}, {[value |-> 40, unit |-> "m"]}), {"engineer"}),
    Row("delta", "delta", "7", FALSE, <<"maximum", "area", "2.5">>, {<<2, Point, 5>>},
        Sentences({}, {M2(25)}) \o Sentences({}, {[value |-> 130, unit |-> "ft"]}), {"fee", "engineer"}),
    Row("new", "surrey", "5.2", FALSE, <<"height", "4">>, {<<4>>},
        Sentences({}, {[value |-> 40, unit |-> "m"]}), {}) >>

MCVerdicts == {
    [old |-> "in_force", new |-> "unknown", delta |-> "in_force"],
    [old |-> "superseded", new |-> "in_force", delta |-> "in_force"],
    [old |-> "superseded", new |-> "repealed", delta |-> "in_force"] }

MCCollection == [large |-> [dimensions |-> 1024, chunks |-> 1..5], small |-> [dimensions |-> 384, chunks |-> 1..5]]

MCNearest == [area |-> <<1, 2, 4, 3>>, height |-> <<3, 5, 4, 2>>, fee |-> <<2, 1, 4>>]

MCMatching == [area |-> <<2, 1>>, height |-> <<5>>, fee |-> <<4, 2>>]

MCRelevance == [area |-> <<2, 1, 4, 5, 3>>, height |-> <<5, 3, 2, 1, 4>>, fee |-> <<2, 1, 4, 3, 5>>]

\* Writes a rule and cites the best excerpt for it, gives a number that is in
\* none or a year, cites three times of which one is wrong, misquotes, cites an
\* excerpt that is not there, cites nothing, states no rule, and stops halfway.
Wrote(rule, numbers, claims) ==
    [finish |-> "stop", parses |-> TRUE, answered |-> TRUE, conflicts |-> FALSE,
     sentences |-> <<[rule |-> rule, marked |-> TRUE, hedge |-> FALSE, numbers |-> numbers]>>,
     claims |-> claims]

MCReplies ==
    LET claim == <<[source |-> 1, quote |-> <<"maximum", "area">>]>>
        invented == <<[source |-> 1, quote |-> <<"maximum", "height">>]>>
        nowhere == <<[source |-> 9, quote |-> <<"maximum", "area">>]>>
    IN  { Wrote(TRUE, {<<2>>}, claim), Wrote(TRUE, {<<3>>, <<1, 9, 9, 9, Point, 0>>}, claim),
          Wrote(TRUE, {<<2>>}, claim \o claim \o invented), Wrote(TRUE, {}, invented), Wrote(FALSE, {}, nowhere),
          Wrote(TRUE, {}, <<>>), Wrote(FALSE, {}, <<>>),
          [Wrote(TRUE, {<<2>>}, claim) EXCEPT !.finish = "length"] }

MCRuleLocations ==
    LET location(dimension, units) ==
            [sign |-> "fascia", dimension |-> dimension, query |-> dimension, units |-> units]
    IN  <<location("area", {"m2", "ft2"}), location("height", {"m", "ft"})>>

MCTopics == <<"fee", "engineer">>

MCTopicQuery == [key \in {"fee", "engineer"} \X SignType |-> "fee"]

-----------------------------------------------------------------------------
Ask(text, municipality) == [kind |-> "ask", text |-> text, municipality |-> municipality]

SurreySign == <<"surrey", "sign", "area">>

Check(proposed) ==
    [kind |-> "check", sign |-> "fascia", town |-> "surrey", proposed |-> proposed, frontage |-> {4}]

Compare(towns) == [kind |-> "compare", sign |-> "fascia", towns |-> towns]

Permits(town) == [kind |-> "permits", sign |-> "fascia", town |-> town]

Zone(text, municipality) == [kind |-> "zone", text |-> text, municipality |-> municipality]

Main == <<"1", "main", "street", "surrey">>

Together(a, b) == [r1 |-> a, r2 |-> b]

Alone(a) == Together(a, NoRequest)

MCTraffic ==
    { Together(Ask(SurreySign, "none"), Ask(SurreySign, "delta")),
      Alone(Check([area |-> 25, height |-> 35])), Alone([Check([area |-> 25]) EXCEPT !.sign = "mural"]),
      Alone(Compare(<<"surrey", "delta">>)), Alone(Permits("surrey")), Alone(Permits("atlantis")),
      Together(Zone(Main, "none"), Zone(<<"1", "main", "st">>, "surrey")),
      Together(Zone(Main, "none"), Zone(<<"1", "main", "st">>, "vancouver")),
      Alone(Zone(<<"1", "main", "street", "langley">>, "none")), Alone(Zone(Main, "delta")),
      Alone(Zone(<<"surrey">>, "none")),
      Alone(Ask(<<"sign", "langley">>, "none")), Alone(Ask(<<"weather">>, "none")),
      Alone(Ask(SurreySign, "atlantis")) }

\* For the disagreement over shared names.
LonsdaleTraffic == {Alone(Zone(<<"123", "lonsdale", "avenue", "north", "vancouver">>, "none"))}

MCText ==
    {input.text : input \in {i \in UNION {{t["r1"], t["r2"]} : t \in MCTraffic \union LonsdaleTraffic} :
                                 i.kind \in {"ask", "zone"}}}

MCQueryOf == [text \in MCText |-> "area"]

-----------------------------------------------------------------------------
MCPublished ==
    [surrey |-> (<<"1", "main", "street">> :> [t \in 0..2 |-> IF t = 0 THEN <<"C-8">> ELSE <<"CD">>])
                @@ (<<"1", "main", "st">> :> [t \in 0..2 |-> <<"RF", "C-8">>]),
     vancouver |-> (<<"1", "main", "st">> :> [t \in 0..2 |-> <<"RM", "RT">>])]

MCGisConfigs ==
    LET config(kind, verified, settings) ==
            [kind |-> kind, endpoint |-> TRUE, verified |-> verified, settings |-> settings]
        full == {"zoning_code", "address", "dataset"}
    IN  [ surrey    |-> {config("arcgis", TRUE, full), config("arcgis", FALSE, full)},
          vancouver |-> {config("opendatasoft", TRUE, full), config("opendatasoft", TRUE, full \ {"address"})} ]

MCAbbreviation == [street |-> "st", avenue |-> "ave", north |-> "n"]
=============================================================================
