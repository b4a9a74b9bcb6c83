------------------------------- MODULE Zoning -------------------------------
(***************************************************************************)
(* POST /zoning/lookup (api/v1/phase3.py, services/zoning): an address is  *)
(* resolved to a zone by the municipality's own open data, through a cache *)
(* every request shares and a configuration an administrator may change    *)
(* between two steps of a lookup.                                          *)
(***************************************************************************)
EXTENDS Answering

CONSTANTS
    Indexed,        \* municipalities with a row
    Published,      \* Published[town][address][t]: the zone codes the city lists at time t
    TTL,            \* of a zone, 30 days in the code
    MaxClock,       \* bound: the clock
    GisConfigs,     \* bound: the configurations an administrator may put for each
    Abbreviation    \* of base.py: words an address is folded by

ProviderKind == {"arcgis", "opendatasoft", "socrata"}

Unconfigured == [kind |-> "none", endpoint |-> FALSE, settings |-> {}, verified |-> FALSE]

ASSUME ZoningAssumption ==
    /\ TTL \in Nat \ {0} /\ MaxClock \in Nat
    /\ DOMAIN GisConfigs = Indexed
    /\ \A town \in Indexed :
          GisConfigs[town] \subseteq [kind : ProviderKind \union {"none"}, endpoint : BOOLEAN,
                                     settings : SUBSET {"zoning_code", "address", "dataset"}, verified : BOOLEAN]
    /\ \A town \in DOMAIN Published : \A address \in DOMAIN Published[town] :
          Published[town][address] \in [0..MaxClock -> Seq(STRING)]

VARIABLES
    gis,       \* gis_provider, gis_endpoint, gis_config and gis_verified of each municipality
    parcels,   \* parcel_zoning: the row of a municipality and normalised address
    now

zoning == <<gis, parcels, now>>

\* normalize_address
Normalize(address) ==
    [i \in DOMAIN address |->
        IF address[i] \in DOMAIN Abbreviation THEN Abbreviation[address[i]] ELSE address[i]]

\* What the city lists for an address, spelled as the request spells it.
Matches(town, address) ==
    IF town \in DOMAIN Published /\ address \in DOMAIN Published[town]
    THEN Published[town][address][now] ELSE <<>>

-----------------------------------------------------------------------------
(* Providers *)

Required(kind) ==
    CASE kind = "arcgis"       -> {"zoning_code", "address"}
      [] kind = "opendatasoft" -> {"zoning_code", "dataset"}
      [] kind = "socrata"      -> {"zoning_code", "address", "dataset"}

\* build_provider, and the gate before it: an unverified endpoint is never asked.
HasProvider(config) ==
    /\ config.verified
    /\ config.endpoint /\ config.kind \in ProviderKind
    /\ Required(config.kind) \subseteq config.settings

\* Without an address field Opendatasoft is not asked: no geocoder is ever given.
Asks(config) == config.kind = "opendatasoft" => "address" \in config.settings

\* ArcGIS and Socrata take a single match only; Opendatasoft asks for one row.
ZoneIn(config, records) ==
    IF /\ Asks(config) /\ records # <<>> /\ Head(records) # ""
       /\ config.kind = "opendatasoft" \/ Len(records) = 1
    THEN {Head(records)} ELSE {}

-----------------------------------------------------------------------------
(* The lookup *)

Reported(outcome, code, asOf) ==
    [code |-> 200, zoning |-> outcome, zone |-> code, asOf |-> asOf, at |-> now, candidates |-> {}]

Expired(row) == row.expires <= now

FromCache(row, outcome) == Reported(outcome, row.code, row.fetched)

\* An old zone with its date beats no answer.
Without(lookup, outcome) ==
    IF lookup.cached # {} THEN FromCache(CHOOSE row \in lookup.cached : TRUE, "stale")
    ELSE Reported(outcome, "", 0)

Looking(r, step) == In(r, "zone", step)

Untouched == UNCHANGED <<status, active, embedder, reranker, aborted, asked, messages, gis, now>>

\* A statement that fails ends the request.
LookupFails(r) ==
    /\ asked[r].kind = "zone" /\ phase[r] \in {"configuring", "reading", "storing"}
    /\ Fault /\ Return(r, [code |-> 500])
    /\ Untouched /\ UNCHANGED parcels

\* What a lookup has read so far: the configuration, the row, the zone.
Lookup(town, address, config, cached, zone) ==
    [town |-> town, address |-> address, config |-> config, cached |-> cached, zone |-> zone]

Look(r, town, address) ==
    /\ Hold(r, Lookup(town, address, Unconfigured, {}, "")) /\ Proceed(r, "configuring")
    /\ UNCHANGED <<response, search>>

\* The municipality and street a client asks about: a slug leaves the text unparsed.
Subject(r) ==
    IF asked[r].municipality # "none" THEN [town |-> asked[r].municipality, street |-> asked[r].text]
    ELSE Address[asked[r].text]

FollowAddress(r, parsed) ==
    IF parsed.outcome = "resolved" THEN Look(r, parsed.town, parsed.street)
    ELSE IF parsed.outcome = "ambiguous_municipality"
    THEN Return(r, [Reported(parsed.outcome, "", 0) EXCEPT !.candidates = parsed.candidates])
    ELSE Return(r, Reported("not_found", "", 0))

ZoneParsed(r) ==
    /\ Looking(r, "received")
    /\ IF asked[r].municipality # "none" THEN Look(r, Subject(r).town, Subject(r).street)
       ELSE FollowAddress(r, Subject(r))
    /\ Untouched /\ UNCHANGED <<parcels, faults>>

ZoneConfigured(r) ==
    /\ Looking(r, "configuring")
    /\ IF work[r].town \in Indexed
       THEN /\ Hold(r, [work[r] EXCEPT !.config = gis[work[r].town]]) /\ Proceed(r, "reading")
            /\ UNCHANGED <<response, search>>
       ELSE Return(r, Reported("unsupported", "", 0))
    /\ Untouched /\ UNCHANGED <<parcels, faults>>

\* Mutant: the row of the address in whichever municipality has one.
CachedAnywhere(lookup) ==
    {parcels[k] : k \in {key \in DOMAIN parcels : key[2] = Normalize(lookup.address)}}

Cached(lookup) ==
    LET key == <<lookup.town, Normalize(lookup.address)>>
    IN  {parcels[k] : k \in {key} \intersect DOMAIN parcels}

\* A fresh row answers; else the city is asked, if it can be.
ZoneCached(r) ==
    /\ Looking(r, "reading")
    /\ LET lookup == [work[r] EXCEPT !.cached = Cached(work[r])]
           fresh  == {row \in lookup.cached : ~Expired(row)}
       IN  IF fresh # {} THEN Return(r, FromCache(CHOOSE row \in fresh : TRUE, "resolved"))
           ELSE IF ~HasProvider(lookup.config) THEN Return(r, Without(lookup, "unsupported"))
           ELSE Hold(r, lookup) /\ Proceed(r, "asking") /\ UNCHANGED <<response, search>>
    /\ Untouched /\ UNCHANGED <<parcels, faults>>

\* The city answers, or does not: a failure is no match.
ZoneAnswered(r) ==
    /\ Looking(r, "asking")
    /\ \E records \in {Matches(work[r].town, work[r].address), <<>>} :
          LET zones == ZoneIn(work[r].config, records)
          IN  IF zones = {} THEN Return(r, Without(work[r], "not_found"))
              ELSE /\ Hold(r, [work[r] EXCEPT !.zone = CHOOSE z \in zones : TRUE]) /\ Proceed(r, "storing")
                   /\ UNCHANGED <<response, search>>
    /\ Untouched /\ UNCHANGED <<parcels, faults>>

\* An answer that is JSON but no object is not one of the failures expected.
ZoneMalformed(r) ==
    /\ Looking(r, "asking") /\ Asks(work[r].config)
    /\ Return(r, [code |-> 500])
    /\ Untouched /\ UNCHANGED <<parcels, faults>>

\* The row is upserted and committed, and the answer dated by the clock.
ZoneStored(r) ==
    /\ Looking(r, "storing")
    /\ LET key == <<work[r].town, Normalize(work[r].address)>>
           row == [code |-> work[r].zone, fetched |-> now, expires |-> now + TTL]
       IN  parcels' = [k \in {key} \union DOMAIN parcels |-> IF k = key THEN row ELSE parcels[k]]
    /\ Return(r, Reported("resolved", work[r].zone, now))
    /\ Untouched /\ UNCHANGED faults

ZoneStep(r) ==
    \/ ZoneParsed(r) \/ ZoneConfigured(r) \/ ZoneCached(r) \/ ZoneAnswered(r) \/ ZoneStored(r)
    \/ ZoneMalformed(r) \/ LookupFails(r)

-----------------------------------------------------------------------------
(* What goes on around the lookups *)

\* PUT /admin/municipalities/{slug}/zoning
PutZoningConfig ==
    /\ \E town \in Indexed : \E config \in GisConfigs[town] : gis' = [gis EXCEPT ![town] = config]
    /\ UNCHANGED <<retrieval, answering, parcels, now>>

\* The clock, in units of which a zone lives TTL.
Tick ==
    /\ now < MaxClock /\ now' = now + 1
    /\ UNCHANGED <<retrieval, answering, gis, parcels>>
=============================================================================
