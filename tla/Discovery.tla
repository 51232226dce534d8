------------------------------ MODULE Discovery ------------------------------
(***************************************************************************)
(* DiscoverBusinesses.execute: a postcode to an area (NominatimGeocoder),  *)
(* the area to candidates (OverpassDirectory or GooglePlacesDirectory,     *)
(* whichever the settings chose), the candidates to a ranked list.  Lookups*)
(* follow each other; each directory answer goes through the response      *)
(* cache and is parsed anew whenever it is used.  A request may wait for   *)
(* the rate limiter and the provider as long as it likes; an answer takes  *)
(* up to Latency on its way back and into the cache.                       *)
(*                                                                         *)
(* The providers answer what they like within the request: any of the      *)
(* features that match it, in any order.  Of the cache only the entry of   *)
(* the last search is kept: a hit on an older one would look the same, and *)
(* the cache may evict any of them.  A geocoder answer repeated from the   *)
(* cache is one the geocoder might have given again.                       *)
(***************************************************************************)
EXTENDS Integers, Sequences, FiniteSets, SequencesExt, Taxonomy

CONSTANTS
    Features,     \* what the directories know near the postcode
    Entries,      \* what the geocoder may answer to one query
    Filters,      \* what callers may ask for
    MinRadius, ContractRadius,     \* bounds of CircleArea.radius_m
    DefaultRadius, MaxRadius,      \* settings.*_search_radius_m
    MinVertices, MaxVertices,      \* MIN_POLYGON_VERTICES, MAX_AREA_VERTICES
    PlacesRadius, PlacesCount,     \* what Places accepts: metres, maxResultCount
    Window,       \* GOOGLE_PLACES_RETENTION_DAYS
    Ttl,          \* cache_ttl_s
    Latency,      \* BOUND: the longest an answer takes, storing included
    MaxTime,      \* BOUND: end of time
    NONE          \* no match, no area, no entry, no limit

\* business: the name, normalised, and the place, rounded; whole: whether it has
\* a name, a location and an id.  id orders features as external_id does.
Feature == [id : Nat, business : STRING, dist : Nat, whole : BOOLEAN,
            tags : UNION {[K -> STRING] : K \in SUBSET {"amenity", "shop", "tourism", "craft"}},
            types : SUBSET STRING]
\* ring: the points of the outer ring, the closing one included; extent: how far
\* it reaches from its middle, 0 if its points coincide; point: whether a location
\* is given; box: half the diagonal of its bounding box; onEarth: whether the
\* corners of that are coordinates at all.
GeoEntry == [ring : Nat, closed : BOOLEAN, extent : Nat, point : BOOLEAN,
             box : Nat \cup {NONE}, onEarth : BOOLEAN]
Areas == [kind : {"circle", "polygon"}, vertices : Nat, radius : Nat]

ASSUME FeatureAssumption ==
    /\ IsFiniteSet(Features)
    /\ \A f, g \in Features : f.id = g.id => f = g
    /\ \A f \in Features : f.id \in Nat /\ f.dist \in Nat
ASSUME EntryAssumption == Entries \subseteq GeoEntry \cup {NONE}
ASSUME FilterAssumption ==
    Filters \subseteq [wanted : SUBSET Categories, limit : Nat \ {0}]
ASSUME SettingsAssumption ==
    /\ MinRadius \in Nat /\ ContractRadius \in Nat /\ 0 < MinRadius
    /\ DefaultRadius \in MinRadius .. ContractRadius
    /\ MaxRadius \in MinRadius .. ContractRadius
    /\ ContractRadius <= PlacesRadius
    /\ PlacesRadius \in Nat /\ PlacesCount \in Nat /\ 0 < PlacesCount
    /\ MinVertices \in Nat \ {0} /\ MaxVertices \in Nat \ {0}
ASSUME TimeAssumption == {Window, Ttl, Latency, MaxTime} \subseteq Nat
ASSUME ValueAssumption == NONE \notin GeoEntry \cup Areas \cup Nat

VARIABLES
    now,        \* the clock
    directory,  \* the adapter the settings chose
    cache,      \* the last search and its answer, or NONE
    pc,         \* where the lookup is
    filters,    \* what it asks for
    area,       \* what the postcode became, or NONE
    answer,     \* the answer on its way from the provider
    found,      \* what the adapter made of the answer
    stamp,      \* fetched_at of every candidate found
    retrieved,  \* history: when the answer left the provider
    result      \* DiscoveryResult.candidates

lookupVars == <<pc, filters, area, answer, found, stamp, retrieved, result>>
vars == <<now, directory, cache, lookupVars>>

-----------------------------------------------------------------------------
(* NominatimGeocoder *)

LowerOf(a, b)  == IF a < b THEN a ELSE b
HigherOf(a, b) == IF a > b THEN a ELSE b
CeilDiv(a, b)  == (a + b - 1) \div b

DropClosing(n, closed) == IF closed /\ n > 1 THEN n - 1 ELSE n

\* Every stride-th vertex, from the first on.
Thin(n) == IF n <= MaxVertices THEN n ELSE CeilDiv(n, CeilDiv(n, MaxVertices))

\* Mutant: a box is taken at its word.
RadiusUnclamped(box) == IF box \in {NONE, 0} THEN DefaultRadius ELSE box

\* A box that is missing, or a point, leaves the default.
Radius(box) ==
    LET wanted == IF box \in {NONE, 0} THEN DefaultRadius ELSE box
    IN  LowerOf(HigherOf(wanted, MinRadius), LowerOf(MaxRadius, ContractRadius))

Boundary(e) == Thin(DropClosing(e.ring, e.closed))
ToArea(e) ==
    CASE e = NONE                                             -> NONE
      [] e # NONE /\ Boundary(e) >= MinVertices               ->
           [kind |-> "polygon", vertices |-> Boundary(e), radius |-> e.extent]
      [] e # NONE /\ Boundary(e) < MinVertices /\ e.point     ->
           [kind |-> "circle", vertices |-> 0, radius |-> Radius(e.box)]
      [] e # NONE /\ Boundary(e) < MinVertices /\ ~e.point    -> NONE

\* No GeoPoint is made of a corner that is off the Earth, and nothing catches it.
BoxRaises(e) ==
    e # NONE /\ Boundary(e) < MinVertices /\ e.point /\ e.box # NONE /\ ~e.onEarth

-----------------------------------------------------------------------------
(* The directories *)

Asked(f) ==
    IF directory = "overpass" THEN OsmAsked(filters.wanted, f.tags)
                              ELSE PlacesAsked(filters.wanted, f.types)
Classify(f) ==
    IF directory = "overpass" THEN OsmClassify(f.tags) ELSE PlacesClassify(f.types)

\* build_request; Overpass is given the area itself and no limit.
PlacesRequest ==
    [radius |-> IF area.kind = "circle" THEN area.radius ELSE LowerOf(area.radius, PlacesRadius),
     count  |-> LowerOf(filters.limit, PlacesCount)]

Answers ==
    LET matching == {f \in Features : Asked(f)} IN
    {s \in UNION {SetToSeqs(S) : S \in SUBSET matching} :
        directory = "places" => Len(s) <= PlacesRequest.count}

\* What the cache tells two searches apart by, url and payload: the rules or the
\* types that are asked for, not the categories they came from.
Search ==
    [area  |-> area,
     asks  |-> IF directory = "overpass" THEN SelectorsFor(filters.wanted)
                                         ELSE IncludedTypesFor(filters.wanted),
     count |-> IF directory = "overpass" THEN 0 ELSE PlacesRequest.count]

\* A feature that is not whole, or of no category, is dropped; the others keep
\* their places in the answer.
ToCandidates(s) ==
    [i \in {j \in DOMAIN s : s[j].whole /\ Classify(s[j]) # Unclassified} |-> s[i]]

-----------------------------------------------------------------------------
(* Deduplicate, rank, cut *)

\* Of one business, the first seen.
Deduplicate(s) ==
    {s[i] : i \in {j \in DOMAIN s : \A k \in DOMAIN s : k < j => s[k].business # s[j].business}}

Nearer(f, g) == f.dist < g.dist \/ (f.dist = g.dist /\ f.id < g.id)

\* The n-th is the one with n - 1 others nearer.
Ordered(S) ==
    [n \in 1 .. Cardinality(S) |->
        CHOOSE f \in S : Cardinality({g \in S : Nearer(g, f)}) = n - 1]

\* Mutant: the answer is cut before it is ranked.
RankedCutFirst(s) ==
    LET kept == {i \in DOMAIN s : Cardinality({j \in DOMAIN s : j < i}) < filters.limit}
    IN  Ordered(Deduplicate([i \in kept |-> s[i]]))

\* Mutant: a list that is shorter than the limit is filled up.
RankedPadded(s) ==
    LET ranked == Ordered(Deduplicate(s))
    IN  [i \in 1 .. filters.limit |-> IF i <= Len(ranked) THEN ranked[i] ELSE NONE]

Ranked(s) ==
    LET ranked == Ordered(Deduplicate(s))
    IN  SubSeq(ranked, 1, LowerOf(filters.limit, Len(ranked)))

-----------------------------------------------------------------------------
Init ==
    /\ now = 0
    /\ directory \in {"overpass", "places"}
    /\ cache = NONE
    /\ pc = "idle"
    /\ filters \in Filters
    /\ area = NONE
    /\ answer = <<>>
    /\ found = <<>>
    /\ stamp = 0
    /\ retrieved = 0
    /\ result = <<>>

Begin ==
    /\ pc \in {"idle", "raised"}
    /\ pc' = "structured"
    /\ filters' \in Filters
    /\ area' = NONE
    /\ answer' = <<>>
    /\ found' = <<>>
    /\ stamp' = 0
    /\ retrieved' = 0
    /\ result' = <<>>
    /\ UNCHANGED <<now, directory, cache>>

\* UpstreamError from either provider, NotFoundError, or pydantic's ValidationError.
Raise ==
    /\ pc' = "raised"
    /\ answer' = <<>>
    /\ UNCHANGED <<filters, area, found, stamp, retrieved, result>>

\* The structured query, and the free-text one when that finds no area.
Geocode ==
    /\ pc \in {"structured", "freetext"}
    /\ \E e \in Entries :
         /\ ~BoxRaises(e)
         /\ area' = ToArea(e)
         /\ pc' = CASE ToArea(e) # NONE                       -> "search"
                    [] ToArea(e) = NONE /\ pc = "structured" -> "freetext"
                    [] ToArea(e) = NONE /\ pc = "freetext"   -> "raised"
    /\ UNCHANGED <<now, directory, cache, filters, answer, found, stamp, retrieved, result>>

\* The geocoder cannot be reached, says nothing that can be read, or gives a box
\* that is not on the Earth.
GeocodeFails ==
    /\ pc \in {"structured", "freetext"}
    /\ Raise
    /\ UNCHANGED <<now, directory, cache>>

\* From the payload to the result; time is read when the payload is parsed.
Finish(payload, at) ==
    /\ found' = ToCandidates(payload)
    /\ result' = Ranked(ToCandidates(payload))
    /\ stamp' = now
    /\ retrieved' = at
    /\ answer' = <<>>
    /\ pc' = "idle"
    /\ UNCHANGED <<filters, area>>

Cached == cache # NONE /\ cache.search = Search
Live   == Cached /\ now < cache.expires

\* Mutant: an entry serves for as long as it is there.
SearchHitStale ==
    /\ pc = "search"
    /\ Cached
    /\ Finish(cache.answer, cache.at)
    /\ UNCHANGED <<now, directory, cache>>

SearchHit ==
    /\ pc = "search"
    /\ Live
    /\ Finish(cache.answer, cache.at)
    /\ UNCHANGED <<now, directory, cache>>

\* An entry that has expired is deleted by the lookup that finds it; the one of
\* another search is kept no longer.
SearchMiss ==
    /\ pc = "search"
    /\ ~Live
    /\ cache' = NONE
    /\ pc' = "ask"
    /\ UNCHANGED <<now, directory, filters, area, answer, found, stamp, retrieved, result>>

\* The provider answers, after the limiter and the request have taken their time.
SearchAnswer ==
    /\ pc = "ask"
    /\ answer' \in Answers
    /\ retrieved' = now
    /\ pc' = "store"
    /\ UNCHANGED <<now, directory, cache, filters, area, found, stamp, result>>

SearchStore ==
    /\ pc = "store"
    /\ cache' = IF Ttl = 0 THEN cache
                ELSE [search |-> Search, answer |-> answer, at |-> retrieved,
                      expires |-> now + Ttl]
    /\ Finish(answer, retrieved)
    /\ UNCHANGED <<now, directory>>

\* The request fails, or its body is no list of features; stored all the same, it
\* makes the next search fail as well, as one that asks again may.
SearchFails ==
    /\ pc \in {"ask", "store"}
    /\ Raise
    /\ UNCHANGED <<now, directory, cache>>

Evict ==
    /\ cache # NONE
    /\ cache' = NONE
    /\ UNCHANGED <<now, directory, lookupVars>>

Tick ==
    /\ now < MaxTime
    /\ pc = "store" => now < retrieved + Latency
    /\ now' = now + 1
    /\ UNCHANGED <<directory, cache, lookupVars>>

Next ==
    \/ Begin \/ Geocode \/ GeocodeFails
    \/ SearchHit \/ SearchMiss \/ SearchAnswer \/ SearchStore \/ SearchFails
    \/ Evict \/ Tick

Spec == Init /\ [][Next]_vars

-----------------------------------------------------------------------------
Searches ==
    [area : Areas, count : Nat,
     asks : IF directory = "overpass" THEN SUBSET DOMAIN OSM_RULES
                                        ELSE SUBSET IncludedTypesFor({})]
\* An answer, or what is left of one.
Lists == UNION {[D -> Features] : D \in SUBSET (1 .. Cardinality(Features))}
Answered == [search : Searches, answer : Lists, at : Nat, expires : Nat]

\* Every variable has the shape of what it stands for.
TypeOK ==
    /\ now \in Nat
    /\ directory \in {"overpass", "places"}
    /\ cache \in Answered \cup {NONE}
    /\ pc \in {"idle", "structured", "freetext", "search", "ask", "store", "raised"}
    /\ filters \in Filters
    /\ area \in Areas \cup {NONE}
    /\ answer \in Lists
    /\ found \in Lists
    /\ stamp \in Nat
    /\ retrieved \in Nat
    /\ result \in Seq(Features)

\* RequestFits: the area that is made of a geocoder's entry is one the contract
\* admits (radius of a circle, vertices of a boundary), and no circle drawn for
\* Places is wider than Places takes, or empty, unless all points of the boundary
\* are one: that boundary is asked for with radius 0.
RequestFits ==
    area # NONE =>
        /\ area.kind = "circle" => area.radius \in MinRadius .. LowerOf(MaxRadius, ContractRadius)
        /\ area.kind = "polygon" => area.vertices \in MinVertices .. MaxVertices
        /\ PlacesRequest.radius <= PlacesRadius
        /\ PlacesRequest.radius = 0 <=> area.kind = "polygon" /\ area.radius = 0
        /\ PlacesRequest.count \in 1 .. PlacesCount

\* OneTable: what a request asks the provider for is exactly what can be
\* classified: "a new category can never be searchable but unclassifiable, or
\* vice versa" (osm_taxonomy.py:3-5), dropped selectors included.  Left out is the
\* search that names no type of Places, one for the category "other" alone: it
\* asks for every type and classifies those of its table (places_taxonomy.py:63-70).
OneTable ==
    pc = "search" /\ (directory = "places" => IncludedTypesFor(filters.wanted) # {}) =>
        \A f \in Features :
            /\ Asked(f) => Classify(f) # Unclassified
            /\ Classify(f) # Unclassified /\ Wanted(Classify(f), filters.wanted) => Asked(f)

\* NearestDistinct: a business is returned once, nearest first, and one that was
\* found and is left out gave way to others that are no farther, in whatever
\* order, and with whatever duplicates, the provider answered.
NearestDistinct ==
    /\ Len(result) <= filters.limit
    /\ \A i, j \in DOMAIN result :
         i < j => result[i].business # result[j].business /\ Nearer(result[i], result[j])
    /\ \A k \in DOMAIN found :
         \/ \E i \in DOMAIN result : result[i].business = found[k].business
         \/ /\ Len(result) = filters.limit
            /\ \E m \in DOMAIN found : /\ found[m].business = found[k].business
                                       /\ \A i \in DOMAIN result : result[i].dist <= found[m].dist

\* Only what Places says may not be kept for ever.
RetentionUntil == IF directory = "places" THEN stamp + Window ELSE NONE

\* RetentionBounded: no candidate is kept longer than its licence allows from the
\* moment its provider gave it, but for the time its answer took and one lifetime
\* of the response cache: fetched_at is read when an answer is parsed, on a miss
\* as well as on a hit, not when it was retrieved.
RetentionBounded ==
    directory = "places" /\ found # <<>> =>
        \/ RetentionUntil <= retrieved + Window + Latency
        \/ RetentionUntil < retrieved + Window + Latency + Ttl

\* What makes the above inductive: the area is what some entry became, an answer
\* is no longer on its way than Latency, and expires one lifetime after that.
IInv ==
    /\ TypeOK
    /\ NearestDistinct
    /\ RetentionBounded
    /\ area # NONE => \E e \in Entries : area = ToArea(e)
    /\ pc \in {"search", "ask", "store"} => area # NONE
    /\ pc # "idle" => found = <<>> /\ result = <<>>
    /\ pc = "store" => now <= retrieved + Latency
    /\ cache # NONE => cache.expires <= cache.at + Latency + Ttl
=============================================================================
