------------------------------ MODULE Taxonomy ------------------------------
(***************************************************************************)
(* The two tables that map a provider's vocabulary to business categories, *)
(* and the two directions each of them serves: what to ask the provider    *)
(* for, and what to call what comes back.                                  *)
(***************************************************************************)
EXTENDS Naturals, Sequences

\* The model values of the enumeration BusinessCategory are its strings.
Categories == {"restaurant", "cafe", "bakery", "bar", "retail",
               "salon", "clinic", "hotel", "workshop", "other"}
Unclassified == "none"   \* classify returned None
AnyValue == "*"               \* a rule without a value: the key's presence is enough

\* The lowest of a set of indices of a table.
First(S) == CHOOSE i \in S : \A j \in S : i <= j

-----------------------------------------------------------------------------
(* OpenStreetMap: tags are a function from keys to values *)

Rule(key, value, category) == [key |-> key, value |-> value, category |-> category]
OSM_RULES == <<
    Rule("amenity", "restaurant", "restaurant"),
    Rule("amenity", "fast_food", "restaurant"),
    Rule("amenity", "food_court", "restaurant"),
    Rule("amenity", "cafe", "cafe"),
    Rule("shop", "bakery", "bakery"),
    Rule("shop", "pastry", "bakery"),
    Rule("amenity", "bar", "bar"),
    Rule("amenity", "pub", "bar"),
    Rule("shop", "hairdresser", "salon"),
    Rule("shop", "beauty", "salon"),
    Rule("shop", "massage", "salon"),
    Rule("amenity", "clinic", "clinic"),
    Rule("amenity", "doctors", "clinic"),
    Rule("amenity", "dentist", "clinic"),
    Rule("tourism", "hotel", "hotel"),
    Rule("tourism", "guest_house", "hotel"),
    Rule("tourism", "hostel", "hotel"),
    Rule("shop", "car_repair", "workshop"),
    Rule("craft", AnyValue, "workshop"),
    Rule("shop", AnyValue, "retail")>>

\* Overpass reads a selector as matches reads a rule.
Matches(rule, tags) ==
    rule.key \in DOMAIN tags /\ (rule.value = AnyValue \/ rule.value = tags[rule.key])

OsmHits(tags) == {i \in DOMAIN OSM_RULES : Matches(OSM_RULES[i], tags)}
OsmClassify(tags) ==
    IF OsmHits(tags) = {} THEN Unclassified ELSE OSM_RULES[First(OsmHits(tags))].category

\* No categories ask for all of them.
Wanted(category, wanted) == wanted = {} \/ category \in wanted

OsmWanted(wanted) == {i \in DOMAIN OSM_RULES : Wanted(OSM_RULES[i].category, wanted)}
CatchAllKeys(rules) == {OSM_RULES[i].key : i \in {j \in rules : OSM_RULES[j].value = AnyValue}}

\* Mutant: a key that has a catch-all anywhere in the table loses its rules.
SelectorsForTable(wanted) ==
    {i \in OsmWanted(wanted) :
        OSM_RULES[i].value = AnyValue \/ OSM_RULES[i].key \notin CatchAllKeys(DOMAIN OSM_RULES)}

\* Specific rules are dropped beside a catch-all for the same key.
SelectorsFor(wanted) ==
    {i \in OsmWanted(wanted) :
        OSM_RULES[i].value = AnyValue \/ OSM_RULES[i].key \notin CatchAllKeys(OsmWanted(wanted))}
OsmAsked(wanted, tags) == \E i \in SelectorsFor(wanted) : Matches(OSM_RULES[i], tags)

-----------------------------------------------------------------------------
(* Google Places: a place has a set of types *)

PLACES_RULES == <<
    <<"restaurant", "restaurant">>, <<"fast_food_restaurant", "restaurant">>,
    <<"food_court", "restaurant">>, <<"cafe", "cafe">>, <<"coffee_shop", "cafe">>,
    <<"bakery", "bakery">>, <<"bar", "bar">>, <<"pub", "bar">>,
    <<"hair_salon", "salon">>, <<"beauty_salon", "salon">>, <<"spa", "salon">>,
    <<"nail_salon", "salon">>, <<"doctor", "clinic">>, <<"dentist", "clinic">>,
    <<"medical_lab", "clinic">>, <<"hotel", "hotel">>, <<"lodging", "hotel">>,
    <<"guest_house", "hotel">>, <<"car_repair", "workshop">>,
    <<"electrician", "workshop">>, <<"locksmith", "workshop">>, <<"store", "retail">>,
    <<"clothing_store", "retail">>, <<"convenience_store", "retail">>,
    <<"supermarket", "retail">>>>

\* The table's order decides between several types, not the provider's.
PlacesHits(types) == {i \in DOMAIN PLACES_RULES : PLACES_RULES[i][1] \in types}
PlacesClassify(types) ==
    IF PlacesHits(types) = {} THEN Unclassified ELSE PLACES_RULES[First(PlacesHits(types))][2]

IncludedTypesFor(wanted) ==
    {PLACES_RULES[i][1] : i \in {j \in DOMAIN PLACES_RULES : Wanted(PLACES_RULES[j][2], wanted)}}
\* A search that names no type is one for every type.
PlacesAsked(wanted, types) ==
    IncludedTypesFor(wanted) = {} \/ types \cap IncludedTypesFor(wanted) # {}
=============================================================================
