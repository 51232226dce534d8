---------------------------- MODULE MCDiscovery -----------------------------
(* Discovery on a small instance: see the .cfg files for the bounds. *)
EXTENDS Discovery

MCFeature(id, business, dist, whole, tags, types) ==
    [id |-> id, business |-> business, dist |-> dist, whole |-> whole, tags |-> tags,
     types |-> types]

\* A cafe mapped twice, once as a bakery too; a hairdresser who is also a craft;
\* a shop without a name that no rule names and Places calls something else.
MCFeatures == {
    MCFeature(1, "kopi", 3, TRUE, [amenity |-> "cafe"], {"store", "cafe"}),
    MCFeature(2, "kopi", 2, TRUE, [amenity |-> "cafe", shop |-> "bakery"], {"bakery"}),
    MCFeature(3, "wigs", 2, TRUE, [shop |-> "hairdresser", craft |-> "wigs"], {"hair_salon"}),
    MCFeature(4, "books", 1, FALSE, [shop |-> "books"], {"post_office"})}

MCEntry(ring, closed, extent, point, box) ==
    [ring |-> ring, closed |-> closed, extent |-> extent, point |-> point, box |-> box,
     onEarth |-> TRUE]

\* No match; a point with a tiny box; a ring too short for a boundary, with a
\* point in a huge box and without one; a long ring, wider than Places takes; a
\* ring of points that are all the same; a point in a box that is off the Earth.
MCEntries == {
    NONE,
    MCEntry(0, FALSE, 0, TRUE, 1),
    MCEntry(3, TRUE, 5, TRUE, 99),
    MCEntry(3, TRUE, 5, FALSE, NONE),
    MCEntry(6, FALSE, 99, TRUE, 0),
    MCEntry(3, FALSE, 0, TRUE, 1),
    [MCEntry(0, FALSE, 0, TRUE, 5) EXCEPT !.onEarth = FALSE]}

MCFilters == {
    [wanted |-> {}, limit |-> 2],
    [wanted |-> {"retail"}, limit |-> 3],
    [wanted |-> {"bakery", "salon"}, limit |-> 1],
    [wanted |-> {"other"}, limit |-> 3]}
=============================================================================
