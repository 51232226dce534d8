-------------------------- MODULE Discovery_proofs ---------------------------
(***************************************************************************)
(* Theorems about Discovery: licence windows and requests for every        *)
(* setting, the agreement of both taxonomies with themselves for every set *)
(* of tags or types and every set of categories, and what is returned of   *)
(* every answer.                                                           *)
(***************************************************************************)
EXTENDS Discovery, FiniteSetTheorems, SequenceTheorems, TLAPS

\* A set of indices has a lowest one.
LEMMA FirstIn ==
    ASSUME NEW S \in SUBSET Nat, S # {}
    PROVE  First(S) \in S /\ \A i \in S : First(S) <= i
<1>1. PICK i \in S : \A j \in S : ~ (<<j, i>> \in OpToRel(<, Nat))
  BY NatLessThanWellFounded, WFMin
<1>2. \A j \in S : i <= j
  <2> SUFFICES ASSUME NEW j \in S, j < i PROVE FALSE
    BY SMT
  <2>1. <<j, i>> \in Nat \X Nat /\ <<j, i>>[1] < <<j, i>>[2]
    BY SMT
  <2>2. <<j, i>> \in OpToRel(<, Nat)
    BY <2>1, Zenon DEF OpToRel
  <2> QED BY <2>2, <1>1
<1> QED BY <1>2 DEF First

\* Every rule of the OpenStreetMap table names a category.
LEMMA OsmTable ==
    /\ DOMAIN OSM_RULES \subseteq Nat
    /\ \A i \in DOMAIN OSM_RULES : OSM_RULES[i].category # Unclassified
  BY SMTT(60) DEF OSM_RULES, Rule, Unclassified

LEMMA PlacesTable ==
    /\ DOMAIN PLACES_RULES \subseteq Nat
    /\ \A i \in DOMAIN PLACES_RULES : PLACES_RULES[i][2] # Unclassified
  BY SMTT(60) DEF PLACES_RULES, Unclassified

LEMMA OsmAgrees ==
    ASSUME NEW wanted, NEW tags
    PROVE  /\ OsmAsked(wanted, tags) => OsmClassify(tags) # Unclassified
           /\ OsmClassify(tags) # Unclassified /\ Wanted(OsmClassify(tags), wanted) =>
                OsmAsked(wanted, tags)
<1>1. OsmHits(tags) \in SUBSET Nat
  BY OsmTable DEF OsmHits
<1>2. ASSUME OsmHits(tags) # {}
      PROVE  First(OsmHits(tags)) \in OsmHits(tags)
  BY <1>1, <1>2, FirstIn
<1>3. ASSUME OsmAsked(wanted, tags) PROVE OsmClassify(tags) # Unclassified
  <2>1. OsmHits(tags) # {}
    BY <1>3 DEF OsmAsked, SelectorsFor, OsmWanted, OsmHits
  <2>2. First(OsmHits(tags)) \in DOMAIN OSM_RULES
    BY <2>1, <1>2 DEF OsmHits
  <2> QED BY <2>1, <2>2, OsmTable DEF OsmClassify
<1>4. ASSUME OsmClassify(tags) # Unclassified, Wanted(OsmClassify(tags), wanted)
      PROVE  OsmAsked(wanted, tags)
  <2> DEFINE i == First(OsmHits(tags))
  <2>1. OsmHits(tags) # {}
    BY <1>4 DEF OsmClassify
  <2>2. i \in DOMAIN OSM_RULES /\ Matches(OSM_RULES[i], tags)
    BY <2>1, <1>2 DEF OsmHits
  <2>3. i \in OsmWanted(wanted)
    BY <2>1, <2>2, <1>4 DEF OsmClassify, OsmWanted
  <2> HIDE DEF i
  <2>4. CASE i \in SelectorsFor(wanted)
    BY <2>4, <2>2 DEF OsmAsked
  <2>5. CASE i \notin SelectorsFor(wanted)
    <3>1. OSM_RULES[i].key \in CatchAllKeys(OsmWanted(wanted))
      BY <2>3, <2>5 DEF SelectorsFor
    <3>2. PICK j \in OsmWanted(wanted) :
             OSM_RULES[j].value = AnyValue /\ OSM_RULES[j].key = OSM_RULES[i].key
      BY <3>1 DEF CatchAllKeys
    <3>3. j \in SelectorsFor(wanted)
      BY <3>2 DEF SelectorsFor
    <3>4. Matches(OSM_RULES[j], tags)
      BY <3>2, <2>2 DEF Matches
    <3> QED BY <3>3, <3>4 DEF OsmAsked
  <2> QED BY <2>4, <2>5
<1> QED BY <1>3, <1>4

LEMMA PlacesAgrees ==
    ASSUME NEW wanted, NEW types, IncludedTypesFor(wanted) # {}
    PROVE  /\ PlacesAsked(wanted, types) => PlacesClassify(types) # Unclassified
           /\ PlacesClassify(types) # Unclassified /\ Wanted(PlacesClassify(types), wanted) =>
                PlacesAsked(wanted, types)
<1>1. PlacesHits(types) \in SUBSET Nat
  BY PlacesTable DEF PlacesHits
<1>2. ASSUME PlacesHits(types) # {}
      PROVE  First(PlacesHits(types)) \in PlacesHits(types)
  BY <1>1, <1>2, FirstIn
<1>3. ASSUME PlacesAsked(wanted, types) PROVE PlacesClassify(types) # Unclassified
  <2>1. PICK t \in types : t \in IncludedTypesFor(wanted)
    BY <1>3 DEF PlacesAsked
  <2>2. PlacesHits(types) # {}
    BY <2>1 DEF IncludedTypesFor, PlacesHits
  <2>3. First(PlacesHits(types)) \in DOMAIN PLACES_RULES
    BY <2>2, <1>2 DEF PlacesHits
  <2> QED BY <2>2, <2>3, PlacesTable DEF PlacesClassify
<1>4. ASSUME PlacesClassify(types) # Unclassified, Wanted(PlacesClassify(types), wanted)
      PROVE  PlacesAsked(wanted, types)
  <2> DEFINE i == First(PlacesHits(types))
  <2>1. PlacesHits(types) # {}
    BY <1>4 DEF PlacesClassify
  <2>2. i \in DOMAIN PLACES_RULES /\ PLACES_RULES[i][1] \in types
    BY <2>1, <1>2 DEF PlacesHits
  <2>3. Wanted(PLACES_RULES[i][2], wanted)
    BY <2>1, <1>4 DEF PlacesClassify
  <2> HIDE DEF i
  <2>4. PLACES_RULES[i][1] \in IncludedTypesFor(wanted)
    BY <2>2, <2>3 DEF IncludedTypesFor
  <2> QED BY <2>2, <2>4 DEF PlacesAsked
<1> QED BY <1>3, <1>4

-----------------------------------------------------------------------------
(* Areas *)

LEMMA CeilDivBounds ==
    ASSUME NEW a \in Nat, NEW b \in Nat \ {0}
    PROVE  /\ CeilDiv(a, b) \in Nat
           /\ a <= b * CeilDiv(a, b)
           /\ b * CeilDiv(a, b) < a + b
  BY SMTT(30) DEF CeilDiv

\* Thinning a ring leaves at most MaxVertices vertices.
LEMMA ThinFits ==
    ASSUME NEW n \in Nat
    PROVE  Thin(n) \in Nat /\ Thin(n) <= MaxVertices
<1> DEFINE stride == CeilDiv(n, MaxVertices)
           left == CeilDiv(n, stride)
<1>0. MaxVertices \in Nat \ {0}
  BY SettingsAssumption
<1>1. CASE n <= MaxVertices
  BY <1>1, <1>0 DEF Thin
<1>2. CASE n > MaxVertices
  <2>1. stride \in Nat /\ n <= MaxVertices * stride
    BY <1>0, CeilDivBounds
  <2> HIDE DEF stride
  <2>2. stride # 0
    BY <2>1, <1>2, <1>0, SMT
  <2>3. left \in Nat /\ stride * left < n + stride
    BY <2>1, <2>2, CeilDivBounds
  <2> HIDE DEF left
  <2>4. left <= MaxVertices
    <3> SUFFICES ASSUME left >= MaxVertices + 1 PROVE FALSE
      BY <2>3, <1>0, SMT
    <3>1. stride * left >= stride * (MaxVertices + 1)
      BY <2>1, <2>3, <1>0, SMT
    <3>2. stride * (MaxVertices + 1) = MaxVertices * stride + stride
      BY <2>1, <1>0, SMT
    <3> QED BY <3>1, <3>2, <2>1, <2>3, <1>0, SMT
  <2>5. Thin(n) = left
    BY <1>2, <1>0 DEF Thin, left, stride
  <2> QED BY <2>3, <2>4, <2>5
<1> QED BY <1>0, <1>1, <1>2

LEMMA AreaFits ==
    ASSUME NEW e \in Entries, ToArea(e) # NONE
    PROVE  \/ /\ ToArea(e).kind = "circle"
              /\ ToArea(e).radius \in MinRadius .. LowerOf(MaxRadius, ContractRadius)
           \/ /\ ToArea(e).kind = "polygon"
              /\ ToArea(e).radius \in Nat
              /\ ToArea(e).vertices \in MinVertices .. MaxVertices
<1>1. e # NONE /\ e \in GeoEntry
  BY EntryAssumption DEF ToArea
<1>2. DropClosing(e.ring, e.closed) \in Nat /\ DropClosing(e.ring, e.closed) <= e.ring
  BY <1>1, SMT DEF DropClosing, GeoEntry
<1>3. Boundary(e) \in Nat /\ Boundary(e) <= MaxVertices
  BY <1>2, ThinFits DEF Boundary
<1>4. CASE Boundary(e) >= MinVertices
  <2>1. ToArea(e) = [kind |-> "polygon", vertices |-> Boundary(e), radius |-> e.extent]
    BY <1>1, <1>3, <1>4, SettingsAssumption, SMT DEF ToArea
  <2>2. Boundary(e) \in MinVertices .. MaxVertices
    BY <1>3, <1>4, SettingsAssumption
  <2>3. e.extent \in Nat
    BY <1>1 DEF GeoEntry
  <2> QED BY <2>1, <2>2, <2>3
<1>5. CASE Boundary(e) < MinVertices
  <2>1. ToArea(e) = [kind |-> "circle", vertices |-> 0, radius |-> Radius(e.box)]
    BY <1>1, <1>3, <1>5, SettingsAssumption, SMT DEF ToArea
  <2>2. e.box \in Nat \cup {NONE}
    BY <1>1 DEF GeoEntry
  <2>3. Radius(e.box) \in MinRadius .. LowerOf(MaxRadius, ContractRadius)
    BY <2>2, SettingsAssumption, ValueAssumption, SMT DEF Radius, LowerOf, HigherOf
  <2> QED BY <2>1, <2>3
<1> QED BY <1>3, <1>4, <1>5, SettingsAssumption, SMT

-----------------------------------------------------------------------------
(* Ranks *)

Rank(S, f) == Cardinality({g \in S : Nearer(g, f)})

LEMMA NearerIsAnOrder ==
    ASSUME NEW f \in Features, NEW g \in Features, NEW h \in Features
    PROVE  /\ ~ Nearer(f, f)
           /\ Nearer(f, g) /\ Nearer(g, h) => Nearer(f, h)
           /\ f # g => Nearer(f, g) \/ Nearer(g, f)
<1>1. /\ f.dist \in Nat /\ g.dist \in Nat /\ h.dist \in Nat
      /\ f.id \in Nat /\ g.id \in Nat /\ h.id \in Nat
      /\ f.id = g.id => f = g
  BY FeatureAssumption
<1> QED BY <1>1, SMT DEF Nearer

LEMMA FiniteFeatures ==
    ASSUME NEW S \in SUBSET Features
    PROVE  IsFiniteSet(S) /\ Cardinality(S) \in Nat
  BY FeatureAssumption, FS_Subset, FS_CardinalityType

LEMMA RankRange ==
    ASSUME NEW S \in SUBSET Features, NEW f \in S
    PROVE  Rank(S, f) \in 0 .. Cardinality(S) - 1
<1> DEFINE G == {g \in S : Nearer(g, f)}
<1>1. IsFiniteSet(S) /\ Cardinality(S) \in Nat
  BY FiniteFeatures
<1>2. G \in SUBSET (S \ {f})
  BY NearerIsAnOrder
<1>3. IsFiniteSet(S \ {f}) /\ Cardinality(S \ {f}) = Cardinality(S) - 1
  BY <1>1, FS_RemoveElement
<1>4. Cardinality(G) <= Cardinality(S \ {f})
  BY <1>2, <1>3, FS_Subset
<1>5. Cardinality(G) \in Nat
  BY FiniteFeatures
<1>6. Rank(S, f) = Cardinality(G)
  BY DEF Rank
<1> HIDE DEF G
<1> QED BY <1>1, <1>3, <1>4, <1>5, <1>6, SMT

\* The nearer of two has the lower rank.
LEMMA RankFollows ==
    ASSUME NEW S \in SUBSET Features, NEW f \in S, NEW g \in S, Nearer(f, g)
    PROVE  Rank(S, f) < Rank(S, g)
<1> DEFINE F == {x \in S : Nearer(x, f)}
           G == {x \in S : Nearer(x, g)}
<1>1. F \in SUBSET (G \ {f})
  BY NearerIsAnOrder
<1>2. f \in G
  OBVIOUS
<1>3. IsFiniteSet(G) /\ Cardinality(G) \in Nat /\ Cardinality(F) \in Nat
  BY FiniteFeatures
<1>4. Rank(S, f) = Cardinality(F) /\ Rank(S, g) = Cardinality(G)
  BY DEF Rank
<1> HIDE DEF F, G
<1>5. IsFiniteSet(G \ {f}) /\ Cardinality(G \ {f}) = Cardinality(G) - 1
  BY <1>2, <1>3, FS_RemoveElement
<1>6. Cardinality(F) <= Cardinality(G \ {f})
  BY <1>1, <1>5, FS_Subset
<1> QED BY <1>3, <1>4, <1>5, <1>6, SMT

\* Every rank below the number of features is somebody's.
LEMMA RankTaken ==
    ASSUME NEW S \in SUBSET Features, NEW n \in 1 .. Cardinality(S)
    PROVE  \E f \in S : Rank(S, f) = n - 1
<1> DEFINE c == Cardinality(S)
           T == 0 .. c - 1
           R == [f \in S |-> Rank(S, f)]
<1>1. IsFiniteSet(S) /\ c \in Nat
  BY FiniteFeatures
<1>2. R \in [S -> T]
  BY RankRange
<1>3. \A f, g \in S : R[f] = R[g] => f = g
  <2> SUFFICES ASSUME NEW f \in S, NEW g \in S, Rank(S, f) = Rank(S, g), f # g PROVE FALSE
    OBVIOUS
  <2>1. Rank(S, f) \in Int /\ Rank(S, g) \in Int
    BY RankRange
  <2>2. Nearer(f, g) \/ Nearer(g, f)
    BY NearerIsAnOrder
  <2>3. Rank(S, f) < Rank(S, g) \/ Rank(S, g) < Rank(S, f)
    BY <2>2, RankFollows
  <2> QED BY <2>1, <2>3, SMT
<1> HIDE DEF R
<1>4. R \in Injection(S, T)
  BY <1>2, <1>3, Zenon DEF Injection, IsInjective
<1>5. IsFiniteSet(T) /\ Cardinality(T) = c
  <2>1. 0 \in Int /\ c - 1 \in Int
    BY <1>1, SMT
  <2>2. IsFiniteSet(T) /\ Cardinality(T) = IF 0 > c - 1 THEN 0 ELSE c - 1 - 0 + 1
    BY <2>1, FS_Interval, Zenon
  <2> HIDE DEF T
  <2> QED BY <1>1, <2>2, SMT
<1>6. R \in Surjection(S, T)
  BY <1>4, <1>5, FS_Injection, Zenon
<1>7. n - 1 \in T
  BY <1>1, SMT
<1>8. \E f \in S : R[f] = n - 1
  BY <1>6, <1>7, Zenon DEF Surjection
<1> QED BY <1>8 DEF R

LEMMA OrderedByRank ==
    ASSUME NEW S \in SUBSET Features
    PROVE  /\ Ordered(S) \in [1 .. Cardinality(S) -> S]
           /\ \A n \in 1 .. Cardinality(S) : Rank(S, Ordered(S)[n]) = n - 1
<1> DEFINE Nth(n) == CHOOSE f \in S : Cardinality({g \in S : Nearer(g, f)}) = n - 1
<1>1. Ordered(S) = [n \in 1 .. Cardinality(S) |-> Nth(n)]
  BY Zenon DEF Ordered
<1>2. \A n \in 1 .. Cardinality(S) : Nth(n) \in S /\ Rank(S, Nth(n)) = n - 1
  <2> TAKE n \in 1 .. Cardinality(S)
  <2>1. \E f \in S : Cardinality({g \in S : Nearer(g, f)}) = n - 1
    BY RankTaken DEF Rank
  <2> QED BY <2>1, Zenon DEF Rank
<1> HIDE DEF Nth
<1> QED BY <1>1, <1>2

LEMMA OrderedAscends ==
    ASSUME NEW S \in SUBSET Features,
           NEW i \in 1 .. Cardinality(S), NEW f \in S, i - 1 < Rank(S, f)
    PROVE  Nearer(Ordered(S)[i], f)
<1> DEFINE o == Ordered(S)[i]
<1>1. o \in S /\ Rank(S, o) = i - 1
  BY OrderedByRank
<1> HIDE DEF o
<1>2. Rank(S, f) \in Int /\ i \in Int
  BY RankRange, SMT
<1>3. o # f
  BY <1>1, <1>2, SMT
<1>4. ~ Nearer(f, o)
  <2> SUFFICES ASSUME Nearer(f, o) PROVE FALSE
    OBVIOUS
  <2>1. Rank(S, f) < Rank(S, o)
    BY <1>1, RankFollows
  <2> QED BY <1>1, <1>2, <2>1, SMT
<1>5. Nearer(o, f) \/ Nearer(f, o)
  BY <1>1, <1>3, NearerIsAnOrder
<1> QED BY <1>4, <1>5 DEF o

\* A feature stands where its rank says.
LEMMA OrderedPlace ==
    ASSUME NEW S \in SUBSET Features, NEW f \in S
    PROVE  Rank(S, f) + 1 \in 1 .. Cardinality(S) /\ Ordered(S)[Rank(S, f) + 1] = f
<1> DEFINE n == Rank(S, f) + 1
           o == Ordered(S)[n]
<1>0. Cardinality(S) \in Nat /\ Rank(S, f) \in 0 .. Cardinality(S) - 1
  BY FiniteFeatures, RankRange
<1>1. n \in 1 .. Cardinality(S)
  BY <1>0, SMT
<1>2. n - 1 = Rank(S, f)
  BY <1>0, SMT
<1>3. o \in S /\ Rank(S, o) = Rank(S, f)
  BY <1>1, <1>2, OrderedByRank
<1> HIDE DEF o
<1>4. ~ Nearer(o, f) /\ ~ Nearer(f, o)
  <2>1. Nearer(o, f) => Rank(S, o) < Rank(S, f)
    BY <1>3, RankFollows
  <2>2. Nearer(f, o) => Rank(S, f) < Rank(S, o)
    BY <1>3, RankFollows
  <2> QED BY <1>0, <1>3, <2>1, <2>2, SMT
<1>5. o = f
  BY <1>3, <1>4, NearerIsAnOrder
<1> QED BY <1>1, <1>5 DEF o

-----------------------------------------------------------------------------
(* From an answer to a result *)

LEMMA ListShape ==
    ASSUME NEW s \in Lists
    PROVE  DOMAIN s \in SUBSET Nat /\ \A i \in DOMAIN s : s[i] \in Features
<1>1. PICK D \in SUBSET (1 .. Cardinality(Features)) : s \in [D -> Features]
  BY DEF Lists
<1> QED BY <1>1

LEMMA DeduplicateDistinct ==
    ASSUME NEW s \in Lists
    PROVE  /\ Deduplicate(s) \in SUBSET Features
           /\ \A f, g \in Deduplicate(s) : f.business = g.business => f = g
           /\ \A k \in DOMAIN s : \E m \in DOMAIN s :
                /\ s[m] \in Deduplicate(s)
                /\ s[m].business = s[k].business
<1>1. DOMAIN s \in SUBSET Nat /\ \A i \in DOMAIN s : s[i] \in Features
  BY ListShape
<1>2. Deduplicate(s) \in SUBSET Features
  BY <1>1 DEF Deduplicate
<1>3. ASSUME NEW f \in Deduplicate(s), NEW g \in Deduplicate(s), f.business = g.business
      PROVE  f = g
  <2>1. PICK i \in DOMAIN s :
           s[i] = f /\ \A k \in DOMAIN s : k < i => s[k].business # s[i].business
    BY DEF Deduplicate
  <2>2. PICK j \in DOMAIN s :
           s[j] = g /\ \A k \in DOMAIN s : k < j => s[k].business # s[j].business
    BY DEF Deduplicate
  <2>3. ~ (i < j) /\ ~ (j < i)
    BY <1>3, <2>1, <2>2
  <2>4. i = j
    BY <1>1, <2>3, SMT
  <2> QED BY <2>1, <2>2, <2>4
<1>4. ASSUME NEW k \in DOMAIN s
      PROVE  \E m \in DOMAIN s : s[m] \in Deduplicate(s) /\ s[m].business = s[k].business
  <2> DEFINE Same == {i \in DOMAIN s : s[i].business = s[k].business}
             m == First(Same)
  <2>1. Same \in SUBSET Nat /\ Same # {}
    BY <1>1
  <2>2. m \in Same /\ \A i \in Same : m <= i
    BY <2>1, FirstIn
  <2> HIDE DEF m
  <2>3. \A i \in DOMAIN s : i < m => s[i].business # s[m].business
    <3> SUFFICES ASSUME NEW i \in DOMAIN s, i < m, s[i].business = s[m].business PROVE FALSE
      OBVIOUS
    <3>1. i \in Same
      BY <2>2
    <3>2. m <= i /\ i \in Nat /\ m \in Nat
      BY <2>1, <2>2, <3>1
    <3> QED BY <3>2, SMT
  <2>4. s[m] \in Deduplicate(s)
    BY <2>2, <2>3 DEF Deduplicate
  <2> QED BY <2>2, <2>4
<1> QED BY <1>2, <1>3, <1>4

LEMMA RankedShape ==
    ASSUME NEW s \in Lists, filters \in Filters, NEW D, D = Deduplicate(s),
           NEW n, n = LowerOf(filters.limit, Cardinality(D))
    PROVE  /\ Ranked(s) \in Seq(Features)
           /\ n \in Nat /\ n <= filters.limit /\ n <= Cardinality(D)
           /\ n < Cardinality(D) => n = filters.limit
           /\ Len(Ranked(s)) = n
           /\ DOMAIN Ranked(s) = 1 .. n
           /\ \A i \in 1 .. n : Ranked(s)[i] = Ordered(D)[i]
<1> DEFINE o == Ordered(D)
<1>1. D \in SUBSET Features
  BY DeduplicateDistinct
<1>2. Cardinality(D) \in Nat
  BY <1>1, FiniteFeatures
<1>3. o \in [1 .. Cardinality(D) -> D]
  BY <1>1, OrderedByRank
<1>4. filters.limit \in Nat \ {0}
  BY FilterAssumption
<1> HIDE DEF o
<1>5. Len(o) = Cardinality(D)
  BY <1>2, <1>3, SMT
<1>6. /\ n \in Nat /\ n <= filters.limit /\ n <= Cardinality(D)
      /\ n < Cardinality(D) => n = filters.limit
  BY <1>2, <1>4, SMT DEF LowerOf
<1>7. Ranked(s) = SubSeq(o, 1, n)
  BY <1>5 DEF Ranked, o
<1>8. \A i \in 1 .. n : o[i] \in Features
  BY <1>1, <1>2, <1>3, <1>6, SMT
<1>9. /\ SubSeq(o, 1, n) \in Seq(Features)
      /\ Len(SubSeq(o, 1, n)) = IF 1 <= n THEN n - 1 + 1 ELSE 0
      /\ \A i \in 1 .. n - 1 + 1 : SubSeq(o, 1, n)[i] = o[1 + i - 1]
  <2>1. 1 \in Int /\ n \in Int
    BY <1>6, SMT
  <2>2. SubSeq(o, 1, n) \in Seq(Features)
    BY <2>1, <1>8, SubSeqProperties
  <2>3. Len(SubSeq(o, 1, n)) = IF 1 <= n THEN n - 1 + 1 ELSE 0
    BY <2>1, <1>8, SubSeqProperties
  <2>4. \A i \in 1 .. n - 1 + 1 : SubSeq(o, 1, n)[i] = o[1 + i - 1]
    BY <2>1, <1>8, SubSeqProperties
  <2> QED BY <2>2, <2>3, <2>4
<1> DEFINE r == SubSeq(o, 1, n)
<1>10. r \in Seq(Features) /\ Len(r) = n /\ DOMAIN r = 1 .. n
  <2> HIDE DEF r
  <2>1. r \in Seq(Features) /\ Len(r) = IF 1 <= n THEN n - 1 + 1 ELSE 0
    BY <1>9 DEF r
  <2> QED BY <1>6, <2>1, SMT
<1>11. \A i \in 1 .. n : r[i] = o[i]
  <2> TAKE i \in 1 .. n
  <2>1. i \in 1 .. n - 1 + 1 /\ 1 + i - 1 = i
    BY <1>6, SMT
  <2> QED BY <1>9, <2>1, Zenon
<1> QED BY <1>6, <1>7, <1>10, <1>11, Zenon DEF o

\* Whatever is found, what is made of it is what NearestDistinct asks for.
LEMMA FinishNearest ==
    ASSUME NEW s \in Lists, filters \in Filters, NEW r, r = Ranked(s)
    PROVE  /\ Len(r) <= filters.limit
           /\ \A i, j \in DOMAIN r : i < j => r[i].business # r[j].business /\ Nearer(r[i], r[j])
           /\ \A k \in DOMAIN s :
                \/ \E i \in DOMAIN r : r[i].business = s[k].business
                \/ /\ Len(r) = filters.limit
                   /\ \E m \in DOMAIN s : /\ s[m].business = s[k].business
                                          /\ \A i \in DOMAIN r : r[i].dist <= s[m].dist
<1> DEFINE D == Deduplicate(s)
           n == LowerOf(filters.limit, Cardinality(D))
           o == Ordered(D)
<1>1. D \in SUBSET Features /\ Cardinality(D) \in Nat
  BY DeduplicateDistinct, FiniteFeatures
<1>2. /\ n \in Nat /\ n <= filters.limit /\ n <= Cardinality(D)
      /\ n < Cardinality(D) => n = filters.limit
      /\ Len(r) = n
      /\ DOMAIN r = 1 .. n
      /\ \A i \in 1 .. n : r[i] = o[i]
  BY RankedShape
<1>d. \A f, g \in D : f.business = g.business => f = g
  BY DeduplicateDistinct
<1>e. \A k \in DOMAIN s : \E m \in DOMAIN s : s[m] \in D /\ s[m].business = s[k].business
  BY DeduplicateDistinct
<1> HIDE DEF n, D, o
<1>3. \A i \in 1 .. n : i \in 1 .. Cardinality(D)
  BY <1>1, <1>2, SMT
<1>4. \A i \in 1 .. n : r[i] \in D /\ Rank(D, r[i]) = i - 1
  BY <1>1, <1>2, <1>3, OrderedByRank DEF o
<1>5. \A i \in 1 .. n : \A f \in D : i - 1 < Rank(D, f) => Nearer(r[i], f)
  BY <1>1, <1>2, <1>3, OrderedAscends DEF o
<1>6. ASSUME NEW i \in 1 .. n, NEW j \in 1 .. n, i < j
      PROVE  r[i].business # r[j].business /\ Nearer(r[i], r[j])
  <2>1. i - 1 < j - 1
    BY <1>6, SMT
  <2>2. Nearer(r[i], r[j])
    BY <2>1, <1>4, <1>5
  <2>3. r[i] # r[j]
    BY <2>2, <1>1, <1>4, NearerIsAnOrder
  <2> QED BY <2>2, <2>3, <1>4, <1>d
<1>7. ASSUME NEW k \in DOMAIN s
      PROVE  \/ \E i \in 1 .. n : r[i].business = s[k].business
             \/ /\ n = filters.limit
                /\ \E m \in DOMAIN s : /\ s[m].business = s[k].business
                                       /\ \A i \in 1 .. n : r[i].dist <= s[m].dist
  <2>1. PICK m \in DOMAIN s : s[m] \in D /\ s[m].business = s[k].business
    BY <1>e
  <2> DEFINE f == s[m]
             p == Rank(D, f) + 1
  <2>2. p \in 1 .. Cardinality(D) /\ o[p] = f /\ Rank(D, f) \in 0 .. Cardinality(D) - 1
    BY <2>1, <1>1, OrderedPlace, RankRange DEF o
  <2>3. CASE p <= n
    <3>1. p \in 1 .. n
      BY <2>2, <2>3, <1>1, <1>2, SMT
    <3>2. r[p] = f
      BY <3>1, <2>2, <1>2
    <3> QED BY <2>1, <3>1, <3>2
  <2>4. CASE n < p
    <3>1. n = filters.limit
      BY <2>2, <2>4, <1>1, <1>2, SMT
    <3>2. ASSUME NEW i \in 1 .. n PROVE r[i].dist <= f.dist
      <4>1. i - 1 < Rank(D, f)
        BY <2>2, <2>4, <1>1, <1>2, SMT
      <4>2. Nearer(r[i], f)
        BY <4>1, <2>1, <1>5
      <4>3. r[i].dist \in Nat /\ f.dist \in Nat
        BY <2>1, <1>1, <1>4, FeatureAssumption
      <4> QED BY <4>2, <4>3, SMT DEF Nearer
    <3> QED BY <2>1, <3>1, <3>2
  <2>5. p \in Int /\ n \in Int
    BY <2>2, <1>1, <1>2, SMT
  <2> QED BY <2>3, <2>4, <2>5, SMT
<1> QED BY <1>2, <1>6, <1>7

-----------------------------------------------------------------------------
(* The invariant *)

LEMMA AreaType ==
    ASSUME NEW e \in Entries
    PROVE  ToArea(e) \in Areas \cup {NONE}
<1> SUFFICES ASSUME ToArea(e) # NONE PROVE ToArea(e) \in Areas
  OBVIOUS
<1>1. e # NONE /\ e \in GeoEntry
  BY EntryAssumption DEF ToArea
<1>2. \/ ToArea(e) = [kind |-> "polygon", vertices |-> Boundary(e), radius |-> e.extent]
      \/ ToArea(e) = [kind |-> "circle", vertices |-> 0, radius |-> Radius(e.box)]
  <2>1. DropClosing(e.ring, e.closed) \in Nat
    BY <1>1, SMT DEF DropClosing, GeoEntry
  <2>2. Boundary(e) \in Nat
    BY <2>1, ThinFits DEF Boundary
  <2> QED BY <1>1, <2>2, SettingsAssumption, SMT DEF ToArea
<1>3. ToArea(e).vertices \in Nat /\ ToArea(e).radius \in Nat
  <2>1. CASE ToArea(e).kind = "circle"
    <3>1. ToArea(e) = [kind |-> "circle", vertices |-> 0, radius |-> Radius(e.box)]
      BY <1>2, <2>1
    <3>2. ToArea(e).radius \in MinRadius .. LowerOf(MaxRadius, ContractRadius)
      BY <2>1, AreaFits
    <3> QED BY <3>1, <3>2, SettingsAssumption, SMT
  <2>2. CASE ToArea(e).kind = "polygon"
    <3>1. ToArea(e).radius \in Nat /\ ToArea(e).vertices \in MinVertices .. MaxVertices
      BY <2>2, AreaFits
    <3> QED BY <3>1, SettingsAssumption, SMT
  <2> QED BY <2>1, <2>2, AreaFits
<1> QED BY <1>2, <1>3 DEF Areas

LEMMA SearchType ==
    ASSUME filters \in Filters, area \in Areas, directory \in {"overpass", "places"}
    PROVE  Search \in Searches
<1>1. SelectorsFor(filters.wanted) \in SUBSET DOMAIN OSM_RULES
  BY DEF SelectorsFor, OsmWanted
<1>2. IncludedTypesFor(filters.wanted) \in SUBSET IncludedTypesFor({})
  BY DEF IncludedTypesFor, Wanted
<1>3. filters.limit \in Nat
  BY FilterAssumption
<1>4. PlacesRequest.count \in Nat
  BY <1>3, SettingsAssumption, SMT DEF PlacesRequest, LowerOf
<1> QED BY <1>1, <1>2, <1>4 DEF Search, Searches

\* No answer has more features than there are.
LEMMA AnswerType == ASSUME NEW payload \in Answers PROVE payload \in Lists
<1>1. PICK S \in SUBSET Features : payload \in SetToSeqs(S)
  BY DEF Answers
<1>2. payload \in [1 .. Cardinality(S) -> S]
  BY <1>1, Zenon DEF SetToSeqs
<1>3. /\ Cardinality(S) <= Cardinality(Features)
      /\ Cardinality(S) \in Nat /\ Cardinality(Features) \in Nat
  BY FeatureAssumption, FS_Subset, FiniteFeatures
<1>4. 1 .. Cardinality(S) \in SUBSET (1 .. Cardinality(Features))
  BY <1>3, SMT
<1>5. payload \in [1 .. Cardinality(S) -> Features]
  BY <1>2
<1> QED BY <1>4, <1>5, Zenon DEF Lists

LEMMA CandidatesType == ASSUME NEW payload \in Lists PROVE ToCandidates(payload) \in Lists
<1>1. PICK D \in SUBSET (1 .. Cardinality(Features)) : payload \in [D -> Features]
  BY DEF Lists
<1> DEFINE E == {j \in DOMAIN payload : payload[j].whole /\ Classify(payload[j]) # Unclassified}
<1>2. E \in SUBSET (1 .. Cardinality(Features)) /\ E \subseteq DOMAIN payload
  BY <1>1
<1> HIDE DEF E
<1>3. [i \in E |-> payload[i]] \in [E -> Features]
  BY <1>1, <1>2
<1> QED BY <1>2, <1>3 DEF ToCandidates, Lists, E

LEMMA EmptyList == <<>> \in Lists /\ <<>> \in Seq(Features)
<1>1. {} \in SUBSET (1 .. Cardinality(Features)) /\ <<>> \in [{} -> Features]
  OBVIOUS
<1> QED BY <1>1 DEF Lists

\* A lookup that ends leaves a well-formed result.
LEMMA FinishGood ==
    ASSUME NEW payload \in Lists, NEW at \in Nat, IInv, Finish(payload, at)
    PROVE  /\ found' \in Lists /\ result' \in Seq(Features) /\ answer' \in Lists
           /\ stamp' \in Nat /\ retrieved' \in Nat
           /\ pc' = "idle" /\ filters' = filters /\ area' = area
           /\ NearestDistinct'
<1> DEFINE s == ToCandidates(payload)
           r == Ranked(s)
<1>1. s \in Lists /\ filters \in Filters
  BY CandidatesType DEF IInv, TypeOK
<1>2. /\ found' = s /\ result' = r /\ filters' = filters
      /\ stamp' = now /\ retrieved' = at /\ pc' = "idle" /\ area' = area /\ answer' = <<>>
  BY DEF Finish
<1>3. r \in Seq(Features)
  BY <1>1, RankedShape
<1> HIDE DEF s
<1>4. NearestDistinct'
  <2>1. r = Ranked(s)
    OBVIOUS
  <2> HIDE DEF r
  <2>2. /\ Len(r) <= filters.limit
        /\ \A i, j \in DOMAIN r : i < j => r[i].business # r[j].business /\ Nearer(r[i], r[j])
        /\ \A k \in DOMAIN s :
             \/ \E i \in DOMAIN r : r[i].business = s[k].business
             \/ /\ Len(r) = filters.limit
                /\ \E m \in DOMAIN s : /\ s[m].business = s[k].business
                                       /\ \A i \in DOMAIN r : r[i].dist <= s[m].dist
    BY <1>1, <2>1, FinishNearest
  <2> QED BY <1>2, <2>2 DEF NearestDistinct
<1> QED BY <1>1, <1>2, <1>3, <1>4, EmptyList DEF IInv, TypeOK

LEMMA Initially == Init => IInv
<1> SUFFICES ASSUME Init PROVE IInv
  OBVIOUS
<1> USE DEF Init
<1>1. TypeOK
  BY EmptyList, SMT DEF TypeOK
<1>2. NearestDistinct
  <2>1. filters.limit \in Nat
    BY FilterAssumption
  <2> QED BY <2>1, SMT DEF NearestDistinct
<1> QED BY <1>1, <1>2 DEF IInv, RetentionBounded

\* Parts of the invariant that hold because a lookup under way has found nothing.
LEMMA NothingYet ==
    ASSUME IInv, pc' # "idle", found' = <<>>, result' = <<>>, filters' \in Filters
    PROVE  NearestDistinct' /\ RetentionBounded'
<1>1. filters'.limit \in Nat
  BY FilterAssumption
<1>2. Len(result') = 0 /\ DOMAIN result' = {} /\ DOMAIN found' = {}
  OBVIOUS
<1>3. NearestDistinct'
  BY <1>1, <1>2 DEF NearestDistinct
<1>4. RetentionBounded'
  BY DEF RetentionBounded
<1> QED BY <1>3, <1>4

LEMMA Inductive == IInv /\ [Next]_vars => IInv'
<1> SUFFICES ASSUME IInv, [Next]_vars PROVE IInv'
  OBVIOUS
<1> USE TimeAssumption
<1>t. TypeOK /\ NearestDistinct /\ RetentionBounded
  BY DEF IInv
<1>s. directory' = directory => Searches' = Searches /\ Answered' = Answered
  BY DEF Searches, Answered
<1>f. pc # "idle" => found = <<>> /\ result = <<>> /\ filters \in Filters
  BY DEF IInv, TypeOK
<1>1. CASE Begin
  <2>1. TypeOK'
    BY <1>1, <1>t, <1>s, EmptyList DEF Begin, TypeOK
  <2>2. NearestDistinct' /\ RetentionBounded'
    BY <1>1, NothingYet DEF Begin
  <2> QED BY <1>1, <2>1, <2>2 DEF Begin, IInv
<1>2. CASE Geocode
  <2>1. PICK e \in Entries :
          /\ area' = ToArea(e)
          /\ pc' \in {"search", "freetext", "raised"}
          /\ pc' = "search" => area' # NONE
    BY <1>2 DEF Geocode
  <2>2. area' \in Areas \cup {NONE}
    BY <2>1, AreaType
  <2>3. TypeOK'
    BY <1>2, <1>t, <1>s, <2>1, <2>2 DEF Geocode, TypeOK
  <2>4. pc # "idle" /\ UNCHANGED <<now, cache, filters, found, result, retrieved>>
    BY <1>2 DEF Geocode
  <2>5. NearestDistinct' /\ RetentionBounded'
    BY <1>f, <2>1, <2>4, NothingYet
  <2>6. \E d \in Entries : area' = ToArea(d)
    BY <2>1
  <2> QED BY <1>f, <2>1, <2>3, <2>4, <2>5, <2>6 DEF IInv
<1>3. CASE GeocodeFails
  <2>1. TypeOK'
    BY <1>3, <1>t, <1>s, EmptyList DEF GeocodeFails, Raise, TypeOK
  <2>2. NearestDistinct' /\ RetentionBounded'
    BY <1>3, <1>f, NothingYet DEF GeocodeFails, Raise
  <2> QED BY <1>3, <1>f, <2>1, <2>2 DEF GeocodeFails, Raise, IInv
<1>4. CASE SearchHit
  <2>1. cache \in Answered /\ cache.answer \in Lists /\ cache.at \in Nat /\ cache.expires \in Nat
    BY <1>4, <1>t DEF SearchHit, Live, Cached, TypeOK, Answered
  <2>2. /\ found' \in Lists /\ result' \in Seq(Features) /\ answer' \in Lists
        /\ stamp' \in Nat /\ retrieved' \in Nat
        /\ pc' = "idle" /\ filters' = filters /\ area' = area
        /\ NearestDistinct'
    BY <1>4, <2>1, FinishGood DEF SearchHit
  <2>3. UNCHANGED <<now, directory, cache>>
    BY <1>4 DEF SearchHit
  <2>4. TypeOK'
    BY <1>t, <1>s, <2>2, <2>3 DEF TypeOK
  <2>5. RetentionUntil' = IF directory = "places" THEN now + Window ELSE NONE
    BY <1>4 DEF SearchHit, Finish, RetentionUntil
  <2>6. now + Window < retrieved' + Window + Latency + Ttl
    <3>1. now < cache.expires /\ cache.expires <= cache.at + Latency + Ttl /\ retrieved' = cache.at
      BY <1>4 DEF SearchHit, Live, Cached, Finish, IInv
    <3> QED BY <3>1, <2>1, <1>t, SMT DEF TypeOK
  <2>7. RetentionBounded'
    BY <2>3, <2>5, <2>6 DEF RetentionBounded
  <2> QED BY <2>2, <2>3, <2>4, <2>7 DEF IInv
<1>5. CASE SearchMiss
  <2>1. TypeOK'
    BY <1>5, <1>t, <1>s DEF SearchMiss, TypeOK
  <2>2. NearestDistinct' /\ RetentionBounded'
    BY <1>5, <1>f, NothingYet DEF SearchMiss
  <2> QED BY <1>5, <1>f, <2>1, <2>2 DEF SearchMiss, IInv
<1>6. CASE SearchAnswer
  <2>1. answer' \in Lists
    BY <1>6, AnswerType DEF SearchAnswer
  <2>2. TypeOK'
    BY <1>6, <1>t, <1>s, <2>1 DEF SearchAnswer, TypeOK
  <2>3. NearestDistinct' /\ RetentionBounded'
    BY <1>6, <1>f, NothingYet DEF SearchAnswer
  <2>4. now <= now + Latency
    BY <1>t DEF TypeOK
  <2> QED BY <1>6, <1>f, <2>2, <2>3, <2>4 DEF SearchAnswer, IInv
<1>7. CASE SearchStore
  <2>1. /\ answer \in Lists /\ now \in Nat /\ retrieved \in Nat
        /\ now <= retrieved + Latency /\ now + Ttl <= retrieved + Latency + Ttl
    BY <1>7, <1>t DEF SearchStore, IInv, TypeOK
  <2>2. /\ found' \in Lists /\ result' \in Seq(Features) /\ answer' \in Lists
        /\ stamp' \in Nat /\ retrieved' \in Nat
        /\ pc' = "idle" /\ filters' = filters /\ area' = area
        /\ NearestDistinct'
    BY <1>7, <2>1, FinishGood DEF SearchStore
  <2>3. UNCHANGED <<now, directory>>
    BY <1>7 DEF SearchStore
  <2>4. Search \in Searches
    <3>1. area \in Areas /\ filters \in Filters /\ directory \in {"overpass", "places"}
      BY <1>7, <1>t DEF SearchStore, IInv, TypeOK
    <3> QED BY <3>1, SearchType
  <2> DEFINE put == [search |-> Search, answer |-> answer, at |-> retrieved, expires |-> now + Ttl]
  <2>5. cache' \in {cache, put}
    BY <1>7 DEF SearchStore
  <2>6. put \in Answered
    <3>1. now + Ttl \in Nat
      BY <2>1
    <3> QED BY <2>1, <2>4, <3>1, Zenon DEF Answered
  <2>7. TypeOK'
    <3>1. cache' \in Answered \cup {NONE}
      BY <2>5, <2>6, <1>t DEF TypeOK
    <3> QED BY <1>t, <1>s, <2>2, <2>3, <3>1 DEF TypeOK
  <2>8. RetentionUntil' = IF directory = "places" THEN now + Window ELSE NONE
    BY <1>7, <2>3 DEF SearchStore, Finish, RetentionUntil
  <2>9. now + Window <= retrieved' + Window + Latency
    <3>1. retrieved' = retrieved
      BY <1>7 DEF SearchStore, Finish
    <3> QED BY <2>1, <3>1
  <2>10. RetentionBounded'
    BY <2>3, <2>8, <2>9 DEF RetentionBounded
  <2>11. cache' # NONE => cache'.expires <= cache'.at + Latency + Ttl
    BY <2>1, <2>5 DEF IInv
  <2> QED BY <2>2, <2>3, <2>7, <2>10, <2>11 DEF IInv
<1>8. CASE SearchFails
  <2>1. TypeOK'
    BY <1>8, <1>t, <1>s, EmptyList DEF SearchFails, Raise, TypeOK
  <2>2. NearestDistinct' /\ RetentionBounded'
    BY <1>8, <1>f, NothingYet DEF SearchFails, Raise
  <2> QED BY <1>8, <1>f, <2>1, <2>2 DEF SearchFails, Raise, IInv
<1>9. CASE Evict
  <2>1. TypeOK'
    BY <1>9, <1>t, <1>s DEF Evict, lookupVars, TypeOK
  <2>2. NearestDistinct'
    BY <1>9, <1>t, Zenon DEF Evict, lookupVars, NearestDistinct
  <2>3. RetentionBounded'
    BY <1>9, <1>t DEF Evict, lookupVars, RetentionBounded, RetentionUntil
  <2> QED BY <1>9, <2>1, <2>2, <2>3 DEF Evict, lookupVars, IInv
<1>10. CASE Tick
  <2>1. TypeOK'
    <3>1. now' \in Nat
      BY <1>10, <1>t DEF Tick, TypeOK
    <3> QED BY <1>10, <1>t, <1>s, <3>1, Zenon DEF Tick, lookupVars, TypeOK
  <2>2. NearestDistinct'
    BY <1>10, <1>t, Zenon DEF Tick, lookupVars, NearestDistinct
  <2>3. RetentionBounded'
    BY <1>10, <1>t, Zenon DEF Tick, lookupVars, RetentionBounded, RetentionUntil
  <2>4. pc' = "store" => now' <= retrieved' + Latency
    BY <1>10, <1>t DEF Tick, lookupVars, TypeOK
  <2> QED BY <1>10, <2>1, <2>2, <2>3, <2>4, Zenon DEF Tick, lookupVars, IInv
<1>11. CASE UNCHANGED vars
  <2>1. TypeOK'
    BY <1>11, <1>t, <1>s DEF vars, lookupVars, TypeOK
  <2>2. NearestDistinct'
    BY <1>11, <1>t, Zenon DEF vars, lookupVars, NearestDistinct
  <2>3. RetentionBounded'
    BY <1>11, <1>t DEF vars, lookupVars, RetentionBounded, RetentionUntil
  <2> QED BY <1>11, <2>1, <2>2, <2>3 DEF vars, lookupVars, IInv
<1> QED
  BY <1>1, <1>2, <1>3, <1>4, <1>5, <1>6, <1>7, <1>8, <1>9, <1>10, <1>11 DEF Next

THEOREM Invariance == Spec => []IInv
<1> QED BY Initially, Inductive, PTL DEF Spec

\* TypeCorrect: every variable keeps its shape, for any answers and settings.
THEOREM TypeCorrect == Spec => []TypeOK
<1>1. IInv => TypeOK
  BY DEF IInv
<1> QED BY <1>1, Invariance, PTL

\* NearestAlwaysDistinct: whatever a directory knows and in whatever order it
\* answers, no business is returned twice, none stands before a nearer one, and
\* only a full list leaves one out.
THEOREM NearestAlwaysDistinct == Spec => []NearestDistinct
<1>1. IInv => NearestDistinct
  BY DEF IInv
<1> QED BY <1>1, Invariance, PTL

\* RetentionAlwaysBounded: the thirty days of the Places terms are stretched by no
\* more than the time an answer took and, on a hit, less than a lifetime of the
\* response cache, for every window, lifetime and latency.
THEOREM RetentionAlwaysBounded == Spec => []RetentionBounded
<1>1. IInv => RetentionBounded
  BY DEF IInv
<1> QED BY <1>1, Invariance, PTL

\* RequestAlwaysFits: an area that is made of the geocoder's answer is one the
\* contract admits, and the circle drawn for Google Places is within its limits,
\* but for the boundary whose points are all one (radius 0), for every setting
\* Settings admits.
THEOREM RequestAlwaysFits == Spec => []RequestFits
<1>1. IInv => RequestFits
  <2> SUFFICES ASSUME IInv, area # NONE
               PROVE  /\ area.kind = "circle" => area.radius \in MinRadius .. LowerOf(MaxRadius, ContractRadius)
                      /\ area.kind = "polygon" => area.vertices \in MinVertices .. MaxVertices
                      /\ PlacesRequest.radius <= PlacesRadius
                      /\ PlacesRequest.radius = 0 <=> area.kind = "polygon" /\ area.radius = 0
                      /\ PlacesRequest.count \in 1 .. PlacesCount
    BY DEF RequestFits
  <2>1. PICK e \in Entries : area = ToArea(e)
    BY DEF IInv
  <2>2. \/ /\ area.kind = "circle"
           /\ area.radius \in MinRadius .. LowerOf(MaxRadius, ContractRadius)
        \/ /\ area.kind = "polygon"
           /\ area.radius \in Nat
           /\ area.vertices \in MinVertices .. MaxVertices
    BY <2>1, AreaFits
  <2>3. LowerOf(MaxRadius, ContractRadius) <= PlacesRadius
    BY SettingsAssumption, SMT DEF LowerOf
  <2>4. filters.limit \in Nat \ {0}
    BY FilterAssumption DEF IInv, TypeOK
  <2>5. /\ PlacesRequest.radius <= PlacesRadius
        /\ PlacesRequest.radius = 0 <=> area.kind = "polygon" /\ area.radius = 0
    BY <2>2, <2>3, SettingsAssumption, SMT DEF PlacesRequest, LowerOf
  <2>6. PlacesRequest.count \in 1 .. PlacesCount
    BY <2>4, SettingsAssumption, SMT DEF PlacesRequest, LowerOf
  <2> QED BY <2>2, <2>5, <2>6, SMT
<1> QED BY <1>1, Invariance, PTL

\* OneTableAlways: what is asked for and what can be classified never come apart,
\* whatever features there are and whatever categories are wanted, as long as
\* they name a type of Places or Overpass is asked (osm_taxonomy.py,
\* places_taxonomy.py).
THEOREM OneTableAlways == Spec => []OneTable
<1>1. IInv => OneTable
  <2> SUFFICES ASSUME IInv, directory = "places" => IncludedTypesFor(filters.wanted) # {},
                      NEW f \in Features
               PROVE  /\ Asked(f) => Classify(f) # Unclassified
                      /\ Classify(f) # Unclassified /\ Wanted(Classify(f), filters.wanted) =>
                            Asked(f)
    BY DEF OneTable
  <2>1. CASE directory = "overpass"
    BY <2>1, OsmAgrees DEF Asked, Classify
  <2>2. CASE directory = "places"
    BY <2>2, PlacesAgrees DEF Asked, Classify
  <2> QED BY <2>1, <2>2 DEF IInv, TypeOK
<1> QED BY <1>1, Invariance, PTL

=============================================================================
