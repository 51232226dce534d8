SPECIFICATION Spec
CONSTANTS
    Features <- MCFeatures
    Entries <- MCEntries
    Filters <- MCFilters
    MinRadius = 2
    ContractRadius = 9
    DefaultRadius = 4
    MaxRadius = 6
    MinVertices = 3
    MaxVertices = 4
    PlacesRadius = 9
    PlacesCount = 2
    Window = 3
    Ttl = 2
    Latency = 1
    MaxTime = 3
    NONE = NONE
INVARIANTS
    TypeOK
    RequestFits
    OneTable
    NearestDistinct
    RetentionBounded
CHECK_DEADLOCK FALSE
