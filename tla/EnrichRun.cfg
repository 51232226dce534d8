SPECIFICATION FairSpec
CONSTANTS
    Callers = {e1, e2}
    e1 = e1
    e2 = e2
    Hosts = {h1}
    h1 = h1
    Browser = TRUE
    Ttl = 2
    Latency = 1
    Wait = 1
    MaxTime = 5
    Pages <- MCPages
    MaxDescriptors = 3
    MaxPhotos = 1
    MaxTokens = 2
    NONE = NONE
INVARIANTS
    TypeOK
    BansAreHonoured
    OutcomeFollowsLastPage
    NoContactSurvives
    ProfileFits
PROPERTIES
    EnrichmentEnds
CHECK_DEADLOCK FALSE
