SPECIFICATION FairSpec
CONSTANTS
    N = 2
    PollInterval = 2
    PollTimeout = 5
    Latency = 2
INVARIANTS
    TypeOK
    ResultsMatchJobs
    PollingIsBounded
PROPERTIES
    NoPrematureTimeout
    Promise
    BatchEnds
CHECK_DEADLOCK FALSE
