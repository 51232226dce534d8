SPECIFICATION Spec
CONSTANTS
    N = 2
    PollInterval = 2
    PollTimeout = 4
    Latency = 1
INVARIANT FailuresAreIsolated
CHECK_DEADLOCK FALSE
