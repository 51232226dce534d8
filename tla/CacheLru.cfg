SPECIFICATION Spec
CONSTANTS
    Callers = {c1, c2}
    c1 = c1
    c2 = c2
    Keys = {k1, k2, k3, k0}
    k1 = k1
    k2 = k2
    k3 = k3
    k0 = k0
    Uncached = k0
    Ttl <- MCTtl
    MaxEntries = 2
    Bodies = {text}
    text = text
    Latency = 1
    MaxTime = 4
    NONE = NONE
SYMMETRY MCSymmetry
INVARIANTS
    TypeOK
    BoundedNoDuplicates
    EvictsLeastRecentlyUsed
    RefetchesAreFew
PROPERTY HitIsFresh
CHECK_DEADLOCK FALSE
