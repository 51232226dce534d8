SPECIFICATION Spec
CONSTANTS
    Callers = {c1, c2, c3}
    c1 = c1
    c2 = c2
    c3 = c3
    Interval = 3
    MaxJitter = 1
    MaxTime = 14
INVARIANTS
    TypeOK
    OneSleeper
    RateCap
    WaitIsBounded
PROPERTY GapFloor
CHECK_DEADLOCK FALSE
