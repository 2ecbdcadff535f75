SPECIFICATION Spec
CONSTANTS
    t1 = t1
    t2 = t2
    Callers = {w1, w2}
    Turns = {t1, t2}
    Nonces = {n1, n2}
    Big = {t2}
    None = None
    Limit = 1
    MaxHits = 2
    HotMax = 3
    MaxTaps = 2
SYMMETRY Symmetry
INVARIANTS
    TypeOK
    RunsOnce
    CancelledNeverRuns
    NothingForgotten
    ThreadFits
    CounterExpires
CHECK_DEADLOCK FALSE
