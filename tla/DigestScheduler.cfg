SPECIFICATION FairSpec
CONSTANTS
    Subs = {u1, u2}
    Broken = {u2}
    Scans = {s1, s2}
    Period = 1
    Firings = {1, 2}
    Lead = 1
    MaxTime = 1
    MaxAborts = 1
    MaxSends = 2
INVARIANTS
    TypeOK
    NoSlotSkipped
    RepeatHasReason
PROPERTY EverySlotSent
