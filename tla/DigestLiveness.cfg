SPECIFICATION FairSpec
CONSTANTS
    Items = {i1, i2}
    Tasks = {t1, t2}
    NoTask = NoTask
    MaxTime = 2
    Minutes = {2}
    MaxAge = 0
    MaxAttempts = 1
PROPERTY EveryTaskEnds
CHECK_DEADLOCK FALSE
