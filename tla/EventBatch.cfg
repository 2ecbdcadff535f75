SPECIFICATION FairSpec
CONSTANTS
    Items = {i1}
    Subs = {u1, u2}
    Tasks = {t1}
    NoItem = NoItem
    MaxListed = 2
    MaxReported = 2
    MaxRevisions = 2
    MaxAttempts = 1
    MaxChecks = 1
INVARIANTS
    TypeOK
    RepeatHasReason
    RecordedWasReceived
PROPERTY EveryTaskEnds
CHECK_DEADLOCK FALSE
