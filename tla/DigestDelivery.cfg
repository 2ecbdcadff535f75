SPECIFICATION Spec
CONSTANTS
    Items = {i1, i2}
    Tasks = {t1, t2}
    NoTask = NoTask
    MaxTime = 3
    Minutes = {0, 3}
    MaxAge = 1
    MaxAttempts = 1
SYMMETRY Symmetry
INVARIANTS
    TypeOK
    NoUnexplainedRepeat
    RecordedWasReceived
    UnracedItemKept
PROPERTY
    LedgerSpec
CHECK_DEADLOCK FALSE
