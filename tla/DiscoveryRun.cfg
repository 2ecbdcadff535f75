SPECIFICATION Spec
CONSTANTS
    Urls = {u1, u2}
    Finders = {f1, f2}
    HardCap = 2
    SpawnCap = 2
    MaxCalls = 5
    MaxRetries = 1
INVARIANTS
    TypeOK
    SelectionSound
PROPERTIES
    CommitsOnce
    EveryTaskEnds
