SPECIFICATION FlowSpec
CONSTANTS
    Items = {i1}
    Sources = {a, b}
    Polls = {p1, p2}
    Subs = {u1}
    Tasks = {t1, t2}
    NoItem = NoItem
    MaxListed = 1
    MaxReported = 1
    MaxRevisions = 0
    MaxAttempts = 1
    MaxChecks = 0
SYMMETRY Symmetry
INVARIANTS
    PollTypeOK
    BatchedOnce
    NothingForgotten
    MessageIsStored
