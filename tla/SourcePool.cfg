SPECIFICATION Spec
CONSTANTS
    a = a
    b = b
    s1 = s1
    s2 = s2
    s3 = s3
    Users = {a, b}
    Subs = {s1, s2, s3}
    Owner <- MCOwner
    Sources = {u1, u2}
    Workers = {w1, w2}
    NoSub = NoSub
    Cap = 1
    HardCap = 1
    MaxJobs = 4
SYMMETRY Symmetry
INVARIANTS
    TypeOK
    CountCoversLinks
    FollowedIsPolled
    RunningWithinCap
    RemovedStaysOut
    RoomKept
CHECK_DEADLOCK FALSE
