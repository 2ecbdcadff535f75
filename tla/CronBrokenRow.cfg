SPECIFICATION FairSpec
CONSTANTS
    Subs = {u1, u2}
    Broken = {u2}
    Scans = {s1}
    Period = 1
    Firings = {1, 2, 3}
    Lead = 1
    MaxTime = 2
    MaxAborts = 0
    MaxSends = 3
PROPERTY BrokenRowIsPassedOver
