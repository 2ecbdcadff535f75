SPECIFICATION Spec
CONSTANTS
    s1 = s1
    s2 = s2
    i1 = i1
    i2 = i2
    i3 = i3
    i4 = i4
    Sources = {s1, s2}
    Items = {i1, i2, i3, i4}
    SourceOf <- MCSourceOf
    Ill = {s2}
    Phantom = Phantom
    MaxRevisions = 2
    Window = 3
    Threshold = 2
SYMMETRY Symmetry
INVARIANT ContributorHasNoStreak
