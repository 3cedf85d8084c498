\* A threshold is edited between the diff and the commit.
CONSTANTS
    Admins = {a1}
    Assets = {x1}
    r1 = r1
    f1 = f1
    Rules = {r1}
    Filters = {f1}
    Linked <- LinkedRule
    MaxScore = 1
    MaxWrites = 1
    None = None

SPECIFICATION CutoverSpec
PROPERTY
    EnableOnlyFresh
