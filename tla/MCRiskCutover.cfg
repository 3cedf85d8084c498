\* Two requests, a rule that follows a filter, and two edits or syncs: enough to
\* tear a diff apart and to put it together again.
CONSTANTS
    Admins = {a1, a2}
    Assets = {x1}
    r1 = r1
    f1 = f1
    Rules = {r1}
    Filters = {f1}
    Linked <- LinkedRule
    MaxScore = 1
    MaxWrites = 2
    None = None
SYMMETRY CutoverSymmetry
SPECIFICATION CutoverSpec
INVARIANTS
    CutoverSound
    UndisturbedEnableIsFresh
