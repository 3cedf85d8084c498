\* Two sessions that open tickets for one finding, and a request that syncs or closes
\* them; three tasks, so that a third row is possible.
CONSTANTS
    f1 = f1
    t1 = t1
    t2 = t2
    t3 = t3
    c1 = c1
    c2 = c2
    r1 = r1
    None = None
    Findings = {f1}
    Hosts <- OneHost
    Remedies <- OneRemedy
    Tasks = {t1, t2, t3}
    Makers = {c1, c2}
    Dailies = {}
    Requests = {r1}
    Deletable = {t1, t2, t3}
    MaxTickets = 2
    MaxEdits = 1
    MaxFailures = 0
SPECIFICATION Spec
INVARIANT
    DuplicatesBounded
SYMMETRY Symmetry
CHECK_DEADLOCK FALSE
