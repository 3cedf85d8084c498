\* The daily job over two findings, with a maker that fails and people that edit.  No
\* symmetry: unsound for liveness.
CONSTANTS
    f1 = f1
    f2 = f2
    t1 = t1
    t2 = t2
    c1 = c1
    d1 = d1
    None = None
    Findings = {f1, f2}
    Hosts <- OneHost
    Remedies <- OneRemedy
    Tasks = {t1, t2}
    Makers = {c1}
    Dailies = {d1}
    Requests = {}
    Deletable = {t1, t2}
    MaxTickets = 2
    MaxEdits = 1
    MaxFailures = 1
SPECIFICATION FairSpec
INVARIANT
    RemediesSound
PROPERTY
    DueTicketsResolve
CHECK_DEADLOCK FALSE
