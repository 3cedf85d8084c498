\* Two pollers over one batch of two findings, one revision of each, one failure, a
\* key that comes and goes.  No symmetry: unsound for liveness.
CONSTANTS
    f1 = f1
    f2 = f2
    b1 = b1
    w1 = w1
    p1 = p1
    p2 = p2
    None = None
    Findings = {f1, f2}
    Batches = {b1}
    Prewarms = {w1}
    Pollers = {p1, p2}
    Cap = 3
    MaxRev = 1
    MaxFailures = 1
SPECIFICATION FairSpec
INVARIANTS
    ResultsSound
    RepeatsBounded
PROPERTY
    JobCompletes
