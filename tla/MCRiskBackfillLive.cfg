\* Liveness on two findings migrated one by one: two full chunks and the empty
\* one that completes the job.  No symmetry: it is unsound for liveness.
CONSTANTS
    NumFindings = 2
    ChunkSize = 1
    Workers = {w1, w2}
    NoWorker = NoWorker
    MaxRev = 0
SPECIFICATION FairSpec
PROPERTIES
    JobSettles
    OpenFindingsScored
