\* Three findings in chunks of two: a chunk can be full, partial or empty, and
\* two ticks can overlap in each of them.
CONSTANTS
    NumFindings = 3
    ChunkSize = 2
    Workers = {w1, w2}
    NoWorker = NoWorker
    MaxRev = 1
SYMMETRY WorkerSymmetry
SPECIFICATION Spec
INVARIANT
    MigrationSound
PROPERTY
    ImplementsContract
