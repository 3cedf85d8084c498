\* Two streams, two expiries, one stream that dies with the guard, and the
\* scheduling the event loop and Redis give.  No symmetry: unsound for liveness.
CONSTANTS
    s1 = s1
    s2 = s2
    Streams = {s1, s2}
    Cap = 2
    MaxPrewarm = 1
    MaxExpiries = 2
    MaxVanish = 1
SPECIFICATION FairSpec
INVARIANTS
    BoundsHold
    RowPerAttempt
PROPERTY
    StreamsSettle
