\* Every connector type; three items in pages of two, so that a list has a
\* second page, a page cap of two that one throttled page already reaches, two
\* attempts, one removal, two syncs, one edit and one restart.
CONSTANTS
    Kinds <- EveryKind
    MaxItems = 3
    PageSize = 2
    MaxPages = 2
    MaxTries = 2
    MaxRemovals = 1
    MaxSyncs = 2
    MaxEdits = 1
    MaxCrashes = 1
SPECIFICATION FairSpec
INVARIANTS
    ConnectorSound
    UnstoredExplained
PROPERTIES
    EarlyOnlyWhenOvertaken
    SyncsGoOn
CHECK_DEADLOCK FALSE
