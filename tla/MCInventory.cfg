\* Inventory: two scanners that report one CVE, two syncs, one refresh of the
\* feeds and one edit in any order.  Context: one asset, in one of two
\* groups, two transactions at a time of three.  Scoring: each signal absent,
\* weak, strong and beyond its scale.  Records: two devices, four fleets,
\* six records.
CONSTANTS
    Scanners <- TwoScanners
    Cves = {"c1"}
    MaxSyncs = 2
    MaxRefreshes = 1
    MaxEdits = 1
    a1 = a1
    g1 = g1
    g2 = g2
    t1 = t1
    t2 = t2
    Assets <- OneAsset
    Groups <- TwoGroups
    Requests <- TwoTransactions
    Profiles <- TwoProfiles
    AdminValues = {"LOW"}
    GroupValues = {"HIGH", "LOW"}
    MaxRequests = 3
    d1 = d1
    d2 = d2
    u1 = u1
    u2 = u2
    h1 = h1
    h2 = h2
    Devices <- TwoDevices
    Users <- TwoUsers
    People <- TwoPeople
    Vendors <- AllVendors
    Fleets <- SomeFleets
    MaxRecords = 6
SPECIFICATION Spec
INVARIANTS
    FindingsAgree
    ContextStands
    ScoresSound
    RecordsFollow
PROPERTIES
    AloneSettles
    TransactionsEnd
CHECK_DEADLOCK FALSE
