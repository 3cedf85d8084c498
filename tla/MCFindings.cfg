\* Due dates: two findings, two configurations, each of one day for a severity
\* and none for the other, three days, three changes.  Suppression: two findings with
\* one CVE, one with a remediation of its own, two requests at a time of
\* three.  Alerts: two findings with one CVE or two connectors, a lookback of
\* an hour, three hours.  Reports: two, due after one part or two, three requests.
\* Snapshots: days of three parts, a round at least every second part, three
\* days, one change of a score or of the model.  Screens: four findings on two
\* hosts, pages and files of two, five filters, three writes.  Desk: two
\* tickets of two findings, one person and two bulk deletions, two writes.
CONSTANTS
    f1 = f1
    f2 = f2
    q1 = q1
    q2 = q2
    p1 = p1
    p2 = p2
    s1 = s1
    s2 = s2
    s3 = s3
    s4 = s4
    Vulns <- TwoFindings
    SlaConfigs <- DaysPerSeverity
    AtRiskDays = 1
    MaxDay = 2
    MaxChanges = 3
    Items <- TwoItems
    Bundles <- OneAndBoth
    ScoreOf <- OwnScores
    Calls <- TwoCalls
    MaxCalls = 3
    Subjects <- TwoHosts
    KeyOf <- OneCve
    Lookback <- OneHour
    MaxHour = 3
    ReportIds <- TwoReports
    Periods = {1, 2}
    Longest = 2
    MaxEdits = 3
    DayLength = 3
    MaxTick = 2
    MaxClock = 9
    Spike = 1
    Levels = {0, 1}
    MaxMoves = 1
    Catalog <- FourFindings
    Filters <- ChosenFilters
    PageSize = 2
    ExportLimit = 2
    MaxWrites = 3
    g1 = g1
    g2 = g2
    h1 = h1
    Sheets <- TwoSheets
    People = {h1}
    Deleters <- TwoCalls
    DeskFilters <- ListFilters
    MaxDeskWrites = 2
SPECIFICATION Spec
SYMMETRY Symmetry
INVARIANTS
    AlertsSound
    SnapshotsSound
    ScreensSound
    DeskSound
PROPERTIES
    DueDatesFollow
    SuppressionSound
    NoRepeatedAlert
    ReportsSound
    NoSyntheticSpike
    SuppressedStay
CHECK_DEADLOCK FALSE
