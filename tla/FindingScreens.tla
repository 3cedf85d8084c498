---------------------------- MODULE FindingScreens ----------------------------
(* What people are shown of a tenant's findings while syncs, requests and     *)
(* correlation passes change them: the list with its filters, sorts, pages,   *)
(* facets and hosts (vulnerabilities/service.py), the counters of the         *)
(* dashboard (dashboard.py) and of the assets (assets/router.py),             *)
(* remediations (remediation_service.py) and exports (export.py).             *)
(* A screen is an operator on the rows; only a walk through the pages of the  *)
(* list takes several requests, and each request counts before it reads.      *)
EXTENDS Integers, Sequences, SequencesExt, FiniteSets

CONSTANTS
    Catalog,      \* the findings: [cve, host, source, severity, kev, remedy, product]
    Filters,      \* the filters people choose
    PageSize,
    ExportLimit,  \* the longest export, 10000 rows
    MaxWrites     \* writes to the findings and assets

Shelf == DOMAIN Catalog
Severities == {"CRITICAL", "HIGH", "LOW"}
Worked == {"OPEN", "IN_PROGRESS"}
ScreenStatuses == Worked \cup {"REMEDIATED", "SUPPRESSED"}

ASSUME ScreenBounds ==
    /\ PageSize \in Nat \ {0} /\ ExportLimit \in Nat /\ MaxWrites \in Nat
    /\ IsFiniteSet(Shelf)
    /\ \A f \in Shelf : Catalog[f].severity \in Severities /\ Catalog[f].kev \in BOOLEAN
    /\ Filters \subseteq [severity : SUBSET Severities, source : SUBSET STRING, and : BOOLEAN,
                          status : SUBSET ScreenStatuses, kev : BOOLEAN]

VARIABLES
    state,      \* the status of each finding, "absent" before it is found
    seen,       \* when each was last seen (last_seen_at), 0 before it is found
    paired,     \* the correlations: their sources by CVE and host
    counted,    \* the findings the last correlation pass found open
    hidden,     \* hosts that are ignored
    walk,       \* someone paging through the list
    writes

screenVars == <<state, seen, paired, counted, hidden, walk, writes>>

ScreenHosts == {Catalog[f].host : f \in Shelf}
ScreenSources == {Catalog[f].source : f \in Shelf}
KeyOfFinding(f) == <<Catalog[f].cve, Catalog[f].host>>
NoRemedy == "null"
Sorts == {"severity", "lastSeen"}
NoWalk == [stage |-> "none"]
Everything == [severity |-> {}, source |-> {}, and |-> FALSE, status |-> {}, kev |-> FALSE]

Walks ==
    [stage : {"count", "read", "done"}, filter : Filters, sort : Sorts, page : Nat \ {0}, total : Nat,
     shown : [Shelf -> Nat], written : SUBSET Shelf]

Present == {f \in Shelf : seen[f] > 0}

ScreensTypeOK ==
    /\ state \in [Shelf -> ScreenStatuses \cup {"absent"}]
    /\ seen \in [Shelf -> 0 .. writes] /\ \A f, g \in Present : seen[f] = seen[g] => f = g
    /\ Present = {f \in Shelf : state[f] # "absent"}
    /\ paired \in [{KeyOfFinding(f) : f \in Shelf} -> SUBSET ScreenSources]
    /\ counted \subseteq Present /\ hidden \subseteq ScreenHosts /\ writes \in 0 .. MaxWrites
    /\ walk \in Walks \cup {NoWalk}

-----------------------------------------------------------------------------
(* The list.                                                                  *)

InCorrelation(f, filter) ==
    LET sources == paired[KeyOfFinding(f)] IN
    /\ sources # {}
    /\ IF filter.and /\ Cardinality(filter.source) >= 2 THEN filter.source \subseteq sources
       ELSE filter.source \cap sources # {}
\* A source is looked up in the correlations, and in the row itself unless
\* all of several sources are asked for.
OfSource(f, filter) ==
    \/ filter.source = {}
    \/ InCorrelation(f, filter)
    \/ ~(filter.and /\ Cardinality(filter.source) >= 2) /\ Catalog[f].source \in filter.source
Listed(filter) ==
    {f \in Present :
       /\ filter.severity = {} \/ Catalog[f].severity \in filter.severity
       /\ OfSource(f, filter)
       /\ filter.status = {} \/ state[f] \in filter.status
       /\ filter.kev => Catalog[f].kev}

SeverityRank(f) == CASE Catalog[f].severity = "CRITICAL" -> 1 [] Catalog[f].severity = "HIGH" -> 2 [] OTHER -> 3
\* The default order is by severity and the time last seen; ?sort=severity
\* leaves findings of one severity in no particular order.
Before(sort, f, g) ==
    \/ SeverityRank(f) < SeverityRank(g)
    \/ sort = "lastSeen" /\ SeverityRank(f) = SeverityRank(g) /\ seen[f] > seen[g]
Tied(sort, f, g) == ~Before(sort, f, g) /\ ~Before(sort, g, f)
Orders(sort, rows) ==
    {order \in SetToSeqs(rows) : \A i, j \in DOMAIN order : i < j => ~Before(sort, order[j], order[i])}
Rows(order, from, to) == {order[i] : i \in DOMAIN order \cap from .. to}
\* Mutant: pages are counted from zero.
PageFromZero(order, page) == Rows(order, page * PageSize + 1, (page + 1) * PageSize)

Page(order, page) == Rows(order, (page - 1) * PageSize + 1, page * PageSize)
LastPage(total) == IF total = 0 THEN 1 ELSE (total + PageSize - 1) \div PageSize

\* The sources a finding has in the list, and their number on its own page,
\* none without a correlation.
SourcesOnPage(f) == Cardinality(paired[KeyOfFinding(f)])
Provenance(f) ==
    IF paired[KeyOfFinding(f)] = {} THEN {Catalog[f].source} ELSE paired[KeyOfFinding(f)]

-----------------------------------------------------------------------------
(* Numbers beside the list.                                                   *)

Facet(group, value, filter) ==
    CASE group = "severity" -> Cardinality({f \in Listed([filter EXCEPT !.severity = {}]) : Catalog[f].severity = value})
      [] group = "source" -> Cardinality({f \in Listed([filter EXCEPT !.source = {}]) : Catalog[f].source = value})
      [] group = "status" -> Cardinality({f \in Listed([filter EXCEPT !.status = {}]) : state[f] = value})

\* One row per host, with the findings of each severity and of any.
HostRow(host, filter) ==
    LET rows == {f \in Listed(filter) : Catalog[f].host = host} IN
    [count |-> Cardinality(rows),
     of |-> [s \in Severities |-> Cardinality({f \in rows : Catalog[f].severity = s})]]
HostRows(filter) == {host \in ScreenHosts : HostRow(host, filter).count > 0}

\* GET /vulnerabilities/stats and /overview: open is one status here ...
Totals ==
    [total |-> Cardinality(Present),
     open |-> Cardinality({f \in Present : state[f] = "OPEN"}),
     bySeverity |-> [s \in Severities |-> Cardinality({f \in Present : Catalog[f].severity = s})],
     corroborated |-> Cardinality({k \in DOMAIN paired : Cardinality(paired[k]) >= 2})]
CorrelationStats == Cardinality({k \in DOMAIN paired : paired[k] # {}})
StatusCounts == [s \in ScreenStatuses |-> Cardinality({f \in Present : state[f] = s})]
\* ... and two on the tiles and in the navigation.
Tiles ==
    [critical |-> Cardinality({f \in Present : state[f] \in Worked /\ Catalog[f].severity = "CRITICAL"}),
     kev |-> Cardinality({f \in Present : state[f] \in Worked /\ Catalog[f].kev})]
TopFindings == {f \in Present : state[f] = "OPEN" /\ Catalog[f].severity = "CRITICAL"}
NavOpen == Cardinality({f \in Present : state[f] \in Worked})
\* The executive summary.
InSummary(severity, kev) ==
    Cardinality({f \in Present : /\ state[f] \in Worked
                                 /\ severity = {} \/ Catalog[f].severity \in severity
                                 /\ kev => Catalog[f].kev})

\* The assets, and the open findings of each; the riskiest hosts include the
\* ignored ones.
KnownHosts == {Catalog[f].host : f \in Present}
AssetsShown(which) ==
    CASE which = "active" -> KnownHosts \ hidden
      [] which = "ignored" -> KnownHosts \cap hidden
      [] which = "all" -> KnownHosts
AssetVulns(host) == Cardinality({f \in Present : Catalog[f].host = host /\ state[f] \in Worked})
TopHosts == [host \in KnownHosts |-> AssetVulns(host)]

(* Remediations.  An ignored host has no part in the groups or in their lists *)
(* of hosts, but in its own list and in the file; an empty id has no group,   *)
(* and what has no remediation is in the host's own list only.                *)
Fixable(f, show) ==
    /\ Catalog[f].remedy \notin {NoRemedy, ""} /\ Catalog[f].host \notin hidden
    /\ state[f] \in (CASE show = "active" -> Worked
                       [] show = "ignored" -> {"SUPPRESSED"}
                       [] show = "all" -> Worked \cup {"SUPPRESSED"})
RemedyGroups(show) ==
    LET groups == {<<Catalog[f].remedy, Catalog[f].product>> : f \in {g \in Present : Fixable(g, show)}}
        rows(g) == {f \in Present : Fixable(f, show) /\ <<Catalog[f].remedy, Catalog[f].product>> = g}
    IN [g \in groups |-> [vulns |-> Cardinality(rows(g)),
                          suppressed |-> Cardinality({f \in rows(g) : state[f] = "SUPPRESSED"})]]

RowsOfRemedy(remedy) ==
    {f \in Present : state[f] \in Worked /\ Catalog[f].remedy = remedy /\ Catalog[f].host \notin hidden}
RowsOfHost(host) == {f \in Present : state[f] \in Worked /\ Catalog[f].host = host}
RowsOfExport == {f \in Present : state[f] \in Worked /\ Catalog[f].remedy # NoRemedy}

\* The CSV file: filters on the rows alone, in the list's default order.
Export(filter) ==
    LET rows == {f \in Present : /\ filter.severity = {} \/ Catalog[f].severity \in filter.severity
                                 /\ filter.source = {} \/ Catalog[f].source \in filter.source
                                 /\ filter.status = {} \/ state[f] \in filter.status
                                 /\ filter.kev => Catalog[f].kev}
        order == CHOOSE o \in Orders("lastSeen", rows) : TRUE
    IN Rows(order, 1, ExportLimit)

-----------------------------------------------------------------------------
(* Steps.                                                                     *)

Writes(f) ==
    /\ writes < MaxWrites /\ writes' = writes + 1
    /\ walk' = IF walk = NoWalk THEN NoWalk ELSE [walk EXCEPT !.written = @ \cup f]

\* run_correlations: the sources of the open findings of a CVE on a host, if
\* there are several.
Correlated(s, p) ==
    LET open == {f \in Shelf : s[f] \in Worked}
        sources(k) == {Catalog[f].source : f \in {g \in open : KeyOfFinding(g) = k}}
    IN [k \in DOMAIN p |-> IF Cardinality(sources(k)) >= 2 THEN sources(k) ELSE {}]

\* A sync sees a finding and commits, with the correlations unless it failed.
SyncSees(f, ends) ==
    /\ Writes({f})
    /\ state' = [state EXCEPT ![f] = IF @ = "absent" THEN "OPEN" ELSE @]
    /\ seen' = [seen EXCEPT ![f] = writes + 1]
    /\ IF ends THEN paired' = Correlated(state', paired) /\ counted' = {g \in Shelf : state'[g] \in Worked}
       ELSE UNCHANGED <<paired, counted>>
    /\ UNCHANGED hidden
\* By hand, one finding or the several that are selected.
SetsState(selected, s) ==
    /\ selected \subseteq Present /\ (\E f \in selected : state[f] # s) /\ Writes(selected)
    /\ state' = [f \in Shelf |-> IF f \in selected THEN s ELSE state[f]]
    /\ UNCHANGED <<seen, paired, counted, hidden>>
IgnoresHosts(hosts, ignored) ==
    /\ Writes({})
    /\ hosts \subseteq KnownHosts
    /\ hidden' = IF ignored THEN hidden \cup hosts ELSE hidden \ hosts
    /\ hidden' # hidden
    /\ UNCHANGED <<state, seen, paired, counted>>
IgnoresHost(host) == IgnoresHosts({host}, TRUE)
UnignoresHost(host) == IgnoresHosts({host}, FALSE)

\* Someone opens the list and goes on to the next page until the last page of
\* the latest answer.
OpensList(filter, sort) ==
    /\ walk = NoWalk
    /\ walk' = [stage |-> "count", filter |-> filter, sort |-> sort, page |-> 1, total |-> 0,
                shown |-> [f \in Shelf |-> 0], written |-> {}]
    /\ UNCHANGED <<state, seen, paired, counted, hidden, writes>>
CountsList ==
    /\ walk.stage = "count"
    /\ walk' = [walk EXCEPT !.stage = "read", !.total = Cardinality(Listed(walk.filter))]
    /\ UNCHANGED <<state, seen, paired, counted, hidden, writes>>
ReadsPage ==
    /\ walk.stage = "read"
    /\ \E order \in Orders(walk.sort, Listed(walk.filter)) :
         walk' = [walk EXCEPT
                    !.stage = IF walk.page >= LastPage(walk.total) THEN "done" ELSE "count",
                    !.page = @ + 1,
                    !.shown = [f \in Shelf |-> @[f] + (IF f \in Page(order, walk.page) THEN 1 ELSE 0)]]
    /\ UNCHANGED <<state, seen, paired, counted, hidden, writes>>

ScreensInit ==
    /\ state = [f \in Shelf |-> "absent"] /\ seen = [f \in Shelf |-> 0]
    /\ paired = [k \in {KeyOfFinding(f) : f \in Shelf} |-> {}] /\ counted = {} /\ hidden = {}
    /\ walk = NoWalk /\ writes = 0
ScreensNext ==
    \/ \E f \in Shelf, ends \in BOOLEAN : SyncSees(f, ends)
    \/ \E selected \in {{f} : f \in Shelf} \cup {Present}, s \in ScreenStatuses : SetsState(selected, s)
    \/ \E host \in ScreenHosts : IgnoresHost(host) \/ UnignoresHost(host)
    \/ \E hosts \in SUBSET ScreenHosts, ignored \in BOOLEAN : IgnoresHosts(hosts, ignored)
    \/ \E filter \in Filters, sort \in Sorts : OpensList(filter, sort)
    \/ CountsList
    \/ ReadsPage

-----------------------------------------------------------------------------
\* Whoever pages through the list to its end has seen every finding of it
\* once, unless another was written meanwhile or, in an order that leaves
\* findings tied, another ties with it: the order of each page is the
\* database's (service.py:186, 196).
WalkSeesAll ==
    walk.stage = "done" =>
       \A f \in Listed(walk.filter) \ walk.written :
          walk.shown[f] # 1 =>
             walk.written # {} \/ \E g \in Listed(walk.filter) \ {f} : Tied(walk.sort, f, g)

\* A walk changes no finding: the screens are compared before one, and when
\* there is something to show.
Compared == walk = NoWalk /\ Present # {}

\* A facet's number is that of the list it leads to, for severities and
\* statuses; for a source it is at most that, as the list has the findings of
\* other sources that a correlation names (service.py:395, 406, 416).
FacetsLeadToLists ==
    Compared => \A filter \in Filters :
       /\ \A s \in Severities :
            Facet("severity", s, filter) = Cardinality(Listed([filter EXCEPT !.severity = {s}]))
       /\ \A s \in ScreenStatuses :
            Facet("status", s, filter) = Cardinality(Listed([filter EXCEPT !.status = {s}]))
       /\ \A s \in ScreenSources :
            Facet("source", s, filter) <= Cardinality(Listed([filter EXCEPT !.source = {s}]))

\* The sources shown with a finding include its own, or it was not open when
\* correlations were last made: settled, or stored by a sync that failed
\* (service.py:232; correlation_service.py:125).
OwnSourceShown == \A f \in counted : Catalog[f].source \in Provenance(f)

\* The screens count the same findings and correlations: those of the hosts,
\* by severity or not, are those of the list; those open by status, in the
\* navigation, by asset and in the summary are one number; a remediation's
\* groups have the rows of its list of hosts, which the file exceeds by those
\* of ignored hosts only (dashboard.py:318; export.py:328;
\* remediation_service.py:85, 179).
SumOver(numbers) == Cardinality(UNION {{k} \X (1 .. numbers[k]) : k \in DOMAIN numbers})
ScreensAgree ==
    Compared =>
       /\ \A filter \in Filters :
            /\ SumOver([h \in HostRows(filter) |-> HostRow(h, filter).count]) = Cardinality(Listed(filter))
            /\ \A h \in HostRows(filter) : HostRow(h, filter).count = SumOver(HostRow(h, filter).of)
       /\ Totals.total = SumOver(StatusCounts) /\ Totals.total = SumOver(Totals.bySeverity)
       /\ Totals.corroborated = CorrelationStats
       /\ \A f \in Present : SourcesOnPage(f) \in {0, Cardinality(Provenance(f))} \ {1}
       /\ NavOpen = Totals.open + StatusCounts["IN_PROGRESS"]
       /\ NavOpen = Cardinality(Listed([Everything EXCEPT !.status = Worked]))
       /\ NavOpen = SumOver(TopHosts) /\ NavOpen = InSummary({}, FALSE)
       /\ Tiles = [critical |-> InSummary({"CRITICAL"}, FALSE), kev |-> InSummary({}, TRUE)]
       /\ TopFindings # {} => Tiles.critical > 0
       /\ \A remedy \in {Catalog[f].remedy : f \in Shelf} \ {NoRemedy, ""} :
            LET groups == RemedyGroups("active") IN
            Cardinality(RowsOfRemedy(remedy)) = SumOver([g \in {h \in DOMAIN groups : h[1] = remedy} |-> groups[g].vulns])
       /\ RowsOfExport = {f \in UNION {RowsOfHost(h) : h \in KnownHosts} : Catalog[f].remedy # NoRemedy}
       /\ \A f \in RowsOfExport :
            f \notin RowsOfRemedy(Catalog[f].remedy) => Catalog[f].host \in AssetsShown("ignored")
       /\ \A g \in DOMAIN RemedyGroups("all") :
            LET group == RemedyGroups("all")[g] IN
            /\ group.suppressed = (IF g \in DOMAIN RemedyGroups("ignored") THEN RemedyGroups("ignored")[g].vulns ELSE 0)
            /\ (group.suppressed < group.vulns) <=> (g \in DOMAIN RemedyGroups("active"))

\* An export has rows of the list under the same filter, and leaves out of it
\* what only a correlation put there, or what comes after the last row of a
\* full export (export.py:35, 42).
ExportForCause ==
    Compared => \A filter \in Filters : ~filter.and =>
       /\ Export(filter) \subseteq Listed(filter)
       /\ \A f \in Listed(filter) \ Export(filter) :
            \/ filter.source # {} /\ Catalog[f].source \notin filter.source
            \/ /\ Cardinality(Export(filter)) = ExportLimit
               /\ \A g \in Export(filter) : Before("lastSeen", g, f)

\* Pages, facets, hosts, tiles and files are views of one set of rows.
ScreensSound ==
    /\ ScreensTypeOK
    /\ WalkSeesAll /\ FacetsLeadToLists /\ OwnSourceShown /\ ScreensAgree /\ ExportForCause
=============================================================================
