------------------------------ MODULE MCFindings ------------------------------
(* Instances for TLC of seven modules about the findings, each with the       *)
(* columns it writes: due dates, closing and opening, alerts, scheduled       *)
(* reports, daily snapshots, what the screens show of them, and what people   *)
(* do with their tickets.  A behaviour is one of them, the others rest.       *)
EXTENDS SlaClock, Suppression, Alerts, Reports, DailySnapshots, FindingScreens, TicketDesk, TLC

CONSTANTS f1, f2, q1, q2, p1, p2, s1, s2, s3, s4, g1, g2, h1

TwoFindings == {f1, f2}
DaysPerSeverity ==
    {[CRITICAL |-> 0, LOW |-> 1], [CRITICAL |-> 1, LOW |-> 0]}
TwoItems == {1, 2}
OneAndBoth == {{1}, {1, 2}}
OwnScores == [open \in SUBSET TwoItems |-> (IF 1 \in open THEN 1 ELSE 0) + (IF 2 \in open THEN 2 ELSE 0)]
TwoCalls == {q1, q2}
TwoHosts == {"here", "there"}
OneCve == [s \in TwoHosts |-> "cve"]
OneHour == [t \in Topics |-> 1]
TwoReports == {p1, p2}

\* Three sources report a CVE on one host, one of them another on a second.
CatalogRow(cve, host, source, severity, kev, remedy, product) ==
    [cve |-> cve, host |-> host, source |-> source, severity |-> severity, kev |-> kev,
     remedy |-> remedy, product |-> product]
FourFindings ==
    s1 :> CatalogRow("c", "here", "A", "CRITICAL", TRUE, "r", "x") @@
    s2 :> CatalogRow("c", "here", "B", "HIGH", FALSE, "r", "y") @@
    s3 :> CatalogRow("d", "there", "A", "HIGH", TRUE, "", "x") @@
    s4 :> CatalogRow("c", "here", "C", "LOW", FALSE, NoRemedy, "z")
ChosenFilters ==
    {Everything,
     [Everything EXCEPT !.severity = {"HIGH"}, !.status = {"OPEN"}],
     [Everything EXCEPT !.source = {"A"}, !.kev = TRUE],
     [Everything EXCEPT !.source = {"A", "B"}, !.and = TRUE],
     [Everything EXCEPT !.source = {"A", "B"}, !.status = {"OPEN"}]}

\* A remediation's ticket, and one at another provider for one of its findings.
TwoSheets == "u1" :> {g1, g2} @@ "u2" :> {g2}
ListFilters ==
    {Unfiltered, [of |-> {g2}, chips |-> {}], [of |-> {g1, g2}, chips |-> {"open"}],
     [of |-> {g1, g2}, chips |-> {"completed", "blocked"}]}

Symmetry == Permutations(TwoCalls) \cup Permutations(TwoFindings) \cup Permutations(TwoReports)

VARIABLE machine    \* the module a behaviour is of
rest == <<suppressionVars, alertVars, reportVars, snapshotVars>>
all == <<machine, slaVars, rest, screenVars, deskVars>>

Init ==
    /\ machine \in {"sla", "suppression", "alerts", "reports", "snapshots", "screens", "desk"}
    /\ SlaInit /\ sla["LOW"] = 0
    /\ SuppressionInit /\ (machine # "suppression" => \A i \in Items : status[i] = "OPEN")
    /\ AlertsInit /\ (machine # "alerts" => topic = "sla_breach")
    /\ ReportsInit
    /\ SnapshotsInit /\ (machine # "snapshots" => model = "risk_score" /\ \A of \in Models : scores[of] = 0)
    /\ ScreensInit
    /\ DeskInit
Next ==
    \/ machine = "sla" /\ SlaNext /\ UNCHANGED <<machine, rest, screenVars, deskVars>>
    \/ machine = "suppression" /\ SuppressionNext
         /\ UNCHANGED <<machine, slaVars, alertVars, reportVars, snapshotVars, screenVars, deskVars>>
    \/ machine = "alerts" /\ AlertsNext
         /\ UNCHANGED <<machine, slaVars, suppressionVars, reportVars, snapshotVars, screenVars, deskVars>>
    \/ machine = "reports" /\ ReportsNext
         /\ UNCHANGED <<machine, slaVars, suppressionVars, alertVars, snapshotVars, screenVars, deskVars>>
    \/ machine = "snapshots" /\ SnapshotsNext
         /\ UNCHANGED <<machine, slaVars, suppressionVars, alertVars, reportVars, screenVars, deskVars>>
    \/ machine = "screens" /\ ScreensNext /\ UNCHANGED <<machine, slaVars, rest, deskVars>>
    \/ machine = "desk" /\ DeskNext /\ UNCHANGED <<machine, slaVars, rest, screenVars>>
Spec == Init /\ [][Next]_all
=============================================================================
