------------------------------- MODULE SlaClock -------------------------------
(* The due dates of findings (vulnerabilities/sla_service.py): stamped by the *)
(* scheduler, recalculated on request from the tenant's days per severity,    *)
(* copied to tickets (ticketing/service.py), and the flag and the metrics     *)
(* that say who is late.  Time is in days.  The scheduler and the requests    *)
(* are transactions of several statements: each sees what is committed and    *)
(* what its own transaction wrote, and waits for rows another one has written.*)
EXTENDS Integers, FiniteSets, FiniteSetsExt

CONSTANTS
    Vulns,
    SlaConfigs,   \* the days per severity a tenant may choose
    AtRiskDays,   \* the window of "at risk"
    MaxDay,       \* days of a behaviour
    MaxChanges    \* changes of users and scanners, and readings of the metrics

SlaSeverities == {"CRITICAL", "LOW"}
ASSUME SlaBounds ==
    /\ MaxDay \in Nat /\ MaxChanges \in Nat /\ AtRiskDays \in Nat
    /\ \A c \in SlaConfigs : c \in [SlaSeverities -> Nat]

VARIABLES
    vulns,      \* the rows
    sla,        \* sla_config of the tenant
    ticket,     \* one ticket, the findings it groups, and if a member's date was moved since
    maker,      \* the same of the ticket that is being made
    jobs,       \* the transactions of the scheduler and of a recalculation
    metrics,    \* what a reading of the metrics has counted, and the rows written since
    day,        \* now
    ticked,     \* the scheduler looked for late findings today
    unchecked,  \* findings opened, or recalculated over a midnight, since its last round began
    arrived,    \* those of them since the round in progress began
    changes     \* changes so far

ticketVars == <<ticket, maker>>
slaVars == <<vulns, sla, ticketVars, jobs, metrics, day, ticked, unchecked, arrived, changes>>

Never == -1
VulnStatuses == {"OPEN", "REMEDIATED", "SUPPRESSED", "FALSE_POSITIVE"}
NoConfig == [s \in SlaSeverities |-> Never]
NoTicket == [members |-> {}, due |-> Never, lagging |-> FALSE]
Unreported == [there |-> FALSE, status |-> "OPEN", severity |-> "LOW", detected |-> Never, due |-> Never,
               breached |-> FALSE, remediated |-> Never]
Jobs == {"tick", "recalculation"}
NoJob == [stage |-> "idle", config |-> NoConfig, writes |-> <<>>, at |-> Never, sheet |-> NoTicket]
NoMetrics == [stage |-> "none", open |-> {}, breached |-> {}, at |-> Never, touched |-> {}]

\* IN_PROGRESS is handled as OPEN everywhere.
IsOpen(v) == v.there /\ v.status = "OPEN"
EarliestDue(rows, members) ==
    LET dues == {rows[f].due : f \in members} \ {Never} IN IF dues = {} THEN Never ELSE Min(dues)

SlaTypeOK ==
    /\ \A f \in Vulns :
         /\ vulns[f].there \in BOOLEAN /\ vulns[f].status \in VulnStatuses /\ vulns[f].severity \in SlaSeverities
         /\ vulns[f].detected \in {Never} \cup 0 .. day /\ vulns[f].remediated \in {Never} \cup 0 .. day
         /\ vulns[f].there = (vulns[f].detected # Never)
         /\ vulns[f].breached => vulns[f].due \in Nat
    /\ sla \in SlaConfigs /\ ticket.members \subseteq Vulns /\ maker.members \subseteq Vulns
    /\ \A j \in Jobs : jobs[j].config \in SlaConfigs \cup {NoConfig} /\ DOMAIN jobs[j].writes \subseteq Vulns
    /\ metrics.open \cup metrics.breached \cup metrics.touched \subseteq Vulns
    /\ day \in 0 .. MaxDay /\ ticked \in BOOLEAN /\ arrived \subseteq unchecked /\ unchecked \subseteq Vulns

SlaInit ==
    /\ vulns = [f \in Vulns |-> Unreported]
    /\ sla \in SlaConfigs
    /\ ticket = NoTicket /\ maker = NoTicket
    /\ jobs = [j \in Jobs |-> NoJob] /\ metrics = NoMetrics
    /\ day = 0 /\ ticked = FALSE /\ unchecked = {} /\ arrived = {} /\ changes = 0

Counted == changes < MaxChanges /\ changes' = changes + 1

\* Rows are written by whoever no other transaction keeps waiting.
RowLocked(f) == \E j \in Jobs : f \in DOMAIN jobs[j].writes
\* A reading of the metrics is overtaken in the rows that change.
Overtakes ==
    metrics' = IF metrics = NoMetrics THEN NoMetrics
               ELSE [metrics EXCEPT !.touched = @ \cup {f \in Vulns : vulns'[f] # vulns[f]}]
\* Findings the scheduler's round in progress may have passed.
Arrive(new) == unchecked' = unchecked \cup new /\ arrived' = arrived \cup new
\* A ticket's due date is behind when a member's is moved.
Behind(t) == IF \E f \in t.members : vulns'[f].due # vulns[f].due THEN [t EXCEPT !.lagging = TRUE] ELSE t

-----------------------------------------------------------------------------
(* Scanners and users *)

\* _upsert_vulnerability: a new finding is open and has no due date yet, a
\* known one keeps its status and its due date.
Reported(f, severity) ==
    /\ Counted /\ ~RowLocked(f)
    /\ vulns' = [vulns EXCEPT ![f] =
         IF vulns[f].there THEN [@ EXCEPT !.severity = severity]
         ELSE [Unreported EXCEPT !.there = TRUE, !.severity = severity, !.detected = day]]
    /\ Overtakes /\ Arrive(IF vulns[f].due = Never THEN {f} ELSE {})
    /\ UNCHANGED <<sla, ticketVars, jobs, day, ticked>>

WithStatus(v, status) ==
    [v EXCEPT !.status = status, !.remediated = IF status = "REMEDIATED" THEN day ELSE @]
SetsStatus(f, row) ==
    /\ vulns[f].there /\ ~RowLocked(f)
    /\ vulns' = [vulns EXCEPT ![f] = row]
    /\ Overtakes /\ Arrive(IF ~IsOpen(vulns[f]) /\ IsOpen(row) THEN {f} ELSE {})
    /\ UNCHANGED <<sla, ticketVars, jobs, day, ticked>>
UpdateStatus(f, status) == Counted /\ SetsStatus(f, WithStatus(vulns[f], status))
\* The end of a snooze goes to the answer and the audit log, not to the row.
SnoozeVuln(f) ==
    Counted /\ SetsStatus(f, [vulns[f] EXCEPT !.status = "SUPPRESSED"])

\* update_tenant_settings
SetConfig(config) ==
    /\ Counted /\ config # sla
    /\ sla' = config
    /\ UNCHANGED <<vulns, ticketVars, jobs, metrics, day, ticked, unchecked, arrived>>

\* A ticket's maker copies the earliest due date and commits.
MakesTicket(members) ==
    /\ Counted /\ ticket = NoTicket /\ maker = NoTicket
    /\ \A f \in members : IsOpen(vulns[f])
    /\ maker' = [members |-> members, due |-> EarliestDue(vulns, members), lagging |-> FALSE]
    /\ UNCHANGED <<vulns, sla, ticket, jobs, metrics, day, ticked, unchecked, arrived>>
TicketCommits ==
    /\ maker # NoTicket
    /\ ticket' = maker /\ maker' = NoTicket
    /\ UNCHANGED <<vulns, sla, jobs, metrics, day, ticked, unchecked, arrived, changes>>

-----------------------------------------------------------------------------
(* The scheduler's round and the recalculation, statement by statement *)

\* What a statement of a job reads: what is committed and what the job wrote.
JobSees(j) == [f \in Vulns |-> IF f \in DOMAIN jobs[j].writes THEN jobs[j].writes[f] ELSE vulns[f]]
\* An UPDATE waits for the rows it is to write.
JobWrites(j, rows, job) ==
    /\ \A k \in Jobs \ {j} : DOMAIN rows \cap DOMAIN jobs[k].writes = {}
    /\ jobs' = [jobs EXCEPT ![j] = [job EXCEPT !.writes =
         [f \in DOMAIN @ \cup DOMAIN rows |-> IF f \in DOMAIN rows THEN rows[f] ELSE @[f]]]]
    /\ UNCHANGED <<vulns, sla, ticketVars, metrics, day, ticked, unchecked, arrived, changes>>

Begun == [NoJob EXCEPT !.stage = "CRITICAL", !.config = sla]
TickReads ==
    /\ jobs["tick"] = NoJob
    /\ jobs' = [jobs EXCEPT !["tick"] = Begun]
    /\ arrived' = {}
    /\ UNCHANGED <<vulns, sla, ticketVars, metrics, day, ticked, unchecked, changes>>
\* sla_recalculate
RecalculationReads ==
    /\ Counted /\ jobs["recalculation"] = NoJob
    /\ jobs' = [jobs EXCEPT !["recalculation"] = Begun]
    /\ UNCHANGED <<vulns, sla, ticketVars, metrics, day, ticked, unchecked, arrived>>

\* backfill_sla_due_dates and recalculate_sla_due_dates write a severity at a
\* time; the scheduler only findings that have no due date.
ToStamp(j, severity) ==
    {f \in Vulns : /\ IsOpen(JobSees(j)[f]) /\ JobSees(j)[f].severity = severity
                   /\ j = "tick" => JobSees(j)[f].due = Never}
AfterSeverity(severity) == IF severity = "CRITICAL" THEN "LOW" ELSE "flags"
Stamps(j) ==
    /\ jobs[j].stage \in SlaSeverities
    /\ JobWrites(j, [f \in ToStamp(j, jobs[j].stage) |->
                    [JobSees(j)[f] EXCEPT !.due = JobSees(j)[f].detected + jobs[j].config[jobs[j].stage]]],
              [jobs[j] EXCEPT !.stage = AfterSeverity(@)])
\* check_sla_breaches: the flag of an open finding is set and never cleared.
ToFlag(j) ==
    {f \in Vulns : /\ IsOpen(JobSees(j)[f]) /\ ~JobSees(j)[f].breached
                   /\ JobSees(j)[f].due # Never /\ JobSees(j)[f].due < day}
Flags(j) ==
    /\ jobs[j].stage = "flags"
    /\ JobWrites(j, [f \in ToFlag(j) |-> [JobSees(j)[f] EXCEPT !.breached = TRUE]],
              [jobs[j] EXCEPT !.stage = "cleanup", !.at = day])
ToClear(j) == {f \in Vulns : JobSees(j)[f].there /\ ~IsOpen(JobSees(j)[f]) /\ JobSees(j)[f].breached}
Clears(j) ==
    /\ jobs[j].stage = "cleanup"
    /\ JobWrites(j, [f \in ToClear(j) |-> [JobSees(j)[f] EXCEPT !.breached = FALSE]],
              [jobs[j] EXCEPT !.stage = IF j = "tick" THEN "commit" ELSE "tickets"])
\* A deadlock, an error or a restart: nothing is written.
Fails(j) ==
    /\ jobs[j] # NoJob
    /\ jobs' = [jobs EXCEPT ![j] = NoJob]
    /\ arrived' = IF j = "tick" THEN unchecked ELSE arrived
    /\ UNCHANGED <<vulns, sla, ticketVars, metrics, day, ticked, unchecked, changes>>

\* A round that ran over midnight has not looked for today's late findings.
TickCommits ==
    /\ jobs["tick"].stage = "commit"
    /\ vulns' = JobSees("tick") /\ Overtakes
    /\ jobs' = [jobs EXCEPT !["tick"] = NoJob, !["recalculation"].sheet = Behind(@)]
    /\ ticket' = Behind(ticket) /\ maker' = Behind(maker)
    /\ ticked' = (ticked \/ jobs["tick"].at = day)
    /\ unchecked' = arrived
    /\ UNCHANGED <<sla, day, arrived, changes>>

TicketsLeft ==
    /\ jobs["recalculation"].stage = "tickets"
    /\ jobs' = [jobs EXCEPT !["recalculation"].stage = "commit", !["recalculation"].sheet = ticket]
    /\ UNCHANGED <<vulns, sla, ticketVars, metrics, day, ticked, unchecked, arrived, changes>>
\* recompute_ticket_sla, for the tickets there are.
TicketsFollow ==
    /\ jobs["recalculation"].stage = "tickets"
    /\ jobs' = [jobs EXCEPT !["recalculation"].stage = "commit", !["recalculation"].sheet =
         IF ticket = NoTicket THEN NoTicket
         ELSE [members |-> ticket.members, due |-> EarliestDue(JobSees("recalculation"), ticket.members),
               lagging |-> FALSE]]
    /\ UNCHANGED <<vulns, sla, ticketVars, metrics, day, ticked, unchecked, arrived, changes>>
RecalculationCommits ==
    LET job == jobs["recalculation"] IN
    /\ job.stage = "commit"
    /\ vulns' = JobSees("recalculation") /\ Overtakes
    /\ jobs' = [jobs EXCEPT !["recalculation"] = NoJob]
    /\ ticket' = IF job.sheet = NoTicket THEN Behind(ticket) ELSE job.sheet
    /\ maker' = Behind(maker)
    /\ Arrive(IF job.at = day THEN {} ELSE DOMAIN job.writes)
    /\ UNCHANGED <<sla, day, ticked, changes>>

\* The scheduler goes round every minute.
NextDay ==
    /\ day < MaxDay /\ ticked
    /\ day' = day + 1 /\ ticked' = FALSE
    /\ UNCHANGED <<vulns, sla, ticketVars, jobs, metrics, unchecked, arrived, changes>>

-----------------------------------------------------------------------------
(* get_sla_metrics: three counts, each of what is committed when it is made *)

OpenWithSla == {f \in Vulns : IsOpen(vulns[f]) /\ vulns[f].due # Never}
Breached == {f \in Vulns : IsOpen(vulns[f]) /\ vulns[f].breached}
AtRisk(now) == {f \in OpenWithSla : vulns[f].due > now /\ vulns[f].due <= now + AtRiskDays /\ ~vulns[f].breached}
RemediatedWithin(v) == v.due # Never /\ v.remediated <= v.due

CountsOpenWithSla ==
    /\ Counted /\ metrics = NoMetrics
    /\ metrics' = [NoMetrics EXCEPT !.stage = "open", !.open = OpenWithSla, !.at = day]
    /\ UNCHANGED <<vulns, sla, ticketVars, jobs, day, ticked, unchecked, arrived>>
CountsBreached ==
    /\ metrics.stage = "open"
    /\ metrics' = [metrics EXCEPT !.stage = "breached", !.breached = Breached]
    /\ UNCHANGED <<vulns, sla, ticketVars, jobs, day, ticked, unchecked, arrived, changes>>
ShowsMetrics ==
    /\ metrics.stage = "breached"
    /\ metrics' = NoMetrics
    /\ UNCHANGED <<vulns, sla, ticketVars, jobs, day, ticked, unchecked, arrived, changes>>

SlaNext ==
    \/ \E f \in Vulns, severity \in SlaSeverities : Reported(f, severity)
    \/ \E f \in Vulns, status \in VulnStatuses : UpdateStatus(f, status)
    \/ \E f \in Vulns : SnoozeVuln(f)
    \/ \E config \in SlaConfigs : SetConfig(config)
    \/ \E members \in (SUBSET Vulns) \ {{}} : MakesTicket(members)
    \/ \E j \in Jobs : Stamps(j) \/ Flags(j) \/ Clears(j) \/ Fails(j)
    \/ TicketCommits \/ TickReads \/ TickCommits
    \/ RecalculationReads \/ TicketsFollow \/ RecalculationCommits
    \/ CountsOpenWithSla \/ CountsBreached \/ ShowsMetrics \/ NextDay

-----------------------------------------------------------------------------
(* "Within SLA" is what is left of the open findings when the late ones and   *)
(* those at risk are taken off.  It is short of nothing by two at most for    *)
(* each finding that was written between the counts, and so never negative    *)
(* when none was, though flags outlive a recalculation and findings are       *)
(* closed and opened again.                                                   *)
MetricsAddUp ==
    [][ShowsMetrics =>
         Cardinality(metrics.breached) + Cardinality(AtRisk(metrics.at))
           <= Cardinality(metrics.open) + 2 * Cardinality(metrics.touched)]_slaVars

(* An open finding past its due date is flagged when the scheduler has been   *)
(* round, also one closed or snoozed over its due date and opened after it.   *)
FlaggedInTime ==
    \A f \in Vulns \ unchecked : IsOpen(vulns[f]) =>
        vulns[f].due # Never /\ (vulns[f].breached \/ vulns[f].due >= day - 1)

(* A ticket shows the earliest due date of its findings, through              *)
(* recalculations, unless the date of one of them was moved after the ticket's*)
(* was read.                                                                  *)
TicketDueFollows ==
    ticket # NoTicket /\ ~ticket.lagging => ticket.due = EarliestDue(vulns, ticket.members)

(* Whether a finding was remediated in time is settled when it is: no change  *)
(* of the configuration, recalculation or round of the scheduler moves it.    *)
ComplianceStands ==
    [][\A f \in Vulns :
         vulns[f].status = "REMEDIATED" /\ vulns'[f].status = "REMEDIATED"
         /\ vulns'[f].remediated = vulns[f].remediated
         => RemediatedWithin(vulns'[f]) = RemediatedWithin(vulns[f])]_slaVars

(* Due dates, flags, tickets and metrics follow the configuration, and a     *)
(* settled finding's record stands.                                         *)
DueDatesFollow ==
    /\ [](SlaTypeOK /\ FlaggedInTime /\ TicketDueFollows)
    /\ MetricsAddUp /\ ComplianceStands
=============================================================================
