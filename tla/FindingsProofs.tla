---------------------------- MODULE FindingsProofs ----------------------------
(* Seven modules about the findings, for any findings, reports, requests and  *)
(* bounds.  They share no state, and each has an invariant of its own, which  *)
(* says what its promises rest on.                                            *)
EXTENDS MCFindings, FiniteSetTheorems, FunctionTheorems, WellFoundedInduction, TLAPS

-----------------------------------------------------------------------------
(* Due dates: what a transaction has written and not committed, what the      *)
(* scheduler's round has covered so far, the tickets that copy a due date and *)
(* the reading of the metrics.                                                *)

SlaSpec == SlaInit /\ [][SlaNext]_slaVars

VulnRec ==
    [there : BOOLEAN, status : VulnStatuses, severity : SlaSeverities, detected : Int, due : {Never} \cup Nat,
     breached : BOOLEAN, remediated : Int]
RowSound(v, today) ==
    /\ v \in VulnRec
    /\ v.detected \in {Never} \cup 0 .. today /\ v.remediated \in {Never} \cup 0 .. today
    /\ v.there = (v.detected # Never)
    /\ v.breached => v.due \in Nat
    /\ ~v.there => v.due = Never
\* An open finding the scheduler has seen is flagged, or due yesterday at the
\* earliest, today once the scheduler went round.
FlagSound(f) ==
    f \notin unchecked /\ IsOpen(vulns[f]) =>
        vulns[f].due \in Nat /\ (vulns[f].breached \/ (vulns[f].due >= day - 1 /\ (ticked => vulns[f].due >= day)))
Found == {f \in Vulns : vulns[f].there}
RowsSound ==
    /\ vulns \in [Vulns -> VulnRec] /\ IsFiniteSet(Found)
    /\ sla \in SlaConfigs /\ day \in 0 .. MaxDay /\ ticked \in BOOLEAN
    /\ unchecked \subseteq Vulns /\ arrived \subseteq unchecked
    /\ \A f \in Vulns : RowSound(vulns[f], day) /\ FlagSound(f)

Stages == {"idle", "CRITICAL", "LOW", "flags", "cleanup", "tickets", "commit"}
PastFlags == {"cleanup", "tickets", "commit"}
IsSheet(t) == t = [members |-> t.members, due |-> t.due, lagging |-> t.lagging] /\ t.members \subseteq Vulns
JobShape(job) ==
    /\ job = [stage |-> job.stage, config |-> job.config, writes |-> job.writes, at |-> job.at, sheet |-> job.sheet]
    /\ job.stage \in Stages /\ job.config \in SlaConfigs \cup {NoConfig} /\ job.at \in Int
    /\ DOMAIN job.writes \subseteq Vulns /\ IsSheet(job.sheet)
    /\ job.stage # "idle" => job.config \in SlaConfigs
    /\ job.stage = "idle" => job = NoJob
    /\ job.stage \in PastFlags => job.at \in 0 .. day
    /\ job.stage # "commit" => job.sheet = NoTicket
\* A write differs from the row in the due date and the flag only.
WriteSound(w, v, job) ==
    /\ RowSound(w, day) /\ v.there
    /\ w.there = v.there /\ w.status = v.status /\ w.remediated = v.remediated
    /\ ~IsOpen(v) => w.due = v.due
    /\ IsOpen(v) => w.due \in Nat
    /\ IsOpen(v) /\ job.stage \in PastFlags => w.breached \/ w.due >= job.at
JobSound(j) ==
    /\ JobShape(jobs[j])
    /\ \A f \in DOMAIN jobs[j].writes : WriteSound(jobs[j].writes[f], vulns[f], jobs[j])
\* What the round has done for a finding it does not treat as new.
Covered(w, job) ==
    IsOpen(w) =>
        /\ job.stage = "LOW" /\ w.severity = "CRITICAL" => w.due \in Nat
        /\ job.stage \in {"flags"} \cup PastFlags => w.due \in Nat
        /\ job.stage \in PastFlags => w.breached \/ w.due >= job.at
RoundOf(at) == at >= day - 1 /\ (at < day => ~ticked)
JobsSound ==
    /\ jobs = [j \in Jobs |-> jobs[j]]
    /\ \A j \in Jobs : JobSound(j)
    /\ DOMAIN jobs["tick"].writes \cap DOMAIN jobs["recalculation"].writes = {}
    /\ \A f \in Vulns \ arrived : Covered(JobSees("tick")[f], jobs["tick"])
    /\ jobs["tick"].stage \in PastFlags => RoundOf(jobs["tick"].at)

\* The due date is right on the ticket, on the one that is being made, and on
\* the one a recalculation is to write.
DueKept(t, rows) == ~t.lagging => t.due = EarliestDue(rows, t.members)
TicketsSound ==
    /\ IsSheet(ticket) /\ IsSheet(maker)
    /\ maker # NoTicket => ticket = NoTicket /\ maker.members # {} /\ DueKept(maker, vulns)
    /\ jobs["recalculation"].sheet # NoTicket =>
         /\ ticket # NoTicket /\ jobs["recalculation"].sheet.members = ticket.members
         /\ DueKept(jobs["recalculation"].sheet, JobSees("recalculation"))
    /\ TicketDueFollows

\* What has been counted is so still in the rows that were not written since.
MetricsSound ==
    /\ metrics = [stage |-> metrics.stage, open |-> metrics.open, breached |-> metrics.breached,
                  at |-> metrics.at, touched |-> metrics.touched]
    /\ metrics.stage \in {"none", "open", "breached"} /\ (metrics.stage = "none" => metrics = NoMetrics)
    /\ metrics.open \subseteq Found /\ metrics.breached \subseteq Found /\ metrics.touched \subseteq Found
    /\ \A f \in Vulns \ metrics.touched :
         /\ metrics.stage # "none" => (f \in metrics.open <=> f \in OpenWithSla)
         /\ metrics.stage = "breached" => (f \in metrics.breached <=> f \in Breached)

DuesInv == RowsSound /\ JobsSound /\ TicketsSound /\ MetricsSound

LEMMA EmptyWrites == DOMAIN <<>> = {}
OBVIOUS

LEMMA NoSheet == IsSheet(NoTicket) /\ NoTicket.members = {}
BY DEF IsSheet, NoTicket

LEMMA NoJobSound == JobShape(NoJob) /\ NoJob.stage = "idle" /\ DOMAIN NoJob.writes = {} /\ NoJob.sheet = NoTicket
<1>1. NoJob.stage = "idle" /\ NoJob.writes = <<>> /\ NoJob.sheet = NoTicket /\ NoJob.config = NoConfig /\ NoJob.at = Never
  BY DEF NoJob
<1>2. NoJob = [stage |-> NoJob.stage, config |-> NoJob.config, writes |-> NoJob.writes, at |-> NoJob.at, sheet |-> NoJob.sheet]
  BY DEF NoJob
<1>3. Never \in Int
  BY DEF Never
<1> QED BY <1>1, <1>2, <1>3, EmptyWrites, NoSheet DEF JobShape, Stages, PastFlags

LEMMA DuesStart == SlaInit => DuesInv
<1> SUFFICES ASSUME SlaInit PROVE DuesInv
  OBVIOUS
<1>1. /\ \A f \in Vulns : vulns[f] = Unreported
      /\ sla \in SlaConfigs /\ ticket = NoTicket /\ maker = NoTicket
      /\ jobs = [j \in Jobs |-> NoJob] /\ metrics = NoMetrics
      /\ day = 0 /\ ticked = FALSE /\ unchecked = {} /\ arrived = {} /\ day \in 0 .. MaxDay
  BY SlaBounds DEF SlaInit
<1>2. Unreported \in VulnRec /\ ~Unreported.there /\ RowSound(Unreported, 0) /\ ~IsOpen(Unreported)
  <2>1. /\ ~Unreported.there /\ ~Unreported.breached /\ Unreported.there \in BOOLEAN
        /\ Unreported.detected = Never /\ Unreported.due = Never /\ Unreported.remediated = Never
    BY DEF Unreported
  <2>2. Unreported \in VulnRec
    <3>1. Never \in Int /\ "OPEN" \in VulnStatuses /\ "LOW" \in SlaSeverities
      BY DEF Never, VulnStatuses, SlaSeverities
    <3> QED BY <3>1 DEF Unreported, VulnRec
  <2> QED BY <2>1, <2>2 DEF RowSound, IsOpen
<1>3. RowsSound
  <2>1. vulns \in [Vulns -> VulnRec]
    BY <1>1, <1>2 DEF SlaInit
  <2>2. Found = {}
    BY <1>1, <1>2 DEF Found
  <2>3. \A f \in Vulns : RowSound(vulns[f], day) /\ FlagSound(f)
    BY <1>1, <1>2 DEF FlagSound
  <2> QED BY <1>1, <2>1, <2>2, <2>3, FS_EmptySet DEF RowsSound
<1>4. JobsSound
  <2>1. \A j \in Jobs : jobs[j] = NoJob
    BY <1>1
  <2>2. "tick" \in Jobs /\ "recalculation" \in Jobs
    BY DEF Jobs
  <2>3. \A f \in Vulns : ~IsOpen(JobSees("tick")[f])
    BY <1>1, <1>2, <2>1, <2>2, NoJobSound DEF JobSees
  <2>4. NoJob.stage \notin PastFlags
    BY NoJobSound DEF PastFlags
  <2> QED BY <1>1, <2>1, <2>2, <2>3, <2>4, NoJobSound DEF JobsSound, JobSound, Covered
<1>5. TicketsSound
  <2>1. jobs["recalculation"].sheet = NoTicket
    BY <1>1, NoJobSound DEF Jobs
  <2> QED BY <1>1, <2>1, NoSheet DEF TicketsSound, TicketDueFollows
<1>6. MetricsSound
  BY <1>1 DEF MetricsSound, NoMetrics
<1> QED BY <1>3, <1>4, <1>5, <1>6 DEF DuesInv

\* What a job sees of a row: it may have moved its date and its flag.
LEMMA SightOf ==
    ASSUME DuesInv, NEW j \in Jobs, NEW f \in Vulns
    PROVE  /\ RowSound(JobSees(j)[f], day) /\ JobSees(j)[f].there = vulns[f].there
           /\ JobSees(j)[f].status = vulns[f].status /\ JobSees(j)[f].remediated = vulns[f].remediated
           /\ IsOpen(JobSees(j)[f]) <=> IsOpen(vulns[f])
           /\ ~IsOpen(vulns[f]) => JobSees(j)[f].due = vulns[f].due
           /\ f \in DOMAIN jobs[j].writes =>
                JobSees(j)[f] = jobs[j].writes[f] /\ WriteSound(JobSees(j)[f], vulns[f], jobs[j])
           /\ f \notin DOMAIN jobs[j].writes => JobSees(j)[f] = vulns[f]
<1>1. JobSees(j)[f] = IF f \in DOMAIN jobs[j].writes THEN jobs[j].writes[f] ELSE vulns[f]
  BY DEF JobSees
<1>2. RowSound(vulns[f], day) /\ JobSound(j)
  BY DEF DuesInv, RowsSound, JobsSound
<1>3. CASE f \in DOMAIN jobs[j].writes
  <2>1. JobSees(j)[f] = jobs[j].writes[f] /\ WriteSound(JobSees(j)[f], vulns[f], jobs[j])
    BY <1>1, <1>2, <1>3 DEF JobSound
  <2> QED BY <1>3, <2>1 DEF WriteSound, IsOpen
<1>4. CASE f \notin DOMAIN jobs[j].writes
  BY <1>1, <1>2, <1>4
<1> QED BY <1>3, <1>4

-----------------------------------------------------------------------------
(* Rows that change, under tickets, jobs and a reading of the metrics *)

\* The earliest due date of findings whose due dates stay.
LEMMA EarliestStays ==
    ASSUME NEW members \in SUBSET Vulns, NEW old, NEW new, \A f \in members : new[f].due = old[f].due
    PROVE  EarliestDue(new, members) = EarliestDue(old, members)
<1>1. {new[f].due : f \in members} = {old[f].due : f \in members}
  OBVIOUS
<1> QED BY <1>1 DEF EarliestDue

LEMMA BehindKeeps ==
    ASSUME NEW t, IsSheet(t)
    PROVE  /\ IsSheet(Behind(t)) /\ Behind(t).members = t.members
           /\ t = NoTicket => Behind(t) = NoTicket
           /\ ~Behind(t).lagging => Behind(t) = t /\ \A f \in t.members : vulns'[f].due = vulns[f].due
           /\ DueKept(t, vulns) => DueKept(Behind(t), vulns')
<1>1. CASE \E f \in t.members : vulns'[f].due # vulns[f].due
  <2>1. Behind(t) = [members |-> t.members, due |-> t.due, lagging |-> TRUE]
    BY <1>1 DEF Behind, IsSheet
  <2>2. t # NoTicket
    BY <1>1, NoSheet
  <2> QED BY <2>1, <2>2 DEF IsSheet, DueKept
<1>2. CASE \A f \in t.members : vulns'[f].due = vulns[f].due
  <2>1. Behind(t) = t
    BY <1>2 DEF Behind
  <2>2. EarliestDue(vulns', t.members) = EarliestDue(vulns, t.members)
    BY <1>2, EarliestStays DEF IsSheet
  <2> QED BY <1>2, <2>1, <2>2 DEF DueKept
<1> QED BY <1>1, <1>2

\* Rows are found for good; whatever changes counts as touched.
LEMMA MetricsFollow ==
    ASSUME MetricsSound, (metrics' = metrics /\ vulns' = vulns) \/ Overtakes,
           \A f \in Vulns : /\ vulns[f].there => vulns'[f].there
                            /\ vulns'[f] # vulns[f] => vulns'[f].there
    PROVE  MetricsSound'
<1>1. CASE metrics' = metrics /\ vulns' = vulns
  BY <1>1 DEF MetricsSound, Found, OpenWithSla, Breached
<1>2. CASE Overtakes
  <2> DEFINE changed == {f \in Vulns : vulns'[f] # vulns[f]}
  <2>1. Found \subseteq Found' /\ changed \subseteq Found'
    BY DEF Found
  <2>2. CASE metrics = NoMetrics
    <3>1. metrics' = NoMetrics /\ NoMetrics.stage = "none" /\ NoMetrics.open = {} /\ NoMetrics.breached = {}
          /\ NoMetrics.touched = {}
      BY <1>2, <2>2 DEF Overtakes, NoMetrics
    <3>2. NoMetrics = [stage |-> NoMetrics.stage, open |-> NoMetrics.open, breached |-> NoMetrics.breached,
                       at |-> NoMetrics.at, touched |-> NoMetrics.touched]
      BY DEF NoMetrics
    <3> QED BY <3>1, <3>2 DEF MetricsSound
  <2>3. CASE metrics # NoMetrics
    <3>1. metrics' = [metrics EXCEPT !.touched = metrics.touched \cup changed]
      BY <1>2, <2>3 DEF Overtakes
    <3> HIDE DEF changed
    <3>2. /\ metrics' = [stage |-> metrics.stage, open |-> metrics.open, breached |-> metrics.breached,
                         at |-> metrics.at, touched |-> metrics.touched \cup changed]
          /\ metrics.stage # "none"
      BY <2>3, <3>1 DEF MetricsSound
    <3>3. ASSUME NEW f \in Vulns, f \notin metrics.touched \cup changed
          PROVE  (f \in OpenWithSla' <=> f \in OpenWithSla) /\ (f \in Breached' <=> f \in Breached)
      BY <3>3 DEF changed, OpenWithSla, Breached
    <3> QED BY <2>1, <3>2, <3>3 DEF MetricsSound
  <2> QED BY <2>2, <2>3
<1> QED BY <1>1, <1>2

\* One row changes: as a scanner or a user writes it.
LEMMA RowChanges ==
    ASSUME DuesInv, NEW f \in Vulns, NEW row, NEW new \in {{}, {f}},
           RowSound(row, day), row.there, row.due = vulns[f].due, ~RowLocked(f),
           vulns' = [vulns EXCEPT ![f] = row], Overtakes, Arrive(new),
           f \notin new /\ IsOpen(row) =>
             /\ IsOpen(vulns[f]) /\ row.breached = vulns[f].breached
             /\ row.severity = vulns[f].severity \/ row.due \in Nat,
           UNCHANGED <<sla, ticketVars, jobs, day, ticked>>
    PROVE  DuesInv'
<1>1. /\ vulns' \in [Vulns -> VulnRec] /\ vulns'[f] = row
      /\ \A g \in Vulns : g # f => vulns'[g] = vulns[g]
      /\ \A g \in Vulns : vulns'[g].due = vulns[g].due
      /\ unchecked' = unchecked \cup new /\ arrived' = arrived \cup new
      /\ ticket' = ticket /\ maker' = maker
  BY DEF DuesInv, RowsSound, RowSound, Arrive, ticketVars
<1>2. RowsSound'
  <2>1. IsFiniteSet(Found')
    <3>1. Found' \in SUBSET (Found \cup {f})
      BY <1>1 DEF Found
    <3>2. IsFiniteSet(Found \cup {f})
      BY FS_AddElement DEF DuesInv, RowsSound
    <3> QED BY <3>1, <3>2, FS_Subset
  <2>2. ASSUME NEW g \in Vulns PROVE RowSound(vulns[g], day)' /\ FlagSound(g)'
    <3>1. RowSound(vulns[g], day)'
      BY <1>1 DEF DuesInv, RowsSound
    <3>2. CASE g # f
      BY <1>1, <3>1, <3>2 DEF DuesInv, RowsSound, FlagSound
    <3>3. CASE g = f
      BY <1>1, <3>1, <3>3 DEF DuesInv, RowsSound, FlagSound
    <3> QED BY <3>1, <3>2, <3>3
  <2> QED BY <1>1, <2>1, <2>2 DEF DuesInv, RowsSound
<1>3. f \notin DOMAIN jobs["tick"].writes /\ f \notin DOMAIN jobs["recalculation"].writes
  BY DEF RowLocked, Jobs
<1>4. \A j \in Jobs : f \notin DOMAIN jobs[j].writes
  BY DEF RowLocked
<1>5. JobsSound'
  <2>1. ASSUME NEW j \in Jobs PROVE JobSound(j)'
    <3>1. JobShape(jobs[j])'
      BY DEF DuesInv, JobsSound, JobSound, JobShape
    <3>2. ASSUME NEW g \in DOMAIN jobs[j].writes PROVE WriteSound(jobs[j].writes[g], vulns[g], jobs[j])'
      <4>1. g # f /\ g \in Vulns /\ WriteSound(jobs[j].writes[g], vulns[g], jobs[j])
        BY <1>4 DEF DuesInv, JobsSound, JobSound, JobShape
      <4>2. vulns'[g] = vulns[g]
        BY <1>1, <4>1
      <4> QED BY <4>1, <4>2 DEF WriteSound
    <3> QED BY <3>1, <3>2 DEF JobSound
  <2>2. ASSUME NEW g \in Vulns \ arrived' PROVE Covered(JobSees("tick")[g], jobs["tick"])'
    <3>1. Covered(JobSees("tick")[g], jobs["tick"])
      BY <1>1, <2>2 DEF DuesInv, JobsSound
    <3>2. CASE g # f
      <4>1. JobSees("tick")'[g] = JobSees("tick")[g]
        BY <1>1, <3>2 DEF JobSees
      <4> QED BY <3>1, <4>1 DEF Covered
    <3>3. CASE g = f
      <4>1. JobSees("tick")'[g] = row /\ JobSees("tick")[g] = vulns[f]
        BY <1>1, <1>3, <3>3 DEF JobSees
      <4> QED BY <1>1, <2>2, <3>1, <3>3, <4>1 DEF Covered
    <3> QED BY <3>2, <3>3
  <2> QED BY <2>1, <2>2 DEF DuesInv, JobsSound, RoundOf
<1>6. TicketsSound'
  <2>1. ASSUME NEW t, IsSheet(t) PROVE DueKept(t, vulns) => DueKept(t, vulns')
    BY <1>1, <2>1, EarliestStays DEF IsSheet, DueKept
  <2>2. ASSUME NEW t, IsSheet(t) PROVE DueKept(t, JobSees("recalculation")) => DueKept(t, JobSees("recalculation")')
    <3>1. \A g \in Vulns : JobSees("recalculation")'[g].due = JobSees("recalculation")[g].due
      BY <1>1 DEF JobSees
    <3> QED BY <2>2, <3>1, EarliestStays DEF IsSheet, DueKept
  <2>3. IsSheet(jobs["recalculation"].sheet)
    BY DEF DuesInv, JobsSound, JobSound, JobShape, Jobs
  <2>4. TicketDueFollows'
    <3>1. ticket.members \in SUBSET Vulns /\ \A g \in ticket.members : vulns'[g].due = vulns[g].due
      BY <1>1 DEF DuesInv, TicketsSound, IsSheet
    <3>2. EarliestDue(vulns', ticket.members) = EarliestDue(vulns, ticket.members)
      BY <3>1, EarliestStays
    <3> QED BY <1>1, <3>2 DEF DuesInv, TicketsSound, TicketDueFollows
  <2> QED BY <1>1, <2>1, <2>2, <2>3, <2>4 DEF DuesInv, TicketsSound, IsSheet
<1>7. MetricsSound'
  <2>1. \A g \in Vulns : (vulns[g].there => vulns'[g].there) /\ (vulns'[g] # vulns[g] => vulns'[g].there)
    BY <1>1
  <2> QED BY <2>1, MetricsFollow DEF DuesInv
<1> QED BY <1>2, <1>5, <1>6, <1>7 DEF DuesInv

LEMMA ReportKeepsDues ==
    ASSUME DuesInv, NEW f \in Vulns, NEW severity \in SlaSeverities, Reported(f, severity)
    PROVE  DuesInv'
<1> DEFINE row == IF vulns[f].there THEN [vulns[f] EXCEPT !.severity = severity]
                  ELSE [Unreported EXCEPT !.there = TRUE, !.severity = severity, !.detected = day]
           new == IF vulns[f].due = Never THEN {f} ELSE {}
<1>1. /\ vulns' = [vulns EXCEPT ![f] = row] /\ ~RowLocked(f) /\ Overtakes /\ Arrive(new)
      /\ UNCHANGED <<sla, ticketVars, jobs, day, ticked>>
  BY DEF Reported, DuesInv, RowsSound
<1>2. vulns[f] \in VulnRec /\ RowSound(vulns[f], day) /\ day \in Nat
  BY SlaBounds DEF DuesInv, RowsSound
<1>3. new \in {{}, {f}} /\ (f \notin new <=> vulns[f].due # Never)
  OBVIOUS
<1>4. CASE vulns[f].there
  <2>1. /\ row \in VulnRec /\ row.there = vulns[f].there /\ row.detected = vulns[f].detected /\ row.due = vulns[f].due
        /\ row.remediated = vulns[f].remediated /\ row.breached = vulns[f].breached /\ row.status = vulns[f].status
    BY <1>2, <1>4 DEF VulnRec
  <2>2. RowSound(row, day) /\ (IsOpen(row) => IsOpen(vulns[f]))
    BY <1>2, <2>1 DEF RowSound, IsOpen
  <2>3. row.due # Never => row.due \in Nat
    BY <2>1 DEF VulnRec
  <2> HIDE DEF row, new
  <2> QED BY <1>1, <1>3, <1>4, <2>1, <2>2, <2>3, RowChanges
<1>5. CASE ~vulns[f].there
  <2>1. row = [there |-> TRUE, status |-> "OPEN", severity |-> severity, detected |-> day, due |-> Never,
               breached |-> FALSE, remediated |-> Never]
    BY <1>5 DEF Unreported
  <2>2. row \in VulnRec
    <3>1. Never \in Int /\ day \in Int /\ "OPEN" \in VulnStatuses
      BY <1>2 DEF Never, VulnStatuses
    <3> HIDE DEF row
    <3> QED BY <2>1, <3>1 DEF VulnRec
  <2>3. row.there = TRUE /\ row.detected = day /\ row.due = Never /\ row.remediated = Never /\ row.breached = FALSE
    BY <2>1
  <2>4. day # Never /\ day \in 0 .. day
    BY <1>2 DEF Never
  <2> HIDE DEF row, new
  <2>5. RowSound(row, day) /\ vulns[f].due = Never
    BY <1>2, <1>5, <2>2, <2>3, <2>4 DEF RowSound
  <2> QED BY <1>1, <1>3, <2>3, <2>5, RowChanges
<1> QED BY <1>4, <1>5

LEMMA StatusKeepsDues ==
    ASSUME DuesInv, NEW f \in Vulns, NEW row \in VulnRec, SetsStatus(f, row),
           row.there = vulns[f].there, row.detected = vulns[f].detected, row.due = vulns[f].due,
           row.remediated \in {vulns[f].remediated, day}, row.breached = vulns[f].breached,
           row.severity = vulns[f].severity
    PROVE  DuesInv'
<1> DEFINE new == IF ~IsOpen(vulns[f]) /\ IsOpen(row) THEN {f} ELSE {}
<1>1. vulns[f] \in VulnRec /\ RowSound(vulns[f], day) /\ day \in Nat
  BY SlaBounds DEF DuesInv, RowsSound
<1>3. RowSound(row, day)
  BY <1>1 DEF RowSound
<1>4. /\ vulns' = [vulns EXCEPT ![f] = row] /\ vulns[f].there /\ ~RowLocked(f) /\ Overtakes /\ Arrive(new)
      /\ UNCHANGED <<sla, ticketVars, jobs, day, ticked>>
  BY DEF SetsStatus
<1>5. new \in {{}, {f}} /\ (f \notin new /\ IsOpen(row) => IsOpen(vulns[f]))
  OBVIOUS
<1> HIDE DEF new
<1>6. row.there
  BY <1>4
<1> QED BY <1>3, <1>4, <1>5, <1>6, RowChanges

LEMMA UpdateKeepsDues ==
    ASSUME DuesInv, NEW f \in Vulns, NEW s \in VulnStatuses, UpdateStatus(f, s)
    PROVE  DuesInv'
<1> DEFINE row == WithStatus(vulns[f], s)
<1>1. vulns[f] \in VulnRec /\ day \in Int
  BY SlaBounds DEF DuesInv, RowsSound
<1>2. /\ row \in VulnRec /\ row.there = vulns[f].there /\ row.detected = vulns[f].detected /\ row.due = vulns[f].due
      /\ row.remediated \in {vulns[f].remediated, day} /\ row.breached = vulns[f].breached
      /\ row.severity = vulns[f].severity
  BY <1>1 DEF VulnRec, WithStatus
<1>3. SetsStatus(f, row)
  BY DEF UpdateStatus
<1> HIDE DEF row
<1> QED BY <1>2, <1>3, StatusKeepsDues

LEMMA SnoozeKeepsDues ==
    ASSUME DuesInv, NEW f \in Vulns, SnoozeVuln(f)
    PROVE  DuesInv'
<1>1. vulns[f] \in VulnRec
  BY DEF DuesInv, RowsSound
<1> DEFINE row == [vulns[f] EXCEPT !.status = "SUPPRESSED"]
<1>2. /\ row \in VulnRec /\ row.there = vulns[f].there /\ row.detected = vulns[f].detected /\ row.due = vulns[f].due
      /\ row.remediated = vulns[f].remediated /\ row.breached = vulns[f].breached /\ row.severity = vulns[f].severity
  BY <1>1 DEF VulnRec, VulnStatuses
<1>3. SetsStatus(f, row)
  BY DEF SnoozeVuln
<1> HIDE DEF row
<1> QED BY <1>2, <1>3, StatusKeepsDues

-----------------------------------------------------------------------------
(* What leaves the rows as they are *)

LEMMA FindingsIdle ==
    ASSUME DuesInv, UNCHANGED <<vulns, day, ticked, unchecked>>, sla' \in SlaConfigs, arrived' \subseteq unchecked'
    PROVE  RowsSound'
BY DEF DuesInv, RowsSound, Found, FlagSound

LEMMA JobsIdle ==
    ASSUME DuesInv, UNCHANGED <<vulns, jobs, day, ticked>>, arrived' = arrived
    PROVE  JobsSound'
<1>1. JobSees("tick")' = JobSees("tick")
  BY DEF JobSees
<1>2. ASSUME NEW j \in Jobs PROVE JobSound(j)'
  <2>1. JobSound(j)
    BY DEF DuesInv, JobsSound
  <2>2. JobShape(jobs[j])'
    BY <2>1 DEF JobSound, JobShape
  <2>3. ASSUME NEW f \in DOMAIN jobs[j].writes PROVE WriteSound(jobs[j].writes[f], vulns[f], jobs[j])'
    BY <2>1, <2>3 DEF JobSound, WriteSound
  <2> QED BY <2>2, <2>3 DEF JobSound
<1>3. ASSUME NEW f \in Vulns \ arrived' PROVE Covered(JobSees("tick")[f], jobs["tick"])'
  BY <1>1, <1>3 DEF DuesInv, JobsSound, Covered
<1> QED BY <1>2, <1>3 DEF DuesInv, JobsSound, RoundOf

LEMMA MetricsIdle == ASSUME DuesInv, UNCHANGED <<vulns, metrics>> PROVE MetricsSound'
<1>1. UNCHANGED vulns /\ metrics' = metrics
  OBVIOUS
<1>2. \A f \in Vulns : (vulns[f].there => vulns'[f].there) /\ (vulns'[f] # vulns[f] => vulns'[f].there)
  BY <1>1
<1> QED BY <1>1, <1>2, MetricsFollow DEF DuesInv

LEMMA TicketsIdle ==
    ASSUME DuesInv, UNCHANGED <<vulns, ticketVars>>, jobs'["recalculation"] = jobs["recalculation"]
    PROVE  TicketsSound'
<1>1. JobSees("recalculation")' = JobSees("recalculation")
  BY DEF JobSees
<1> QED BY <1>1 DEF DuesInv, TicketsSound, ticketVars, IsSheet, DueKept, TicketDueFollows

LEMMA ConfigKeepsDues ==
    ASSUME DuesInv, NEW config \in SlaConfigs, SetConfig(config) PROVE DuesInv'
<1>1. /\ UNCHANGED <<vulns, ticketVars, jobs, metrics, day, ticked, unchecked, arrived>> /\ sla' \in SlaConfigs
  BY DEF SetConfig
<1>2. arrived' \subseteq unchecked'
  BY <1>1 DEF DuesInv, RowsSound
<1> QED BY <1>1, <1>2, FindingsIdle, JobsIdle, TicketsIdle, MetricsIdle DEF DuesInv

LEMMA MakerKeepsDues ==
    ASSUME DuesInv, TicketCommits \/ \E members \in (SUBSET Vulns) \ {{}} : MakesTicket(members)
    PROVE  DuesInv'
<1>1. UNCHANGED <<vulns, sla, jobs, metrics, day, ticked, unchecked, arrived>>
  BY DEF TicketCommits, MakesTicket
<1>2. RowsSound' /\ JobsSound' /\ MetricsSound'
  BY <1>1, FindingsIdle, JobsIdle, MetricsIdle DEF DuesInv, RowsSound
<1>3. JobSees("recalculation")' = JobSees("recalculation") /\ jobs' = jobs
  BY <1>1 DEF JobSees
<1>4. CASE TicketCommits
  <2>1. ticket' = maker /\ maker # NoTicket /\ maker' = NoTicket
    BY <1>4 DEF TicketCommits
  <2>2. ticket = NoTicket /\ maker.members # {} /\ DueKept(maker, vulns) /\ jobs["recalculation"].sheet = NoTicket
    BY <2>1 DEF DuesInv, TicketsSound
  <2>3. TicketsSound'
    BY <1>1, <1>3, <2>1, <2>2, NoSheet DEF DuesInv, TicketsSound, DueKept, TicketDueFollows, IsSheet
  <2> QED BY <1>2, <2>3 DEF DuesInv
<1>5. ASSUME NEW members \in (SUBSET Vulns) \ {{}}, MakesTicket(members) PROVE DuesInv'
  <2> DEFINE made == [members |-> members, due |-> EarliestDue(vulns, members), lagging |-> FALSE]
  <2>1. ticket' = ticket /\ ticket = NoTicket /\ maker' = made
    BY <1>5 DEF MakesTicket
  <2>2. made.members = members /\ DueKept(made, vulns) /\ IsSheet(made)
    BY DEF DueKept, IsSheet
  <2> HIDE DEF made
  <2>3. TicketsSound'
    BY <1>1, <1>3, <2>1, <2>2 DEF DuesInv, TicketsSound, DueKept, TicketDueFollows, IsSheet
  <2> QED BY <1>2, <2>3 DEF DuesInv
<1> QED BY <1>4, <1>5

LEMMA CountingKeepsDues ==
    ASSUME DuesInv, CountsOpenWithSla \/ CountsBreached \/ ShowsMetrics PROVE DuesInv'
<1>1. UNCHANGED <<vulns, sla, ticketVars, jobs, day, ticked, unchecked, arrived>>
  BY DEF CountsOpenWithSla, CountsBreached, ShowsMetrics
<1>2. RowsSound' /\ JobsSound' /\ TicketsSound'
  BY <1>1, FindingsIdle, JobsIdle, TicketsIdle DEF DuesInv, RowsSound
<1>3. /\ NoMetrics = [stage |-> NoMetrics.stage, open |-> NoMetrics.open, breached |-> NoMetrics.breached,
                      at |-> NoMetrics.at, touched |-> NoMetrics.touched]
      /\ NoMetrics.stage = "none" /\ NoMetrics.open = {} /\ NoMetrics.breached = {} /\ NoMetrics.touched = {}
  BY DEF NoMetrics
<1>4. /\ OpenWithSla' = OpenWithSla /\ Breached' = Breached /\ Found' = Found
      /\ OpenWithSla \subseteq Found /\ Breached \subseteq Found
  BY <1>1 DEF OpenWithSla, Breached, Found, IsOpen
<1>5. MetricsSound'
  <2>1. CASE CountsOpenWithSla
    <3>1. metrics' = [stage |-> "open", open |-> OpenWithSla, breached |-> {}, at |-> day, touched |-> {}]
      BY <2>1 DEF CountsOpenWithSla, NoMetrics
    <3> QED BY <1>4, <3>1 DEF MetricsSound
  <2>2. CASE CountsBreached
    <3>1. metrics' = [stage |-> "breached", open |-> metrics.open, breached |-> Breached, at |-> metrics.at,
                      touched |-> metrics.touched]
      BY <2>2 DEF CountsBreached, DuesInv, MetricsSound
    <3>2. metrics.stage = "open"
      BY <2>2 DEF CountsBreached
    <3> QED BY <1>4, <3>1, <3>2 DEF DuesInv, MetricsSound
  <2>3. CASE ShowsMetrics
    BY <1>3, <2>3 DEF ShowsMetrics, MetricsSound
  <2> QED BY <2>1, <2>2, <2>3
<1> QED BY <1>2, <1>5 DEF DuesInv

LEMMA DayKeepsDues ==
    ASSUME DuesInv, NextDay PROVE DuesInv'
<1>1. /\ day' = day + 1 /\ ticked = TRUE /\ ticked' = FALSE /\ day < MaxDay /\ day \in 0 .. MaxDay /\ MaxDay \in Nat
      /\ UNCHANGED <<vulns, sla, ticketVars, jobs, metrics, unchecked, arrived>>
  BY SlaBounds DEF DuesInv, RowsSound, NextDay
<1>2. day \in Nat /\ day' \in 0 .. MaxDay /\ day' - 1 = day /\ day <= day'
  BY <1>1
<1>3. ASSUME NEW v, RowSound(v, day) PROVE RowSound(v, day')
  <2>1. \A x \in {Never} \cup 0 .. day : x \in {Never} \cup 0 .. day'
    BY <1>2
  <2> QED BY <1>3, <2>1 DEF RowSound
<1>4. RowsSound'
  <2>1. ASSUME NEW f \in Vulns PROVE RowSound(vulns[f], day)' /\ FlagSound(f)'
    <3>1. RowSound(vulns[f], day) /\ FlagSound(f)
      BY DEF DuesInv, RowsSound
    <3>2. RowSound(vulns[f], day)'
      BY <1>1, <1>3, <3>1
    <3>3. FlagSound(f)'
      BY <1>1, <1>2, <3>1 DEF FlagSound
    <3> QED BY <3>2, <3>3
  <2> QED BY <1>1, <1>2, <2>1 DEF DuesInv, RowsSound, Found
<1>5. JobsSound'
  <2>1. ASSUME NEW j \in Jobs PROVE JobSound(j)'
    <3>1. JobSound(j)
      BY DEF DuesInv, JobsSound
    <3>2. JobShape(jobs[j])'
      <4>1. \A x \in 0 .. day : x \in 0 .. day'
        BY <1>2
      <4> QED BY <1>1, <3>1, <4>1 DEF JobSound, JobShape
    <3>3. ASSUME NEW f \in DOMAIN jobs[j].writes PROVE WriteSound(jobs[j].writes[f], vulns[f], jobs[j])'
      <4>1. WriteSound(jobs[j].writes[f], vulns[f], jobs[j])
        BY <3>1, <3>3 DEF JobSound
      <4> QED BY <1>1, <1>3, <4>1 DEF WriteSound
    <3> QED BY <1>1, <3>2, <3>3 DEF JobSound
  <2>2. ASSUME NEW f \in Vulns \ arrived' PROVE Covered(JobSees("tick")[f], jobs["tick"])'
    <3>1. JobSees("tick")' = JobSees("tick") /\ Covered(JobSees("tick")[f], jobs["tick"])
      BY <1>1, <2>2 DEF DuesInv, JobsSound, JobSees
    <3> QED BY <1>1, <3>1 DEF Covered
  <2>3. jobs["tick"].stage \in PastFlags => RoundOf(jobs["tick"].at)'
    <3>1. JobShape(jobs["tick"])
      BY DEF DuesInv, JobsSound, JobSound, Jobs
    <3> QED BY <1>1, <1>2, <3>1 DEF DuesInv, JobsSound, RoundOf, JobShape
  <2> QED BY <1>1, <2>1, <2>2, <2>3 DEF DuesInv, JobsSound
<1> QED BY <1>1, <1>4, <1>5, TicketsIdle, MetricsIdle DEF DuesInv

-----------------------------------------------------------------------------
(* The statements of the jobs *)

\* A statement's writes, which make of each row what view says.
LEMMA WritesLand ==
    ASSUME DuesInv, NEW j \in Jobs, NEW rows, NEW view, NEW job, NEW stage \in Stages \ {"idle"}, NEW at \in Int,
           job = [stage |-> stage, config |-> jobs[j].config, writes |-> jobs[j].writes, at |-> at, sheet |-> NoTicket],
           jobs[j].stage \notin {"idle", "commit"},
           JobWrites(j, rows, job), DOMAIN rows \subseteq Vulns, stage \in PastFlags => at \in 0 .. day,
           \A f \in Vulns : view[f] = IF f \in DOMAIN rows THEN rows[f] ELSE JobSees(j)[f],
           \A f \in DOMAIN rows \cup DOMAIN jobs[j].writes : WriteSound(view[f], vulns[f], job),
           j = "tick" => /\ \A f \in Vulns \ arrived : Covered(view[f], job)
                         /\ stage \in PastFlags => RoundOf(at)
    PROVE  DuesInv'
<1> DEFINE all_ == [f \in DOMAIN jobs[j].writes \cup DOMAIN rows |-> IF f \in DOMAIN rows THEN rows[f] ELSE jobs[j].writes[f]]
<1>1. JobShape(jobs[j]) /\ jobs[j].sheet = NoTicket /\ jobs[j].config \in SlaConfigs /\ DOMAIN jobs[j].writes \subseteq Vulns
  BY DEF DuesInv, JobsSound, JobSound, JobShape
<1>2. job = [stage |-> stage, config |-> jobs[j].config, writes |-> jobs[j].writes, at |-> at, sheet |-> NoTicket]
  OBVIOUS
<1>3. /\ jobs' = [jobs EXCEPT ![j] = [job EXCEPT !.writes = all_]]
      /\ UNCHANGED <<vulns, sla, ticketVars, metrics, day, ticked, unchecked, arrived>>
      /\ \A k \in Jobs \ {j} : DOMAIN rows \cap DOMAIN jobs[k].writes = {}
  BY <1>2 DEF JobWrites
<1>4. DOMAIN all_ = DOMAIN jobs[j].writes \cup DOMAIN rows /\ DOMAIN all_ \subseteq Vulns
  BY <1>1
<1>5. ASSUME NEW f \in DOMAIN all_ PROVE all_[f] = view[f] /\ f \in Vulns
  <2>1. f \in Vulns /\ all_[f] = IF f \in DOMAIN rows THEN rows[f] ELSE jobs[j].writes[f]
    BY <1>4, <1>5
  <2> HIDE DEF all_
  <2>2. f \notin DOMAIN rows => JobSees(j)[f] = jobs[j].writes[f]
    BY <1>4, <1>5, <2>1 DEF JobSees
  <2> QED BY <2>1, <2>2
<1> HIDE DEF all_
<1>6. /\ jobs'[j] = [stage |-> stage, config |-> jobs[j].config, writes |-> all_, at |-> at, sheet |-> NoTicket]
      /\ jobs' = [k \in Jobs |-> jobs'[k]] /\ \A k \in Jobs : k # j => jobs'[k] = jobs[k]
  <2>1. jobs = [k \in Jobs |-> jobs[k]]
    BY DEF DuesInv, JobsSound
  <2> QED BY <1>2, <1>3, <2>1
<1>7. \A f \in Vulns : JobSees(j)'[f] = view[f]
  <2> SUFFICES ASSUME NEW f \in Vulns PROVE JobSees(j)'[f] = view[f]
    OBVIOUS
  <2>1. JobSees(j)'[f] = IF f \in DOMAIN all_ THEN all_[f] ELSE vulns[f]
    BY <1>3, <1>6 DEF JobSees
  <2>2. f \notin DOMAIN all_ => JobSees(j)[f] = vulns[f] /\ view[f] = JobSees(j)[f]
    BY <1>4 DEF JobSees
  <2> QED BY <1>5, <2>1, <2>2
<1>8. JobsSound'
  <2>1. JobSound(j)'
    <3>1. JobShape(jobs[j])'
      BY <1>1, <1>3, <1>4, <1>6, NoSheet DEF JobShape
    <3>2. ASSUME NEW f \in DOMAIN jobs'[j].writes PROVE WriteSound(jobs[j].writes[f], vulns[f], jobs[j])'
      <4>1. /\ f \in DOMAIN all_ /\ jobs'[j].writes = all_ /\ jobs'[j].stage = job.stage /\ jobs'[j].at = job.at
        BY <1>2, <1>6, <3>2
      <4>2. WriteSound(view[f], vulns[f], job) /\ jobs'[j].writes[f] = view[f]
        BY <1>4, <1>5, <4>1
      <4>3. vulns' = vulns /\ day' = day
        BY <1>3
      <4> QED BY <4>1, <4>2, <4>3 DEF WriteSound
    <3> QED BY <3>1, <3>2 DEF JobSound
  <2>2. ASSUME NEW k \in Jobs, k # j PROVE JobSound(k)'
    <3>1. JobSound(k) /\ jobs'[k] = jobs[k]
      BY <1>6, <2>2 DEF DuesInv, JobsSound
    <3>2. JobShape(jobs[k])'
      BY <1>3, <3>1 DEF JobSound, JobShape
    <3>3. ASSUME NEW f \in DOMAIN jobs'[k].writes PROVE WriteSound(jobs[k].writes[f], vulns[f], jobs[k])'
      <4>1. WriteSound(jobs[k].writes[f], vulns[f], jobs[k])
        BY <3>1, <3>3 DEF JobSound
      <4> QED BY <1>3, <3>1, <4>1 DEF WriteSound
    <3> QED BY <3>2, <3>3 DEF JobSound
  <2>3. (DOMAIN jobs["tick"].writes \cap DOMAIN jobs["recalculation"].writes = {})'
    <3>1. CASE j = "tick"
      <4>1. jobs'["tick"].writes = all_ /\ jobs'["recalculation"] = jobs["recalculation"]
        BY <1>6, <3>1 DEF Jobs
      <4> QED BY <1>3, <1>4, <3>1, <4>1 DEF DuesInv, JobsSound, Jobs
    <3>2. CASE j = "recalculation"
      <4>1. jobs'["recalculation"].writes = all_ /\ jobs'["tick"] = jobs["tick"]
        BY <1>6, <3>2 DEF Jobs
      <4> QED BY <1>3, <1>4, <3>2, <4>1 DEF DuesInv, JobsSound, Jobs
    <3> QED BY <3>1, <3>2 DEF Jobs
  <2>4. /\ \A f \in Vulns \ arrived' : Covered(JobSees("tick")[f], jobs["tick"])'
        /\ (jobs["tick"].stage \in PastFlags => RoundOf(jobs["tick"].at))'
    <3>1. CASE j = "tick"
      <4>1. /\ jobs'["tick"].stage = job.stage /\ jobs'["tick"].at = job.at /\ job.stage = stage /\ job.at = at
            /\ \A f \in Vulns : JobSees("tick")'[f] = view[f]
        BY <1>2, <1>6, <1>7, <3>1
      <4>2. \A f \in Vulns \ arrived : Covered(view[f], job)
        BY <3>1
      <4>3. ASSUME NEW f \in Vulns \ arrived' PROVE Covered(JobSees("tick")[f], jobs["tick"])'
        BY <1>3, <4>1, <4>2, <4>3 DEF Covered
      <4>4. stage \in PastFlags => RoundOf(at)
        BY <3>1
      <4> QED BY <1>3, <4>1, <4>3, <4>4 DEF RoundOf
    <3>2. CASE j = "recalculation"
      <4>1. jobs'["tick"] = jobs["tick"] /\ JobSees("tick")' = JobSees("tick")
        BY <1>3, <1>6, <3>2 DEF Jobs, JobSees
      <4>2. ASSUME NEW f \in Vulns \ arrived' PROVE Covered(JobSees("tick")[f], jobs["tick"])'
        BY <1>3, <4>1, <4>2 DEF DuesInv, JobsSound, Covered
      <4> QED BY <1>3, <4>1, <4>2 DEF DuesInv, JobsSound, RoundOf
    <3> QED BY <3>1, <3>2 DEF Jobs
  <2> QED BY <1>6, <2>1, <2>2, <2>3, <2>4 DEF JobsSound
<1>9. TicketsSound'
  <2>1. CASE j = "tick"
    BY <1>3, <1>6, <2>1, TicketsIdle DEF Jobs
  <2>2. CASE j = "recalculation"
    <3>1. jobs'["recalculation"].sheet = NoTicket
      BY <1>6, <2>2
    <3> QED BY <1>3, <3>1 DEF DuesInv, TicketsSound, ticketVars, IsSheet, DueKept, TicketDueFollows
  <2> QED BY <2>1, <2>2 DEF Jobs
<1>10. RowsSound' /\ MetricsSound'
  BY <1>3, FindingsIdle, MetricsIdle DEF DuesInv, RowsSound
<1> QED BY <1>8, <1>9, <1>10 DEF DuesInv

\* An UPDATE of one severity: who is open has a date then.
LEMMA StampsKeepDues ==
    ASSUME DuesInv, NEW j \in Jobs, Stamps(j) PROVE DuesInv'
<1> DEFINE s == jobs[j].stage
           hit == ToStamp(j, s)
           rows == [f \in hit |-> [JobSees(j)[f] EXCEPT !.due = JobSees(j)[f].detected + jobs[j].config[s]]]
           view == [f \in Vulns |-> IF f \in hit THEN rows[f] ELSE JobSees(j)[f]]
           job == [stage |-> AfterSeverity(s), config |-> jobs[j].config, writes |-> jobs[j].writes, at |-> jobs[j].at,
                   sheet |-> NoTicket]
<1>1. JobShape(jobs[j]) /\ s \in SlaSeverities /\ hit \subseteq Vulns
  BY DEF Stamps, ToStamp, DuesInv, JobsSound, JobSound
<1>2. /\ s \notin {"idle", "commit"} /\ jobs[j].config[s] \in Nat /\ jobs[j].at \in Int /\ day \in Nat
      /\ AfterSeverity(s) \in {"LOW", "flags"} /\ AfterSeverity(s) \in Stages \ {"idle"} /\ AfterSeverity(s) \notin PastFlags
      /\ AfterSeverity(s) = "LOW" <=> s = "CRITICAL"
  <2>1. s \in {"CRITICAL", "LOW"} /\ jobs[j].config \in SlaConfigs
    BY <1>1 DEF SlaSeverities, JobShape
  <2>2. jobs[j].config \in [SlaSeverities -> Nat] /\ day \in Nat
    BY <2>1, SlaBounds DEF DuesInv, RowsSound
  <2> QED BY <1>1, <2>1, <2>2 DEF AfterSeverity, Stages, PastFlags, JobShape
<1>3. job.stage = AfterSeverity(s) /\ job.at = jobs[j].at /\ job = [jobs[j] EXCEPT !.stage = AfterSeverity(s)]
  <2>1. jobs[j] = [stage |-> jobs[j].stage, config |-> jobs[j].config, writes |-> jobs[j].writes, at |-> jobs[j].at,
                   sheet |-> NoTicket]
    BY <1>1, <1>2 DEF JobShape
  <2> QED BY <2>1
<1>4. JobWrites(j, rows, job) /\ DOMAIN rows = hit
  BY <1>3 DEF Stamps
<1>5. ASSUME NEW f \in Vulns
      PROVE  /\ view[f] = IF f \in DOMAIN rows THEN rows[f] ELSE JobSees(j)[f]
             /\ f \in hit => /\ WriteSound(view[f], vulns[f], job) /\ view[f].due \in Nat
                             /\ view[f].severity = JobSees(j)[f].severity
             /\ f \notin hit => view[f] = JobSees(j)[f]
  <2> DEFINE w == JobSees(j)[f]
             date == w.detected + jobs[j].config[s]
  <2>1. view[f] = IF f \in DOMAIN rows THEN rows[f] ELSE JobSees(j)[f]
    BY <1>4
  <2>2. CASE f \in hit
    <3>1. view[f] = [w EXCEPT !.due = date]
      BY <2>2
    <3>2. /\ RowSound(w, day) /\ w.there = vulns[f].there /\ w.status = vulns[f].status
          /\ w.remediated = vulns[f].remediated /\ IsOpen(w) /\ IsOpen(vulns[f])
      BY <2>2, SightOf DEF ToStamp
    <3> HIDE DEF w, hit, rows, view, job
    <3>3. w \in VulnRec /\ w.there = TRUE /\ w.detected \in Nat /\ date \in Nat
      <4>1. w \in VulnRec /\ w.there
        BY <3>2 DEF RowSound, IsOpen
      <4>2. w.detected \in 0 .. day
        BY <3>2, <4>1 DEF RowSound
      <4> QED BY <1>2, <4>1, <4>2 DEF VulnRec
    <3> HIDE DEF date
    <3>4. /\ view[f] \in VulnRec /\ view[f].due = date /\ view[f].there = w.there /\ view[f].status = w.status
          /\ view[f].severity = w.severity /\ view[f].detected = w.detected /\ view[f].remediated = w.remediated
          /\ view[f].breached = w.breached
      BY <3>1, <3>3 DEF VulnRec
    <3>5. RowSound(view[f], day)
      BY <3>2, <3>3, <3>4 DEF RowSound
    <3>6. WriteSound(view[f], vulns[f], job)
      BY <1>2, <1>3, <3>2, <3>3, <3>4, <3>5 DEF WriteSound, IsOpen
    <3>7. view[f].due \in Nat /\ view[f].severity = JobSees(j)[f].severity
      BY <3>3, <3>4 DEF w
    <3> QED BY <2>1, <2>2, <3>6, <3>7
  <2>3. CASE f \notin hit
    BY <2>1, <2>3
  <2> QED BY <2>2, <2>3
<1>6. ASSUME NEW f \in DOMAIN rows \cup DOMAIN jobs[j].writes PROVE WriteSound(view[f], vulns[f], job)
  <2>0. f \in Vulns
    BY <1>1, <1>4, <1>6 DEF JobShape
  <2>1. CASE f \in hit
    BY <1>5, <2>0, <2>1
  <2>2. CASE f \notin hit
    <3>1. f \in DOMAIN jobs[j].writes /\ view[f] = JobSees(j)[f]
      BY <1>4, <1>5, <1>6, <2>0, <2>2
    <3>2. WriteSound(JobSees(j)[f], vulns[f], jobs[j])
      BY <2>0, <3>1, SightOf
    <3> QED BY <1>2, <1>3, <3>1, <3>2 DEF WriteSound
  <2> QED BY <2>1, <2>2
<1>7. ASSUME j = "tick", NEW f \in Vulns \ arrived PROVE Covered(view[f], job)
  <2> DEFINE w == JobSees(j)[f]
  <2>1. Covered(w, jobs[j]) /\ RowSound(w, day)
    BY <1>7, SightOf DEF DuesInv, JobsSound
  <2>2. CASE f \in hit
    BY <1>2, <1>3, <1>5, <2>2 DEF Covered
  <2>3. CASE f \notin hit
    <3>1. view[f] = w /\ (IsOpen(w) /\ w.severity = s => w.due # Never)
      BY <1>5, <1>7, <2>3 DEF ToStamp
    <3>2. w.due # Never => w.due \in Nat
      BY <2>1 DEF RowSound, VulnRec
    <3>3. w.severity \in {"CRITICAL", "LOW"}
      BY <2>1 DEF RowSound, VulnRec, SlaSeverities
    <3> HIDE DEF w, hit, rows, view, job
    <3>4. s = "CRITICAL" \/ s = "LOW"
      BY <1>1 DEF SlaSeverities
    <3> QED BY <1>2, <1>3, <2>1, <3>1, <3>2, <3>3, <3>4 DEF Covered
  <2> QED BY <2>2, <2>3
<1> HIDE DEF hit, rows, view, job, s
<1>8. job = [stage |-> AfterSeverity(s), config |-> jobs[j].config, writes |-> jobs[j].writes, at |-> jobs[j].at,
             sheet |-> NoTicket]
  BY DEF job
<1> DEFINE stage_ == AfterSeverity(s)
           at_ == jobs[j].at
<1>9. /\ jobs[j].stage \notin {"idle", "commit"} /\ stage_ \in Stages \ {"idle"} /\ at_ \in Int
      /\ DOMAIN rows \subseteq Vulns /\ (stage_ \in PastFlags => at_ \in 0 .. day)
      /\ job = [stage |-> stage_, config |-> jobs[j].config, writes |-> jobs[j].writes, at |-> at_, sheet |-> NoTicket]
  BY <1>1, <1>2, <1>4, <1>8 DEF s
<1>10. /\ \A f \in Vulns : view[f] = IF f \in DOMAIN rows THEN rows[f] ELSE JobSees(j)[f]
       /\ \A f \in DOMAIN rows \cup DOMAIN jobs[j].writes : WriteSound(view[f], vulns[f], job)
  BY <1>5, <1>6
<1>11. j = "tick" => /\ \A f \in Vulns \ arrived : Covered(view[f], job)
                     /\ stage_ \in PastFlags => RoundOf(at_)
  BY <1>2, <1>7
<1> HIDE DEF stage_, at_
<1> QED BY <1>4, <1>9, <1>10, <1>11, WritesLand

\* The check of breaches: who is open and late is flagged then.
LEMMA FlagsKeepDues ==
    ASSUME DuesInv, NEW j \in Jobs, Flags(j) PROVE DuesInv'
<1> DEFINE hit == ToFlag(j)
           rows == [f \in hit |-> [JobSees(j)[f] EXCEPT !.breached = TRUE]]
           view == [f \in Vulns |-> IF f \in hit THEN rows[f] ELSE JobSees(j)[f]]
           job == [stage |-> "cleanup", config |-> jobs[j].config, writes |-> jobs[j].writes, at |-> day,
                   sheet |-> NoTicket]
<1>1. JobShape(jobs[j]) /\ jobs[j].stage = "flags" /\ hit \subseteq Vulns
  BY DEF Flags, ToFlag, DuesInv, JobsSound, JobSound
<1>2. day \in Nat /\ day \in Int /\ day \in 0 .. day /\ "cleanup" \in Stages \ {"idle"} /\ RoundOf(day)
  BY SlaBounds DEF DuesInv, RowsSound, Stages, RoundOf
<1>3. job.stage = "cleanup" /\ job.at = day /\ job = [jobs[j] EXCEPT !.stage = "cleanup", !.at = day]
  <2>1. jobs[j] = [stage |-> jobs[j].stage, config |-> jobs[j].config, writes |-> jobs[j].writes, at |-> jobs[j].at,
                   sheet |-> NoTicket]
    BY <1>1 DEF JobShape
  <2>2. PICK r, p, c, w, a : r = [stage |-> p, config |-> c, writes |-> w, at |-> a, sheet |-> NoTicket]
                             /\ r = jobs[j] /\ c = jobs[j].config /\ w = jobs[j].writes
    BY <2>1
  <2>3. r = [stage |-> p, config |-> c, writes |-> w, at |-> a, sheet |-> NoTicket]
    BY <2>2
  <2>4. PICK q : q = [r EXCEPT !.stage = "cleanup", !.at = day]
    OBVIOUS
  <2>5. q = [stage |-> "cleanup", config |-> c, writes |-> w, at |-> day, sheet |-> NoTicket]
    BY <2>3, <2>4
  <2> QED BY <2>2, <2>4, <2>5
<1>4. JobWrites(j, rows, job) /\ DOMAIN rows = hit
  BY <1>3 DEF Flags
<1>5. ASSUME NEW f \in Vulns
      PROVE  /\ view[f] = IF f \in DOMAIN rows THEN rows[f] ELSE JobSees(j)[f]
             /\ f \in hit => WriteSound(view[f], vulns[f], job) /\ view[f].due \in Nat /\ view[f].breached
             /\ f \notin hit => view[f] = JobSees(j)[f]
  <2> DEFINE w == JobSees(j)[f]
  <2>1. view[f] = IF f \in DOMAIN rows THEN rows[f] ELSE JobSees(j)[f]
    BY <1>4
  <2>2. CASE f \in hit
    <3>1. view[f] = [w EXCEPT !.breached = TRUE]
      BY <2>2
    <3>2. /\ RowSound(w, day) /\ w.there = vulns[f].there /\ w.status = vulns[f].status
          /\ w.remediated = vulns[f].remediated /\ IsOpen(w) /\ IsOpen(vulns[f]) /\ w.due # Never
      BY <2>2, SightOf DEF ToFlag
    <3> HIDE DEF w, hit, rows, view, job
    <3>3. w \in VulnRec /\ w.there = TRUE /\ w.due \in Nat
      <4>1. w \in VulnRec /\ w.there
        BY <3>2 DEF RowSound, IsOpen
      <4> QED BY <3>2, <4>1 DEF VulnRec
    <3>4. /\ view[f] \in VulnRec /\ view[f].due = w.due /\ view[f].there = w.there /\ view[f].status = w.status
          /\ view[f].detected = w.detected /\ view[f].remediated = w.remediated /\ view[f].breached = TRUE
      BY <3>1, <3>3 DEF VulnRec
    <3>5. RowSound(view[f], day)
      BY <3>2, <3>3, <3>4 DEF RowSound
    <3>6. WriteSound(view[f], vulns[f], job)
      BY <3>2, <3>3, <3>4, <3>5 DEF WriteSound, IsOpen
    <3> QED BY <2>1, <2>2, <3>3, <3>4, <3>6
  <2>3. CASE f \notin hit
    BY <2>1, <2>3
  <2> QED BY <2>2, <2>3
<1>6. ASSUME NEW f \in Vulns, f \notin hit, IsOpen(JobSees(j)[f]), JobSees(j)[f].due \in Nat
      PROVE  JobSees(j)[f].breached \/ JobSees(j)[f].due >= day
  <2>1. JobSees(j)[f].due # Never
    BY <1>6 DEF Never
  <2> QED BY <1>2, <1>6, <2>1 DEF ToFlag
<1>7. ASSUME NEW f \in DOMAIN rows \cup DOMAIN jobs[j].writes PROVE WriteSound(view[f], vulns[f], job)
  <2>0. f \in Vulns
    BY <1>1, <1>4, <1>7 DEF JobShape
  <2>1. CASE f \in hit
    BY <1>5, <2>0, <2>1
  <2>2. CASE f \notin hit
    <3>1. f \in DOMAIN jobs[j].writes /\ view[f] = JobSees(j)[f]
      BY <1>4, <1>5, <1>7, <2>0, <2>2
    <3>2. WriteSound(JobSees(j)[f], vulns[f], jobs[j]) /\ (IsOpen(JobSees(j)[f]) <=> IsOpen(vulns[f]))
      BY <2>0, <3>1, SightOf
    <3> HIDE DEF hit, rows, view, job
    <3> QED BY <1>3, <1>6, <2>0, <2>2, <3>1, <3>2 DEF WriteSound
  <2> QED BY <2>1, <2>2
<1>8. ASSUME j = "tick", NEW f \in Vulns \ arrived PROVE Covered(view[f], job)
  <2>1. Covered(JobSees(j)[f], jobs[j])
    BY <1>8 DEF DuesInv, JobsSound
  <2> HIDE DEF hit, rows, view, job
  <2>2. CASE f \in hit
    BY <1>3, <1>5, <2>2 DEF Covered
  <2>3. CASE f \notin hit
    BY <1>1, <1>3, <1>5, <1>6, <2>1, <2>3 DEF Covered
  <2> QED BY <2>2, <2>3
<1> HIDE DEF hit, rows, view, job
<1>9. job = [stage |-> "cleanup", config |-> jobs[j].config, writes |-> jobs[j].writes, at |-> day, sheet |-> NoTicket]
  BY DEF job
<1>10. /\ jobs[j].stage \notin {"idle", "commit"} /\ "cleanup" \in Stages \ {"idle"} /\ day \in Int
       /\ DOMAIN rows \subseteq Vulns /\ ("cleanup" \in PastFlags => day \in 0 .. day)
  BY <1>1, <1>2, <1>4
<1>11. /\ \A f \in Vulns : view[f] = IF f \in DOMAIN rows THEN rows[f] ELSE JobSees(j)[f]
       /\ \A f \in DOMAIN rows \cup DOMAIN jobs[j].writes : WriteSound(view[f], vulns[f], job)
  BY <1>5, <1>7
<1>12. j = "tick" => /\ \A f \in Vulns \ arrived : Covered(view[f], job)
                     /\ "cleanup" \in PastFlags => RoundOf(day)
  BY <1>2, <1>8
<1> QED BY <1>4, <1>9, <1>10, <1>11, <1>12, WritesLand

\* The cleanup: only flags of findings that are not open.
LEMMA ClearsKeepDues ==
    ASSUME DuesInv, NEW j \in Jobs, Clears(j) PROVE DuesInv'
<1> DEFINE hit == ToClear(j)
           rows == [f \in hit |-> [JobSees(j)[f] EXCEPT !.breached = FALSE]]
           view == [f \in Vulns |-> IF f \in hit THEN rows[f] ELSE JobSees(j)[f]]
           stage == IF j = "tick" THEN "commit" ELSE "tickets"
           job == [stage |-> stage, config |-> jobs[j].config, writes |-> jobs[j].writes, at |-> jobs[j].at,
                   sheet |-> NoTicket]
<1>1. JobShape(jobs[j]) /\ jobs[j].stage = "cleanup" /\ hit \subseteq Vulns
  BY DEF Clears, ToClear, DuesInv, JobsSound, JobSound
<1>2. /\ stage \in Stages \ {"idle"} /\ stage \in PastFlags /\ jobs[j].stage \in PastFlags
      /\ jobs[j].at \in Int /\ jobs[j].at \in 0 .. day
  BY <1>1 DEF Stages, PastFlags, JobShape
<1>3. job.stage = stage /\ job.at = jobs[j].at /\ job = [jobs[j] EXCEPT !.stage = stage]
  BY <1>1 DEF JobShape
<1>4. JobWrites(j, rows, job) /\ DOMAIN rows = hit
  BY <1>3 DEF Clears
<1>5. ASSUME NEW f \in Vulns
      PROVE  /\ view[f] = IF f \in DOMAIN rows THEN rows[f] ELSE JobSees(j)[f]
             /\ f \in hit => WriteSound(view[f], vulns[f], job) /\ ~IsOpen(view[f])
             /\ f \notin hit => view[f] = JobSees(j)[f]
  <2> DEFINE w == JobSees(j)[f]
  <2>1. view[f] = IF f \in DOMAIN rows THEN rows[f] ELSE JobSees(j)[f]
    BY <1>4
  <2>2. CASE f \in hit
    <3>1. view[f] = [w EXCEPT !.breached = FALSE]
      BY <2>2
    <3>2. /\ RowSound(w, day) /\ w.there = vulns[f].there /\ w.status = vulns[f].status /\ w.there
          /\ w.remediated = vulns[f].remediated /\ ~IsOpen(w) /\ ~IsOpen(vulns[f]) /\ w.due = vulns[f].due
      BY <2>2, SightOf DEF ToClear
    <3> HIDE DEF w, hit, rows, view, job
    <3>3. w \in VulnRec
      BY <3>2 DEF RowSound
    <3>4. /\ view[f] \in VulnRec /\ view[f].due = w.due /\ view[f].there = w.there /\ view[f].status = w.status
          /\ view[f].detected = w.detected /\ view[f].remediated = w.remediated /\ view[f].breached = FALSE
      BY <3>1, <3>3 DEF VulnRec
    <3>5. RowSound(view[f], day)
      BY <3>2, <3>3, <3>4 DEF RowSound
    <3>6. WriteSound(view[f], vulns[f], job) /\ ~IsOpen(view[f])
      BY <3>2, <3>4, <3>5 DEF WriteSound, IsOpen
    <3> QED BY <2>1, <2>2, <3>6
  <2>3. CASE f \notin hit
    BY <2>1, <2>3
  <2> QED BY <2>2, <2>3
<1>6. ASSUME NEW f \in DOMAIN rows \cup DOMAIN jobs[j].writes PROVE WriteSound(view[f], vulns[f], job)
  <2>0. f \in Vulns
    BY <1>1, <1>4, <1>6 DEF JobShape
  <2>1. CASE f \in hit
    BY <1>5, <2>0, <2>1
  <2>2. CASE f \notin hit
    <3>1. f \in DOMAIN jobs[j].writes /\ view[f] = JobSees(j)[f]
      BY <1>4, <1>5, <1>6, <2>0, <2>2
    <3>2. WriteSound(JobSees(j)[f], vulns[f], jobs[j])
      BY <2>0, <3>1, SightOf
    <3> HIDE DEF hit, rows, view, job, stage
    <3> QED BY <1>2, <1>3, <3>1, <3>2 DEF WriteSound
  <2> QED BY <2>1, <2>2
<1>7. ASSUME j = "tick", NEW f \in Vulns \ arrived PROVE Covered(view[f], job)
  <2>1. Covered(JobSees(j)[f], jobs[j])
    BY <1>7 DEF DuesInv, JobsSound
  <2> HIDE DEF hit, rows, view, job, stage
  <2>2. CASE f \in hit
    BY <1>5, <2>2 DEF Covered
  <2>3. CASE f \notin hit
    BY <1>2, <1>3, <1>5, <2>1, <2>3 DEF Covered, PastFlags
  <2> QED BY <2>2, <2>3
<1>8. j = "tick" => RoundOf(jobs[j].at)
  BY <1>2 DEF DuesInv, JobsSound
<1> HIDE DEF hit, rows, view, job, stage
<1>9. job = [stage |-> stage, config |-> jobs[j].config, writes |-> jobs[j].writes, at |-> jobs[j].at, sheet |-> NoTicket]
  BY DEF job
<1> DEFINE at_ == jobs[j].at
<1>10. /\ jobs[j].stage \notin {"idle", "commit"} /\ stage \in Stages \ {"idle"} /\ at_ \in Int
       /\ DOMAIN rows \subseteq Vulns /\ (stage \in PastFlags => at_ \in 0 .. day)
       /\ job = [stage |-> stage, config |-> jobs[j].config, writes |-> jobs[j].writes, at |-> at_, sheet |-> NoTicket]
  BY <1>1, <1>2, <1>4, <1>9
<1>11. /\ \A f \in Vulns : view[f] = IF f \in DOMAIN rows THEN rows[f] ELSE JobSees(j)[f]
       /\ \A f \in DOMAIN rows \cup DOMAIN jobs[j].writes : WriteSound(view[f], vulns[f], job)
  BY <1>5, <1>6
<1>12. j = "tick" => /\ \A f \in Vulns \ arrived : Covered(view[f], job)
                     /\ stage \in PastFlags => RoundOf(at_)
  BY <1>7, <1>8
<1> HIDE DEF at_
<1> QED BY <1>4, <1>10, <1>11, <1>12, WritesLand

\* A job that begins, fails or computes the tickets' dates.
LEMMA JobTurns ==
    ASSUME DuesInv, NEW j \in Jobs, NEW job, jobs' = [jobs EXCEPT ![j] = job], JobShape(job),
           \A f \in DOMAIN job.writes : f \in DOMAIN jobs[j].writes /\ WriteSound(job.writes[f], vulns[f], job),
           job.sheet # NoTicket => j = "recalculation" /\ ticket # NoTicket /\ job.sheet.members = ticket.members
                                   /\ DueKept(job.sheet, JobSees(j)) /\ job.writes = jobs[j].writes,
           j = "tick" => job.stage \in {"idle", "CRITICAL"},
           arrived' \subseteq unchecked, j = "recalculation" => arrived' = arrived,
           UNCHANGED <<vulns, sla, ticketVars, metrics, day, ticked, unchecked>>
    PROVE  DuesInv'
<1>1. /\ jobs'[j] = job /\ jobs' = [k \in Jobs |-> jobs'[k]] /\ \A k \in Jobs : k # j => jobs'[k] = jobs[k]
  <2>1. jobs = [k \in Jobs |-> jobs[k]]
    BY DEF DuesInv, JobsSound
  <2> QED BY <2>1
<1>2. RowsSound' /\ MetricsSound'
  BY FindingsIdle, MetricsIdle DEF DuesInv, RowsSound
<1>3. JobsSound'
  <2>1. ASSUME NEW k \in Jobs PROVE JobSound(k)'
    <3>1. JobShape(jobs'[k]) /\ \A f \in DOMAIN jobs'[k].writes : WriteSound(jobs'[k].writes[f], vulns[f], jobs'[k])
      BY <1>1 DEF DuesInv, JobsSound, JobSound
    <3>2. JobShape(jobs[k])'
      BY <3>1 DEF JobShape
    <3> QED BY <3>1, <3>2 DEF JobSound, WriteSound
  <2>2. (DOMAIN jobs["tick"].writes \cap DOMAIN jobs["recalculation"].writes = {})'
    <3>1. \A k \in Jobs : DOMAIN jobs'[k].writes \subseteq DOMAIN jobs[k].writes
      BY <1>1
    <3> QED BY <3>1 DEF DuesInv, JobsSound, Jobs
  <2>3. /\ \A f \in Vulns \ arrived' : Covered(JobSees("tick")[f], jobs["tick"])'
        /\ (jobs["tick"].stage \in PastFlags => RoundOf(jobs["tick"].at))'
    <3>1. CASE j = "tick"
      <4>1. jobs'["tick"].stage \in {"idle", "CRITICAL"}
        BY <1>1, <3>1
      <4> QED BY <4>1 DEF Covered, PastFlags
    <3>2. CASE j = "recalculation"
      <4>1. jobs'["tick"] = jobs["tick"] /\ JobSees("tick")' = JobSees("tick") /\ arrived' = arrived
        BY <1>1, <3>2 DEF Jobs, JobSees
      <4>2. ASSUME NEW f \in Vulns \ arrived' PROVE Covered(JobSees("tick")[f], jobs["tick"])'
        BY <4>1, <4>2 DEF DuesInv, JobsSound, Covered
      <4> QED BY <4>1, <4>2 DEF DuesInv, JobsSound, RoundOf
    <3> QED BY <3>1, <3>2 DEF Jobs
  <2> QED BY <1>1, <2>1, <2>2, <2>3 DEF JobsSound
<1>4. TicketsSound'
  <2>1. CASE j = "tick"
    BY <1>1, <2>1, TicketsIdle DEF Jobs
  <2>2. CASE j = "recalculation"
    <3>1. jobs'["recalculation"] = job
      BY <1>1, <2>2
    <3>2. job.sheet # NoTicket => JobSees("recalculation")' = JobSees("recalculation")
      BY <2>2, <3>1 DEF JobSees
    <3> QED BY <2>2, <3>1, <3>2 DEF DuesInv, TicketsSound, ticketVars, IsSheet, DueKept, TicketDueFollows
  <2> QED BY <2>1, <2>2 DEF Jobs
<1> QED BY <1>2, <1>3, <1>4 DEF DuesInv

LEMMA BeginningKeepsDues ==
    ASSUME DuesInv, TickReads \/ RecalculationReads PROVE DuesInv'
<1>1. /\ Begun = [stage |-> "CRITICAL", config |-> sla, writes |-> <<>>, at |-> Never, sheet |-> NoTicket]
      /\ JobShape(Begun) /\ DOMAIN Begun.writes = {} /\ Begun.sheet = NoTicket /\ Begun.stage = "CRITICAL"
  <2> DEFINE config_ == sla
             part_ == [stage |-> "idle", config |-> NoConfig, writes |-> <<>>, at |-> Never, sheet |-> NoTicket]
  <2>0. part_ = NoJob /\ Begun = [part_ EXCEPT !.stage = "CRITICAL", !.config = sla]
    BY DEF Begun, NoJob
  <2>1. Begun = [stage |-> "CRITICAL", config |-> sla, writes |-> <<>>, at |-> Never, sheet |-> NoTicket]
    BY <2>0
  <2>2. sla \in SlaConfigs /\ Never \in Int
    BY DEF DuesInv, RowsSound, Never
  <2> QED BY <2>1, <2>2, EmptyWrites, NoSheet DEF JobShape, Stages, PastFlags
<1>2. CASE TickReads
  <2>1. /\ jobs' = [jobs EXCEPT !["tick"] = Begun] /\ arrived' = {}
        /\ UNCHANGED <<vulns, sla, ticketVars, metrics, day, ticked, unchecked>>
    BY <1>2 DEF TickReads
  <2> QED BY <1>1, <2>1, JobTurns DEF Jobs
<1>3. CASE RecalculationReads
  <2>1. /\ jobs' = [jobs EXCEPT !["recalculation"] = Begun] /\ arrived' = arrived
        /\ UNCHANGED <<vulns, sla, ticketVars, metrics, day, ticked, unchecked>>
    BY <1>3 DEF RecalculationReads
  <2>2. arrived \subseteq unchecked
    BY DEF DuesInv, RowsSound
  <2> QED BY <1>1, <2>1, <2>2, JobTurns DEF Jobs
<1> QED BY <1>2, <1>3

LEMMA FailingKeepsDues ==
    ASSUME DuesInv, NEW j \in Jobs, Fails(j) PROVE DuesInv'
<1>1. /\ jobs' = [jobs EXCEPT ![j] = NoJob] /\ arrived' = IF j = "tick" THEN unchecked ELSE arrived
      /\ UNCHANGED <<vulns, sla, ticketVars, metrics, day, ticked, unchecked>>
  BY DEF Fails
<1>2. arrived' \subseteq unchecked /\ (j = "recalculation" => arrived' = arrived)
  BY <1>1 DEF DuesInv, RowsSound
<1> QED BY <1>1, <1>2, NoJobSound, JobTurns

LEMMA TicketsFollowKeeps ==
    ASSUME DuesInv, TicketsFollow PROVE DuesInv'
<1> DEFINE old == jobs["recalculation"]
           dues == EarliestDue(JobSees("recalculation"), ticket.members)
           sheet == IF ticket = NoTicket THEN NoTicket ELSE [members |-> ticket.members, due |-> dues, lagging |-> FALSE]
           job == [old EXCEPT !.stage = "commit", !.sheet = sheet]
<1>1. /\ old.stage = "tickets" /\ jobs' = [jobs EXCEPT !["recalculation"] = job]
      /\ UNCHANGED <<vulns, sla, ticketVars, metrics, day, ticked, unchecked, arrived>>
  BY DEF TicketsFollow
<1>2. JobSound("recalculation") /\ "recalculation" \in Jobs /\ arrived \subseteq unchecked
  BY DEF DuesInv, JobsSound, RowsSound, Jobs
<1>3. /\ IsSheet(sheet) /\ (ticket = NoTicket => sheet = NoTicket)
      /\ sheet # NoTicket => sheet.members = ticket.members /\ DueKept(sheet, JobSees("recalculation"))
  BY NoSheet DEF DuesInv, TicketsSound, IsSheet, DueKept
<1> HIDE DEF sheet
<1>4. JobShape(old) /\ old.stage \in PastFlags /\ \A f \in DOMAIN old.writes : WriteSound(old.writes[f], vulns[f], old)
  BY <1>1, <1>2 DEF JobSound, PastFlags
<1>5. /\ job = [stage |-> job.stage, config |-> job.config, writes |-> job.writes, at |-> job.at, sheet |-> job.sheet]
      /\ job.stage = "commit" /\ job.config = old.config /\ job.writes = old.writes /\ job.at = old.at
      /\ job.sheet = sheet
  <2>0. old = [stage |-> old.stage, config |-> old.config, writes |-> old.writes, at |-> old.at, sheet |-> old.sheet]
    BY <1>4 DEF JobShape
  <2>1. job = [stage |-> "commit", config |-> old.config, writes |-> old.writes, at |-> old.at, sheet |-> sheet]
    <3> HIDE DEF old, sheet
    <3>1. PICK r, p, c, w, a, t : r = [stage |-> p, config |-> c, writes |-> w, at |-> a, sheet |-> t]
                                  /\ r = old /\ c = old.config /\ w = old.writes /\ a = old.at
      BY <2>0
    <3>2. r = [stage |-> p, config |-> c, writes |-> w, at |-> a, sheet |-> t]
      BY <3>1
    <3>3. PICK q : q = [r EXCEPT !.stage = "commit", !.sheet = sheet]
      OBVIOUS
    <3>4. q = [stage |-> "commit", config |-> c, writes |-> w, at |-> a, sheet |-> sheet]
      BY <3>2, <3>3
    <3> QED BY <3>1, <3>3, <3>4
  <2> HIDE DEF old, job
  <2> QED BY <2>1
<1> HIDE DEF job
<1>6. JobShape(job)
  BY <1>1, <1>3, <1>4, <1>5 DEF JobShape, Stages, PastFlags
<1>7. \A f \in DOMAIN job.writes : f \in DOMAIN old.writes /\ WriteSound(job.writes[f], vulns[f], job)
  BY <1>1, <1>4, <1>5 DEF WriteSound, PastFlags
<1> QED BY <1>1, <1>2, <1>3, <1>5, <1>6, <1>7, JobTurns

-----------------------------------------------------------------------------
(* What a job has written comes to the rows *)

LEMMA Landing ==
    ASSUME DuesInv, NEW j \in Jobs, vulns' = JobSees(j), day' = day, jobs[j].stage \in PastFlags
    PROVE  /\ vulns' \in [Vulns -> VulnRec] /\ Found' = Found
           /\ \A f \in Vulns :
                /\ RowSound(vulns'[f], day') /\ vulns'[f].there = vulns[f].there
                /\ vulns'[f].status = vulns[f].status /\ vulns'[f].remediated = vulns[f].remediated
                /\ IsOpen(vulns'[f]) <=> IsOpen(vulns[f])
                /\ ~IsOpen(vulns[f]) => vulns'[f].due = vulns[f].due
                /\ vulns'[f] # vulns[f] => vulns'[f].there
                /\ f \notin DOMAIN jobs[j].writes => vulns'[f] = vulns[f]
                /\ f \in DOMAIN jobs[j].writes /\ IsOpen(vulns'[f]) =>
                     vulns'[f].due \in Nat /\ (vulns'[f].breached \/ vulns'[f].due >= jobs[j].at)
<1>1. ASSUME NEW f \in Vulns
      PROVE  /\ RowSound(vulns'[f], day') /\ vulns'[f].there = vulns[f].there
             /\ vulns'[f].status = vulns[f].status /\ vulns'[f].remediated = vulns[f].remediated
             /\ IsOpen(vulns'[f]) <=> IsOpen(vulns[f])
             /\ ~IsOpen(vulns[f]) => vulns'[f].due = vulns[f].due
             /\ vulns'[f] # vulns[f] => vulns'[f].there
             /\ f \notin DOMAIN jobs[j].writes => vulns'[f] = vulns[f]
             /\ f \in DOMAIN jobs[j].writes /\ IsOpen(vulns'[f]) =>
                  vulns'[f].due \in Nat /\ (vulns'[f].breached \/ vulns'[f].due >= jobs[j].at)
  <2>1. vulns'[f] = JobSees(j)[f]
    OBVIOUS
  <2>2. CASE f \notin DOMAIN jobs[j].writes
    BY <2>1, <2>2, SightOf
  <2>3. CASE f \in DOMAIN jobs[j].writes
    <3>1. WriteSound(vulns'[f], vulns[f], jobs[j])
      BY <2>1, <2>3, SightOf
    <3> QED BY <2>3, <3>1 DEF WriteSound, IsOpen
  <2> QED BY <2>2, <2>3
<1>2. vulns' = [f \in Vulns |-> vulns'[f]]
  BY DEF JobSees
<1>3. vulns' \in [Vulns -> VulnRec]
  BY <1>1, <1>2 DEF RowSound
<1>4. Found' = Found
  BY <1>1 DEF Found
<1> QED BY <1>1, <1>3, <1>4

\* A ticket that is not there does not get behind, one that is stays there.
LEMMA BehindThere == ASSUME NEW t, IsSheet(t) PROVE Behind(t) = NoTicket <=> t = NoTicket
<1>1. NoTicket.lagging = FALSE
  BY DEF NoTicket
<1> QED BY <1>1, BehindKeeps

LEMMA RoundKeepsDues ==
    ASSUME DuesInv, TickCommits PROVE DuesInv'
<1> DEFINE job == jobs["recalculation"]
           sheet == Behind(job.sheet)
<1>1. /\ jobs["tick"].stage = "commit" /\ vulns' = JobSees("tick") /\ Overtakes
      /\ jobs' = [jobs EXCEPT !["tick"] = NoJob, !["recalculation"].sheet = sheet]
      /\ ticket' = Behind(ticket) /\ maker' = Behind(maker) /\ ticked' = (ticked \/ jobs["tick"].at = day)
      /\ unchecked' = arrived /\ UNCHANGED <<sla, day, arrived>>
  BY DEF TickCommits
<1>2. jobs["tick"].stage \in PastFlags /\ "tick" \in Jobs /\ "recalculation" \in Jobs
  BY <1>1 DEF PastFlags, Jobs
<1>3. JobShape(jobs["tick"]) /\ JobShape(job) /\ jobs["tick"].at \in 0 .. day /\ RoundOf(jobs["tick"].at) /\ day \in Nat
  BY <1>2, SlaBounds DEF DuesInv, RowsSound, JobsSound, JobSound, JobShape
<1>4. RowsSound'
  <2>1. ASSUME NEW f \in Vulns PROVE FlagSound(f)'
    <3>1. SUFFICES ASSUME f \notin arrived, IsOpen(vulns'[f])
                   PROVE  vulns'[f].due \in Nat
                          /\ (vulns'[f].breached \/ (vulns'[f].due >= day - 1 /\ (ticked' => vulns'[f].due >= day)))
      BY <1>1 DEF FlagSound
    <3>2. vulns'[f].due \in Nat /\ (vulns'[f].breached \/ vulns'[f].due >= jobs["tick"].at)
      BY <1>1, <1>2, <3>1 DEF DuesInv, JobsSound, Covered
    <3>3. ticked' => jobs["tick"].at = day
      <4>1. ticked => jobs["tick"].at = day
        <5>1. PICK at \in 0 .. day : at = jobs["tick"].at /\ (at < day => ~ticked)
          BY <1>3 DEF RoundOf
        <5>2. at < day \/ at = day
          BY <1>3
        <5> QED BY <5>1, <5>2
      <4> QED BY <1>1, <4>1
    <3> QED BY <1>3, <3>2, <3>3 DEF RoundOf
  <2>2. \A f \in Vulns : RowSound(vulns[f], day)'
    BY <1>1, <1>2, Landing
  <2>3. vulns' \in [Vulns -> VulnRec] /\ Found' = Found
    BY <1>1, <1>2, Landing
  <2> QED BY <1>1, <2>1, <2>2, <2>3 DEF DuesInv, RowsSound
<1>5. /\ jobs'["tick"] = NoJob
      /\ jobs' = [k \in Jobs |-> jobs'[k]]
      /\ jobs'["recalculation"] =
           [stage |-> job.stage, config |-> job.config, writes |-> job.writes, at |-> job.at, sheet |-> sheet]
  <2>1. jobs = [k \in Jobs |-> jobs[k]]
    BY DEF DuesInv, JobsSound
  <2>2. jobs' = [k \in Jobs |-> jobs'[k]] /\ jobs'["tick"] = NoJob /\ jobs'["recalculation"] = [job EXCEPT !.sheet = sheet]
    BY <1>1, <1>2, <2>1
  <2>3. job = [stage |-> job.stage, config |-> job.config, writes |-> job.writes, at |-> job.at, sheet |-> job.sheet]
    BY <1>3 DEF JobShape
  <2> HIDE DEF job, sheet
  <2> QED BY <2>2, <2>3
<1>6. IsSheet(job.sheet) /\ IsSheet(ticket) /\ IsSheet(maker)
  BY <1>3 DEF DuesInv, TicketsSound, JobShape
<1>7. IsSheet(sheet) /\ (sheet = NoTicket <=> job.sheet = NoTicket)
  BY <1>6, BehindKeeps, BehindThere
<1>8. JobsSound'
  <2>1. JobSound("recalculation")'
    <3> DEFINE after == jobs'["recalculation"]
    <3>1. /\ after.stage = job.stage /\ after.config = job.config /\ after.writes = job.writes /\ after.at = job.at
          /\ after.sheet = sheet
          /\ after = [stage |-> after.stage, config |-> after.config, writes |-> after.writes, at |-> after.at,
                      sheet |-> after.sheet]
      BY <1>5
    <3>2. job.stage # "idle"  \/ after = NoJob
      <4>1. job.stage = "idle" => job = NoJob /\ job.sheet = NoTicket
        BY <1>3 DEF JobShape
      <4>2. job.stage = "idle" => sheet = job.sheet
        BY <1>7, <4>1
      <4>3. job = [stage |-> job.stage, config |-> job.config, writes |-> job.writes, at |-> job.at, sheet |-> job.sheet]
        BY <1>3 DEF JobShape
      <4> HIDE DEF job, sheet
      <4> QED BY <1>5, <4>1, <4>2, <4>3
    <3> HIDE DEF after, sheet
    <3>3. JobShape(after)
      BY <1>3, <1>7, <3>1, <3>2 DEF JobShape
    <3>4. JobShape(jobs["recalculation"])'
      BY <1>1, <3>3 DEF JobShape, after
    <3>5. ASSUME NEW f \in DOMAIN jobs'["recalculation"].writes
          PROVE  WriteSound(jobs["recalculation"].writes[f], vulns[f], jobs["recalculation"])'
      <4>1. f \in DOMAIN job.writes /\ f \in Vulns /\ f \notin DOMAIN jobs["tick"].writes
        BY <1>3, <3>1, <3>5 DEF DuesInv, JobsSound, JobShape, after
      <4>2. WriteSound(job.writes[f], vulns[f], job) /\ vulns'[f] = vulns[f]
        BY <1>1, <1>2, <4>1, Landing DEF DuesInv, JobsSound, JobSound
      <4> QED BY <1>1, <3>1, <4>2 DEF WriteSound, after
    <3> QED BY <3>4, <3>5 DEF JobSound
  <2>2. JobSound("tick")'
    <3>1. JobShape(jobs'["tick"]) /\ DOMAIN jobs'["tick"].writes = {}
      BY <1>5, NoJobSound
    <3>2. JobShape(jobs["tick"])'
      BY <1>1, <3>1 DEF JobShape
    <3> QED BY <3>1, <3>2 DEF JobSound
  <2>3. /\ \A f \in Vulns \ arrived' : Covered(JobSees("tick")[f], jobs["tick"])'
        /\ (jobs["tick"].stage \in PastFlags => RoundOf(jobs["tick"].at))'
    <3>1. jobs'["tick"].stage = "idle"
      BY <1>5, NoJobSound
    <3> QED BY <3>1 DEF Covered, PastFlags
  <2>4. (DOMAIN jobs["tick"].writes \cap DOMAIN jobs["recalculation"].writes = {})'
    BY <1>5, NoJobSound
  <2> QED BY <1>5, <2>1, <2>2, <2>3, <2>4 DEF JobsSound, Jobs
<1>9. TicketsSound'
  <2>1. maker' # NoTicket => ticket' = NoTicket /\ maker'.members # {} /\ DueKept(maker, vulns)'
    <3>1. maker' # NoTicket => maker # NoTicket
      BY <1>1, <1>6, BehindThere
    <3>2. ASSUME maker # NoTicket PROVE ticket' = NoTicket /\ maker'.members # {} /\ DueKept(maker', vulns')
      <4>1. ticket = NoTicket /\ maker.members # {} /\ DueKept(maker, vulns)
        BY <3>2 DEF DuesInv, TicketsSound
      <4> QED BY <1>1, <1>6, <4>1, BehindKeeps
    <3>3. DueKept(maker', vulns') => DueKept(maker, vulns)'
      BY DEF DueKept
    <3> QED BY <3>1, <3>2, <3>3
  <2>2. jobs'["recalculation"].sheet # NoTicket =>
          /\ ticket' # NoTicket /\ jobs'["recalculation"].sheet.members = ticket'.members
          /\ DueKept(jobs["recalculation"].sheet, JobSees("recalculation"))'
    <3>0. jobs'["recalculation"].sheet = sheet /\ jobs'["recalculation"].writes = job.writes
      BY <1>5
    <3> SUFFICES ASSUME sheet # NoTicket
                 PROVE  /\ ticket' # NoTicket /\ sheet.members = ticket'.members
                        /\ ~sheet.lagging => sheet.due = EarliestDue(JobSees("recalculation")', sheet.members)
      BY <3>0 DEF DueKept
    <3>1. ticket # NoTicket /\ job.sheet.members = ticket.members /\ DueKept(job.sheet, JobSees("recalculation"))
      BY <1>7 DEF DuesInv, TicketsSound
    <3>2. ticket' # NoTicket /\ sheet.members = ticket'.members
      BY <1>1, <1>6, <3>1, BehindKeeps, BehindThere
    <3>3. ASSUME ~sheet.lagging PROVE sheet.due = EarliestDue(JobSees("recalculation")', sheet.members)
      <4>1. sheet = job.sheet /\ \A f \in job.sheet.members : vulns'[f].due = vulns[f].due
        BY <1>6, <3>3, BehindKeeps
      <4>2. job.sheet.members \in SUBSET Vulns
        BY <1>6 DEF IsSheet
      <4>3. \A f \in job.sheet.members : JobSees("recalculation")'[f].due = JobSees("recalculation")[f].due
        BY <3>0, <4>1, <4>2 DEF JobSees
      <4>4. EarliestDue(JobSees("recalculation")', job.sheet.members) = EarliestDue(JobSees("recalculation"), job.sheet.members)
        BY <4>2, <4>3, EarliestStays
      <4> QED BY <3>1, <3>3, <4>1, <4>4 DEF DueKept
    <3> QED BY <3>2, <3>3
  <2>3. TicketDueFollows'
    <3>1. ticket # NoTicket => DueKept(ticket, vulns)
      BY DEF DuesInv, TicketsSound, TicketDueFollows, DueKept
    <3>2. ticket' # NoTicket => DueKept(ticket', vulns')
      BY <1>1, <1>6, <3>1, BehindKeeps, BehindThere
    <3> QED BY <3>2 DEF TicketDueFollows, DueKept
  <2>4. IsSheet(ticket') /\ IsSheet(maker')
    BY <1>1, <1>6, BehindKeeps
  <2> QED BY <2>1, <2>2, <2>3, <2>4 DEF TicketsSound, IsSheet
<1>10. MetricsSound'
  <2>1. \A f \in Vulns : /\ vulns[f].there => vulns'[f].there
                         /\ vulns'[f] # vulns[f] => vulns'[f].there
    BY <1>1, <1>2, Landing
  <2> QED BY <1>1, <2>1, MetricsFollow DEF DuesInv
<1> QED BY <1>4, <1>8, <1>9, <1>10 DEF DuesInv

LEMMA RecalculationKeepsDues ==
    ASSUME DuesInv, RecalculationCommits PROVE DuesInv'
<1> DEFINE job == jobs["recalculation"]
           late == IF job.at = day THEN {} ELSE DOMAIN job.writes
<1>1. /\ job.stage = "commit" /\ vulns' = JobSees("recalculation") /\ Overtakes
      /\ jobs' = [jobs EXCEPT !["recalculation"] = NoJob]
      /\ ticket' = (IF job.sheet = NoTicket THEN Behind(ticket) ELSE job.sheet) /\ maker' = Behind(maker)
      /\ unchecked' = unchecked \cup late /\ arrived' = arrived \cup late /\ UNCHANGED <<sla, day, ticked>>
  BY DEF RecalculationCommits, Arrive
<1>2. job.stage \in PastFlags /\ "tick" \in Jobs /\ "recalculation" \in Jobs
  BY <1>1 DEF PastFlags, Jobs
<1>3. JobShape(job) /\ JobShape(jobs["tick"]) /\ day \in Nat /\ late \subseteq Vulns
  BY SlaBounds, <1>2 DEF DuesInv, RowsSound, JobsSound, JobSound, JobShape
<1>4. ASSUME NEW f \in Vulns, f \in DOMAIN job.writes, f \notin late, IsOpen(vulns'[f])
      PROVE  vulns'[f].due \in Nat /\ (vulns'[f].breached \/ vulns'[f].due >= day)
  <2>1. job.at = day
    BY <1>4
  <2> QED BY <1>1, <1>2, <1>4, <2>1, Landing
<1>5. ASSUME NEW f \in Vulns, f \notin DOMAIN job.writes PROVE vulns'[f] = vulns[f]
  BY <1>1, <1>2, <1>5, Landing
<1> HIDE DEF late
<1>6. RowsSound'
  <2>1. ASSUME NEW f \in Vulns PROVE FlagSound(f)'
    <3>1. CASE f \in DOMAIN job.writes
      BY <1>1, <1>3, <1>4, <3>1 DEF FlagSound
    <3>2. CASE f \notin DOMAIN job.writes
      <4>1. vulns'[f] = vulns[f] /\ FlagSound(f)
        BY <1>5, <3>2 DEF DuesInv, RowsSound
      <4> QED BY <1>1, <4>1 DEF FlagSound
    <3> QED BY <3>1, <3>2
  <2>2. \A f \in Vulns : RowSound(vulns[f], day)'
    BY <1>1, <1>2, Landing
  <2>3. vulns' \in [Vulns -> VulnRec] /\ Found' = Found
    BY <1>1, <1>2, Landing
  <2> QED BY <1>1, <1>3, <2>1, <2>2, <2>3 DEF DuesInv, RowsSound
<1>7. /\ jobs'["recalculation"] = NoJob /\ jobs'["tick"] = jobs["tick"]
      /\ jobs' = [k \in Jobs |-> jobs'[k]]
  <2>1. jobs = [k \in Jobs |-> jobs[k]]
    BY DEF DuesInv, JobsSound
  <2> QED BY <1>1, <1>2, <2>1
<1>8. JobsSound'
  <2>1. JobSound("tick")'
    <3>1. JobShape(jobs["tick"])'
      BY <1>1, <1>3, <1>7 DEF JobShape
    <3>2. ASSUME NEW f \in DOMAIN jobs'["tick"].writes PROVE WriteSound(jobs["tick"].writes[f], vulns[f], jobs["tick"])'
      <4>1. f \in DOMAIN jobs["tick"].writes /\ f \in Vulns /\ f \notin DOMAIN job.writes
        BY <1>3, <1>7, <3>2 DEF DuesInv, JobsSound, JobShape
      <4>2. WriteSound(jobs["tick"].writes[f], vulns[f], jobs["tick"]) /\ vulns'[f] = vulns[f]
        BY <1>2, <1>5, <4>1 DEF DuesInv, JobsSound, JobSound
      <4> QED BY <1>1, <1>7, <4>2 DEF WriteSound
    <3> QED BY <3>1, <3>2 DEF JobSound
  <2>2. JobSound("recalculation")'
    <3>1. JobShape(jobs'["recalculation"]) /\ DOMAIN jobs'["recalculation"].writes = {}
      BY <1>7, NoJobSound
    <3>2. JobShape(jobs["recalculation"])'
      BY <1>1, <3>1 DEF JobShape
    <3> QED BY <3>1, <3>2 DEF JobSound
  <2>3. ASSUME NEW f \in Vulns \ arrived' PROVE Covered(JobSees("tick")[f], jobs["tick"])'
    <3>1. f \notin late /\ Covered(JobSees("tick")[f], jobs["tick"])
      BY <1>1, <2>3 DEF DuesInv, JobsSound
    <3>2. CASE f \in DOMAIN jobs["tick"].writes \/ f \notin DOMAIN job.writes
      <4>1. JobSees("tick")'[f] = JobSees("tick")[f]
        BY <1>5, <1>7, <3>2 DEF JobSees
      <4> QED BY <1>7, <3>1, <4>1 DEF Covered
    <3>3. CASE f \notin DOMAIN jobs["tick"].writes /\ f \in DOMAIN job.writes
      <4>1. JobSees("tick")'[f] = vulns'[f]
        BY <1>7, <3>3 DEF JobSees
      <4>2. jobs["tick"].stage \in PastFlags => jobs["tick"].at \in 0 .. day
        BY <1>3 DEF JobShape
      <4>3. IsOpen(vulns'[f]) => vulns'[f].due \in Nat /\ (vulns'[f].breached \/ vulns'[f].due >= day)
        BY <1>4, <3>1, <3>3
      <4>4. jobs["tick"].stage \in PastFlags /\ vulns'[f].due \in Nat /\ vulns'[f].due >= day => vulns'[f].due >= jobs["tick"].at
        BY <1>3, <4>2
      <4> QED BY <1>7, <4>1, <4>3, <4>4 DEF Covered
    <3> QED BY <3>2, <3>3
  <2>4. (jobs["tick"].stage \in PastFlags => RoundOf(jobs["tick"].at))'
    BY <1>1, <1>7 DEF DuesInv, JobsSound, RoundOf
  <2>5. (DOMAIN jobs["tick"].writes \cap DOMAIN jobs["recalculation"].writes = {})'
    BY <1>7, NoJobSound
  <2> QED BY <1>7, <2>1, <2>2, <2>3, <2>4, <2>5 DEF JobsSound, Jobs
<1>9. IsSheet(job.sheet) /\ IsSheet(ticket) /\ IsSheet(maker)
  BY <1>3 DEF DuesInv, TicketsSound, JobShape
<1>10. TicketsSound'
  <2>1. maker' # NoTicket => ticket' = NoTicket /\ maker'.members # {} /\ DueKept(maker, vulns)'
    <3>1. maker' # NoTicket => maker # NoTicket
      BY <1>1, <1>9, BehindThere
    <3>2. ASSUME maker # NoTicket PROVE ticket' = NoTicket /\ maker'.members # {} /\ DueKept(maker', vulns')
      <4>1. ticket = NoTicket /\ maker.members # {} /\ DueKept(maker, vulns) /\ job.sheet = NoTicket
        BY <3>2 DEF DuesInv, TicketsSound
      <4> QED BY <1>1, <1>9, <4>1, BehindKeeps
    <3>3. DueKept(maker', vulns') => DueKept(maker, vulns)'
      BY DEF DueKept
    <3> QED BY <3>1, <3>2, <3>3
  <2>2. jobs'["recalculation"].sheet = NoTicket
    BY <1>7, NoJobSound
  <2>3. ticket' # NoTicket => DueKept(ticket', vulns')
    <3>1. CASE job.sheet = NoTicket
      <4>1. ticket # NoTicket => DueKept(ticket, vulns)
        BY DEF DuesInv, TicketsSound, TicketDueFollows, DueKept
      <4> QED BY <1>1, <1>9, <3>1, <4>1, BehindKeeps, BehindThere
    <3>2. CASE job.sheet # NoTicket
      <4>1. DueKept(job.sheet, vulns') /\ ticket' = job.sheet
        BY <1>1, <3>2 DEF DuesInv, TicketsSound
      <4> QED BY <4>1
    <3> QED BY <3>1, <3>2
  <2>4. IsSheet(ticket') /\ IsSheet(maker')
    BY <1>1, <1>9, BehindKeeps
  <2>5. TicketDueFollows'
    BY <2>3 DEF TicketDueFollows, DueKept
  <2> QED BY <2>1, <2>2, <2>4, <2>5 DEF TicketsSound, IsSheet
<1>11. MetricsSound'
  <2>1. \A f \in Vulns : /\ vulns[f].there => vulns'[f].there
                         /\ vulns'[f] # vulns[f] => vulns'[f].there
    BY <1>1, <1>2, Landing
  <2> QED BY <1>1, <2>1, MetricsFollow DEF DuesInv
<1> QED BY <1>6, <1>8, <1>10, <1>11 DEF DuesInv

LEMMA DuesInductive == DuesInv /\ [SlaNext]_slaVars => DuesInv'
<1> SUFFICES ASSUME DuesInv, [SlaNext]_slaVars PROVE DuesInv'
  OBVIOUS
<1>1. CASE UNCHANGED slaVars
  <2>1. UNCHANGED <<vulns, sla, ticketVars, jobs, metrics, day, ticked, unchecked, arrived>>
    BY <1>1 DEF slaVars
  <2>2. jobs'["recalculation"] = jobs["recalculation"] /\ sla' \in SlaConfigs /\ arrived' \subseteq unchecked'
    BY <2>1 DEF DuesInv, RowsSound
  <2> QED BY <2>1, <2>2, FindingsIdle, JobsIdle, TicketsIdle, MetricsIdle DEF DuesInv
<1>2. ASSUME NEW f \in Vulns, NEW severity \in SlaSeverities, Reported(f, severity) PROVE DuesInv'
  BY <1>2, ReportKeepsDues
<1>3. ASSUME NEW f \in Vulns, NEW s \in VulnStatuses, UpdateStatus(f, s) PROVE DuesInv'
  BY <1>3, UpdateKeepsDues
<1>4. ASSUME NEW f \in Vulns, SnoozeVuln(f) PROVE DuesInv'
  BY <1>4, SnoozeKeepsDues
<1>5. ASSUME NEW config \in SlaConfigs, SetConfig(config) PROVE DuesInv'
  BY <1>5, ConfigKeepsDues
<1>6. CASE TicketCommits \/ \E members \in (SUBSET Vulns) \ {{}} : MakesTicket(members)
  BY <1>6, MakerKeepsDues
<1>7. ASSUME NEW j \in Jobs, Stamps(j) \/ Flags(j) \/ Clears(j) \/ Fails(j) PROVE DuesInv'
  BY <1>7, StampsKeepDues, FlagsKeepDues, ClearsKeepDues, FailingKeepsDues
<1>8. CASE TickReads \/ RecalculationReads
  BY <1>8, BeginningKeepsDues
<1>9. CASE TickCommits \/ TicketsFollow \/ RecalculationCommits \/ NextDay
  BY <1>9, RoundKeepsDues, TicketsFollowKeeps, RecalculationKeepsDues, DayKeepsDues
<1>10. CASE CountsOpenWithSla \/ CountsBreached \/ ShowsMetrics
  BY <1>10, CountingKeepsDues
<1> QED BY <1>1, <1>2, <1>3, <1>4, <1>5, <1>6, <1>7, <1>8, <1>9, <1>10 DEF SlaNext

\* But for those written between the counts, the flagged and those at risk are
\* two parts of the open findings that were counted first.
LEMMA MetricsOfDues ==
    ASSUME DuesInv, ShowsMetrics
    PROVE  Cardinality(metrics.breached) + Cardinality(AtRisk(metrics.at))
             <= Cardinality(metrics.open) + 2 * Cardinality(metrics.touched)
<1>1. PICK b, r, o, t : b = metrics.breached /\ r = AtRisk(metrics.at) /\ o = metrics.open /\ t = metrics.touched
  OBVIOUS
<1>2. metrics.stage = "breached"
  BY DEF ShowsMetrics
<1>3. b \subseteq Found /\ r \subseteq Found /\ o \subseteq Found /\ t \subseteq Found
  BY <1>1 DEF DuesInv, MetricsSound, AtRisk, OpenWithSla, Found, IsOpen
<1>4. ASSUME NEW f \in Vulns, f \notin t
      PROVE  (f \in b => f \in o) /\ (f \in r => f \in o) /\ ~(f \in b /\ f \in r)
  <2>1. (f \in o <=> f \in OpenWithSla) /\ (f \in b <=> f \in Breached)
    BY <1>1, <1>2, <1>4 DEF DuesInv, MetricsSound
  <2>2. vulns[f].breached => vulns[f].due # Never
    BY DEF DuesInv, RowsSound, RowSound, Never
  <2> QED BY <1>1, <2>1, <2>2 DEF OpenWithSla, Breached, AtRisk
<1>5. Found \subseteq Vulns /\ IsFiniteSet(Found)
  BY DEF DuesInv, RowsSound, Found
<1>6. b \cup r \subseteq o \cup t /\ b \cap r \subseteq t
  BY <1>3, <1>4, <1>5
<1>7. IsFiniteSet(b) /\ IsFiniteSet(r) /\ IsFiniteSet(o) /\ IsFiniteSet(t)
  BY <1>3, <1>5, FS_Subset
<1>8. IsFiniteSet(o \cup t) /\ Cardinality(o \cup t) <= Cardinality(o) + Cardinality(t)
  <2>1. /\ IsFiniteSet(o \cup t)
        /\ Cardinality(o \cup t) = Cardinality(o) + Cardinality(t) - Cardinality(o \cap t)
    BY <1>7, FS_Union
  <2>2. IsFiniteSet(o \cap t)
    BY <1>7, FS_Intersection
  <2>3. Cardinality(o) \in Nat /\ Cardinality(t) \in Nat /\ Cardinality(o \cap t) \in Nat
    BY <1>7, <2>2, FS_CardinalityType
  <2> QED BY <2>1, <2>3
<1>9. Cardinality(b \cup r) <= Cardinality(o \cup t) /\ Cardinality(b \cap r) <= Cardinality(t)
      /\ IsFiniteSet(b \cup r) /\ IsFiniteSet(b \cap r)
  <2>1. b \cup r \in SUBSET (o \cup t) /\ b \cap r \in SUBSET t
    BY <1>6
  <2> QED BY <1>7, <1>8, <2>1, FS_Subset
<1>10. Cardinality(b \cup r) = Cardinality(b) + Cardinality(r) - Cardinality(b \cap r)
  BY <1>7, FS_Union
<1>11. /\ Cardinality(b) \in Nat /\ Cardinality(r) \in Nat /\ Cardinality(o) \in Nat /\ Cardinality(t) \in Nat
       /\ Cardinality(b \cup r) \in Nat /\ Cardinality(b \cap r) \in Nat /\ Cardinality(o \cup t) \in Nat
  BY <1>7, <1>8, <1>9, FS_CardinalityType
<1>12. Cardinality(b) + Cardinality(r) <= Cardinality(o) + 2 * Cardinality(t)
  BY <1>8, <1>9, <1>10, <1>11
<1> QED BY <1>1, <1>12

LEMMA DuesSettled ==
    ASSUME DuesInv, [SlaNext]_slaVars, NEW f \in Vulns, vulns[f].status = "REMEDIATED", vulns'[f].status = "REMEDIATED",
           vulns'[f].remediated = vulns[f].remediated
    PROVE  RemediatedWithin(vulns'[f]) = RemediatedWithin(vulns[f])
<1> SUFFICES vulns'[f].due = vulns[f].due
  BY DEF RemediatedWithin
<1>1. vulns \in [Vulns -> VulnRec] /\ ~IsOpen(vulns[f])
  BY DEF DuesInv, RowsSound, IsOpen
<1>2. ASSUME NEW g \in Vulns, NEW severity \in SlaSeverities, Reported(g, severity) PROVE vulns'[f].due = vulns[f].due
  BY <1>1, <1>2 DEF Reported, Unreported, VulnRec
<1>3. ASSUME NEW g \in Vulns, NEW s \in VulnStatuses, UpdateStatus(g, s) PROVE vulns'[f].due = vulns[f].due
  BY <1>1, <1>3 DEF UpdateStatus, SetsStatus, WithStatus, VulnRec
<1>4. ASSUME NEW g \in Vulns, SnoozeVuln(g) PROVE vulns'[f].due = vulns[f].due
  BY <1>1, <1>4 DEF SnoozeVuln, SetsStatus, VulnRec
<1>5. CASE TickCommits
  <2>1. vulns' = JobSees("tick")
    BY <1>5 DEF TickCommits
  <2> QED BY <1>1, <2>1, SightOf DEF Jobs
<1>6. CASE RecalculationCommits
  <2>1. vulns' = JobSees("recalculation")
    BY <1>6 DEF RecalculationCommits
  <2> QED BY <1>1, <2>1, SightOf DEF Jobs
<1>7. CASE vulns' = vulns
  BY <1>7
<1>8. ASSUME NEW j \in Jobs, Stamps(j) \/ Flags(j) \/ Clears(j) \/ Fails(j) PROVE vulns' = vulns
  BY <1>8 DEF Stamps, Flags, Clears, Fails, JobWrites
<1>9. ASSUME SetConfig(sla') \/ (\E members \in (SUBSET Vulns) \ {{}} : MakesTicket(members)) \/ TicketCommits \/ TickReads
             \/ RecalculationReads \/ TicketsFollow \/ CountsOpenWithSla \/ CountsBreached \/ ShowsMetrics \/ NextDay
      PROVE  vulns' = vulns
  BY <1>9 DEF SetConfig, MakesTicket, TicketCommits, TickReads, RecalculationReads, TicketsFollow, CountsOpenWithSla,
              CountsBreached, ShowsMetrics, NextDay
<1>10. \A config : SetConfig(config) => SetConfig(sla')
  BY DEF SetConfig, Counted
<1>11. UNCHANGED slaVars => vulns' = vulns
  BY DEF slaVars
<1> QED BY <1>2, <1>3, <1>4, <1>5, <1>6, <1>7, <1>8, <1>9, <1>10, <1>11 DEF SlaNext

(* DueDatesFollow, of sla_service.py: an open finding that is late is flagged *)
(* once the scheduler has been round, a ticket has the earliest due date of   *)
(* its findings until one is moved after it was read, neither a change of the *)
(* configuration nor a recalculation moves whether one was remediated in time,*)
(* and the metrics add up but for what is written between the counts.         *)
THEOREM DueDatesAreFollowed == SlaSpec => DueDatesFollow
<1>1. DuesInv => SlaTypeOK /\ FlaggedInTime /\ TicketDueFollows
  <2> SUFFICES ASSUME DuesInv PROVE SlaTypeOK /\ FlaggedInTime
    BY DEF DuesInv, TicketsSound
  <2>1. SlaTypeOK
    <3>1. \A f \in Vulns :
            /\ vulns[f].there \in BOOLEAN /\ vulns[f].status \in VulnStatuses /\ vulns[f].severity \in SlaSeverities
            /\ vulns[f].detected \in {Never} \cup 0 .. day /\ vulns[f].remediated \in {Never} \cup 0 .. day
            /\ vulns[f].there = (vulns[f].detected # Never)
            /\ vulns[f].breached => vulns[f].due \in Nat
      BY DEF DuesInv, RowsSound, RowSound, VulnRec
    <3>2. \A j \in Jobs : jobs[j].config \in SlaConfigs \cup {NoConfig} /\ DOMAIN jobs[j].writes \subseteq Vulns
      BY DEF DuesInv, JobsSound, JobSound, JobShape
    <3>3. /\ sla \in SlaConfigs /\ ticket.members \subseteq Vulns /\ maker.members \subseteq Vulns
          /\ metrics.open \cup metrics.breached \cup metrics.touched \subseteq Vulns
          /\ day \in 0 .. MaxDay /\ ticked \in BOOLEAN /\ arrived \subseteq unchecked /\ unchecked \subseteq Vulns
      BY DEF DuesInv, RowsSound, TicketsSound, IsSheet, MetricsSound, Found
    <3> QED BY <3>1, <3>2, <3>3 DEF SlaTypeOK
  <2>2. FlaggedInTime
    BY DEF DuesInv, RowsSound, FlagSound, FlaggedInTime, Never
  <2> QED BY <2>1, <2>2
<1>2. DuesInv /\ [SlaNext]_slaVars =>
        [\A f \in Vulns :
           vulns[f].status = "REMEDIATED" /\ vulns'[f].status = "REMEDIATED"
           /\ vulns'[f].remediated = vulns[f].remediated
           => RemediatedWithin(vulns'[f]) = RemediatedWithin(vulns[f])]_slaVars
  BY DuesSettled
<1>3. DuesInv /\ [SlaNext]_slaVars =>
        [ShowsMetrics =>
           Cardinality(metrics.breached) + Cardinality(AtRisk(metrics.at))
             <= Cardinality(metrics.open) + 2 * Cardinality(metrics.touched)]_slaVars
  BY MetricsOfDues
<1> QED BY <1>1, <1>2, <1>3, DuesStart, DuesInductive, PTL DEF SlaSpec, DueDatesFollow, ComplianceStands, MetricsAddUp

-----------------------------------------------------------------------------
(* Closing and opening: a transaction holds the rows it has written, so what  *)
(* it matched by its status still has it when it commits.                     *)

SuppressionSpec == SuppressionInit /\ [][SuppressionNext]_suppressionVars

RequestKinds == {"none", "status", "bulk", "snooze", "unsnooze", "ignore", "restore", "sync"}
PartWrites == UNION {[part -> ItemStatuses] : part \in SUBSET Items}
RequestRec ==
    [stage : {"closed", "begun", "changed", "read", "scored"}, kind : RequestKinds, aim : SUBSET Items,
     to : ItemStatuses, writes : PartWrites, sum : Int, stale : BOOLEAN]
RequestShapes ==
    /\ status \in [Items -> ItemStatuses] /\ score \in Nat /\ calls \in [Calls -> RequestRec]
    /\ owed \in BOOLEAN /\ begunCalls \in 0 .. MaxCalls
Written(r) == DOMAIN calls[r].writes
\* What has been written is of what is named, and has the status it was found by.
WritesMatched ==
    \A r \in Calls :
        /\ calls[r].stage \in {"closed", "begun"} => Written(r) = {}
        /\ Written(r) \subseteq calls[r].aim
        /\ calls[r].kind \in {"none", "sync"} => calls[r].aim = {}
        /\ calls[r].kind = "ignore" => \A i \in Written(r) : status[i] = "OPEN"
        /\ calls[r].kind = "restore" => \A i \in Written(r) : status[i] = "SUPPRESSED"
RowsLocked == \A r, u \in Calls : r # u => Written(r) \cap Written(u) = {}
\* A sum that nobody has overtaken is the one of the rows as the request sees them.
SumsRight ==
    \A r \in Calls : calls[r].stage \in {"read", "scored"} =>
        calls[r].sum \in Nat /\ (~calls[r].stale => calls[r].sum = ScoreFor(Seen(r)))
RequestsInv == RequestShapes /\ WritesMatched /\ RowsLocked /\ SumsRight /\ ScoreFollows

LEMMA NothingWritten == <<>> \in PartWrites /\ DOMAIN <<>> = {}
<1>1. DOMAIN <<>> = {} /\ <<>> \in [{} -> ItemStatuses]
  OBVIOUS
<1> QED BY <1>1 DEF PartWrites

LEMMA ClosedShape ==
    /\ Closed \in RequestRec /\ Closed.stage = "closed" /\ DOMAIN Closed.writes = {} /\ Closed.aim = {} /\ Closed.kind = "none"
BY NothingWritten DEF Closed, RequestRec, RequestKinds, NoScore, ItemStatuses

LEMMA ScoresAreNumbers == ASSUME NEW view PROVE ScoreFor(view) \in Nat
<1>1. OpenItems(view) \in SUBSET Items
  BY DEF OpenItems
<1> QED BY <1>1, SuppressionBounds DEF ScoreFor

LEMMA RequestsStart == SuppressionInit => RequestsInv
<1> SUFFICES ASSUME SuppressionInit PROVE RequestsInv
  OBVIOUS
<1>1. \A r \in Calls : calls[r] = Closed
  BY DEF SuppressionInit
<1>2. RequestShapes
  <2>1. score \in Nat
    BY ScoresAreNumbers DEF SuppressionInit
  <2>2. 0 \in 0 .. MaxCalls
    BY SuppressionBounds
  <2> QED BY <2>1, <2>2, ClosedShape DEF SuppressionInit, RequestShapes
<1>3. WritesMatched /\ RowsLocked /\ SumsRight
  BY <1>1, ClosedShape DEF WritesMatched, RowsLocked, SumsRight, Written
<1>4. ScoreFollows
  BY DEF SuppressionInit, ScoreFollows
<1> QED BY <1>2, <1>3, <1>4 DEF RequestsInv

\* A step of one transaction that commits nothing.
LEMMA OwnStepKeeps ==
    ASSUME RequestsInv, NEW r \in Calls, NEW q \in RequestRec, calls' = [calls EXCEPT ![r] = q],
           UNCHANGED <<status, score, owed>>, begunCalls' \in 0 .. MaxCalls,
           q.stage \in {"closed", "begun"} => DOMAIN q.writes = {},
           DOMAIN q.writes \subseteq q.aim,
           q.kind \in {"none", "sync"} => q.aim = {},
           q.kind = "ignore" => \A i \in DOMAIN q.writes : status[i] = "OPEN",
           q.kind = "restore" => \A i \in DOMAIN q.writes : status[i] = "SUPPRESSED",
           \A u \in Calls \ {r} : DOMAIN q.writes \cap Written(u) = {},
           q.stage \in {"read", "scored"} => q.sum \in Nat /\ (~q.stale => q.sum = ScoreFor(Seen(r)'))
    PROVE  RequestsInv'
<1>1. \A u \in Calls : calls'[u] = IF u = r THEN q ELSE calls[u]
  BY DEF RequestsInv, RequestShapes
<1>2. RequestShapes'
  BY DEF RequestsInv, RequestShapes
<1>3. WritesMatched' /\ RowsLocked'
  BY <1>1 DEF RequestsInv, WritesMatched, RowsLocked, Written
<1>4. SumsRight'
  <2> SUFFICES ASSUME NEW u \in Calls, calls'[u].stage \in {"read", "scored"}
               PROVE  calls'[u].sum \in Nat /\ (~calls'[u].stale => calls'[u].sum = ScoreFor(Seen(u)'))
    BY DEF SumsRight
  <2>1. CASE u = r
    BY <1>1, <2>1
  <2>2. CASE u # r
    <3>1. Seen(u)' = Seen(u)
      BY <1>1, <2>2 DEF Seen
    <3> QED BY <1>1, <2>2, <3>1 DEF RequestsInv, SumsRight
  <2> QED BY <2>1, <2>2
<1>5. ScoreFollows'
  BY DEF RequestsInv, ScoreFollows, ScoreFor
<1> QED BY <1>2, <1>3, <1>4, <1>5 DEF RequestsInv

LEMMA RequestKeeps ==
    ASSUME RequestsInv, NEW r \in Calls, NEW kind \in RequestKinds, NEW aim \in SUBSET Items, NEW to \in ItemStatuses,
           kind \in {"none", "sync"} => aim = {}, Request(r, kind, aim, to)
    PROVE  RequestsInv'
<1> DEFINE q == [Closed EXCEPT !.stage = "begun", !.kind = kind, !.aim = aim, !.to = to]
<1>1. /\ q \in RequestRec /\ q.stage = "begun" /\ q.kind = kind /\ q.aim = aim /\ q.writes = Closed.writes
  BY ClosedShape DEF Closed, RequestRec
<1>2. begunCalls' \in 0 .. MaxCalls
  BY SuppressionBounds DEF Request, RequestsInv, RequestShapes
<1>3. calls' = [calls EXCEPT ![r] = q] /\ UNCHANGED <<status, score, owed>>
  BY DEF Request
<1> HIDE DEF q
<1> QED BY <1>1, <1>2, <1>3, ClosedShape, OwnStepKeeps

LEMMA BeginsKeeps ==
    ASSUME RequestsInv, NEW r \in Calls, Begins(r) PROVE RequestsInv'
<1>1. \A b \in Bundles : b \in SUBSET Items
  BY SuppressionBounds
<1>2. {"status", "bulk", "snooze", "unsnooze", "ignore", "restore", "sync"} \subseteq RequestKinds
      /\ "OPEN" \in ItemStatuses /\ "SUPPRESSED" \in ItemStatuses
  BY DEF RequestKinds, ItemStatuses
<1>3. ASSUME NEW kind \in RequestKinds, NEW aim \in SUBSET Items, NEW to \in ItemStatuses,
             kind \in {"none", "sync"} => aim = {}, Request(r, kind, aim, to)
      PROVE  RequestsInv'
  BY <1>3, RequestKeeps
<1>4. CASE \E i \in Items, to \in ItemStatuses : Request(r, "status", {i}, to)
  BY <1>2, <1>3, <1>4
<1>5. CASE \E some \in (SUBSET Items) \ {{}}, to \in ItemStatuses : Request(r, "bulk", some, to)
  BY <1>2, <1>3, <1>5
<1>6. CASE \E i \in Items : Request(r, "snooze", {i}, "SUPPRESSED") \/ Request(r, "unsnooze", {i}, "OPEN")
  BY <1>2, <1>3, <1>6
<1>7. CASE \E b \in Bundles : Request(r, "ignore", b, "SUPPRESSED") \/ Request(r, "restore", b, "OPEN")
  BY <1>1, <1>2, <1>3, <1>7
<1>8. CASE Request(r, "sync", {}, "OPEN")
  BY <1>2, <1>3, <1>8
<1> QED BY <1>4, <1>5, <1>6, <1>7, <1>8 DEF Begins

LEMMA ChangeKeeps ==
    ASSUME RequestsInv, NEW r \in Calls, ChangesStatus(r) PROVE RequestsInv'
<1> DEFINE part == Matches(calls[r], status)
           w == [i \in part |-> calls[r].to]
           q == [calls[r] EXCEPT !.stage = "changed", !.writes = w]
<1>1. calls \in [Calls -> RequestRec] /\ calls[r] \in RequestRec /\ calls[r].stage = "begun"
      /\ calls[r].aim \in SUBSET Items /\ calls[r].to \in ItemStatuses
      /\ \A u \in Calls \ {r} : calls[r].aim \cap Written(u) = {}
  BY DEF ChangesStatus, RequestsInv, RequestShapes, RequestRec, Written
<1>2. part \subseteq calls[r].aim
      /\ (calls[r].kind = "ignore" => \A i \in part : status[i] = "OPEN")
      /\ (calls[r].kind = "restore" => \A i \in part : status[i] = "SUPPRESSED")
  BY DEF Matches
<1> HIDE DEF part
<1>3. w \in PartWrites /\ DOMAIN w = part
  BY <1>1, <1>2 DEF PartWrites
<1>4. calls' = [calls EXCEPT ![r] = q] /\ UNCHANGED <<status, score, owed, begunCalls>>
  BY <1>1 DEF ChangesStatus, part
<1> HIDE DEF w
<1>5. /\ q \in RequestRec /\ q.stage = "changed" /\ q.kind = calls[r].kind /\ q.aim = calls[r].aim /\ q.writes = w
  BY <1>1, <1>3 DEF RequestRec
<1> HIDE DEF q
<1>6. q.kind \in {"none", "sync"} => q.aim = {}
  BY <1>5 DEF RequestsInv, WritesMatched
<1>7. begunCalls' \in 0 .. MaxCalls
  BY <1>4 DEF RequestsInv, RequestShapes
<1>8. \A u \in Calls \ {r} : DOMAIN q.writes \cap Written(u) = {}
  BY <1>1, <1>2, <1>3, <1>5
<1> QED BY <1>2, <1>3, <1>4, <1>5, <1>6, <1>7, <1>8, OwnStepKeeps

\* A transaction that goes on with what it has written.
LEMMA GoingOnKeeps ==
    ASSUME RequestsInv, NEW r \in Calls, NEW stage \in {"read", "scored"}, NEW sum \in Nat, NEW stale \in BOOLEAN,
           calls' = [calls EXCEPT ![r] = [calls[r] EXCEPT !.stage = stage, !.sum = sum, !.stale = stale]],
           ~stale => sum = ScoreFor(Seen(r)), UNCHANGED <<status, score, owed, begunCalls>>
    PROVE  RequestsInv'
<1> DEFINE q == [calls[r] EXCEPT !.stage = stage, !.sum = sum, !.stale = stale]
<1>1. calls \in [Calls -> RequestRec] /\ calls[r] \in RequestRec
  BY DEF RequestsInv, RequestShapes
<1>2. /\ q \in RequestRec /\ q.stage = stage /\ q.kind = calls[r].kind /\ q.aim = calls[r].aim
      /\ q.writes = calls[r].writes /\ q.sum = sum /\ q.stale = stale
  <2>1. stage \in {"closed", "begun", "changed", "read", "scored"} /\ sum \in Int
    OBVIOUS
  <2> QED BY <1>1, <2>1 DEF RequestRec
<1> HIDE DEF q
<1>3. /\ DOMAIN q.writes \subseteq q.aim /\ (q.kind \in {"none", "sync"} => q.aim = {})
      /\ (q.kind = "ignore" => \A i \in DOMAIN q.writes : status[i] = "OPEN")
      /\ (q.kind = "restore" => \A i \in DOMAIN q.writes : status[i] = "SUPPRESSED")
  BY <1>2 DEF RequestsInv, WritesMatched, Written
<1>4. \A u \in Calls \ {r} : DOMAIN q.writes \cap Written(u) = {}
  BY <1>2 DEF RequestsInv, RowsLocked, Written
<1>5. Seen(r)' = Seen(r)
  <2>1. calls'[r] = q
    BY <1>1 DEF q
  <2> QED BY <1>2, <2>1 DEF Seen
<1>6. begunCalls' \in 0 .. MaxCalls /\ calls' = [calls EXCEPT ![r] = q]
  BY DEF RequestsInv, RequestShapes, q
<1>7. q.stage \notin {"closed", "begun"} /\ q.sum \in Nat /\ (~q.stale => q.sum = ScoreFor(Seen(r)'))
  BY <1>2, <1>5
<1> QED BY <1>2, <1>3, <1>4, <1>6, <1>7, OwnStepKeeps

LEMMA ReadingKeepsRequests ==
    ASSUME RequestsInv, NEW r \in Calls, ReadsOpen(r) \/ WritesScore(r) PROVE RequestsInv'
<1>1. calls \in [Calls -> RequestRec] /\ calls[r] \in RequestRec
  BY DEF RequestsInv, RequestShapes
<1>2. CASE ReadsOpen(r)
  <2>1. calls' = [calls EXCEPT ![r] = [calls[r] EXCEPT !.stage = "read", !.sum = ScoreFor(Seen(r)), !.stale = FALSE]]
        /\ UNCHANGED <<status, score, owed, begunCalls>>
    BY <1>1, <1>2 DEF ReadsOpen
  <2>2. ScoreFor(Seen(r)) \in Nat
    BY ScoresAreNumbers
  <2> QED BY <2>1, <2>2, GoingOnKeeps
<1>3. CASE WritesScore(r)
  <2>1. calls[r].stage = "read" /\ UNCHANGED <<status, score, owed, begunCalls>>
        /\ calls' = [calls EXCEPT ![r] = [calls[r] EXCEPT !.stage = "scored"]]
    BY <1>1, <1>3 DEF WritesScore
  <2>2. calls[r].sum \in Nat /\ (~calls[r].stale => calls[r].sum = ScoreFor(Seen(r))) /\ calls[r].stale \in BOOLEAN
    BY <1>1, <2>1 DEF RequestsInv, SumsRight, RequestRec
  <2>3. [calls[r] EXCEPT !.stage = "scored"] =
          [calls[r] EXCEPT !.stage = "scored", !.sum = calls[r].sum, !.stale = calls[r].stale]
    BY <1>1 DEF RequestRec
  <2> QED BY <2>1, <2>2, <2>3, GoingOnKeeps
<1> QED BY <1>2, <1>3

LEMMA GivingUpKeeps ==
    ASSUME RequestsInv, NEW r \in Calls, GivesUp(r) PROVE RequestsInv'
<1>1. calls' = [calls EXCEPT ![r] = Closed] /\ UNCHANGED <<status, score, owed, begunCalls>>
      /\ begunCalls' \in 0 .. MaxCalls
  BY DEF GivesUp, RequestsInv, RequestShapes
<1> QED BY <1>1, ClosedShape, OwnStepKeeps

\* A commit: the others keep their rows, and what they had read is stale if
\* it opened or closed a finding.
LEMMA FinishKeeps ==
    ASSUME RequestsInv, NEW r \in Calls, Finishes(r) PROVE RequestsInv'
<1> DEFINE q == calls[r]
           shifted == OpenItems(Seen(r)) # OpenItems(status)
<1>1. calls \in [Calls -> RequestRec] /\ q \in RequestRec /\ status \in [Items -> ItemStatuses]
      /\ q.writes \in PartWrites /\ q.stale \in BOOLEAN /\ score \in Nat
  BY DEF RequestsInv, RequestShapes, RequestRec
<1>2. /\ q.stage = IF Rescores(q) THEN "scored" ELSE "changed"
      /\ status' = Seen(r) /\ begunCalls' = begunCalls
      /\ score' = IF Rescores(q) THEN q.sum ELSE score
      /\ owed' = IF Rescores(q) THEN q.stale ELSE owed \/ shifted
      /\ calls' = [u \in Calls |-> IF u = r THEN Closed ELSE [calls[u] EXCEPT !.stale = @ \/ shifted]]
  BY DEF Finishes
<1>3. status' \in [Items -> ItemStatuses]
      /\ \A i \in Items : status'[i] = IF i \in Written(r) THEN q.writes[i] ELSE status[i]
  <2>1. \A i \in DOMAIN q.writes : q.writes[i] \in ItemStatuses
    BY <1>1 DEF PartWrites
  <2> QED BY <1>1, <1>2, <2>1 DEF Seen, Written
<1> HIDE DEF shifted
<1>4. calls'[r] = Closed
      /\ \A u \in Calls \ {r} :
           /\ calls'[u] \in RequestRec /\ calls'[u].stage = calls[u].stage /\ calls'[u].kind = calls[u].kind
           /\ calls'[u].aim = calls[u].aim /\ calls'[u].writes = calls[u].writes /\ calls'[u].sum = calls[u].sum
           /\ calls'[u].stale = (calls[u].stale \/ shifted)
  <2> SUFFICES ASSUME NEW u \in Calls \ {r}
               PROVE  /\ calls'[u] \in RequestRec /\ calls'[u].stage = calls[u].stage /\ calls'[u].kind = calls[u].kind
                      /\ calls'[u].aim = calls[u].aim /\ calls'[u].writes = calls[u].writes /\ calls'[u].sum = calls[u].sum
                      /\ calls'[u].stale = (calls[u].stale \/ shifted)
    BY <1>2
  <2>1. calls[u] \in RequestRec /\ calls'[u] = [calls[u] EXCEPT !.stale = calls[u].stale \/ shifted]
    BY <1>1, <1>2
  <2>2. (calls[u].stale \/ shifted) \in BOOLEAN
    OBVIOUS
  <2> QED BY <2>1, <2>2 DEF RequestRec
<1>5. RequestShapes'
  <2>1. score' \in Nat
    BY <1>1, <1>2 DEF RequestsInv, SumsRight
  <2>2. owed' \in BOOLEAN
    BY <1>1, <1>2
  <2>3. \A u \in Calls : calls'[u] \in RequestRec
    BY <1>4, ClosedShape
  <2>4. calls' \in [Calls -> RequestRec]
    BY <1>2, <2>3
  <2> QED BY <1>2, <1>3, <2>1, <2>2, <2>4 DEF RequestsInv, RequestShapes
<1>6. \A u \in Calls : Written(u)' = IF u = r THEN {} ELSE Written(u)
  BY <1>4, ClosedShape DEF Written
<1>7. RowsLocked'
  BY <1>6 DEF RequestsInv, RowsLocked
<1>8. WritesMatched'
  <2> SUFFICES ASSUME NEW u \in Calls
               PROVE  /\ calls'[u].stage \in {"closed", "begun"} => Written(u)' = {}
                      /\ Written(u)' \subseteq calls'[u].aim
                      /\ calls'[u].kind \in {"none", "sync"} => calls'[u].aim = {}
                      /\ calls'[u].kind = "ignore" => \A i \in Written(u)' : status'[i] = "OPEN"
                      /\ calls'[u].kind = "restore" => \A i \in Written(u)' : status'[i] = "SUPPRESSED"
    BY DEF WritesMatched, Written
  <2>1. CASE u = r
    BY <1>4, <1>6, <2>1, ClosedShape
  <2>2. CASE u # r
    <3>1. \A i \in Written(u) : i \in Items /\ i \notin Written(r)
      BY <1>1, <2>2 DEF RequestsInv, RowsLocked, WritesMatched, RequestRec
    <3>2. \A i \in Written(u) : status'[i] = status[i]
      BY <1>3, <3>1
    <3> QED BY <1>4, <1>6, <2>2, <3>2 DEF RequestsInv, WritesMatched
  <2> QED BY <2>1, <2>2
<1>9. SumsRight'
  <2> SUFFICES ASSUME NEW u \in Calls \ {r}, calls[u].stage \in {"read", "scored"}
               PROVE  calls[u].sum \in Nat /\ (~calls[u].stale /\ ~shifted => calls[u].sum = ScoreFor(Seen(u)'))
    BY <1>4, ClosedShape DEF SumsRight
  <2>1. ~shifted => OpenItems(Seen(u)') = OpenItems(Seen(u))
    <3> SUFFICES ASSUME ~shifted, NEW i \in Items PROVE (Seen(u)'[i] = "OPEN") <=> (Seen(u)[i] = "OPEN")
      BY DEF OpenItems
    <3>1. (status'[i] = "OPEN") <=> (status[i] = "OPEN")
      BY <1>2 DEF shifted, OpenItems
    <3>2. /\ Seen(u)[i] = IF i \in DOMAIN calls[u].writes THEN calls[u].writes[i] ELSE status[i]
          /\ Seen(u)'[i] = IF i \in DOMAIN calls'[u].writes THEN calls'[u].writes[i] ELSE status'[i]
      BY DEF Seen
    <3> QED BY <1>4, <3>1, <3>2
  <2> QED BY <2>1 DEF RequestsInv, SumsRight, ScoreFor
<1>10. ScoreFollows'
  <2>1. CASE Rescores(q)
    BY <1>2, <2>1 DEF RequestsInv, SumsRight, ScoreFollows
  <2>2. CASE ~Rescores(q)
    BY <1>2, <2>2 DEF RequestsInv, ScoreFollows, ScoreFor, shifted
  <2> QED BY <2>1, <2>2
<1> QED BY <1>5, <1>7, <1>8, <1>9, <1>10 DEF RequestsInv

LEMMA RequestsInductive == RequestsInv /\ [SuppressionNext]_suppressionVars => RequestsInv'
<1> SUFFICES ASSUME RequestsInv, [SuppressionNext]_suppressionVars PROVE RequestsInv'
  OBVIOUS
<1>1. CASE UNCHANGED suppressionVars
  BY <1>1 DEF suppressionVars, RequestsInv, RequestShapes, WritesMatched, RowsLocked, SumsRight, ScoreFollows, Written, Seen
<1>2. ASSUME NEW r \in Calls, Begins(r) \/ ChangesStatus(r) \/ ReadsOpen(r) \/ WritesScore(r) \/ Finishes(r) \/ GivesUp(r)
      PROVE  RequestsInv'
  BY <1>2, BeginsKeeps, ChangeKeeps, ReadingKeepsRequests, FinishKeeps, GivingUpKeeps
<1> QED BY <1>1, <1>2 DEF SuppressionNext

\* A status that changes was written by a request that was about the finding.
LEMMA VerdictTouched ==
    ASSUME RequestsInv, [SuppressionNext]_suppressionVars, NEW i \in Items,
           status[i] \in {"REMEDIATED", "FALSE_POSITIVE"}, status'[i] # status[i]
    PROVE  \E r \in Calls : calls[r].kind \in {"status", "bulk", "snooze", "unsnooze"} /\ i \in calls[r].aim
                            /\ calls'[r].stage = "closed"
<1>1. PICK r \in Calls : Finishes(r)
  BY DEF SuppressionNext, suppressionVars, Begins, Request, ChangesStatus, ReadsOpen, WritesScore, GivesUp
<1>2. status' = Seen(r) /\ calls'[r] = Closed
  BY <1>1 DEF Finishes
<1>3. i \in Written(r)
  BY <1>2 DEF Seen, Written
<1>4. i \in calls[r].aim /\ calls[r].kind \notin {"none", "sync", "ignore", "restore"}
  BY <1>3 DEF RequestsInv, WritesMatched
<1>5. calls[r].kind \in RequestKinds
  BY DEF RequestsInv, RequestShapes, RequestRec
<1> QED BY <1>2, <1>4, <1>5, ClosedShape DEF RequestKinds

(* SuppressionSound, of the requests of vulnerabilities/router.py: the score   *)
(* of an asset is that of its open findings, but for requests that do not     *)
(* compute it or that another overtook, and no ignoring or restoring of a CVE *)
(* or a remediation undoes a verdict.                                         *)
THEOREM SuppressionIsSound == SuppressionSpec => SuppressionSound
<1>1. RequestsInv => SuppressionTypeOK /\ ScoreFollows
  <2> SUFFICES ASSUME RequestsInv PROVE SuppressionTypeOK
    BY DEF RequestsInv
  <2>1. \A r \in Calls : calls[r] \in RequestRec
    BY DEF RequestsInv, RequestShapes
  <2>2. \A r \in Calls : calls[r].stage \in {"closed", "begun", "changed", "read", "scored"}
    BY <2>1 DEF RequestRec
  <2>3. \A r \in Calls : DOMAIN calls[r].writes \subseteq Items
    BY <2>1 DEF RequestRec, PartWrites
  <2> QED BY <2>2, <2>3 DEF RequestsInv, RequestShapes, SuppressionTypeOK
<1>2. RequestsInv /\ [SuppressionNext]_suppressionVars =>
        [\A i \in Items :
           status[i] \in {"REMEDIATED", "FALSE_POSITIVE"} /\ status'[i] # status[i]
           => \E r \in Calls : calls[r].kind \in {"status", "bulk", "snooze", "unsnooze"} /\ i \in calls[r].aim
                               /\ calls'[r].stage = "closed"]_suppressionVars
  BY VerdictTouched
<1> QED BY <1>1, <1>2, RequestsStart, RequestsInductive, PTL DEF SuppressionSpec, SuppressionSound, VerdictsStand

-----------------------------------------------------------------------------
(* Alerts: where the last announcement of a key still stands, in the run that *)
(* made it or among the committed notifications.                              *)

AlertsSpec == AlertsInit /\ [][AlertsNext]_alertVars

Said == [at : Int, undone : BOOLEAN, turn : BOOLEAN]
AlertShapes ==
    /\ topic \in Topics /\ hour \in Nat
    /\ alertRun \in [on : BOOLEAN, todo : SUBSET Subjects, new : SUBSET Keys]
    /\ said \in [Keys -> Said]
RunHolds ==
    /\ ~alertRun.on => alertRun.todo = {} /\ alertRun.new = {}
    /\ \A k \in alertRun.new : said[k].at = hour
LastStands ==
    \A k \in Keys : said[k].at # Unknown /\ ~said[k].undone =>
        k \in alertRun.new \/ <<k, said[k].at>> \in notes
AlertsInv == AlertShapes /\ RunHolds /\ LastStands

LEMMA AlertsStart == AlertsInit => AlertsInv
<1> SUFFICES ASSUME AlertsInit PROVE AlertsInv
  OBVIOUS
<1>1. /\ NoRun.on = FALSE /\ NoRun.todo = {} /\ NoRun.new = {}
      /\ NoRun \in [on : BOOLEAN, todo : SUBSET Subjects, new : SUBSET Keys]
  BY DEF NoRun
<1>2. Silent \in Said /\ Silent.at = Unknown
  BY DEF Silent, Said, Unknown
<1>3. said \in [Keys -> Said] /\ \A k \in Keys : said[k].at = Unknown
  BY <1>2 DEF AlertsInit
<1> QED BY <1>1, <1>3 DEF AlertsInit, AlertsInv, AlertShapes, RunHolds, LastStands

\* A step that touches neither the run, the announcements nor the
\* notifications, and not the hour, keeps the invariant.
LEMMA AlertsIdle ==
    ASSUME AlertsInv, UNCHANGED <<topic, notes, alertRun, said, hour>>
    PROVE  AlertsInv'
BY DEF AlertsInv, AlertShapes, RunHolds, LastStands

LEMMA RunBeginsKeeps ==
    ASSUME AlertsInv, AlertRunBegins PROVE AlertsInv'
<1>1. alertRun.new = {} /\ ~alertRun.on
  BY DEF AlertsInv, RunHolds, AlertRunBegins
<1>2. /\ alertRun'.on = TRUE /\ alertRun'.new = {}
      /\ alertRun' \in [on : BOOLEAN, todo : SUBSET Subjects, new : SUBSET Keys]
  BY DEF AlertRunBegins
<1>3. UNCHANGED <<topic, notes, said, hour>>
  BY DEF AlertRunBegins
<1> QED BY <1>1, <1>2, <1>3 DEF AlertsInv, AlertShapes, RunHolds, LastStands

\* An announcement is entered in the run, at this hour.
LEMMA AnnouncesKeeps ==
    ASSUME AlertsInv, NEW s \in Subjects, AlertsOn(s) PROVE AlertsInv'
<1> DEFINE key == KeyOf[s]
<1>1. /\ key \in Keys /\ alertRun.on /\ s \in alertRun.todo
      /\ UNCHANGED <<topic, notes, hour>>
  BY DEF AlertsOn, Keys, AlertsInv, RunHolds
<1>2. CASE NotificationExists(key)
  <2>1. alertRun' = [alertRun EXCEPT !.todo = @ \ {s}] /\ said' = said
    BY <1>2 DEF AlertsOn
  <2>2. /\ alertRun' \in [on : BOOLEAN, todo : SUBSET Subjects, new : SUBSET Keys]
        /\ alertRun'.on /\ alertRun'.new = alertRun.new
    BY <1>1, <2>1 DEF AlertsInv, AlertShapes
  <2> QED BY <1>1, <2>1, <2>2 DEF AlertsInv, AlertShapes, RunHolds, LastStands
<1>3. CASE ~NotificationExists(key)
  <2>1. /\ alertRun' = [alertRun EXCEPT !.todo = @ \ {s}, !.new = @ \cup {key}]
        /\ said' = [said EXCEPT ![key] = [at |-> hour, undone |-> FALSE, turn |-> ~said[key].turn]]
    BY <1>3 DEF AlertsOn
  <2>2. /\ alertRun' \in [on : BOOLEAN, todo : SUBSET Subjects, new : SUBSET Keys]
        /\ alertRun'.on /\ alertRun'.new = alertRun.new \cup {key}
    BY <1>1, <2>1 DEF AlertsInv, AlertShapes
  <2>3. /\ said' \in [Keys -> Said]
        /\ said'[key].at = hour
        /\ \A k \in Keys : k # key => said'[k] = said[k]
    BY <1>1, <2>1 DEF AlertsInv, AlertShapes, Said
  <2> QED BY <1>1, <2>2, <2>3 DEF AlertsInv, AlertShapes, RunHolds, LastStands
<1> QED BY <1>2, <1>3

\* What the run announced becomes notifications of this hour.
LEMMA CommitKeeps ==
    ASSUME AlertsInv, AlertRunCommits PROVE AlertsInv'
<1>1. /\ notes' = notes \cup (alertRun.new \X {hour})
      /\ alertRun' = NoRun /\ UNCHANGED <<topic, said, hour>>
  BY DEF AlertRunCommits
<1>2. LastStands'
  <2> SUFFICES ASSUME NEW k \in Keys, said[k].at # Unknown, ~said[k].undone
               PROVE  <<k, said[k].at>> \in notes'
    BY <1>1 DEF LastStands, Keys
  <2>1. CASE k \in alertRun.new
    BY <1>1, <2>1 DEF AlertsInv, RunHolds
  <2>2. CASE <<k, said[k].at>> \in notes
    BY <1>1, <2>2
  <2> QED BY <2>1, <2>2 DEF AlertsInv, LastStands
<1> QED BY <1>1, <1>2 DEF AlertsInv, AlertShapes, RunHolds, NoRun

\* A run that is lost takes its announcements with it.
LEMMA LossKeeps ==
    ASSUME AlertsInv, AlertRunLost PROVE AlertsInv'
<1>1. /\ said' = [k \in Keys |-> IF k \in alertRun.new THEN [said[k] EXCEPT !.undone = TRUE] ELSE said[k]]
      /\ alertRun' = NoRun /\ UNCHANGED <<topic, notes, hour>>
  BY DEF AlertRunLost
<1>2. /\ said' \in [Keys -> Said]
      /\ \A k \in Keys : said'[k].at = said[k].at
      /\ \A k \in Keys : ~said'[k].undone => k \notin alertRun.new /\ ~said[k].undone
  BY <1>1 DEF AlertsInv, AlertShapes, Said
<1> QED BY <1>1, <1>2 DEF AlertsInv, AlertShapes, RunHolds, LastStands, NoRun

\* A notification that is deleted was the last of its key, or another stands.
LEMMA DeletionKeeps ==
    ASSUME AlertsInv, NEW n \in notes, DeletesNote(n) PROVE AlertsInv'
<1>1. /\ notes' = notes \ {n}
      /\ said' = [said EXCEPT ![n[1]] = [said[n[1]] EXCEPT !.undone = TRUE]]
      /\ UNCHANGED <<topic, alertRun, hour>>
  BY DEF DeletesNote
<1>2. /\ said' \in [Keys -> Said]
      /\ \A k \in Keys : said'[k].at = said[k].at
      /\ \A k \in Keys : ~said'[k].undone => k # n[1] /\ ~said[k].undone
  BY <1>1 DEF AlertsInv, AlertShapes, Said
<1>3. \A k \in Keys : k # n[1] => <<k, said[k].at>> # n
  OBVIOUS
<1> QED BY <1>1, <1>2, <1>3 DEF AlertsInv, AlertShapes, RunHolds, LastStands

LEMMA HourKeeps ==
    ASSUME AlertsInv, HourPasses PROVE AlertsInv'
<1>1. /\ hour' = hour + 1 /\ ~alertRun.on /\ UNCHANGED <<topic, notes, alertRun, said>>
  BY DEF HourPasses
<1>2. alertRun.new = {}
  BY <1>1 DEF AlertsInv, RunHolds
<1> QED BY <1>1, <1>2 DEF AlertsInv, AlertShapes, RunHolds, LastStands

LEMMA AlertsInductive == AlertsInv /\ [AlertsNext]_alertVars => AlertsInv'
<1> SUFFICES ASSUME AlertsInv, [AlertsNext]_alertVars PROVE AlertsInv'
  OBVIOUS
<1>1. CASE UNCHANGED alertVars
  BY <1>1, AlertsIdle DEF alertVars
<1>2. ASSUME NEW s \in Subjects,
             DetectsCritical(s) \/ CommitsCritical(s) \/ GetsDue(s) \/ ClosesDue(s) \/ SyncEnds(s)
      PROVE  AlertsInv'
  BY <1>2, AlertsIdle DEF DetectsCritical, CommitsCritical, GetsDue, ClosesDue, SyncEnds, Becomes
<1>3. ASSUME NEW s \in Subjects, AlertsOn(s) PROVE AlertsInv'
  BY <1>3, AnnouncesKeeps
<1>4. CASE AlertRunBegins \/ AlertRunCommits \/ AlertRunLost \/ HourPasses
  BY <1>4, RunBeginsKeeps, CommitKeeps, LossKeeps, HourKeeps
<1>5. ASSUME NEW n \in notes, DeletesNote(n) PROVE AlertsInv'
  BY <1>5, DeletionKeeps
<1> QED BY <1>1, <1>2, <1>3, <1>4, <1>5 DEF AlertsNext

\* Only an announcement turns a key, and it finds no notification that stands.
LEMMA Announced ==
    ASSUME AlertsInv, [AlertsNext]_alertVars, NEW k \in Keys,
           said'[k].turn # said[k].turn, said[k].at # Unknown
    PROVE  said[k].undone \/ said'[k].at > said[k].at + Lookback[topic]
<1>1. said \in [Keys -> Said] /\ hour \in Nat /\ topic \in Topics
  BY DEF AlertsInv, AlertShapes
<1>2. CASE said' = said
  BY <1>2
<1>3. CASE AlertRunLost
  BY <1>1, <1>3 DEF AlertRunLost, Said
<1>4. ASSUME NEW n \in notes, DeletesNote(n) PROVE FALSE
  <2>1. said' = [said EXCEPT ![n[1]] = [said[n[1]] EXCEPT !.undone = TRUE]]
    BY <1>4 DEF DeletesNote
  <2> QED BY <1>1, <2>1 DEF Said
<1>5. ASSUME NEW s \in Subjects, AlertsOn(s)
      PROVE  said[k].undone \/ said'[k].at > said[k].at + Lookback[topic]
  <2> DEFINE key == KeyOf[s]
  <2>1. /\ ~NotificationExists(key)
        /\ said' = [said EXCEPT ![key] = [at |-> hour, undone |-> FALSE, turn |-> ~said[key].turn]]
    BY <1>5, <1>2 DEF AlertsOn
  <2>2. k = key /\ said'[k].at = hour
    BY <1>1, <2>1
  <2>3. CASE <<k, said[k].at>> \in notes
    <3>1. ~(said[k].at >= hour - Lookback[topic])
      BY <2>1, <2>2, <2>3 DEF NotificationExists
    <3>2. Lookback[topic] \in Nat /\ said[k].at \in Int
      BY <1>1, AlertBounds DEF Said
    <3> QED BY <1>1, <2>2, <3>1, <3>2
  <2>4. k \notin alertRun.new
    BY <2>1, <2>2 DEF NotificationExists
  <2> QED BY <2>3, <2>4 DEF AlertsInv, LastStands
<1>6. CASE UNCHANGED alertVars
  BY <1>6 DEF alertVars
<1>7. ASSUME NEW s \in Subjects,
             DetectsCritical(s) \/ CommitsCritical(s) \/ GetsDue(s) \/ ClosesDue(s) \/ SyncEnds(s)
      PROVE  said' = said
  BY <1>7 DEF DetectsCritical, CommitsCritical, GetsDue, ClosesDue, SyncEnds, Becomes
<1>8. CASE AlertRunBegins \/ AlertRunCommits \/ HourPasses
  BY <1>8 DEF AlertRunBegins, AlertRunCommits, HourPasses
<1> QED BY <1>2, <1>3, <1>4, <1>5, <1>6, <1>7, <1>8 DEF AlertsNext

\* run_alert_checks announces no key twice within the lookback, unless a run
\* was lost after its mails or the notification was deleted.
THEOREM AlertsNotRepeated == AlertsSpec => NoRepeatedAlert
<1>1. AlertsInit => AlertsInv
  BY AlertsStart
<1>2. AlertsInv /\ [AlertsNext]_alertVars => AlertsInv'
  BY AlertsInductive
<1>3. AlertsInv /\ [AlertsNext]_alertVars =>
        [\A k \in Keys : said'[k].turn # said[k].turn /\ said[k].at # Unknown =>
           said[k].undone \/ said'[k].at > said[k].at + Lookback[topic]]_alertVars
  BY Announced
<1> QED BY <1>1, <1>2, <1>3, PTL DEF AlertsSpec, NoRepeatedAlert

\* No alert is missed: an hour of a committed run has a notification, no older
\* than the lookback, of all that its run could see.
SubjectRows == [at : Hours \cup {Unknown}, there : BOOLEAN, visible : Hours \cup {Unknown}]
AlertRows ==
    /\ AlertsTypeOK /\ hour \in Hours
    /\ subject \in [Subjects -> SubjectRows]
    /\ topic = "new_critical_vuln" => \A s \in Subjects :
         /\ subject[s].at # Unknown => subject[s].at <= hour
         /\ subject[s].there => subject[s].at \in Nat /\ subject[s].at <= subject[s].visible
\* Wanted, in an hour that the subject was there for.
WantedAt(s, h) ==
    /\ topic = "new_critical_vuln" => subject[s].at >= h - Lookback[topic]
    /\ topic = "sla_breach" => h < subject[s].at /\ subject[s].at <= h + Lookback[topic]
SeenSince(s, h) == subject[s].there /\ subject[s].visible < h
PastTold ==
    \A s \in Subjects : \A h \in 0 .. hour - 1 :
        h \notin missed /\ SeenSince(s, h) /\ WantedAt(s, h) => ToldSince(s, h - Lookback[topic])
HourTold ==
    ran = "committed" => \A s \in Subjects :
        SeenSince(s, hour) /\ WantedAt(s, hour) => ToldSince(s, hour - Lookback[topic])
RunTells ==
    alertRun.on => \A s \in Subjects : SeenSince(s, hour) /\ WantedAt(s, hour) =>
        s \in alertRun.todo \/ KeyOf[s] \in alertRun.new \/ ToldSince(s, hour - Lookback[topic])
ToldInv == AlertsInv /\ AlertRows /\ PastTold /\ HourTold /\ RunTells

LEMMA ToldStart == AlertsInit => ToldInv
<1> SUFFICES ASSUME AlertsInit PROVE ToldInv
  OBVIOUS
<1>1. AlertsInv
  BY AlertsStart
<1>2. /\ hour = 0 /\ 0 \in Hours /\ Unknown \notin Nat
      /\ \A s \in Subjects : subject[s] = [at |-> Unknown, there |-> FALSE, visible |-> Unknown]
      /\ subject \in [Subjects -> SubjectRows]
  <2>0. hour = 0 /\ Unknown \notin Nat
    <3>1. hour = 0
      BY DEF AlertsInit
    <3>2. Unknown \notin Nat
      BY DEF Unknown
    <3> QED BY <3>1, <3>2
  <2>1. 0 \in Hours
    BY AlertBounds DEF Hours
  <2>2. [at |-> Unknown, there |-> FALSE, visible |-> Unknown] \in SubjectRows
    BY DEF SubjectRows
  <2> QED BY <2>0, <2>1, <2>2 DEF AlertsInit
<1>3. AlertRows
  <2>1. \A k \in Keys : said[k].at = Unknown
    BY DEF AlertsInit, Silent
  <2>2. AlertsTypeOK
    BY <1>2, <2>1 DEF AlertsInit, AlertsTypeOK, NoRun
  <2> QED BY <1>2, <2>2 DEF AlertRows
<1>4. PastTold /\ HourTold /\ RunTells
  <2>1. ran # "committed" /\ ~alertRun.on
    BY DEF AlertsInit, NoRun
  <2>2. \A h \in 0 .. hour - 1 : FALSE
    BY <1>2
  <2> QED BY <2>1, <2>2 DEF PastTold, HourTold, RunTells
<1> QED BY <1>1, <1>3, <1>4 DEF ToldInv

\* What was told stays told.
LEMMA ToldGrows ==
    ASSUME told \subseteq told', NEW s \in Subjects, NEW at
    PROVE  ToldSince(s, at) => ToldSince(s, at)'
BY DEF ToldSince

\* A subject that appears was not there in any hour yet.
LEMMA BecomesKeeps ==
    ASSUME ToldInv, NEW x \in Subjects, NEW at \in Hours \cup {Unknown}, NEW there \in BOOLEAN,
           Becomes(x, at, there),
           topic = "new_critical_vuln" => at \in Nat /\ at <= hour
    PROVE  ToldInv'
<1> DEFINE new == [at |-> at, there |-> there, visible |-> IF there THEN hour ELSE Unknown]
<1>1. /\ subject' = [subject EXCEPT ![x] = new]
      /\ UNCHANGED <<topic, notes, told, alertRun, said, hour, ran, missed>>
  BY DEF Becomes
<1>2. /\ new \in SubjectRows /\ new.at = at /\ new.there = there
      /\ there => new.visible = hour
  BY DEF ToldInv, AlertRows, SubjectRows
<1> HIDE DEF new
<1>3. /\ subject' \in [Subjects -> SubjectRows] /\ subject'[x] = new
      /\ \A s \in Subjects : s # x => subject'[s] = subject[s]
  BY <1>1, <1>2 DEF ToldInv, AlertRows
<1>4. hour \in Nat /\ hour <= MaxHour
  BY AlertBounds DEF ToldInv, AlertRows, Hours
<1>5. AlertsInv'
  BY <1>1, AlertsIdle DEF ToldInv
<1>6. AlertRows'
  <2>1. ASSUME NEW s \in Subjects
        PROVE  /\ subject'[s].there \in BOOLEAN /\ subject'[s].at \in Hours \cup {Unknown}
               /\ subject'[s].there => subject'[s].visible \in 0 .. hour
    <3>1. subject'[s].there \in BOOLEAN /\ subject'[s].at \in Hours \cup {Unknown}
      BY <1>3 DEF SubjectRows
    <3>2. CASE s = x
      BY <1>2, <1>3, <1>4, <3>1, <3>2
    <3>3. CASE s # x
      <4>1. subject[s].there => subject[s].visible \in 0 .. hour
        BY DEF ToldInv, AlertRows, AlertsTypeOK
      <4> QED BY <1>3, <3>1, <3>3, <4>1
    <3> QED BY <3>2, <3>3
  <2>2. AlertsTypeOK'
    BY <1>1, <2>1, Zenon DEF ToldInv, AlertRows, AlertsTypeOK
  <2>3. ASSUME NEW s \in Subjects, topic = "new_critical_vuln"
        PROVE  /\ subject'[s].at # Unknown => subject'[s].at <= hour
               /\ subject'[s].there => subject'[s].at \in Nat /\ subject'[s].at <= subject'[s].visible
    BY <1>2, <1>3, <2>3 DEF ToldInv, AlertRows
  <2> QED BY <1>1, <1>3, <2>2, <2>3 DEF ToldInv, AlertRows, Hours
<1>7. ASSUME NEW s \in Subjects, NEW h \in 0 .. hour, SeenSince(s, h)'
      PROVE  SeenSince(s, h) /\ (WantedAt(s, h)' => WantedAt(s, h)) /\ subject' [s] = subject[s]
  <2>1. s # x
    BY <1>2, <1>3, <1>4, <1>7 DEF SeenSince
  <2> QED BY <1>1, <1>3, <1>7, <2>1 DEF SeenSince, WantedAt
<1>8. \A s \in Subjects : \A since : ToldSince(s, since)' <=> ToldSince(s, since)
  BY <1>1 DEF ToldSince
<1>9. PastTold'
  BY <1>1, <1>4, <1>7, <1>8 DEF ToldInv, PastTold
<1>10. HourTold' /\ RunTells'
  BY <1>1, <1>4, <1>7, <1>8 DEF ToldInv, HourTold, RunTells
<1> QED BY <1>5, <1>6, <1>9, <1>10 DEF ToldInv

\* What becomes of the subjects: each event is one of them.
LEMMA EventKeeps ==
    ASSUME ToldInv, NEW s \in Subjects,
           DetectsCritical(s) \/ CommitsCritical(s) \/ GetsDue(s) \/ ClosesDue(s) \/ SyncEnds(s)
    PROVE  ToldInv'
<1>1. /\ hour \in Hours /\ hour \in Nat /\ Unknown \notin Nat /\ hour <= hour
      /\ subject[s] \in SubjectRows
  BY AlertBounds DEF ToldInv, AlertRows, Hours, Unknown
<1>2. subject[s].at \in Hours \cup {Unknown} /\ subject[s].there \in BOOLEAN
  BY <1>1 DEF SubjectRows
<1>3. topic # "new_critical_vuln" \/ topic = "new_critical_vuln"
  OBVIOUS
<1>4. CASE DetectsCritical(s)
  BY <1>1, <1>4, BecomesKeeps DEF DetectsCritical
<1>5. CASE CommitsCritical(s)
  <2>1. subject[s].at \in Nat /\ subject[s].at <= hour
    BY <1>2, <1>5 DEF CommitsCritical, ToldInv, AlertRows, Hours
  <2> QED BY <1>2, <1>5, <2>1, BecomesKeeps DEF CommitsCritical
<1>6. CASE GetsDue(s)
  <2>1. PICK due \in hour + 1 .. MaxHour : Becomes(s, due, TRUE)
    BY <1>6 DEF GetsDue
  <2>2. due \in Hours /\ topic # "new_critical_vuln"
    BY <1>1, <1>6, AlertBounds DEF GetsDue, Hours
  <2> QED BY <2>1, <2>2, BecomesKeeps
<1>7. CASE ClosesDue(s)
  BY <1>2, <1>7, BecomesKeeps DEF ClosesDue
<1>8. CASE SyncEnds(s)
  BY <1>2, <1>8, BecomesKeeps DEF SyncEnds
<1> QED BY <1>4, <1>5, <1>6, <1>7, <1>8

LEMMA WantedIsAt ==
    ASSUME NEW s \in Subjects PROVE Wanted(s) <=> subject[s].there /\ WantedAt(s, hour)
BY DEF Wanted, WantedAt

\* The run takes up what it can see, and tells it or finds it told.
LEMMA RunBeginsTells ==
    ASSUME ToldInv, AlertRunBegins PROVE ToldInv'
<1> DEFINE sighted == {s \in Subjects : Wanted(s)}
<1>1. /\ alertRun' = [on |-> TRUE, todo |-> sighted, new |-> {}]
      /\ UNCHANGED <<topic, subject, notes, told, said, hour, ran, missed>>
  BY DEF AlertRunBegins
<1> HIDE DEF sighted
<1>2. alertRun'.todo = sighted /\ alertRun'.new = {} /\ sighted \subseteq Subjects
  BY <1>1 DEF sighted
<1>3. AlertsInv'
  BY RunBeginsKeeps DEF ToldInv
<1>4. AlertRows'
  BY <1>1, <1>2 DEF ToldInv, AlertRows, AlertsTypeOK
<1>5. PastTold' /\ HourTold'
  BY <1>1 DEF ToldInv, PastTold, HourTold, SeenSince, WantedAt, ToldSince
<1>6. ASSUME NEW s \in Subjects, SeenSince(s, hour), WantedAt(s, hour) PROVE s \in alertRun'.todo
  BY <1>2, <1>6, WantedIsAt DEF SeenSince, sighted
<1>7. RunTells'
  BY <1>1, <1>6 DEF RunTells, SeenSince, WantedAt
<1> QED BY <1>3, <1>4, <1>5, <1>7 DEF ToldInv

LEMMA AnnouncesTells ==
    ASSUME ToldInv, NEW x \in Subjects, AlertsOn(x) PROVE ToldInv'
<1> DEFINE key == KeyOf[x]
<1>1. /\ x \in alertRun.todo /\ key \in Keys
      /\ UNCHANGED <<topic, subject, notes, told, hour, ran, missed>>
  BY DEF AlertsOn, Keys
<1>2. /\ alertRun \in [on : BOOLEAN, todo : SUBSET Subjects, new : SUBSET Keys]
      /\ said \in [Keys -> Said] /\ notes \subseteq told /\ hour \in Nat
  BY DEF ToldInv, AlertsInv, AlertShapes, AlertRows, AlertsTypeOK
<1>3. /\ alertRun'.on = alertRun.on /\ alertRun'.todo = alertRun.todo \ {x}
      /\ alertRun'.todo \subseteq Subjects /\ alertRun'.new \subseteq Keys
      /\ alertRun.new \subseteq alertRun'.new
      /\ key \in alertRun'.new \/ ToldSince(x, hour - Lookback[topic])
  <2>1. CASE NotificationExists(key)
    <3>1. alertRun' = [alertRun EXCEPT !.todo = alertRun.todo \ {x}]
      BY <2>1 DEF AlertsOn
    <3>2. key \in alertRun.new \/ ToldSince(x, hour - Lookback[topic])
      BY <1>2, <2>1 DEF NotificationExists, ToldSince
    <3> QED BY <1>2, <3>1, <3>2
  <2>2. CASE ~NotificationExists(key)
    <3>1. alertRun' = [alertRun EXCEPT !.todo = alertRun.todo \ {x}, !.new = alertRun.new \cup {key}]
      BY <2>2 DEF AlertsOn
    <3> QED BY <1>1, <1>2, <3>1
  <2> QED BY <2>1, <2>2
<1>4. \A k \in Keys : said'[k].at \in (0 .. hour) \cup {Unknown}
  <2>1. CASE said' = said
    BY <2>1 DEF ToldInv, AlertRows, AlertsTypeOK
  <2>2. CASE said' # said
    <3>1. said' = [said EXCEPT ![key] = [at |-> hour, undone |-> FALSE, turn |-> ~said[key].turn]]
      BY <2>2 DEF AlertsOn
    <3>2. said'[key].at = hour /\ \A k \in Keys : k # key => said'[k] = said[k]
      BY <1>1, <1>2, <3>1
    <3>3. \A k \in Keys : said[k].at \in (0 .. hour) \cup {Unknown}
      BY DEF ToldInv, AlertRows, AlertsTypeOK
    <3> QED BY <1>2, <3>2, <3>3
  <2> QED BY <2>1, <2>2
<1>5. AlertsInv'
  BY AnnouncesKeeps DEF ToldInv
<1>6. AlertRows'
  BY <1>1, <1>3, <1>4 DEF ToldInv, AlertRows, AlertsTypeOK
<1>7. PastTold' /\ HourTold'
  BY <1>1 DEF ToldInv, PastTold, HourTold, SeenSince, WantedAt, ToldSince
<1>8. \A s \in Subjects : /\ SeenSince(s, hour)' <=> SeenSince(s, hour)
                          /\ WantedAt(s, hour)' <=> WantedAt(s, hour)
                          /\ ToldSince(s, hour - Lookback[topic])' <=> ToldSince(s, hour - Lookback[topic])
  BY <1>1 DEF SeenSince, WantedAt, ToldSince
<1>9. RunTells'
  BY <1>1, <1>3, <1>8 DEF ToldInv, RunTells
<1> QED BY <1>5, <1>6, <1>7, <1>9 DEF ToldInv

\* What the run announced is told when it commits.
LEMMA CommitTells ==
    ASSUME ToldInv, AlertRunCommits PROVE ToldInv'
<1>1. /\ alertRun.on /\ alertRun.todo = {} /\ ran' = "committed" /\ alertRun' = NoRun
      /\ notes' = notes \cup (alertRun.new \X {hour}) /\ told' = told \cup (alertRun.new \X {hour})
      /\ UNCHANGED <<topic, subject, said, hour, missed>>
  BY DEF AlertRunCommits
<1>2. /\ hour \in Nat /\ Lookback[topic] \in Nat /\ alertRun.new \subseteq Keys
      /\ notes \subseteq told /\ told \subseteq Keys \X (0 .. hour)
  BY AlertBounds DEF ToldInv, AlertsInv, AlertShapes, AlertRows, AlertsTypeOK
<1>3. /\ notes' \subseteq told' /\ told' \subseteq Keys \X (0 .. hour) /\ told \subseteq told'
      /\ \A k \in alertRun.new : <<k, hour>> \in told'
  BY <1>1, <1>2
<1>4. NoRun.todo = {} /\ NoRun.new = {} /\ ~NoRun.on
  BY DEF NoRun
<1>5. AlertRows'
  BY <1>1, <1>3, <1>4 DEF ToldInv, AlertRows, AlertsTypeOK
<1>6. AlertsInv'
  BY CommitKeeps DEF ToldInv
<1>7. \A s \in Subjects : \A at : ToldSince(s, at) => ToldSince(s, at)'
  BY <1>3, ToldGrows
<1>8. PastTold'
  BY <1>1, <1>7 DEF ToldInv, PastTold, SeenSince, WantedAt
<1>9. ASSUME NEW s \in Subjects, SeenSince(s, hour), WantedAt(s, hour)
      PROVE  ToldSince(s, hour - Lookback[topic])'
  <2>1. KeyOf[s] \in alertRun.new \/ ToldSince(s, hour - Lookback[topic])
    BY <1>1, <1>9 DEF ToldInv, RunTells
  <2>2. CASE KeyOf[s] \in alertRun.new
    <3>1. <<KeyOf[s], hour>> \in told' /\ hour >= hour - Lookback[topic]
      BY <1>2, <1>3, <2>2
    <3>2. \E n \in told' : n[1] = KeyOf[s] /\ n[2] >= hour - Lookback[topic]
      <4>1. <<KeyOf[s], hour>>[1] = KeyOf[s] /\ <<KeyOf[s], hour>>[2] = hour
        OBVIOUS
      <4> QED BY <3>1, <4>1
    <3> QED BY <1>1, <3>2 DEF ToldSince
  <2>3. CASE ToldSince(s, hour - Lookback[topic])
    <3>1. ToldSince(s, hour - Lookback[topic])'
            <=> \E n \in told' : n[1] = KeyOf[s] /\ n[2] >= hour - Lookback[topic]
      BY <1>1 DEF ToldSince
    <3> QED BY <1>3, <2>3, <3>1 DEF ToldSince
  <2> QED BY <2>1, <2>2, <2>3
<1>10. HourTold' /\ RunTells'
  BY <1>1, <1>4, <1>9 DEF HourTold, RunTells, SeenSince, WantedAt
<1> QED BY <1>5, <1>6, <1>8, <1>10 DEF ToldInv

LEMMA LossTells ==
    ASSUME ToldInv, AlertRunLost PROVE ToldInv'
<1>1. /\ said' = [k \in Keys |-> IF k \in alertRun.new THEN [said[k] EXCEPT !.undone = TRUE] ELSE said[k]]
      /\ alertRun' = NoRun /\ ran' = "lost" /\ UNCHANGED <<topic, subject, notes, told, hour, missed>>
  BY DEF AlertRunLost
<1>2. \A k \in Keys : said'[k].at = said[k].at
  BY <1>1 DEF ToldInv, AlertsInv, AlertShapes, Said
<1>3. NoRun.todo = {} /\ NoRun.new = {} /\ ~NoRun.on
  BY DEF NoRun
<1>4. AlertRows'
  BY <1>1, <1>2, <1>3 DEF ToldInv, AlertRows, AlertsTypeOK
<1>5. AlertsInv'
  BY LossKeeps DEF ToldInv
<1>6. PastTold' /\ HourTold' /\ RunTells'
  BY <1>1, <1>3 DEF ToldInv, PastTold, HourTold, RunTells, SeenSince, WantedAt, ToldSince
<1> QED BY <1>4, <1>5, <1>6 DEF ToldInv

LEMMA DeletionTells ==
    ASSUME ToldInv, NEW n \in notes, DeletesNote(n) PROVE ToldInv'
<1>1. /\ notes' = notes \ {n} /\ said' = [said EXCEPT ![n[1]] = [said[n[1]] EXCEPT !.undone = TRUE]]
      /\ UNCHANGED <<topic, subject, told, alertRun, hour, ran, missed>>
  BY DEF DeletesNote
<1>2. \A k \in Keys : said'[k].at = said[k].at
  BY <1>1 DEF ToldInv, AlertsInv, AlertShapes, Said
<1>3. AlertRows'
  BY <1>1, <1>2 DEF ToldInv, AlertRows, AlertsTypeOK
<1>4. AlertsInv'
  BY DeletionKeeps DEF ToldInv
<1>5. PastTold' /\ HourTold' /\ RunTells'
  BY <1>1 DEF ToldInv, PastTold, HourTold, RunTells, SeenSince, WantedAt, ToldSince
<1> QED BY <1>3, <1>4, <1>5 DEF ToldInv

\* The hour that ends had a committed run, or it was missed.
LEMMA HourTells ==
    ASSUME ToldInv, HourPasses PROVE ToldInv'
<1>1. /\ hour < MaxHour /\ ~alertRun.on /\ ran # "not yet" /\ hour' = hour + 1 /\ ran' = "not yet"
      /\ missed' = IF ran = "lost" THEN missed \cup {hour} ELSE missed
      /\ UNCHANGED <<topic, subject, notes, told, alertRun, said>>
  BY DEF HourPasses
<1>2. ran \in {"not yet", "committed", "lost"} /\ missed \subseteq 0 .. hour - 1
  BY DEF ToldInv, AlertRows, AlertsTypeOK
<1>t. /\ hour \in Nat /\ hour' \in Hours /\ hour' = hour + 1 /\ hour' - 1 = hour
      /\ 0 .. hour \subseteq 0 .. hour' /\ hour \in 0 .. hour /\ 0 .. hour - 1 \subseteq 0 .. hour
  <2>1. hour \in Nat /\ hour < MaxHour /\ MaxHour \in Nat /\ hour' = hour + 1
    <3>1. hour \in Hours /\ MaxHour \in Nat
      BY AlertBounds DEF ToldInv, AlertRows
    <3>2. hour \in Nat
      BY <3>1 DEF Hours
    <3> QED BY <1>1, <3>1, <3>2
  <2> QED BY <2>1 DEF Hours
<1>3. missed' \subseteq 0 .. hour' - 1
  BY <1>1, <1>2, <1>t
<1>4. AlertsInv'
  BY HourKeeps DEF ToldInv
<1>5. AlertRows'
  <2>1. AlertsTypeOK'
    <3>1. \A s \in Subjects : subject'[s].there => subject'[s].visible \in 0 .. hour'
      BY <1>1, <1>t DEF ToldInv, AlertRows, AlertsTypeOK
    <3>2. \A k \in Keys : said'[k].at \in (0 .. hour') \cup {Unknown}
      BY <1>1, <1>t DEF ToldInv, AlertRows, AlertsTypeOK
    <3>3. told' \subseteq Keys \X (0 .. hour')
      BY <1>1, <1>t DEF ToldInv, AlertRows, AlertsTypeOK
    <3>4. /\ topic' \in Topics /\ ran' \in {"not yet", "committed", "lost"} /\ notes' \subseteq told'
          /\ alertRun'.todo \subseteq Subjects /\ alertRun'.new \subseteq Keys
          /\ \A s \in Subjects : subject'[s].there \in BOOLEAN /\ subject'[s].at \in Hours \cup {Unknown}
      BY <1>1 DEF ToldInv, AlertRows, AlertsTypeOK
    <3>5. Hours' = Hours
      BY DEF Hours
    <3> QED BY <1>3, <3>1, <3>2, <3>3, <3>4, <3>5 DEF AlertsTypeOK
  <2>2. \A s \in Subjects : topic = "new_critical_vuln" =>
          /\ subject[s].at # Unknown => subject[s].at <= hour'
          /\ subject[s].there => subject[s].at \in Nat /\ subject[s].at <= subject[s].visible
    <3>1. \A s \in Subjects : subject[s].at # Unknown => subject[s].at \in Nat
      BY DEF ToldInv, AlertRows, SubjectRows, Hours
    <3>2. ASSUME NEW a \in Nat, a <= hour PROVE a <= hour'
      BY <1>t, <3>2
    <3> QED BY <3>1, <3>2 DEF ToldInv, AlertRows
  <2> QED BY <1>1, <1>t, <2>1, <2>2 DEF ToldInv, AlertRows, SubjectRows
<1>6. ASSUME NEW s \in Subjects, NEW h \in 0 .. hour, h \notin missed', SeenSince(s, h), WantedAt(s, h)
      PROVE  ToldSince(s, h - Lookback[topic])
  <2>1. CASE h = hour
    <3>1. ran = "committed"
      BY <1>1, <1>2, <1>6, <2>1
    <3> QED BY <1>6, <2>1, <3>1 DEF ToldInv, HourTold
  <2>2. CASE h # hour
    <3>1. h \in 0 .. hour - 1 /\ h \notin missed
      <4>1. h \in 0 .. hour - 1
        BY <1>t, <2>2
      <4>2. missed \subseteq missed'
        BY <1>1
      <4> QED BY <1>6, <4>1, <4>2
    <3> QED BY <1>6, <3>1 DEF ToldInv, PastTold
  <2> QED BY <2>1, <2>2
<1>8. PastTold'
  <2>1. ASSUME NEW s \in Subjects, NEW h \in 0 .. hour, h \notin missed', SeenSince(s, h)', WantedAt(s, h)'
        PROVE  ToldSince(s, h - Lookback[topic])'
    BY <1>1, <1>6, <2>1 DEF SeenSince, WantedAt, ToldSince
  <2> QED BY <1>1, <1>t, <2>1 DEF PastTold
<1>9. HourTold' /\ RunTells'
  BY <1>1 DEF HourTold, RunTells
<1> QED BY <1>4, <1>5, <1>8, <1>9 DEF ToldInv

LEMMA ToldInductive == ToldInv /\ [AlertsNext]_alertVars => ToldInv'
<1> SUFFICES ASSUME ToldInv, [AlertsNext]_alertVars PROVE ToldInv'
  OBVIOUS
<1>1. CASE UNCHANGED alertVars
  <2>1. AlertsInv'
    BY <1>1, AlertsInductive DEF ToldInv
  <2>2. AlertRows'
    BY <1>1 DEF alertVars, ToldInv, AlertRows, AlertsTypeOK
  <2>3. PastTold' /\ HourTold' /\ RunTells'
    BY <1>1 DEF alertVars, ToldInv, PastTold, HourTold, RunTells, SeenSince, WantedAt, ToldSince
  <2> QED BY <2>1, <2>2, <2>3 DEF ToldInv
<1>2. ASSUME NEW s \in Subjects,
             DetectsCritical(s) \/ CommitsCritical(s) \/ GetsDue(s) \/ ClosesDue(s) \/ SyncEnds(s)
      PROVE  ToldInv'
  BY <1>2, EventKeeps
<1>3. ASSUME NEW s \in Subjects, AlertsOn(s) PROVE ToldInv'
  BY <1>3, AnnouncesTells
<1>4. CASE AlertRunBegins \/ AlertRunCommits \/ AlertRunLost \/ HourPasses
  BY <1>4, RunBeginsTells, CommitTells, LossTells, HourTells
<1>5. ASSUME NEW n \in notes, DeletesNote(n) PROVE ToldInv'
  BY <1>5, DeletionTells
<1> QED BY <1>1, <1>2, <1>3, <1>4, <1>5 DEF AlertsNext

\* Hours have a last one.
LEMMA LargestOf ==
    ASSUME NEW S \in SUBSET Int, S # {}, IsFiniteSet(S)
    PROVE  Max(S) \in S /\ \A y \in S : y <= Max(S)
<1> DEFINE Above(x) == {y \in S : y > x}
           T == {Above(x) : x \in S}
<1>1. ASSUME NEW x \in S PROVE Above(x) \in FiniteSubsetsOf(S)
  BY FS_Subset DEF FiniteSubsetsOf
<1>2. T \subseteq FiniteSubsetsOf(S) /\ T # {}
  BY <1>1
<1>3. PICK least \in T : \A U \in T : ~ (<<U, least>> \in StrictSubsetOrdering(S))
  <2> DEFINE R == StrictSubsetOrdering(S)
             F == FiniteSubsetsOf(S)
  <2>1. IsWellFoundedOn(R, F)
    BY FS_StrictSubsetOrderingWellFounded
  <2> HIDE DEF T, R, F
  <2>2. \E U \in T : \A V \in T : ~ (<<V, U>> \in R)
    BY <1>2, <2>1, WFMin DEF F
  <2> QED BY <2>2 DEF R
<1>4. PICK x \in S : least = Above(x)
  OBVIOUS
<1>5. ASSUME NEW w \in S PROVE x >= w
  <2> SUFFICES ASSUME ~(x >= w) PROVE FALSE
    OBVIOUS
  <2>1. w > x /\ w \in Above(x) /\ w \notin Above(w)
    OBVIOUS
  <2>2. Above(w) \subseteq Above(x)
    <3>1. ASSUME NEW y \in S, y > w PROVE y > x
      <4>1. y \in Int /\ w \in Int /\ x \in Int
        OBVIOUS
      <4> QED BY <2>1, <3>1, <4>1
    <3> QED BY <3>1
  <2>3. <<Above(w), Above(x)>> \in StrictSubsetOrdering(S)
    <3>1. Above(w) \in SUBSET S /\ Above(x) \in SUBSET S /\ Above(w) # Above(x)
      BY <2>1
    <3> HIDE DEF Above
    <3> QED BY <2>2, <3>1 DEF StrictSubsetOrdering
  <2> QED BY <1>3, <1>4, <2>3
<1>6. x \in S /\ \A y \in S : x >= y
  BY <1>5
<1>7. Max(S) \in S /\ \A y \in S : Max(S) >= y
  BY <1>6 DEF Max
<1>8. Max(S) \in Int /\ \A y \in S : y \in Int
  BY <1>7
<1> QED BY <1>7, <1>8

LEMMA InTime == ToldInv => AlertsComeInTime
<1> SUFFICES ASSUME ToldInv, NEW s \in Subjects, subject[s].there
             PROVE  LET from == subject[s].visible + 1  at == subject[s].at  back == Lookback[topic] IN
                    /\ topic = "new_critical_vuln" /\ hour > at + back /\ ~(from .. at + back \subseteq missed)
                         => ToldSince(s, at - back)
                    /\ topic = "sla_breach" /\ hour >= at /\ ~({h \in from .. at - 1 : h >= at - back} \subseteq missed)
                         => ToldSince(s, at - 2 * back)
                    /\ topic = "sync_failure" /\ ~(from .. hour - 1 \subseteq missed)
                         => ToldSince(s, Max((from .. hour - 1) \ missed) - back)
  BY DEF AlertsComeInTime
<1> DEFINE from == subject[s].visible + 1
           at == subject[s].at
           back == Lookback[topic]
<1>1. /\ hour \in Nat /\ back \in Nat /\ subject[s].visible \in Nat /\ from \in Nat
      /\ at \in Int /\ told \subseteq Keys \X (0 .. hour)
  <2>1. hour \in Nat /\ back \in Nat
    BY AlertBounds DEF ToldInv, AlertsInv, AlertShapes
  <2>2. subject[s].visible \in 0 .. hour /\ subject[s].at \in Hours \cup {Unknown}
        /\ told \subseteq Keys \X (0 .. hour)
    BY DEF ToldInv, AlertRows, AlertsTypeOK
  <2> QED BY <2>1, <2>2 DEF Hours, Unknown
\* What was told since an hour was told since every hour before it.
<1>2. ASSUME NEW early \in Int, NEW late \in Int, early <= late, ToldSince(s, late) PROVE ToldSince(s, early)
  <2>1. PICK n \in told : n[1] = KeyOf[s] /\ n[2] >= late
    BY <1>2 DEF ToldSince
  <2>2. n[2] \in Int
    BY <1>1, <2>1
  <2>3. n[2] >= early
    BY <1>2, <2>1, <2>2
  <2> QED BY <2>1, <2>3 DEF ToldSince
<1>3. ASSUME NEW h \in Int, from <= h, h < hour, h \notin missed, WantedAt(s, h)
      PROVE  ToldSince(s, h - back)
  <2>1. h \in 0 .. hour - 1 /\ subject[s].visible < h
    BY <1>1, <1>3
  <2>2. SeenSince(s, h)
    BY <2>1 DEF SeenSince
  <2> QED BY <1>3, <2>1, <2>2 DEF ToldInv, PastTold
<1>4. ASSUME topic = "new_critical_vuln", hour > at + back, ~(from .. at + back \subseteq missed)
      PROVE  ToldSince(s, at - back)
  <2>1. PICK h \in from .. at + back : h \notin missed
    BY <1>4
  <2>2. at <= subject[s].visible
    BY <1>4 DEF ToldInv, AlertRows
  <2>3. h \in Int /\ from <= h /\ h < hour /\ at >= h - back /\ at - back <= h - back
    BY <1>1, <1>4, <2>1, <2>2
  <2>4. WantedAt(s, h)
    BY <1>4, <2>3 DEF WantedAt
  <2>5. ToldSince(s, h - back)
    BY <1>3, <2>1, <2>3, <2>4
  <2>6. h - back \in Int /\ at - back \in Int
    BY <1>1, <2>3
  <2> QED BY <1>2, <2>3, <2>5, <2>6
<1>5. ASSUME topic = "sla_breach", hour >= at, ~({h \in from .. at - 1 : h >= at - back} \subseteq missed)
      PROVE  ToldSince(s, at - 2 * back)
  <2>1. PICK h \in from .. at - 1 : h >= at - back /\ h \notin missed
    BY <1>5
  <2>2. h \in Int /\ from <= h /\ h < hour /\ h < at /\ at <= h + back /\ at - 2 * back <= h - back
    BY <1>1, <1>5, <2>1
  <2>3. WantedAt(s, h)
    BY <1>5, <2>2 DEF WantedAt
  <2>4. ToldSince(s, h - back)
    BY <1>3, <2>1, <2>2, <2>3
  <2>5. h - back \in Int /\ at - 2 * back \in Int
    BY <1>1, <2>2
  <2> QED BY <1>2, <2>2, <2>4, <2>5
<1>6. ASSUME topic = "sync_failure", ~(from .. hour - 1 \subseteq missed)
      PROVE  ToldSince(s, Max((from .. hour - 1) \ missed) - back)
  <2> DEFINE left == (from .. hour - 1) \ missed
             h == Max(left)
  <2>1. left \in SUBSET Int /\ left # {} /\ IsFiniteSet(left)
    <3>1. IsFiniteSet(from .. hour - 1) /\ left \subseteq from .. hour - 1
      <4>1. from \in Int /\ hour - 1 \in Int
        BY <1>1
      <4>2. IsFiniteSet(from .. hour - 1)
        <5> HIDE DEF left
        <5> QED BY <4>1, FS_Interval
      <4>3. left \subseteq from .. hour - 1
        OBVIOUS
      <4> QED BY <4>2, <4>3
    <3>2. \A x \in from .. hour - 1 : x \in Int
      OBVIOUS
    <3>3. left # {}
      BY <1>6
    <3> HIDE DEF left
    <3> QED BY <3>1, <3>2, <3>3, FS_Subset
  <2>2. h \in left
    <3> HIDE DEF left
    <3> QED BY <2>1, LargestOf
  <2> HIDE DEF h
  <2>3. h \in Int /\ from <= h /\ h < hour /\ h \notin missed
    BY <1>1, <2>2
  <2>4. WantedAt(s, h)
    BY <1>6 DEF WantedAt
  <2>5. ToldSince(s, h - back)
    BY <1>3, <2>3, <2>4
  <2> QED BY <2>5 DEF h
<1> QED BY <1>4, <1>5, <1>6

(* AlertsSound: run_alert_checks misses no critical finding, no due date that  *)
(* comes near and no failing connector, if one of the runs that could see it   *)
(* was committed.  By what each committed hour has told.                       *)
THEOREM AlertsAreSound == AlertsSpec => []AlertsSound
<1>1. ToldInv => AlertsSound
  BY InTime DEF AlertsSound, ToldInv, AlertRows
<1> QED BY <1>1, ToldStart, ToldInductive, PTL DEF AlertsSpec

-----------------------------------------------------------------------------
(* Snapshots: one holds the asset's scores unless they moved since.           *)

SnapshotsSpec == SnapshotsInit /\ [][SnapshotsNext]_snapshotVars

Snapshots == [taken : Int, of : {<<>>} \cup ScoreRows]
SnapshotShapes ==
    /\ clock \in Nat /\ moved \in Nat
    /\ scores \in ScoreRows /\ model \in Models
    /\ snaps \in [SnapshotDays -> Snapshots]
SnapshotsCurrent ==
    \A d \in SnapshotDays : snaps[d] # NoSnapshot =>
        snaps[d].taken <= clock /\ (moved < snaps[d].taken => snaps[d].of = scores)
SnapshotsInv == SnapshotShapes /\ moved <= clock /\ SnapshotsCurrent

LEMMA SnapshotsStart == SnapshotsInit => SnapshotsInv
<1> SUFFICES ASSUME SnapshotsInit PROVE SnapshotsInv
  OBVIOUS
<1>1. NoSnapshot \in Snapshots
  BY DEF NoSnapshot, Snapshots, NotRun
<1> QED BY <1>1 DEF SnapshotsInit, SnapshotsInv, SnapshotShapes, SnapshotsCurrent

\* A step that leaves clock, scores, model and snapshots alone.
LEMMA SnapshotsIdle ==
    ASSUME SnapshotsInv, UNCHANGED <<clock, snaps, scores, moved>>, model' \in Models
    PROVE  SnapshotsInv'
BY DEF SnapshotsInv, SnapshotShapes, SnapshotsCurrent, SnapshotDays

LEMMA TickKeeps ==
    ASSUME SnapshotsInv, TimePasses PROVE SnapshotsInv'
<1>1. clock' = clock + 1 /\ UNCHANGED <<snaps, scores, model, moved>>
  BY DEF TimePasses
<1>2. \A d \in SnapshotDays : snaps[d].taken \in Int
  BY DEF SnapshotsInv, SnapshotShapes, Snapshots
<1>3. clock' \in Nat /\ moved <= clock'
  BY <1>1 DEF SnapshotsInv, SnapshotShapes
<1>4. \A d \in SnapshotDays : snaps[d].taken <= clock => snaps[d].taken <= clock'
  BY <1>1, <1>2 DEF SnapshotsInv, SnapshotShapes
<1> QED BY <1>1, <1>3, <1>4 DEF SnapshotsInv, SnapshotShapes, SnapshotsCurrent, SnapshotDays

\* A capture writes the scores of now, both models together.
LEMMA CaptureKeeps ==
    ASSUME SnapshotsInv, CapturesSnapshot PROVE SnapshotsInv'
<1> DEFINE new == [taken |-> clock, of |-> scores]
<1>1. /\ snaps' = snaps \/ snaps' = [snaps EXCEPT ![DayOf(clock)] = new]
      /\ UNCHANGED <<clock, scores, model, moved>>
  BY DEF CapturesSnapshot
<1>2. CASE snaps' = snaps
  BY <1>1, <1>2, SnapshotsIdle DEF SnapshotsInv, SnapshotShapes
<1>3. CASE snaps' = [snaps EXCEPT ![DayOf(clock)] = new]
  <2>1. new \in Snapshots /\ new.taken = clock /\ new.of = scores
    BY DEF SnapshotsInv, SnapshotShapes, Snapshots
  <2>2. /\ snaps' \in [SnapshotDays -> Snapshots]
        /\ \A d \in SnapshotDays : snaps'[d] = snaps[d] \/ snaps'[d] = new
    BY <1>3, <2>1 DEF SnapshotsInv, SnapshotShapes
  <2>3. clock <= clock
    BY DEF SnapshotsInv, SnapshotShapes
  <2> QED BY <1>1, <2>1, <2>2, <2>3 DEF SnapshotsInv, SnapshotShapes, SnapshotsCurrent, SnapshotDays
<1> QED BY <1>1, <1>2, <1>3

\* Scores that move are newer than every snapshot.
LEMMA MoveKeeps ==
    ASSUME SnapshotsInv, NEW of \in Models, NEW level \in Levels, ScoreMoves(of, level)
    PROVE  SnapshotsInv'
<1>1. /\ scores' = [scores EXCEPT ![of] = level] /\ moved' = clock
      /\ UNCHANGED <<clock, snaps, model>>
  BY DEF ScoreMoves
<1>2. scores' \in ScoreRows
  BY <1>1 DEF SnapshotsInv, SnapshotShapes, ScoreRows
<1>3. \A d \in SnapshotDays : snaps[d].taken <= clock => ~(clock < snaps[d].taken)
  BY DEF SnapshotsInv, SnapshotShapes, Snapshots
<1>4. clock <= clock /\ clock \in Nat
  BY DEF SnapshotsInv, SnapshotShapes
<1> QED BY <1>1, <1>2, <1>3, <1>4 DEF SnapshotsInv, SnapshotShapes, SnapshotsCurrent, SnapshotDays

LEMMA SnapshotsInductive == SnapshotsInv /\ [SnapshotsNext]_snapshotVars => SnapshotsInv'
<1> SUFFICES ASSUME SnapshotsInv, [SnapshotsNext]_snapshotVars PROVE SnapshotsInv'
  OBVIOUS
<1> USE DEF SnapshotsInv, SnapshotShapes
<1>1. CASE UNCHANGED snapshotVars
  BY <1>1, SnapshotsIdle DEF snapshotVars
<1>2. CASE GoesRound \/ TicketSyncEnds \/ TicketSyncFails \/ CaptureFails \/ SchedulerRestarts
  BY <1>2, SnapshotsIdle DEF GoesRound, TicketSyncEnds, TicketSyncFails, CaptureFails, SchedulerRestarts
<1>3. CASE ModelFlips \/ ComparesScores
  BY <1>3, SnapshotsIdle DEF ModelFlips, ComparesScores
<1>4. CASE TimePasses \/ CapturesSnapshot
  BY <1>4, TickKeeps, CaptureKeeps
<1>5. ASSUME NEW of \in Models, NEW level \in Levels, ScoreMoves(of, level) PROVE SnapshotsInv'
  BY <1>5, MoveKeeps
<1> QED BY <1>1, <1>2, <1>3, <1>4, <1>5 DEF SnapshotsNext

\* An alert needs a rise, and a snapshot newer than the last move shows none.
LEMMA RiseMoved ==
    ASSUME SnapshotsInv, ComparesScores
    PROVE  moved >= snaps[DayOf(clock) - 1].taken
<1> DEFINE snap == snaps[DayOf(clock) - 1]
<1>1. /\ DayOf(clock) - 1 \in SnapshotDays /\ snap # NoSnapshot
      /\ scores[model] - snap.of[model] >= Spike
  BY DEF ComparesScores, Rise
<1>2. snap.taken \in Int /\ moved \in Nat /\ scores[model] \in Nat /\ Spike \in Nat /\ Spike # 0
  BY <1>1, SnapshotBounds DEF SnapshotsInv, SnapshotShapes, Snapshots, ScoreRows
<1>3. CASE moved < snap.taken
  <2>1. snap.of = scores
    BY <1>1, <1>3 DEF SnapshotsInv, SnapshotsCurrent
  <2> QED BY <1>1, <1>2, <2>1
<1> QED BY <1>2, <1>3

\* _check_risk_score_changes tells a rise of the asset's scores, never the
\* difference of two models: it follows a move since yesterday's snapshot.
THEOREM SpikesAreReal == SnapshotsSpec => NoSyntheticSpike
<1>1. SnapshotsInit => SnapshotsInv
  BY SnapshotsStart
<1>2. SnapshotsInv /\ [SnapshotsNext]_snapshotVars => SnapshotsInv'
  BY SnapshotsInductive
<1>3. SnapshotsInv /\ [SnapshotsNext]_snapshotVars =>
        [spiked' # spiked => moved >= snaps[DayOf(clock) - 1].taken]_snapshotVars
  <2> SUFFICES ASSUME SnapshotsInv, SnapshotsNext, spiked' # spiked
               PROVE  moved >= snaps[DayOf(clock) - 1].taken
    BY DEF snapshotVars
  <2>1. ComparesScores
    BY DEF SnapshotsNext, TimePasses, GoesRound, TicketSyncEnds, TicketSyncFails, CapturesSnapshot,
           CaptureFails, SchedulerRestarts, ModelFlips, ScoreMoves
  <2> QED BY <2>1, RiseMoved
<1> QED BY <1>1, <1>2, <1>3, PTL DEF SnapshotsSpec, NoSyntheticSpike

\* Days, by the clock.
LEMMA Divides ==
    ASSUME NEW a \in Nat
    PROVE  /\ DayOf(a) \in Nat /\ DayOf(0) = 0
           /\ DayLength * DayOf(a) <= a /\ a < DayLength * DayOf(a) + DayLength
BY SnapshotBounds DEF DayOf

LEMMA TimesGrows ==
    ASSUME NEW D \in Nat, NEW x \in Int, NEW y \in Int, x <= y PROVE D * x <= D * y
OBVIOUS

LEMMA DaysFollow ==
    ASSUME NEW a \in Nat, NEW b \in Nat
    PROVE  /\ a <= b => DayOf(a) <= DayOf(b)
           /\ b < a + DayLength => DayOf(b) <= DayOf(a) + 1
           /\ b <= a + DayLength => DayOf(b) <= DayOf(a) + 1
<1>1. /\ DayOf(a) \in Nat /\ DayOf(b) \in Nat /\ DayLength \in Nat
      /\ DayLength * DayOf(a) <= a /\ a < DayLength * DayOf(a) + DayLength
      /\ DayLength * DayOf(b) <= b /\ b < DayLength * DayOf(b) + DayLength
  BY Divides, SnapshotBounds
<1>2. ASSUME a <= b, ~(DayOf(a) <= DayOf(b)) PROVE FALSE
  <2>1. DayOf(b) + 1 <= DayOf(a) /\ DayOf(b) + 1 \in Int /\ DayOf(a) \in Int
    BY <1>1, <1>2
  <2>2. DayLength * (DayOf(b) + 1) <= DayLength * DayOf(a)
    BY <1>1, <2>1, TimesGrows
  <2>3. DayLength * (DayOf(b) + 1) = DayLength * DayOf(b) + DayLength
    BY <1>1
  <2>4. DayLength * DayOf(b) \in Int /\ DayLength * DayOf(a) \in Int
    BY <1>1
  <2> QED BY <1>1, <1>2, <2>2, <2>3, <2>4
<1>3. ASSUME b <= a + DayLength, ~(DayOf(b) <= DayOf(a) + 1) PROVE FALSE
  <2>1. DayOf(a) + 2 <= DayOf(b) /\ DayOf(a) + 2 \in Int /\ DayOf(b) \in Int
    BY <1>1, <1>3
  <2>2. DayLength * (DayOf(a) + 2) <= DayLength * DayOf(b)
    BY <1>1, <2>1, TimesGrows
  <2>3. DayLength * (DayOf(a) + 2) = DayLength * DayOf(a) + DayLength + DayLength
    BY <1>1
  <2>4. DayLength * DayOf(b) \in Int /\ DayLength * DayOf(a) \in Int
    BY <1>1
  <2> QED BY <1>1, <1>3, <2>2, <2>3, <2>4
<1> QED BY <1>1, <1>2, <1>3

\* A round that goes well has a snapshot of its day or of the day before.
Taken(e) == e \in SnapshotDays /\ snaps[e] # NoSnapshot
RoundsTimed ==
    /\ SnapshotsTypeOK
    /\ rounds \in [stage : {"asleep", "synced"}, at : {NotRun} \cup Nat]
    /\ clock <= rounds.at + MaxTick
RoundCovered ==
    ~failed /\ rounds.at # NotRun => \E e \in DayOf(rounds.at) - 1 .. DayOf(rounds.at) : Taken(e)
\* A sync that was not lost was followed by a snapshot.
GateCovered ==
    ~failed /\ rounds.stage = "asleep" /\ gate # NotRun => \E e \in DayOf(gate) .. DayOf(clock) : Taken(e)
KeepUpInv == SnapshotsInv /\ RoundsTimed /\ RoundCovered /\ GateCovered /\ SnapshotsKeepUp

LEMMA ClockDay ==
    ASSUME NEW t \in 0 .. MaxClock PROVE t \in Nat /\ DayOf(t) \in SnapshotDays /\ DayOf(t) \in Nat
<1>1. t \in Nat /\ MaxClock + MaxTick \in Nat /\ t <= MaxClock + MaxTick
  BY SnapshotBounds
<1>2. DayOf(t) \in Nat /\ DayOf(MaxClock + MaxTick) \in Nat /\ DayOf(t) <= DayOf(MaxClock + MaxTick)
  BY <1>1, Divides, DaysFollow
<1> QED BY <1>1, <1>2 DEF SnapshotDays

LEMMA KeepUpStart == SnapshotsInit => KeepUpInv
<1> SUFFICES ASSUME SnapshotsInit PROVE KeepUpInv
  OBVIOUS
<1>1. /\ clock = 0 /\ rounds = [stage |-> "asleep", at |-> NotRun] /\ gate = NotRun /\ NotRun = -1
      /\ \A d \in SnapshotDays : snaps[d] = NoSnapshot
      /\ scores \in ScoreRows /\ model \in Models
      /\ spiked = NotRun /\ moves = 0 /\ failed = FALSE
  BY DEF SnapshotsInit, NotRun
<1>2. clock \in 0 .. MaxClock /\ 0 \in 0 .. MaxMoves /\ DayOf(clock) = 0 /\ 1 <= MaxTick /\ MaxTick \in Nat
  BY <1>1, SnapshotBounds, Divides
<1>3. SnapshotsTypeOK
  <2>1. rounds.stage = "asleep" /\ rounds.at = NotRun
    BY <1>1
  <2> QED BY <1>1, <1>2, <2>1 DEF SnapshotsTypeOK
<1>4. RoundsTimed
  BY <1>1, <1>2, <1>3 DEF RoundsTimed
<1>5. RoundCovered /\ GateCovered
  BY <1>1 DEF RoundCovered, GateCovered
<1>6. SnapshotsKeepUp
  <2>1. \A d \in SnapshotDays : ~(d + 1 < DayOf(clock))
    BY <1>2 DEF SnapshotDays
  <2> QED BY <2>1 DEF SnapshotsKeepUp
<1> QED BY <1>4, <1>5, <1>6, SnapshotsStart DEF KeepUpInv

\* What every step below relies on, with times and days as numbers.
LEMMA KeepUpNumbers ==
    ASSUME KeepUpInv
    PROVE  /\ clock \in Nat /\ clock \in 0 .. MaxClock /\ MaxTick \in Nat /\ MaxTick <= DayLength /\ DayLength \in Nat
           /\ DayOf(clock) \in SnapshotDays /\ DayOf(clock) \in Nat /\ NotRun = -1 /\ SnapshotDays \subseteq Nat
           /\ rounds.stage \in {"asleep", "synced"}
           /\ \/ rounds.at = NotRun
              \/ rounds.at \in 0 .. clock /\ rounds.at \in Nat /\ DayOf(rounds.at) \in Nat
           /\ \/ gate = NotRun
              \/ gate \in 0 .. clock /\ gate \in Nat /\ DayOf(gate) \in Nat
           /\ clock <= rounds.at + MaxTick
           /\ snaps \in [SnapshotDays -> Snapshots] /\ failed \in BOOLEAN
<1>1. clock \in 0 .. MaxClock /\ rounds.stage \in {"asleep", "synced"} /\ failed \in BOOLEAN
      /\ gate \in {NotRun} \cup 0 .. clock /\ rounds.at \in {NotRun} \cup 0 .. clock
      /\ clock <= rounds.at + MaxTick
  BY DEF KeepUpInv, RoundsTimed, SnapshotsTypeOK
<1>2. MaxTick \in Nat /\ MaxTick <= DayLength /\ DayLength \in Nat
  BY SnapshotBounds
<1>3. clock \in Nat /\ DayOf(clock) \in SnapshotDays /\ DayOf(clock) \in Nat
  BY <1>1, ClockDay
<1>4. rounds.at \in 0 .. clock => rounds.at \in Nat /\ DayOf(rounds.at) \in Nat
  BY <1>1, <1>3, Divides
<1>5. gate \in 0 .. clock => gate \in Nat /\ DayOf(gate) \in Nat
  BY <1>1, <1>3, Divides
<1>6. SnapshotDays \subseteq Nat /\ NotRun = -1
  BY DEF SnapshotDays, NotRun
<1>7. snaps \in [SnapshotDays -> Snapshots]
  BY DEF KeepUpInv, SnapshotsInv, SnapshotShapes
<1> QED BY <1>1, <1>2, <1>3, <1>4, <1>5, <1>6, <1>7

\* A step that leaves time, the scheduler and the snapshots alone.
LEMMA KeepUpIdle ==
    ASSUME KeepUpInv, SnapshotsInv', UNCHANGED <<clock, rounds, gate, snaps, failed>>,
           scores' \in ScoreRows, model' \in Models, spiked' \in SnapshotDays \cup {NotRun},
           moves' \in 0 .. MaxMoves
    PROVE  KeepUpInv'
<1>1. RoundsTimed'
  BY DEF KeepUpInv, RoundsTimed, SnapshotsTypeOK, SnapshotDays
<1>2. RoundCovered' /\ GateCovered' /\ SnapshotsKeepUp'
  BY DEF KeepUpInv, RoundCovered, GateCovered, SnapshotsKeepUp, Taken, SnapshotDays
<1> QED BY <1>1, <1>2 DEF KeepUpInv

\* A part of a day passes: the day that ends was covered by its last round.
LEMMA TickKeepsUp ==
    ASSUME KeepUpInv, TimePasses PROVE KeepUpInv'
<1>1. /\ clock < MaxClock /\ clock - rounds.at < MaxTick /\ clock' = clock + 1
      /\ UNCHANGED <<rounds, gate, snaps, scores, model, moved, spiked, moves, failed>>
  BY DEF TimePasses
<1> USE KeepUpNumbers
<1>2. /\ clock' \in Nat /\ clock' \in 0 .. MaxClock /\ 0 .. clock \subseteq 0 .. clock'
      /\ clock' <= rounds.at + MaxTick
  <2>1. clock \in Nat /\ MaxClock \in Nat /\ MaxTick \in Nat /\ rounds.at \in Int
    BY SnapshotBounds
  <2> QED BY <1>1, <2>1
<1>3. /\ DayOf(clock') \in Nat /\ DayOf(clock) <= DayOf(clock') /\ DayOf(clock') <= DayOf(clock) + 1
  <2>1. clock <= clock' /\ clock' <= clock + DayLength
    BY <1>1, SnapshotBounds
  <2> QED BY <1>2, <2>1, Divides, DaysFollow
<1>4. RoundsTimed'
  <2>1. SnapshotsTypeOK'
    <3>1. \A d \in SnapshotDays : snaps[d] # NoSnapshot =>
            snaps[d].taken \in 0 .. clock' /\ DayOf(snaps[d].taken) = d /\ snaps[d].of \in ScoreRows
      BY <1>2 DEF KeepUpInv, RoundsTimed, SnapshotsTypeOK
    <3>2. gate \in {NotRun} \cup 0 .. clock' /\ rounds.at \in {NotRun} \cup 0 .. clock'
      BY <1>2
    <3>3. /\ rounds.stage \in {"asleep", "synced"} /\ failed \in BOOLEAN /\ moves \in 0 .. MaxMoves
          /\ scores \in ScoreRows /\ model \in Models /\ spiked \in SnapshotDays \cup {NotRun}
      BY DEF KeepUpInv, RoundsTimed, SnapshotsTypeOK
    <3> QED BY <1>1, <1>2, <3>1, <3>2, <3>3, Zenon DEF SnapshotsTypeOK
  <2> QED BY <1>1, <1>2, <2>1 DEF KeepUpInv, RoundsTimed
<1>5. RoundCovered'
  BY <1>1 DEF KeepUpInv, RoundCovered, Taken, SnapshotDays
<1>6. GateCovered'
  <2>1. ASSUME ~failed, rounds.stage = "asleep", gate # NotRun
        PROVE  \E e \in DayOf(gate) .. DayOf(clock') : Taken(e)
    <3>1. PICK e \in DayOf(gate) .. DayOf(clock) : Taken(e)
      BY <2>1 DEF KeepUpInv, GateCovered
    <3>2. e \in DayOf(gate) .. DayOf(clock')
      BY <1>3, <2>1, <3>1
    <3> QED BY <3>1, <3>2
  <2> QED BY <1>1, <2>1 DEF GateCovered, Taken
<1>7. SnapshotsKeepUp'
  <2> SUFFICES ASSUME ~failed, NEW d \in SnapshotDays, d + 1 < DayOf(clock')
               PROVE  snaps[d] # NoSnapshot \/ snaps[d + 1] # NoSnapshot
    BY <1>1 DEF SnapshotsKeepUp
  <2>1. CASE d + 1 < DayOf(clock)
    BY <2>1 DEF KeepUpInv, SnapshotsKeepUp
  <2>2. CASE ~(d + 1 < DayOf(clock))
    <3>1. DayOf(clock) = d + 1 /\ DayOf(clock') = d + 2 /\ d \in Nat
      BY <1>3, <2>2
    <3>2. rounds.at # NotRun
      <4> SUFFICES ASSUME rounds.at = NotRun PROVE FALSE
        OBVIOUS
      <4>1. clock' < 0 + DayLength
        BY <1>2
      <4>2. DayOf(clock') <= DayOf(0) + 1 /\ DayOf(0) = 0
        BY <1>2, <4>1, Divides, DaysFollow
      <4> QED BY <3>1, <4>2
    <3>3. DayOf(rounds.at) = d + 1
      <4>1. rounds.at \in Nat /\ rounds.at <= clock /\ clock' <= rounds.at + DayLength
        BY <1>2, <3>2
      <4>2. DayOf(rounds.at) <= DayOf(clock) /\ DayOf(clock') <= DayOf(rounds.at) + 1 /\ DayOf(rounds.at) \in Nat
        BY <1>2, <4>1, Divides, DaysFollow
      <4> QED BY <3>1, <4>2
    <3>4. PICK e \in d .. d + 1 : Taken(e)
      BY <3>1, <3>2, <3>3 DEF KeepUpInv, RoundCovered
    <3> QED BY <3>1, <3>4 DEF Taken
  <2> QED BY <2>1, <2>2
<1>8. SnapshotsInv'
  BY TickKeeps DEF KeepUpInv
<1> QED BY <1>4, <1>5, <1>6, <1>7, <1>8 DEF KeepUpInv

\* A step of the scheduler, at some time, that leaves time and scores alone.
LEMMA SchedulerTypes ==
    ASSUME KeepUpInv, UNCHANGED <<clock, snaps, scores, model, moved, spiked, moves>>,
           rounds' \in [stage : {"asleep", "synced"}, at : {NotRun} \cup Nat],
           rounds'.at \in {rounds.at, clock}, gate' \in {NotRun, gate, clock}, failed' \in {failed, TRUE}
    PROVE  RoundsTimed' /\ SnapshotsKeepUp' /\ SnapshotsInv'
<1> USE KeepUpNumbers
<1>1. /\ rounds'.at \in {NotRun} \cup 0 .. clock /\ gate' \in {NotRun} \cup 0 .. clock
      /\ failed' \in BOOLEAN /\ clock <= rounds'.at + MaxTick
  <2>1. clock \in 0 .. clock /\ clock <= clock + MaxTick
    OBVIOUS
  <2> QED BY <2>1
<1>2. SnapshotsTypeOK
  BY DEF KeepUpInv, RoundsTimed
<1>3. SnapshotsTypeOK'
  <2>1. rounds'.stage \in {"asleep", "synced"} /\ SnapshotDays' = SnapshotDays
    BY DEF SnapshotDays
  <2> QED BY <1>1, <1>2, <2>1, Zenon DEF SnapshotsTypeOK
<1>4. SnapshotsKeepUp'
  <2>1. ~failed' => ~failed
    OBVIOUS
  <2> QED BY <2>1 DEF KeepUpInv, SnapshotsKeepUp, SnapshotDays
<1>5. SnapshotsInv'
  BY SnapshotsIdle DEF KeepUpInv, SnapshotsInv, SnapshotShapes
<1> QED BY <1>1, <1>3, <1>4, <1>5 DEF RoundsTimed

\* The sync is not due: its snapshot is of today or of yesterday.
LEMMA GoesRoundKeepsUp ==
    ASSUME KeepUpInv, GoesRound PROVE KeepUpInv'
<1>1. /\ rounds.stage = "asleep" /\ ~SyncIsDue /\ rounds' = [rounds EXCEPT !.at = clock]
      /\ UNCHANGED <<clock, gate, snaps, scores, model, moved, spiked, moves, failed>>
  BY DEF GoesRound
<1> USE KeepUpNumbers
<1>2. rounds'.at = clock /\ rounds'.stage = "asleep"
      /\ rounds' \in [stage : {"asleep", "synced"}, at : {NotRun} \cup Nat]
  BY <1>1 DEF KeepUpInv, RoundsTimed
<1>3. RoundsTimed' /\ SnapshotsKeepUp' /\ SnapshotsInv'
  BY <1>1, <1>2, SchedulerTypes
<1>4. gate \in Nat /\ gate # NotRun /\ clock < gate + DayLength
  BY <1>1 DEF SyncIsDue
<1>5. DayOf(clock) <= DayOf(gate) + 1 /\ DayOf(gate) \in Nat
  BY <1>4, DaysFollow, Divides
<1>6. ASSUME ~failed PROVE \E e \in DayOf(clock) - 1 .. DayOf(clock) : Taken(e)
  <2>1. PICK e \in DayOf(gate) .. DayOf(clock) : Taken(e)
    BY <1>1, <1>4, <1>6 DEF KeepUpInv, GateCovered
  <2>2. e \in DayOf(clock) - 1 .. DayOf(clock)
    BY <1>5, <2>1
  <2> QED BY <2>1, <2>2
<1>7. RoundCovered'
  BY <1>1, <1>2, <1>6 DEF RoundCovered, Taken, SnapshotDays
<1>8. GateCovered'
  BY <1>1, <1>2 DEF KeepUpInv, GateCovered, Taken, SnapshotDays
<1> QED BY <1>3, <1>7, <1>8 DEF KeepUpInv

LEMMA SyncEndsKeepsUp ==
    ASSUME KeepUpInv, TicketSyncEnds PROVE KeepUpInv'
<1>1. /\ rounds' = [stage |-> "synced", at |-> rounds.at] /\ gate' = clock
      /\ UNCHANGED <<clock, snaps, scores, model, moved, spiked, moves, failed>>
  BY DEF TicketSyncEnds
<1>2. rounds'.at = rounds.at /\ rounds'.stage = "synced"
      /\ rounds' \in [stage : {"asleep", "synced"}, at : {NotRun} \cup Nat]
  BY <1>1 DEF KeepUpInv, RoundsTimed
<1>3. RoundsTimed' /\ SnapshotsKeepUp' /\ SnapshotsInv'
  BY <1>1, <1>2, SchedulerTypes
<1>4. RoundCovered' /\ GateCovered'
  BY <1>1, <1>2 DEF KeepUpInv, RoundCovered, GateCovered, Taken, SnapshotDays
<1> QED BY <1>3, <1>4 DEF KeepUpInv

LEMMA FailureKeepsUp ==
    ASSUME KeepUpInv, TicketSyncFails \/ CaptureFails PROVE KeepUpInv'
<1>1. /\ rounds'.at = clock /\ failed' = TRUE
      /\ rounds' = [rounds EXCEPT !.at = clock] \/ rounds' = [stage |-> "asleep", at |-> clock]
      /\ UNCHANGED <<clock, gate, snaps, scores, model, moved, spiked, moves>>
  BY DEF TicketSyncFails, CaptureFails, KeepUpInv, RoundsTimed
<1>2. rounds' \in [stage : {"asleep", "synced"}, at : {NotRun} \cup Nat]
  BY <1>1, KeepUpNumbers DEF KeepUpInv, RoundsTimed
<1>3. RoundsTimed' /\ SnapshotsKeepUp' /\ SnapshotsInv'
  BY <1>1, <1>2, SchedulerTypes
<1>4. RoundCovered' /\ GateCovered'
  BY <1>1 DEF RoundCovered, GateCovered
<1> QED BY <1>3, <1>4 DEF KeepUpInv

LEMMA RestartKeepsUp ==
    ASSUME KeepUpInv, SchedulerRestarts PROVE KeepUpInv'
<1>1. /\ rounds' = [stage |-> "asleep", at |-> rounds.at] /\ gate' = NotRun
      /\ UNCHANGED <<clock, snaps, scores, model, moved, spiked, moves, failed>>
  BY DEF SchedulerRestarts
<1>2. rounds'.at = rounds.at /\ rounds' \in [stage : {"asleep", "synced"}, at : {NotRun} \cup Nat]
  BY <1>1 DEF KeepUpInv, RoundsTimed
<1>3. RoundsTimed' /\ SnapshotsKeepUp' /\ SnapshotsInv'
  BY <1>1, <1>2, SchedulerTypes, KeepUpNumbers
<1>4. RoundCovered' /\ GateCovered'
  BY <1>1, <1>2 DEF KeepUpInv, RoundCovered, GateCovered, Taken, SnapshotDays
<1> QED BY <1>3, <1>4 DEF KeepUpInv

\* The day of the capture has a snapshot, and the others keep theirs.
LEMMA CaptureKeepsUp ==
    ASSUME KeepUpInv, CapturesSnapshot PROVE KeepUpInv'
<1> DEFINE new == [taken |-> clock, of |-> scores]
           today == DayOf(clock)
<1>1. /\ snaps' = IF snaps[today] # NoSnapshot THEN snaps ELSE [snaps EXCEPT ![today] = new]
      /\ rounds' = [stage |-> "asleep", at |-> clock]
      /\ UNCHANGED <<clock, gate, scores, model, moved, spiked, moves, failed>>
  BY DEF CapturesSnapshot
<1> USE KeepUpNumbers
<1>2. new # NoSnapshot /\ new.taken = clock /\ new.of = scores
  <2>1. new.taken # NotRun /\ NoSnapshot.taken = NotRun
    BY DEF NoSnapshot
  <2> QED BY <2>1
<1> HIDE DEF new
<1>3. /\ \A d \in SnapshotDays : snaps'[d] = snaps[d] \/ (d = today /\ snaps'[d] = new)
      /\ snaps'[today] # NoSnapshot
      /\ \A d \in SnapshotDays : snaps[d] # NoSnapshot => snaps'[d] # NoSnapshot
  <2>1. CASE snaps[today] # NoSnapshot
    BY <1>1, <2>1
  <2>2. CASE snaps[today] = NoSnapshot
    BY <1>1, <1>2, <2>2
  <2> QED BY <2>1, <2>2
<1>4. rounds'.at = clock /\ rounds'.stage = "asleep"
      /\ rounds' \in [stage : {"asleep", "synced"}, at : {NotRun} \cup Nat]
  BY <1>1
<1>5. RoundsTimed'
  <2>1. SnapshotsTypeOK
    BY DEF KeepUpInv, RoundsTimed
  <2>2. ASSUME NEW d \in SnapshotDays, snaps'[d] # NoSnapshot
        PROVE  snaps'[d].taken \in 0 .. clock /\ DayOf(snaps'[d].taken) = d /\ snaps'[d].of \in ScoreRows
    <3>1. CASE snaps'[d] = snaps[d]
      BY <2>1, <2>2, <3>1 DEF SnapshotsTypeOK
    <3>2. CASE d = today /\ snaps'[d] = new
      <4>1. clock \in 0 .. clock /\ scores \in ScoreRows
        BY <2>1 DEF SnapshotsTypeOK
      <4> QED BY <1>2, <3>2, <4>1
    <3> QED BY <1>3, <3>1, <3>2
  <2>3. SnapshotsTypeOK'
    <3>1. SnapshotDays' = SnapshotDays /\ clock \in 0 .. clock
      BY DEF SnapshotDays
    <3> QED BY <1>1, <1>4, <2>1, <2>2, <3>1, Zenon DEF SnapshotsTypeOK
  <2> QED BY <1>1, <1>4, <2>3 DEF RoundsTimed
<1>6. RoundCovered' /\ GateCovered'
  <2>1. Taken(today)'
    <3>1. SnapshotDays' = SnapshotDays /\ today \in SnapshotDays /\ clock' = clock
      BY <1>1 DEF SnapshotDays
    <3>2. snaps'[today] # NoSnapshot
      BY <1>3
    <3> QED BY <3>1, <3>2 DEF Taken
  <2>2. today \in today - 1 .. today
    OBVIOUS
  <2>3. gate # NotRun => today \in DayOf(gate) .. today
    BY DaysFollow
  <2> QED BY <1>1, <1>4, <2>1, <2>2, <2>3 DEF RoundCovered, GateCovered
<1>7. SnapshotsKeepUp'
  <2> SUFFICES ASSUME ~failed, NEW d \in SnapshotDays, d + 1 < today
               PROVE  snaps'[d] # NoSnapshot \/ snaps'[d + 1] # NoSnapshot
    BY <1>1 DEF SnapshotsKeepUp, SnapshotDays
  <2>1. snaps[d] # NoSnapshot \/ snaps[d + 1] # NoSnapshot
    BY DEF KeepUpInv, SnapshotsKeepUp
  <2>2. d + 1 \in SnapshotDays
    <3> DEFINE last == DayOf(MaxClock + MaxTick)
    <3>1. last \in Nat
      <4>1. MaxClock + MaxTick \in Nat
        BY SnapshotBounds
      <4> QED BY <4>1, Divides
    <3>2. SnapshotDays = 0 .. last
      BY DEF SnapshotDays
    <3>3. today \in 0 .. last /\ d \in 0 .. last
      BY <3>2
    <3> HIDE DEF last, today
    <3> QED BY <3>1, <3>2, <3>3
  <2> QED BY <1>3, <2>1, <2>2
<1>8. SnapshotsInv'
  BY CaptureKeeps DEF KeepUpInv
<1> QED BY <1>5, <1>6, <1>7, <1>8 DEF KeepUpInv

LEMMA KeepUpInductive == KeepUpInv /\ [SnapshotsNext]_snapshotVars => KeepUpInv'
<1> SUFFICES ASSUME KeepUpInv, [SnapshotsNext]_snapshotVars PROVE KeepUpInv'
  OBVIOUS
<1>1. SnapshotsInv'
  BY SnapshotsInductive DEF KeepUpInv
<1>2. /\ scores \in ScoreRows /\ model \in Models /\ spiked \in SnapshotDays \cup {NotRun}
      /\ moves \in 0 .. MaxMoves /\ MaxMoves \in Nat /\ DayOf(clock) \in SnapshotDays
  BY KeepUpNumbers, SnapshotBounds DEF KeepUpInv, RoundsTimed, SnapshotsTypeOK
<1>3. CASE UNCHANGED snapshotVars
  BY <1>1, <1>2, <1>3, KeepUpIdle DEF snapshotVars
<1>4. CASE TimePasses \/ GoesRound \/ TicketSyncEnds \/ CapturesSnapshot \/ SchedulerRestarts
  BY <1>4, TickKeepsUp, GoesRoundKeepsUp, SyncEndsKeepsUp, CaptureKeepsUp, RestartKeepsUp
<1>5. CASE TicketSyncFails \/ CaptureFails
  BY <1>5, FailureKeepsUp
<1>6. Moves => moves' \in 0 .. MaxMoves
  BY <1>2 DEF Moves
<1>7. CASE ModelFlips
  BY <1>1, <1>2, <1>6, <1>7, KeepUpIdle DEF ModelFlips
<1>8. CASE ComparesScores
  BY <1>1, <1>2, <1>8, KeepUpIdle DEF ComparesScores
<1>9. ASSUME NEW of \in Models, NEW level \in Levels, ScoreMoves(of, level) PROVE KeepUpInv'
  <2>1. scores' \in ScoreRows
    BY <1>2, <1>9 DEF ScoreMoves, ScoreRows
  <2> QED BY <1>1, <1>2, <1>6, <1>9, <2>1, KeepUpIdle DEF ScoreMoves
<1> QED BY <1>3, <1>4, <1>5, <1>7, <1>8, <1>9 DEF SnapshotsNext

(* SnapshotsSound: capture_daily_snapshot leaves no two days in a row without  *)
(* a snapshot, however its time creeps forward and whenever the scheduler      *)
(* restarts, unless a sync or a capture failed.                                *)
THEOREM SnapshotsAreSound == SnapshotsSpec => []SnapshotsSound
<1>1. KeepUpInv => SnapshotsSound
  BY DEF SnapshotsSound, KeepUpInv, RoundsTimed
<1> QED BY <1>1, KeepUpStart, KeepUpInductive, PTL DEF SnapshotsSpec

-----------------------------------------------------------------------------
(* Tickets on the screens, and their deletion: a list shows a ticket as its   *)
(* page does, and a deletion reopens nothing that was suppressed, but for     *)
(* what it had read and not yet written.                                      *)

DeskSpec == DeskInit /\ [][DeskNext]_deskVars

LineRec == [id : Nat, resolved : BOOLEAN, blocked : BOOLEAN]
RemovalRec ==
    [stage : {"next", "held"}, url : Urls, todo : SUBSET DeskFindings, done : SUBSET (DeskFindings \cup {None0}),
     at : DeskFindings \cup {None0}, reopens : SUBSET DeskFindings, late : SUBSET (DeskFindings \cup {None0})]

\* The rows of a ticket are opened, blocked and resolved together.
RowsShaped ==
    /\ DOMAIN lines \subseteq Urls \X DeskFindings
    /\ \A l \in DOMAIN lines : lines[l] \in LineRec /\ l[1] \in tasks
RowsAgree ==
    \A k, l \in DOMAIN lines : k[1] = l[1] =>
        lines[k].resolved = lines[l].resolved /\ lines[k].blocked = lines[l].blocked
\* What a deletion will reopen it has written, or holds since it read it.
RemovalsShaped ==
    /\ verdict \in [DeskFindings -> Verdicts]
    /\ removal \in [Deleters -> {NoRemoval} \cup RemovalRec]
ReopensKnown ==
    \A p \in Deleters : removal[p] # NoRemoval =>
        \A f \in removal[p].reopens :
            /\ removal[p].stage = "held" /\ f \in removal[p].done \cup {removal[p].at}
            /\ verdict[f] = "SUPPRESSED" => f \in removal[p].late
RowsInv == RowsShaped /\ RowsAgree
RemovalsInv == RemovalsShaped /\ ReopensKnown

-----------------------------------------------------------------------------
(* The rows of a ticket.                                                      *)

LEMMA RowsStart == DeskInit => RowsInv
BY DEF DeskInit, RowsInv, RowsShaped, RowsAgree

LEMMA RowsIdle ==
    ASSUME RowsInv, UNCHANGED <<lines, tasks>> PROVE RowsInv'
BY DEF RowsInv, RowsShaped, RowsAgree

LEMMA OpeningKeepsRows ==
    ASSUME RowsInv, NEW u \in Urls, OpensTask(u) PROVE RowsInv'
<1> DEFINE linked == Linkage(u)
<1>1. PICK id \in [linked -> 1 .. Cardinality(linked)] :
        lines' = [l \in DOMAIN lines \cup ({u} \X linked) |->
                    IF l[1] = u THEN [id |-> id[l[2]], resolved |-> FALSE, blocked |-> FALSE] ELSE lines[l]]
  BY DEF OpensTask
<1>2. u \notin tasks /\ tasks' = tasks \cup {u}
  BY DEF OpensTask
<1>3. linked \subseteq DeskFindings
  BY DEF Linkage, DeskFindings
<1>4. \A l \in DOMAIN lines : l[1] # u
  BY <1>2 DEF RowsInv, RowsShaped
<1>5. DOMAIN lines' = DOMAIN lines \cup ({u} \X linked)
  BY <1>1
<1>6. \A l \in DOMAIN lines : lines'[l] = lines[l]
  BY <1>1, <1>4
<1>7. \A l \in {u} \X linked :
        /\ l[1] = u
        /\ lines'[l] \in LineRec /\ lines'[l].resolved = FALSE /\ lines'[l].blocked = FALSE
  <2> SUFFICES ASSUME NEW l \in {u} \X linked
               PROVE  /\ l[1] = u
                      /\ lines'[l] \in LineRec /\ lines'[l].resolved = FALSE /\ lines'[l].blocked = FALSE
    OBVIOUS
  <2>1. l[1] = u /\ l[2] \in linked
    OBVIOUS
  <2>2. lines'[l] = [id |-> id[l[2]], resolved |-> FALSE, blocked |-> FALSE]
    BY <1>1, <2>1
  <2>3. id[l[2]] \in Nat
    BY <2>1
  <2> QED BY <2>1, <2>2, <2>3 DEF LineRec
<1>8. RowsShaped'
  BY <1>2, <1>3, <1>5, <1>6, <1>7 DEF RowsInv, RowsShaped
<1>9. RowsAgree'
  <2> SUFFICES ASSUME NEW k \in DOMAIN lines', NEW l \in DOMAIN lines', k[1] = l[1]
               PROVE  lines'[k].resolved = lines'[l].resolved /\ lines'[k].blocked = lines'[l].blocked
    BY DEF RowsAgree
  <2>1. CASE k \in DOMAIN lines
    <3>1. l \in DOMAIN lines
      BY <1>4, <1>5, <1>7, <2>1
    <3> QED BY <1>6, <2>1, <3>1 DEF RowsInv, RowsAgree
  <2>2. CASE k \in {u} \X linked
    <3>1. l \in {u} \X linked
      BY <1>4, <1>5, <1>7, <2>2
    <3> QED BY <1>7, <2>2, <3>1
  <2> QED BY <1>5, <2>1, <2>2
<1> QED BY <1>8, <1>9 DEF RowsInv

LEMMA ClosingKeepsRows ==
    ASSUME RowsInv, NEW u \in Urls, ClosesTask(u) PROVE RowsInv'
<1>1. /\ lines' = [l \in DOMAIN lines |-> IF l[1] = u THEN [lines[l] EXCEPT !.resolved = TRUE] ELSE lines[l]]
      /\ tasks' = tasks
  BY DEF ClosesTask
<1>2. \A l \in DOMAIN lines :
        /\ lines'[l] \in LineRec /\ lines'[l].blocked = lines[l].blocked
        /\ lines'[l].resolved = IF l[1] = u THEN TRUE ELSE lines[l].resolved
  BY <1>1 DEF RowsInv, RowsShaped, LineRec
<1>3. DOMAIN lines' = DOMAIN lines
  BY <1>1
<1>4. RowsShaped'
  BY <1>1, <1>2, <1>3 DEF RowsInv, RowsShaped
<1>5. RowsAgree'
  <2> SUFFICES ASSUME NEW k \in DOMAIN lines, NEW l \in DOMAIN lines, k[1] = l[1]
               PROVE  lines'[k].resolved = lines'[l].resolved /\ lines'[k].blocked = lines'[l].blocked
    BY <1>3 DEF RowsAgree
  <2>1. lines[k].resolved = lines[l].resolved /\ lines[k].blocked = lines[l].blocked
    BY DEF RowsInv, RowsAgree
  <2> QED BY <1>2, <2>1
<1> QED BY <1>4, <1>5 DEF RowsInv

LEMMA BlockingKeepsRows ==
    ASSUME RowsInv, NEW l0, NEW blocked \in BOOLEAN, Blocks(l0, blocked) PROVE RowsInv'
<1>1. /\ lines' = [k \in DOMAIN lines |-> IF k[1] = l0[1] THEN [lines[k] EXCEPT !.blocked = blocked] ELSE lines[k]]
      /\ tasks' = tasks
  BY DEF Blocks
<1>2. \A k \in DOMAIN lines :
        /\ lines'[k] \in LineRec /\ lines'[k].resolved = lines[k].resolved
        /\ lines'[k].blocked = IF k[1] = l0[1] THEN blocked ELSE lines[k].blocked
  BY <1>1 DEF RowsInv, RowsShaped, LineRec
<1>3. DOMAIN lines' = DOMAIN lines
  BY <1>1
<1> QED BY <1>1, <1>2, <1>3 DEF RowsInv, RowsShaped, RowsAgree

LEMMA CommitKeepsRows ==
    ASSUME RowsInv, NEW p \in Deleters, RemovalCommits(p) PROVE RowsInv'
<1>1. /\ lines' = [l \in DOMAIN lines \ Gone(removal[p]) |-> lines[l]]
      /\ tasks' = tasks
  BY DEF RemovalCommits
<1>2. /\ DOMAIN lines' \subseteq DOMAIN lines
      /\ \A l \in DOMAIN lines' : lines'[l] = lines[l]
  BY <1>1
<1> QED BY <1>1, <1>2 DEF RowsInv, RowsShaped, RowsAgree

LEMMA RowsInductive == RowsInv /\ [DeskNext]_deskVars => RowsInv'
<1> SUFFICES ASSUME RowsInv, [DeskNext]_deskVars PROVE RowsInv'
  OBVIOUS
<1>1. CASE UNCHANGED deskVars
  BY <1>1, RowsIdle DEF deskVars
<1>2. ASSUME NEW u \in Urls, OpensTask(u) \/ ClosesTask(u) PROVE RowsInv'
  BY <1>2, OpeningKeepsRows, ClosingKeepsRows
<1>3. ASSUME NEW u \in Urls, NEW blocked \in BOOLEAN, BulkBlocks(u, blocked) PROVE RowsInv'
  BY <1>3, BlockingKeepsRows DEF BulkBlocks
<1>4. ASSUME NEW p \in People, NEW blocked \in BOOLEAN, BlocksFromPage(p, blocked) PROVE RowsInv'
  BY <1>4, BlockingKeepsRows DEF BlocksFromPage
<1>5. ASSUME NEW f \in DeskFindings, NEW s \in Verdicts, SetsVerdict(f, s) PROVE RowsInv'
  BY <1>5, RowsIdle DEF SetsVerdict
<1>6. ASSUME NEW p \in People, NEW filter \in DeskFilters, NEW u \in Urls, OpensTicket(p, filter, u)
      PROVE  RowsInv'
  BY <1>6, RowsIdle DEF OpensTicket
<1>7. ASSUME NEW p \in People, NEW kind \in {"comment", "watch"}, Notes(p, kind) \/ Unwatches(p)
      PROVE  RowsInv'
  BY <1>7, RowsIdle DEF Notes, Unwatches
<1>8. ASSUME NEW p \in Deleters, NEW u \in Urls, RemovalBegins(p, u) PROVE RowsInv'
  BY <1>8, RowsIdle DEF RemovalBegins
<1>9. ASSUME NEW p \in Deleters, NEW f \in DeskFindings, RemovalReads(p, f) PROVE RowsInv'
  BY <1>9, RowsIdle DEF RemovalReads
<1>10. ASSUME NEW p \in Deleters, RemovalCommits(p) \/ RemovalFails(p) PROVE RowsInv'
  BY <1>10, RowsIdle, CommitKeepsRows DEF RemovalFails
<1>11. CASE CountsAll \/ CountsOpen \/ StatsAreRead
  BY <1>11, RowsIdle DEF CountsAll, CountsOpen, StatsAreRead
<1> QED BY <1>1, <1>2, <1>3, <1>4, <1>5, <1>6, <1>7, <1>8, <1>9, <1>10, <1>11 DEF DeskNext

\* Rows that agree show the same whichever of them a filter keeps.
LEMMA AggregateOfSome ==
    ASSUME RowsInv, NEW u, NEW rows, rows # {}, rows \subseteq RowsOf(u)
    PROVE  Aggregate(rows) = Aggregate(RowsOf(u))
<1>1. PICK k \in rows : TRUE
  OBVIOUS
<1>2. \A l \in RowsOf(u) :
        /\ lines[l].resolved = lines[k].resolved /\ lines[l].blocked = lines[k].blocked
  BY <1>1 DEF RowsInv, RowsAgree, RowsOf
<1>3. /\ (\E l \in rows : lines[l].resolved) <=> (\E l \in RowsOf(u) : lines[l].resolved)
      /\ (\E l \in rows : lines[l].blocked) <=> (\E l \in RowsOf(u) : lines[l].blocked)
  BY <1>1, <1>2
<1> QED BY <1>3 DEF Aggregate

\* list_tickets shows a ticket as get_ticket_detail does, under every filter.
THEOREM ListsAgree == DeskSpec => []ListedAsOnPage
<1>1. DeskInit => RowsInv
  BY RowsStart
<1>2. RowsInv /\ [DeskNext]_deskVars => RowsInv'
  BY RowsInductive
<1>3. RowsInv => ListedAsOnPage
  <2> SUFFICES ASSUME RowsInv, NEW filter \in DeskFilters, NEW u \in Listing(filter)
               PROVE  Item(filter, u) = PageOf(u)
    BY DEF ListedAsOnPage
  <2>1. ItemRows(filter, u) # {} /\ ItemRows(filter, u) \subseteq RowsOf(u)
    BY DEF Listing, ItemRows
  <2> QED BY <2>1, AggregateOfSome DEF Item, PageOf
<1> QED BY <1>1, <1>2, <1>3, PTL DEF DeskSpec

-----------------------------------------------------------------------------
(* Bulk deletions.                                                            *)

LEMMA RemovalsStart == DeskInit => RemovalsInv
BY DEF DeskInit, RemovalsInv, RemovalsShaped, ReopensKnown, Verdicts

\* A deletion that nothing touches, while no verdict becomes SUPPRESSED.
LEMMA RemovalsIdle ==
    ASSUME RemovalsInv, UNCHANGED <<verdict, removal>> PROVE RemovalsInv'
BY DEF RemovalsInv, RemovalsShaped, ReopensKnown

\* What a write adds to a deletion: the finding it holds, if it is written.
Later(of) ==
    [p \in Deleters |->
       IF removal[p].stage = "held" THEN [removal[p] EXCEPT !.late = removal[p].late \cup (of \cap {removal[p].at})]
       ELSE removal[p]]
LEMMA LaterKnows ==
    ASSUME RemovalsInv, NEW of, NEW p \in Deleters, removal'[p] \in {NoRemoval, Later(of)[p]}
    PROVE  /\ removal'[p] \in {NoRemoval} \cup RemovalRec
           /\ removal'[p] # NoRemoval =>
                /\ removal[p] # NoRemoval
                /\ removal'[p].stage = removal[p].stage /\ removal'[p].done = removal[p].done
                /\ removal'[p].at = removal[p].at /\ removal'[p].reopens = removal[p].reopens
                /\ removal[p].late \subseteq removal'[p].late
                /\ removal[p].stage = "held" /\ removal[p].at \in of => removal[p].at \in removal'[p].late
<1>1. removal[p] \in {NoRemoval} \cup RemovalRec
  BY DEF RemovalsInv, RemovalsShaped
<1>2. CASE removal[p].stage # "held"
  <2>1. Later(of)[p] = removal[p]
    BY <1>2 DEF Later
  <2>2. removal'[p] \in {NoRemoval, removal[p]}
    BY <2>1
  <2> QED BY <1>1, <1>2, <2>2
<1>3. CASE removal[p].stage = "held"
  <2>1. removal[p] \in RemovalRec /\ removal[p] # NoRemoval
    BY <1>1, <1>3 DEF NoRemoval
  <2> DEFINE new == [removal[p] EXCEPT !.late = removal[p].late \cup (of \cap {removal[p].at})]
  <2>2. removal'[p] \in {NoRemoval, new}
    BY <1>3 DEF Later
  <2>3. removal[p].late \cup (of \cap {removal[p].at}) \in SUBSET (DeskFindings \cup {None0})
    BY <2>1 DEF RemovalRec
  <2>4. /\ new \in RemovalRec
        /\ new.stage = removal[p].stage /\ new.done = removal[p].done
        /\ new.at = removal[p].at /\ new.reopens = removal[p].reopens
        /\ new.late = removal[p].late \cup (of \cap {removal[p].at})
    BY <2>1, <2>3 DEF RemovalRec
  <2> HIDE DEF new
  <2> QED BY <2>1, <2>2, <2>4
<1> QED BY <1>2, <1>3

\* A write that suppresses no finding but those it counts as written, none of
\* which a deletion has locked.
LEMMA WriteKeepsRemovals ==
    ASSUME RemovalsInv, NEW of, removal' = [p \in Deleters |-> removal'[p]],
           \A p \in Deleters : removal'[p] \in {NoRemoval, Later(of)[p]}, verdict' \in [DeskFindings -> Verdicts],
           \A f \in DeskFindings :
              verdict'[f] = "SUPPRESSED" => verdict[f] = "SUPPRESSED" \/ (f \in of /\ ~Locked(f))
    PROVE  RemovalsInv'
<1>1. RemovalsShaped'
  <2>2. \A p \in Deleters : removal'[p] \in {NoRemoval} \cup RemovalRec
    BY LaterKnows
  <2> QED BY <2>2 DEF RemovalsShaped
<1>2. ReopensKnown'
  <2> SUFFICES ASSUME NEW p \in Deleters, removal'[p] # NoRemoval, NEW f \in removal'[p].reopens
               PROVE  /\ removal'[p].stage = "held" /\ f \in removal'[p].done \cup {removal'[p].at}
                      /\ verdict'[f] = "SUPPRESSED" => f \in removal'[p].late
    BY DEF ReopensKnown
  <2>1. /\ removal[p] # NoRemoval
        /\ removal'[p].stage = removal[p].stage /\ removal'[p].done = removal[p].done
        /\ removal'[p].at = removal[p].at /\ removal'[p].reopens = removal[p].reopens
        /\ removal[p].late \subseteq removal'[p].late
        /\ removal[p].stage = "held" /\ removal[p].at \in of => removal[p].at \in removal'[p].late
    BY LaterKnows
  <2>2. /\ removal[p].stage = "held" /\ f \in removal[p].done \cup {removal[p].at}
        /\ verdict[f] = "SUPPRESSED" => f \in removal[p].late
    BY <2>1 DEF RemovalsInv, ReopensKnown
  <2>3. f \in DeskFindings
    <3>1. removal[p] \in RemovalRec
      BY <2>1 DEF RemovalsInv, RemovalsShaped
    <3> QED BY <2>1, <3>1 DEF RemovalRec
  <2>4. ASSUME f \in of, ~Locked(f) PROVE f = removal[p].at
    <3>1. f \notin removal[p].done
      BY <2>1, <2>4 DEF Locked, Held
    <3> QED BY <2>2, <3>1
  <2> QED BY <2>1, <2>2, <2>3, <2>4
<1> QED BY <1>1, <1>2 DEF RemovalsInv

LEMMA DeskWritesRemoval ==
    ASSUME NEW of, DeskWrite(of)
    PROVE  /\ removal' = [p \in Deleters |-> removal'[p]]
           /\ \A p \in Deleters : removal'[p] \in {NoRemoval, Later(of)[p]}
BY DEF DeskWrite, Later

LEMMA VerdictsKeepRemovals ==
    ASSUME RemovalsInv, NEW u \in Urls, OpensTask(u) \/ ClosesTask(u) PROVE RemovalsInv'
<1>1. CASE OpensTask(u)
  <2>1. /\ DeskWrite(Linkage(u))
        /\ verdict' = [f \in DeskFindings |-> IF f \in Linkage(u) THEN "IN_PROGRESS" ELSE verdict[f]]
    BY <1>1 DEF OpensTask
  <2>2. verdict' \in [DeskFindings -> Verdicts]
    BY <2>1 DEF RemovalsInv, RemovalsShaped, Verdicts
  <2>3. \A f \in DeskFindings : verdict'[f] = "SUPPRESSED" => verdict[f] = "SUPPRESSED"
    BY <2>1
  <2> QED BY <2>1, <2>2, <2>3, DeskWritesRemoval, WriteKeepsRemovals
<1>2. CASE ClosesTask(u)
  <2>1. /\ DeskWrite({l[2] : l \in RowsOf(u)})
        /\ verdict' = [f \in DeskFindings |->
             IF <<u, f>> \in RowsOf(u) /\ verdict[f] # "SUPPRESSED" THEN "REMEDIATED" ELSE verdict[f]]
    BY <1>2 DEF ClosesTask
  <2>2. verdict' \in [DeskFindings -> Verdicts]
    BY <2>1 DEF RemovalsInv, RemovalsShaped, Verdicts
  <2>3. \A f \in DeskFindings : verdict'[f] = "SUPPRESSED" => verdict[f] = "SUPPRESSED"
    BY <2>1
  <2> QED BY <2>1, <2>2, <2>3, DeskWritesRemoval, WriteKeepsRemovals
<1> QED BY <1>1, <1>2

LEMMA SettingKeepsRemovals ==
    ASSUME RemovalsInv, NEW f \in DeskFindings, NEW s \in Verdicts, SetsVerdict(f, s) PROVE RemovalsInv'
<1>1. DeskWrite({f}) /\ verdict' = [verdict EXCEPT ![f] = s] /\ ~Locked(f)
  BY DEF SetsVerdict
<1>2. verdict' \in [DeskFindings -> Verdicts]
  BY <1>1 DEF RemovalsInv, RemovalsShaped
<1>3. \A g \in DeskFindings :
        verdict'[g] = "SUPPRESSED" => verdict[g] = "SUPPRESSED" \/ (g \in {f} /\ ~Locked(g))
  BY <1>1 DEF RemovalsInv, RemovalsShaped
<1> QED BY <1>1, <1>2, <1>3, DeskWritesRemoval, WriteKeepsRemovals

\* Blocks and notes write no finding.
LEMMA OtherWritesKeepRemovals ==
    ASSUME RemovalsInv, DeskWrite({}), verdict' = verdict PROVE RemovalsInv'
BY DeskWritesRemoval, WriteKeepsRemovals DEF RemovalsInv, RemovalsShaped

LEMMA BeginningKeepsRemovals ==
    ASSUME RemovalsInv, RowsInv, NEW p \in Deleters, NEW u \in Urls, RemovalBegins(p, u) PROVE RemovalsInv'
<1> DEFINE new == [stage |-> "next", url |-> u, todo |-> {l[2] : l \in RowsOf(u)}, done |-> {},
                   at |-> None0, reopens |-> {}, late |-> {}]
<1>1. removal' = [removal EXCEPT ![p] = new] /\ verdict' = verdict
  BY DEF RemovalBegins
<1>2. {l[2] : l \in RowsOf(u)} \subseteq DeskFindings
  BY DEF RowsInv, RowsShaped, RowsOf
<1>3. new \in RemovalRec /\ new.reopens = {}
  BY <1>2 DEF RemovalRec
<1> HIDE DEF new
<1>4. /\ removal' \in [Deleters -> {NoRemoval} \cup RemovalRec]
      /\ \A q \in Deleters : removal'[q] = IF q = p THEN new ELSE removal[q]
  BY <1>1, <1>3 DEF RemovalsInv, RemovalsShaped
<1> QED BY <1>1, <1>3, <1>4 DEF RemovalsInv, RemovalsShaped, ReopensKnown

\* What was at hand is sent if it is reopened; the next finding is at hand.
LEMMA ReadingKeepsRemovals ==
    ASSUME RemovalsInv, NEW p \in Deleters, NEW f \in DeskFindings, RemovalReads(p, f) PROVE RemovalsInv'
<1> DEFINE r == removal[p]
           new == [r EXCEPT !.stage = "held", !.todo = r.todo \ {f}, !.done = Sent(r), !.at = f,
                            !.reopens = IF Reopens(f) THEN r.reopens \cup {f} ELSE r.reopens]
<1>1. /\ r # NoRemoval /\ f \in r.todo /\ verdict' = verdict
      /\ removal' = [removal EXCEPT ![p] = new]
  BY DEF RemovalReads
<1>2. r \in RemovalRec
  BY <1>1 DEF RemovalsInv, RemovalsShaped
<1>3. /\ new \in RemovalRec /\ new.stage = "held" /\ new.done = Sent(r) /\ new.at = f
      /\ new.reopens = (IF Reopens(f) THEN r.reopens \cup {f} ELSE r.reopens) /\ new.late = r.late
  BY <1>2 DEF RemovalRec, Sent
<1>4. \A g \in r.reopens : g \in Sent(r) /\ (verdict[g] = "SUPPRESSED" => g \in r.late)
  BY <1>1 DEF RemovalsInv, ReopensKnown, Sent
<1>5. Reopens(f) => verdict[f] # "SUPPRESSED"
  BY DEF Reopens
<1>6. \A g \in new.reopens : g \in new.done \cup {new.at} /\ (verdict[g] = "SUPPRESSED" => g \in new.late)
  BY <1>3, <1>4, <1>5
<1> HIDE DEF new
<1>7. /\ removal' \in [Deleters -> {NoRemoval} \cup RemovalRec]
      /\ \A q \in Deleters : removal'[q] = IF q = p THEN new ELSE removal[q]
  BY <1>1, <1>3 DEF RemovalsInv, RemovalsShaped
<1> QED BY <1>1, <1>3, <1>6, <1>7 DEF RemovalsInv, RemovalsShaped, ReopensKnown

\* What a deletion reopens is written when it commits; others that hold one of
\* those findings are late.
LEMMA CommitKeepsRemovals ==
    ASSUME RemovalsInv, NEW p \in Deleters, RemovalCommits(p) PROVE RemovalsInv'
<1> DEFINE r == removal[p]
<1>1. /\ verdict' = [f \in DeskFindings |-> IF f \in r.reopens THEN "OPEN" ELSE verdict[f]]
      /\ removal' = [q \in Deleters |->
           IF q = p THEN NoRemoval
           ELSE IF removal[q].stage = "held"
                THEN [removal[q] EXCEPT !.late = removal[q].late \cup (r.reopens \cap {removal[q].at})]
           ELSE removal[q]]
  BY DEF RemovalCommits
<1>2. verdict' \in [DeskFindings -> Verdicts]
  BY <1>1 DEF RemovalsInv, RemovalsShaped, Verdicts
<1>3. \A f \in DeskFindings : verdict'[f] = "SUPPRESSED" => verdict[f] = "SUPPRESSED"
  BY <1>1
<1>4. \A q \in Deleters : removal'[q] \in {NoRemoval, Later(r.reopens)[q]}
  BY <1>1 DEF Later
<1>5. removal' = [q \in Deleters |-> removal'[q]]
  BY <1>1
<1> QED BY <1>2, <1>3, <1>4, <1>5, WriteKeepsRemovals

LEMMA FailureKeepsRemovals ==
    ASSUME RemovalsInv, NEW p \in Deleters, RemovalFails(p) PROVE RemovalsInv'
<1>1. removal' = [removal EXCEPT ![p] = NoRemoval] /\ verdict' = verdict
  BY DEF RemovalFails
<1>2. /\ removal' \in [Deleters -> {NoRemoval} \cup RemovalRec]
      /\ \A q \in Deleters : removal'[q] = IF q = p THEN NoRemoval ELSE removal[q]
  BY <1>1 DEF RemovalsInv, RemovalsShaped
<1> QED BY <1>1, <1>2 DEF RemovalsInv, RemovalsShaped, ReopensKnown

LEMMA RemovalsInductive == RowsInv /\ RemovalsInv /\ [DeskNext]_deskVars => RemovalsInv'
<1> SUFFICES ASSUME RowsInv, RemovalsInv, [DeskNext]_deskVars PROVE RemovalsInv'
  OBVIOUS
<1>1. CASE UNCHANGED deskVars
  BY <1>1, RemovalsIdle DEF deskVars
<1>2. ASSUME NEW u \in Urls, OpensTask(u) \/ ClosesTask(u) PROVE RemovalsInv'
  BY <1>2, VerdictsKeepRemovals
<1>3. ASSUME NEW u \in Urls, NEW blocked \in BOOLEAN, BulkBlocks(u, blocked) PROVE RemovalsInv'
  BY <1>3, OtherWritesKeepRemovals DEF BulkBlocks, Blocks
<1>4. ASSUME NEW p \in People, NEW blocked \in BOOLEAN, BlocksFromPage(p, blocked) PROVE RemovalsInv'
  BY <1>4, OtherWritesKeepRemovals DEF BlocksFromPage, Blocks
<1>5. ASSUME NEW f \in DeskFindings, NEW s \in Verdicts, SetsVerdict(f, s) PROVE RemovalsInv'
  BY <1>5, SettingKeepsRemovals
<1>6. ASSUME NEW p \in People, NEW filter \in DeskFilters, NEW u \in Urls, OpensTicket(p, filter, u)
      PROVE  RemovalsInv'
  BY <1>6, RemovalsIdle DEF OpensTicket
<1>7. ASSUME NEW p \in People, NEW kind \in {"comment", "watch"}, Notes(p, kind) \/ Unwatches(p)
      PROVE  RemovalsInv'
  <2>1. CASE Notes(p, kind)
    BY <2>1, OtherWritesKeepRemovals DEF Notes
  <2>2. CASE Unwatches(p)
    BY <2>2, RemovalsIdle DEF Unwatches
  <2> QED BY <1>7, <2>1, <2>2
<1>8. ASSUME NEW p \in Deleters, NEW u \in Urls, RemovalBegins(p, u) PROVE RemovalsInv'
  BY <1>8, BeginningKeepsRemovals
<1>9. ASSUME NEW p \in Deleters, NEW f \in DeskFindings, RemovalReads(p, f) PROVE RemovalsInv'
  BY <1>9, ReadingKeepsRemovals
<1>10. ASSUME NEW p \in Deleters, RemovalCommits(p) \/ RemovalFails(p) PROVE RemovalsInv'
  BY <1>10, CommitKeepsRemovals, FailureKeepsRemovals
<1>11. CASE CountsAll \/ CountsOpen \/ StatsAreRead
  BY <1>11, RemovalsIdle DEF CountsAll, CountsOpen, StatsAreRead
<1> QED BY <1>1, <1>2, <1>3, <1>4, <1>5, <1>6, <1>7, <1>8, <1>9, <1>10, <1>11 DEF DeskNext

\* A bulk deletion reopens nothing that was suppressed, unless that happened
\* between its reading of the finding and its writing.
THEOREM DeletionsSpareSuppressed == DeskSpec => SuppressedStay
<1>1. DeskInit => RowsInv /\ RemovalsInv
  BY RowsStart, RemovalsStart
<1>2. RowsInv /\ RemovalsInv /\ [DeskNext]_deskVars => RowsInv' /\ RemovalsInv'
  BY RowsInductive, RemovalsInductive
<1>3. RowsInv /\ RemovalsInv /\ [DeskNext]_deskVars =>
        [\A p \in Deleters : RemovalCommits(p) =>
           \A f \in removal[p].reopens : verdict[f] = "SUPPRESSED" => f \in removal[p].late]_deskVars
  BY DEF RemovalsInv, ReopensKnown, RemovalCommits
<1> QED BY <1>1, <1>2, <1>3, PTL DEF DeskSpec, SuppressedStay

-----------------------------------------------------------------------------
(* Scheduled reports: what the run in progress relies on, of each report that *)
(* it has still to mail, and what the last mail and the row say of each other *)

ReportsSpec == ReportsInit /\ [][ReportsNext]_reportVars

ReportRows == [there : BOOLEAN, on : BOOLEAN, schedule : 1 .. Longest, age : Ages,
               result : {"none", "SUCCESS", "FAILED"}]
MailRows == [age : Ages, unmarked : BOOLEAN]
MarkSets == UNION {[S -> {"SUCCESS", "FAILED"}] : S \in SUBSET ReportIds}
ReportRuns == [on : BOOLEAN, read : [ReportIds -> 1 .. Longest], todo : SUBSET ReportIds, marks : MarkSets,
               held : SUBSET ReportIds, gone : SUBSET ReportIds, sent : BOOLEAN, broken : BOOLEAN]
ReportShapes ==
    /\ ReportsTypeOK /\ reportRun \in ReportRuns
    /\ reportRun.todo \cap DOMAIN reportRun.marks = {}
    /\ ~reportRun.on => reportRun.todo = {} /\ DOMAIN reportRun.marks = {}
MarkedAs(r, result) == r \in DOMAIN reportRun.marks /\ reportRun.marks[r] = result
\* The mail of a report is as old as its row says, but for a mark not committed.
MailAsMarked(r) ==
    reports[r].there /\ ~MarkedAs(r, "SUCCESS") => mailed[r].age >= reports[r].age \/ mailed[r].unmarked
\* What the run has not mailed yet has waited for the period that it read.
DueHasWaited(r) ==
    r \in reportRun.todo \/ MarkedAs(r, "FAILED")
        => mailed[r].age >= reportRun.read[r] \/ mailed[r].unmarked
\* A failure has a date.
FailureIsDated(r) ==
    reports[r].there /\ reports[r].result = "FAILED" => reports[r].age <= Longest
FailureTold(r) ==
    reports[r].there /\ reports[r].result = "FAILED" =>
        \/ mailed[r].age > reports[r].age \/ reports[r].age = Longest
        \/ mailed[r].unmarked \/ MarkedAs(r, "SUCCESS")
ReportHolds(r) == MailAsMarked(r) /\ DueHasWaited(r) /\ FailureIsDated(r) /\ FailureTold(r)
ReportsInv == ReportShapes /\ \A r \in ReportIds : ReportHolds(r)

LEMMA NoMarks == <<>> \in MarkSets /\ DOMAIN <<>> = {}
<1>1. DOMAIN <<>> = {} /\ <<>> \in [{} -> {"SUCCESS", "FAILED"}]
  OBVIOUS
<1> QED BY <1>1 DEF MarkSets

LEMMA NoRunShape ==
    /\ NoReportRun \in ReportRuns /\ ~NoReportRun.on /\ NoReportRun.todo = {}
    /\ DOMAIN NoReportRun.marks = {} /\ ~NoReportRun.broken
BY NoMarks, ReportBounds DEF NoReportRun, ReportRuns

LEMMA AgeBounds ==
    /\ Forever \in Ages /\ 0 \in Ages /\ Longest \in Nat /\ Forever > Longest /\ Longest \in 1 .. Longest
    /\ \A a \in Ages : a \in Nat /\ Older(a, Longest) \in Ages
BY ReportBounds DEF Ages, Forever, Older

LEMMA ReportsStart == ReportsInit => ReportsInv
<1> SUFFICES ASSUME ReportsInit PROVE ReportsInv
  OBVIOUS
<1>1. /\ \A r \in ReportIds : reports[r] = NoReport /\ mailed[r] = [age |-> Forever, unmarked |-> FALSE]
      /\ reports \in [ReportIds -> ReportRows] /\ mailed \in [ReportIds -> MailRows]
  BY AgeBounds DEF ReportsInit, NoReport, ReportRows, MailRows
<1>2. ReportShapes
  BY <1>1, NoRunShape, ReportBounds
  DEF ReportsInit, ReportShapes, ReportsTypeOK, ReportRows, MailRows
<1>3. ASSUME NEW r \in ReportIds PROVE ReportHolds(r)
  BY <1>1, NoRunShape
  DEF ReportsInit, NoReport, ReportHolds, MailAsMarked, DueHasWaited, FailureIsDated, FailureTold, MarkedAs
<1> QED BY <1>2, <1>3 DEF ReportsInv

\* A report whose row, mail and part in the run stand keeps what holds of it.
LEMMA ReportStands ==
    ASSUME ReportsInv, NEW r \in ReportIds,
           reports'[r].there = reports[r].there, reports'[r].age = reports[r].age,
           reports'[r].result = reports[r].result, mailed'[r] = mailed[r],
           reportRun'.read[r] = reportRun.read[r],
           r \in reportRun'.todo => r \in reportRun.todo,
           \A result : MarkedAs(r, result)' <=> MarkedAs(r, result)
    PROVE  ReportHolds(r)'
<1>1. ReportHolds(r)
  BY DEF ReportsInv
<1> QED BY <1>1 DEF ReportHolds, MailAsMarked, DueHasWaited, FailureIsDated, FailureTold

LEMMA CreateKeeps ==
    ASSUME ReportsInv, NEW x \in ReportIds, NEW every \in Periods, CreatesReport(x, every) PROVE ReportsInv'
<1> DEFINE new == [NoReport EXCEPT !.there = TRUE, !.on = TRUE, !.schedule = every]
           mail == [age |-> Forever, unmarked |-> FALSE]
<1>1. /\ reports' = [reports EXCEPT ![x] = new] /\ mailed' = [mailed EXCEPT ![x] = mail]
      /\ reportRun' = reportRun /\ edits < MaxEdits /\ edits' = edits + 1
  BY DEF CreatesReport, Edited
<1>2. /\ new \in ReportRows /\ mail \in MailRows /\ new.age = Forever /\ new.result = "none"
      /\ mail.age = Forever
  BY AgeBounds, ReportBounds DEF NoReport, ReportRows, MailRows
<1> HIDE DEF new, mail
<1>3. ReportShapes'
  <2>1. reports' \in [ReportIds -> ReportRows] /\ mailed' \in [ReportIds -> MailRows]
    BY <1>1, <1>2 DEF ReportsInv, ReportShapes, ReportsTypeOK, ReportRows, MailRows
  <2>2. edits' \in 0 .. MaxEdits
    BY <1>1, ReportBounds DEF ReportsInv, ReportShapes, ReportsTypeOK
  <2> QED BY <1>1, <2>1, <2>2 DEF ReportsInv, ReportShapes, ReportsTypeOK, ReportRows, MailRows
<1>4. ReportHolds(x)'
  <2>1. reports'[x] = new /\ mailed'[x] = mail
    BY <1>1 DEF ReportsInv, ReportShapes, ReportsTypeOK
  <2>2. Forever >= reportRun'.read[x]
    BY <1>1, AgeBounds DEF ReportsInv, ReportShapes, ReportRuns
  <2> QED BY <1>2, <2>1, <2>2, AgeBounds
          DEF ReportHolds, MailAsMarked, DueHasWaited, FailureIsDated, FailureTold
<1>5. ASSUME NEW r \in ReportIds, r # x PROVE ReportHolds(r)'
  BY <1>1, <1>5, ReportStands DEF ReportsInv, ReportShapes, ReportsTypeOK, MarkedAs
<1> QED BY <1>3, <1>4, <1>5 DEF ReportsInv

\* An edit moves no date and no result, and the run has read the schedule.
LEMMA UpdateKeeps ==
    ASSUME ReportsInv, NEW x \in ReportIds, NEW every \in Periods, NEW enabled \in BOOLEAN,
           UpdatesReport(x, every, enabled)
    PROVE  ReportsInv'
<1>1. /\ reports' = [reports EXCEPT ![x] = [reports[x] EXCEPT !.on = enabled, !.schedule = every]]
      /\ reportRun' = reportRun /\ mailed' = mailed /\ edits < MaxEdits /\ edits' = edits + 1
  BY DEF UpdatesReport, Edited
<1>2. /\ reports' \in [ReportIds -> ReportRows]
      /\ \A r \in ReportIds : /\ reports'[r].there = reports[r].there
                              /\ reports'[r].age = reports[r].age
                              /\ reports'[r].result = reports[r].result
  <2>1. \A r \in ReportIds : reports[r] \in ReportRows
    BY DEF ReportsInv, ReportShapes, ReportsTypeOK, ReportRows
  <2>2. reports = [r \in ReportIds |-> reports[r]]
    BY DEF ReportsInv, ReportShapes, ReportsTypeOK
  <2>3. [reports[x] EXCEPT !.on = enabled, !.schedule = every] \in ReportRows
    BY <2>1, ReportBounds DEF ReportRows
  <2> QED BY <1>1, <2>1, <2>2, <2>3 DEF ReportRows
<1>3. edits' \in 0 .. MaxEdits
  BY <1>1, ReportBounds DEF ReportsInv, ReportShapes, ReportsTypeOK
<1>4. ReportShapes'
  BY <1>1, <1>2, <1>3 DEF ReportsInv, ReportShapes, ReportsTypeOK, ReportRows, MailRows
<1>5. ASSUME NEW r \in ReportIds PROVE ReportHolds(r)'
  BY <1>1, <1>2, ReportStands DEF MarkedAs
<1> QED BY <1>4, <1>5 DEF ReportsInv

\* The run may still mail the deleted report, which has waited all the same.
LEMMA DeleteKeeps ==
    ASSUME ReportsInv, NEW x \in ReportIds, DeletesReport(x) PROVE ReportsInv'
<1> DEFINE lost == reportRun.gone \cup ({x} \cap (reportRun.todo \cup DOMAIN reportRun.marks))
<1>1. /\ reports' = [reports EXCEPT ![x] = NoReport] /\ mailed' = mailed
      /\ reportRun' = [reportRun EXCEPT !.gone = lost]
      /\ edits < MaxEdits /\ edits' = edits + 1
  BY DEF DeletesReport, Edited
<1>0. reportRun \in ReportRuns => lost \in SUBSET ReportIds
  BY DEF ReportRuns
<1> HIDE DEF lost
<1>2. NoReport \in ReportRows /\ ~NoReport.there
  BY AgeBounds DEF NoReport, ReportRows
<1>3. /\ reportRun' \in ReportRuns /\ reportRun'.todo = reportRun.todo
      /\ reportRun'.marks = reportRun.marks /\ reportRun'.on = reportRun.on
      /\ reportRun'.read = reportRun.read
  BY <1>0, <1>1 DEF ReportsInv, ReportShapes, ReportRuns
<1>4. ReportShapes'
  <2>1. reports' \in [ReportIds -> ReportRows]
    BY <1>1, <1>2 DEF ReportsInv, ReportShapes, ReportsTypeOK, ReportRows
  <2>2. edits' \in 0 .. MaxEdits
    BY <1>1, ReportBounds DEF ReportsInv, ReportShapes, ReportsTypeOK
  <2> QED BY <1>1, <1>3, <2>1, <2>2 DEF ReportsInv, ReportShapes, ReportsTypeOK, ReportRows, MailRows
<1>5. ReportHolds(x)'
  <2>1. ~reports'[x].there
    BY <1>1, <1>2 DEF ReportsInv, ReportShapes, ReportsTypeOK
  <2>2. DueHasWaited(x)'
    BY <1>1, <1>3 DEF ReportsInv, ReportHolds, DueHasWaited, MarkedAs
  <2> QED BY <2>1, <2>2 DEF ReportHolds, MailAsMarked, FailureIsDated, FailureTold
<1>6. ASSUME NEW r \in ReportIds, r # x PROVE ReportHolds(r)'
  BY <1>1, <1>3, <1>6, ReportStands DEF ReportsInv, ReportShapes, ReportsTypeOK, MarkedAs
<1> QED BY <1>4, <1>5, <1>6 DEF ReportsInv

LEMMA SendNowKeeps ==
    ASSUME ReportsInv, NEW x \in ReportIds, SendsNow(x) PROVE ReportsInv'
<1>1. /\ reports' = [reports EXCEPT ![x] = [reports[x] EXCEPT !.age = 0, !.result = "SUCCESS"]]
      /\ reportRun' = reportRun /\ mailed' = mailed /\ edits < MaxEdits /\ edits' = edits + 1
  BY DEF SendsNow, Edited
<1>2. /\ reports' \in [ReportIds -> ReportRows]
      /\ reports'[x].age = 0 /\ reports'[x].result = "SUCCESS"
      /\ \A r \in ReportIds : r # x => reports'[r] = reports[r]
  BY <1>1, AgeBounds DEF ReportsInv, ReportShapes, ReportsTypeOK, ReportRows
<1>3. edits' \in 0 .. MaxEdits
  BY <1>1, ReportBounds DEF ReportsInv, ReportShapes, ReportsTypeOK
<1>4. ReportShapes'
  BY <1>1, <1>2, <1>3 DEF ReportsInv, ReportShapes, ReportsTypeOK, ReportRows, MailRows
<1>5. ReportHolds(x)'
  <2>1. mailed[x].age \in Nat
    BY AgeBounds DEF ReportsInv, ReportShapes, ReportsTypeOK
  <2>2. DueHasWaited(x)
    BY DEF ReportsInv, ReportHolds
  <2> QED BY <1>1, <1>2, <2>1, <2>2
          DEF ReportHolds, MailAsMarked, DueHasWaited, FailureIsDated, FailureTold, MarkedAs
<1>6. ASSUME NEW r \in ReportIds, r # x PROVE ReportHolds(r)'
  BY <1>1, <1>2, <1>6, ReportStands DEF MarkedAs
<1> QED BY <1>4, <1>5, <1>6 DEF ReportsInv

\* What is due has waited since its last mail, or that mail was not marked.
LEMMA ReportRunBeginKeeps ==
    ASSUME ReportsInv, ReportRunBegins PROVE ReportsInv'
<1> DEFINE due == {r \in ReportIds : reports[r].there /\ reports[r].on /\ IsDue(reports[r])}
           dates == [r \in ReportIds |-> reports[r].schedule]
<1>1. /\ ~reportRun.on /\ UNCHANGED <<reports, mailed, edits>>
      /\ reportRun' = [NoReportRun EXCEPT !.on = TRUE, !.read = dates, !.todo = due]
  BY DEF ReportRunBegins
<1>2. \A r \in due : r \in ReportIds /\ reports[r].there /\ reports[r].age >= reports[r].schedule
  BY DEF IsDue
<1>2a. dates \in [ReportIds -> 1 .. Longest] /\ \A r \in ReportIds : dates[r] = reports[r].schedule
  BY DEF ReportsInv, ReportShapes, ReportsTypeOK
<1> HIDE DEF due, dates
<1>3. /\ reportRun' \in ReportRuns /\ reportRun'.on /\ reportRun'.todo = due
      /\ DOMAIN reportRun'.marks = {} /\ reportRun'.read = dates
  <2>1. due \in SUBSET ReportIds
    BY <1>2
  <2>2. NoReportRun \in ReportRuns /\ DOMAIN NoReportRun.marks = {}
    BY NoRunShape
  <2> QED BY <1>1, <1>2a, <2>1, <2>2 DEF ReportRuns
<1>4. ReportShapes'
  <2>1. reportRun'.todo \subseteq ReportIds /\ DOMAIN reportRun'.marks \subseteq ReportIds
    BY <1>2, <1>3
  <2>2. ReportsTypeOK'
    BY <1>1, <2>1 DEF ReportsInv, ReportShapes, ReportsTypeOK
  <2> QED BY <1>3, <2>2 DEF ReportShapes
<1>5. ASSUME NEW r \in ReportIds PROVE ReportHolds(r)'
  <2>1. ReportHolds(r) /\ ~MarkedAs(r, "SUCCESS") /\ \A result : ~MarkedAs(r, result)'
    BY <1>1, <1>3 DEF ReportsInv, ReportShapes, MarkedAs
  <2>2. reports[r].age \in Nat /\ mailed[r].age \in Nat /\ reports[r].schedule \in Nat
    BY AgeBounds DEF ReportsInv, ReportShapes, ReportsTypeOK
  <2>3. MailAsMarked(r)' /\ FailureTold(r)'
    BY <1>1, <2>1 DEF ReportHolds, MailAsMarked, FailureTold
  <2>4. DueHasWaited(r)'
    BY <1>1, <1>2, <1>2a, <1>3, <2>1, <2>2 DEF ReportHolds, DueHasWaited, MailAsMarked
  <2>5. FailureIsDated(r)'
    BY <1>1, <2>1 DEF ReportHolds, FailureIsDated
  <2> QED BY <2>3, <2>4, <2>5 DEF ReportHolds
<1> QED BY <1>4, <1>5 DEF ReportsInv

\* A mark is a report less to do, and is not the mark of another one.
LEMMA MarkShape ==
    ASSUME ReportsInv, NEW x \in ReportIds, NEW result \in {"SUCCESS", "FAILED"}, Marks(x, result)
    PROVE  /\ x \in reportRun.todo /\ UNCHANGED <<reports, edits>>
           /\ reportRun' \in ReportRuns /\ reportRun'.on = reportRun.on
           /\ reportRun'.read = reportRun.read
           /\ reportRun'.todo = reportRun.todo \ {x}
           /\ DOMAIN reportRun'.marks = DOMAIN reportRun.marks \cup {x}
           /\ reportRun'.marks[x] = result
           /\ \A r \in DOMAIN reportRun.marks : r # x => reportRun'.marks[r] = reportRun.marks[r]
<1> DEFINE marks == reportRun.marks
           new == [r \in DOMAIN marks \cup {x} |-> IF r = x THEN result ELSE marks[r]]
           locks == IF Writable THEN DOMAIN marks ELSE {}
<1>1. /\ x \in reportRun.todo /\ UNCHANGED <<reports, edits>>
      /\ reportRun' = [reportRun EXCEPT !.todo = reportRun.todo \ {x}, !.held = locks,
                                        !.marks = new, !.sent = reportRun.sent \/ result = "SUCCESS"]
  BY DEF Marks
<1>2. PICK S \in SUBSET ReportIds : marks \in [S -> {"SUCCESS", "FAILED"}]
  BY DEF ReportsInv, ReportShapes, ReportRuns, MarkSets
<1>3. new \in [S \cup {x} -> {"SUCCESS", "FAILED"}] /\ S \cup {x} \in SUBSET ReportIds
  BY <1>2
<1>4. new \in MarkSets /\ DOMAIN marks \in SUBSET ReportIds
  BY <1>2, <1>3 DEF MarkSets
<1>5. /\ DOMAIN new = DOMAIN marks \cup {x} /\ new[x] = result
      /\ \A r \in DOMAIN marks : r # x => new[r] = marks[r]
  OBVIOUS
<1>5b. locks \in SUBSET ReportIds
  BY <1>4
<1> HIDE DEF new, locks
<1>6. reportRun \in ReportRuns
  BY DEF ReportsInv, ReportShapes
<1>7. /\ reportRun'.todo = reportRun.todo \ {x} /\ reportRun'.marks = new
      /\ reportRun'.on = reportRun.on /\ reportRun'.read = reportRun.read
  BY <1>1, <1>6 DEF ReportRuns
<1>8. reportRun' \in ReportRuns
  <2> DEFINE left == reportRun.todo \ {x}
             sent == reportRun.sent \/ result = "SUCCESS"
  <2>1. left \in SUBSET ReportIds /\ sent \in BOOLEAN
    BY <1>6 DEF ReportRuns
  <2>2. reportRun' = [reportRun EXCEPT !.todo = left, !.held = locks, !.marks = new, !.sent = sent]
    BY <1>1
  <2> HIDE DEF left, sent, marks
  <2> QED BY <1>4, <1>5b, <1>6, <2>1, <2>2 DEF ReportRuns
<1> QED BY <1>1, <1>5, <1>7, <1>8

\* A mail, or a failure of the report's generation.
LEMMA MarkKeeps ==
    ASSUME ReportsInv, NEW x \in ReportIds, NEW result \in {"SUCCESS", "FAILED"}, Marks(x, result),
           \/ mailed' = mailed
           \/ result = "SUCCESS" /\ mailed' = [mailed EXCEPT ![x] = [age |-> 0, unmarked |-> FALSE]]
    PROVE  ReportsInv'
<1>0. /\ x \in reportRun.todo /\ UNCHANGED <<reports, edits>>
      /\ reportRun' \in ReportRuns /\ reportRun'.on = reportRun.on
      /\ reportRun'.read = reportRun.read /\ reportRun'.todo = reportRun.todo \ {x}
      /\ DOMAIN reportRun'.marks = DOMAIN reportRun.marks \cup {x} /\ reportRun'.marks[x] = result
      /\ \A r \in DOMAIN reportRun.marks : r # x => reportRun'.marks[r] = reportRun.marks[r]
  BY MarkShape
<1>1. /\ mailed' \in [ReportIds -> MailRows]
      /\ \A r \in ReportIds : r # x => mailed'[r] = mailed[r]
      /\ \/ mailed'[x] = mailed[x]
         \/ result = "SUCCESS" /\ mailed'[x].age = 0 /\ ~mailed'[x].unmarked
  <2>1. mailed \in [ReportIds -> MailRows]
    BY DEF ReportsInv, ReportShapes, ReportsTypeOK, MailRows
  <2>2. CASE mailed' = mailed
    BY <2>1, <2>2
  <2>3. CASE result = "SUCCESS" /\ mailed' = [mailed EXCEPT ![x] = [age |-> 0, unmarked |-> FALSE]]
    <3> DEFINE mail == [age |-> 0, unmarked |-> FALSE]
    <3>1. mail \in MailRows /\ mail.age = 0 /\ ~mail.unmarked
      BY AgeBounds DEF MailRows
    <3>2. result = "SUCCESS" /\ mailed' = [mailed EXCEPT ![x] = mail]
      BY <2>3
    <3> HIDE DEF mail
    <3> QED BY <2>1, <3>1, <3>2
  <2> QED BY <2>2, <2>3
<1>2. ReportShapes'
  <2>1. ReportsTypeOK'
    BY <1>0, <1>1 DEF ReportsInv, ReportShapes, ReportsTypeOK, MailRows, ReportRuns
  <2> QED BY <1>0, <2>1 DEF ReportsInv, ReportShapes
<1>3. ReportHolds(x)'
  <2>1. /\ x \notin reportRun'.todo /\ x \notin DOMAIN reportRun.marks
        /\ \A other : MarkedAs(x, other)' <=> other = result
    BY <1>0 DEF MarkedAs, ReportsInv, ReportShapes
  <2>2. ReportHolds(x)
    BY DEF ReportsInv
  <2>3. MailAsMarked(x)'
    <3>1. CASE result = "SUCCESS"
      BY <2>1, <3>1 DEF MailAsMarked
    <3>2. CASE result = "FAILED"
      BY <1>0, <1>1, <2>1, <2>2, <3>2 DEF MailAsMarked, ReportHolds, MarkedAs
    <3> QED BY <3>1, <3>2
  <2>4. DueHasWaited(x)'
    BY <1>0, <1>1, <2>1, <2>2 DEF DueHasWaited, ReportHolds
  <2>5. FailureIsDated(x)' /\ FailureTold(x)'
    BY <1>0, <1>1, <2>1, <2>2 DEF FailureIsDated, FailureTold, ReportHolds, MarkedAs
  <2> QED BY <2>3, <2>4, <2>5 DEF ReportHolds
<1>4. ASSUME NEW r \in ReportIds, r # x PROVE ReportHolds(r)'
  <2>1. \A other : MarkedAs(r, other)' <=> MarkedAs(r, other)
    BY <1>0, <1>4 DEF MarkedAs
  <2> QED BY <1>0, <1>1, <1>4, <2>1, ReportStands
<1> QED BY <1>2, <1>3, <1>4 DEF ReportsInv

LEMMA BreakKeeps ==
    ASSUME ReportsInv, TransactionBreaks PROVE ReportsInv'
<1>1. /\ reportRun' = [reportRun EXCEPT !.broken = TRUE, !.held = {}] /\ UNCHANGED <<reports, mailed, edits>>
      /\ reportRun' \in ReportRuns /\ reportRun'.todo = reportRun.todo
      /\ reportRun'.marks = reportRun.marks /\ reportRun'.on = reportRun.on /\ reportRun'.read = reportRun.read
  BY DEF TransactionBreaks, ReportsInv, ReportShapes, ReportRuns
<1>2. ReportShapes'
  BY <1>1 DEF ReportsInv, ReportShapes, ReportsTypeOK
<1>3. ASSUME NEW r \in ReportIds PROVE ReportHolds(r)'
  BY <1>1, ReportStands DEF MarkedAs
<1> QED BY <1>2, <1>3 DEF ReportsInv

LEMMA ReportCommitKeeps ==
    ASSUME ReportsInv, ReportRunCommits PROVE ReportsInv'
<1> DEFINE after(r) == IF r \notin DOMAIN reportRun.marks THEN reports[r]
                       ELSE [reports[r] EXCEPT !.result = reportRun.marks[r], !.age = 0]
<1>0. Marked = [r \in ReportIds |-> after(r)]
  BY ZenonT(20) DEF Marked
<1>1. /\ reportRun.todo = {} /\ reports' = Marked
      /\ reportRun' = NoReportRun /\ UNCHANGED <<mailed, edits>>
  BY DEF ReportRunCommits
<1>2. \A r \in DOMAIN reportRun.marks : reportRun.marks[r] \in {"SUCCESS", "FAILED"}
  BY DEF ReportsInv, ReportShapes, ReportRuns, MarkSets
<1>3. ASSUME NEW r \in ReportIds
      PROVE  /\ r \notin DOMAIN reportRun.marks => reports'[r] = reports[r]
             /\ r \in DOMAIN reportRun.marks =>
                  /\ reports'[r].age = 0 /\ reports'[r].result = reportRun.marks[r]
                  /\ reports'[r].there = reports[r].there
             /\ reports'[r] \in ReportRows
  <2>1. reports[r] \in ReportRows
    BY DEF ReportsInv, ReportShapes, ReportsTypeOK, ReportRows
  <2>2. reports'[r] = IF r \notin DOMAIN reportRun.marks THEN reports[r]
                      ELSE [reports[r] EXCEPT !.result = reportRun.marks[r], !.age = 0]
    <3>1. reports'[r] = after(r)
      <4> HIDE DEF after
      <4> QED BY <1>0, <1>1
    <3> QED BY <3>1, Zenon
  <2>3. CASE r \in DOMAIN reportRun.marks
    <3>1. reportRun.marks[r] \in {"SUCCESS", "FAILED"} /\ 0 \in Ages
      BY <1>2, <2>3, AgeBounds
    <3>2. reports'[r] = [reports[r] EXCEPT !.result = reportRun.marks[r], !.age = 0]
      BY <2>2, <2>3
    <3> QED BY <2>1, <2>3, <3>1, <3>2 DEF ReportRows
  <2>4. CASE r \notin DOMAIN reportRun.marks
    BY <2>1, <2>2, <2>4
  <2> QED BY <2>3, <2>4
<1>4. ReportShapes'
  <2>1. reports' \in [ReportIds -> ReportRows]
    <3> HIDE DEF after
    <3> QED BY <1>0, <1>1, <1>3
  <2> QED BY <1>1, <2>1, NoRunShape DEF ReportsInv, ReportShapes, ReportsTypeOK, ReportRows
<1>5. ASSUME NEW r \in ReportIds PROVE ReportHolds(r)'
  <2>1. /\ ReportHolds(r) /\ mailed[r].age \in Nat /\ Longest \in Nat /\ 0 <= mailed[r].age
        /\ reportRun.read[r] > 0 /\ reportRun.read[r] \in Nat
    BY AgeBounds DEF ReportsInv, ReportShapes, ReportsTypeOK, ReportRuns
  <2>2. r \notin reportRun'.todo /\ \A result : ~MarkedAs(r, result)'
    BY <1>1, NoRunShape DEF MarkedAs
  <2>3. CASE r \in DOMAIN reportRun.marks
    <3>1. reports'[r].result = "FAILED" => MarkedAs(r, "FAILED")
      BY <1>3, <2>3 DEF MarkedAs
    <3> QED BY <1>1, <1>3, <2>1, <2>2, <2>3, <3>1, ReportBounds
            DEF ReportHolds, MailAsMarked, DueHasWaited, FailureIsDated, FailureTold
  <2>4. CASE r \notin DOMAIN reportRun.marks
    <3>1. \A result : ~MarkedAs(r, result)
      BY <2>4 DEF MarkedAs
    <3> QED BY <1>1, <1>3, <2>1, <2>2, <2>4, <3>1
            DEF ReportHolds, MailAsMarked, DueHasWaited, FailureIsDated, FailureTold
  <2> QED BY <2>3, <2>4
<1> QED BY <1>4, <1>5 DEF ReportsInv

LEMMA ReportLossKeeps ==
    ASSUME ReportsInv, ReportRunIsLost PROVE ReportsInv'
<1>1. /\ mailed' = [r \in ReportIds |->
           IF MarkedAs(r, "SUCCESS") THEN [mailed[r] EXCEPT !.unmarked = TRUE] ELSE mailed[r]]
      /\ reportRun' = NoReportRun /\ UNCHANGED <<reports, edits>>
  BY DEF ReportRunIsLost, MarkedAs
<1>2. /\ mailed' \in [ReportIds -> MailRows]
      /\ \A r \in ReportIds : IF MarkedAs(r, "SUCCESS")
                              THEN mailed'[r].unmarked /\ mailed'[r].age = mailed[r].age
                              ELSE mailed'[r] = mailed[r]
  BY <1>1 DEF ReportsInv, ReportShapes, ReportsTypeOK, MailRows
<1>3. ReportShapes'
  BY <1>1, <1>2, NoRunShape DEF ReportsInv, ReportShapes, ReportsTypeOK, MailRows
<1>4. ASSUME NEW r \in ReportIds PROVE ReportHolds(r)'
  <2>1. ReportHolds(r)
    BY DEF ReportsInv
  <2>2. r \notin reportRun'.todo /\ \A result : ~MarkedAs(r, result)'
    BY <1>1, NoRunShape DEF MarkedAs
  <2> QED BY <1>1, <1>2, <2>1, <2>2
          DEF ReportHolds, MailAsMarked, DueHasWaited, FailureIsDated, FailureTold
<1> QED BY <1>3, <1>4 DEF ReportsInv

LEMMA OlderKeeps ==
    ASSUME NEW a \in Nat, NEW m \in Nat, NEW stop \in Nat, a <= stop, m > a \/ a = stop
    PROVE  Older(m, stop) > Older(a, stop) \/ Older(a, stop) = stop
BY DEF Older

\* Ages go up together and stop together.
LEMMA AgingKeeps ==
    ASSUME ReportsInv, ReportsAge PROVE ReportsInv'
<1>1. /\ ~reportRun.on /\ UNCHANGED <<reportRun, edits>>
      /\ reports' = [r \in ReportIds |-> [reports[r] EXCEPT !.age = Older(reports[r].age, Longest)]]
      /\ mailed' = [r \in ReportIds |-> [mailed[r] EXCEPT !.age = Older(mailed[r].age, Longest)]]
  BY DEF ReportsAge
<1>2. /\ reports' \in [ReportIds -> ReportRows]
      /\ \A r \in ReportIds : /\ reports'[r].there = reports[r].there
                              /\ reports'[r].result = reports[r].result
                              /\ reports'[r].age = Older(reports[r].age, Longest)
  <2>1. ASSUME NEW r \in ReportIds
        PROVE  /\ [reports[r] EXCEPT !.age = Older(reports[r].age, Longest)] \in ReportRows
               /\ reports'[r] = [reports[r] EXCEPT !.age = Older(reports[r].age, Longest)]
    <3>1. reports[r] \in ReportRows /\ Older(reports[r].age, Longest) \in Ages
      BY AgeBounds DEF ReportsInv, ReportShapes, ReportsTypeOK, ReportRows
    <3> QED BY <1>1, <3>1 DEF ReportRows
  <2>2. ASSUME NEW r \in ReportIds PROVE reports[r] \in ReportRows
    BY DEF ReportsInv, ReportShapes, ReportsTypeOK, ReportRows
  <2> QED BY <1>1, <2>1, <2>2 DEF ReportRows
<1>3. /\ mailed' \in [ReportIds -> MailRows]
      /\ \A r \in ReportIds : /\ mailed'[r].unmarked = mailed[r].unmarked
                              /\ mailed'[r].age = Older(mailed[r].age, Longest)
  <2>1. ASSUME NEW r \in ReportIds
        PROVE  /\ [mailed[r] EXCEPT !.age = Older(mailed[r].age, Longest)] \in MailRows
               /\ mailed'[r].unmarked = mailed[r].unmarked
               /\ mailed'[r].age = Older(mailed[r].age, Longest)
    <3>1. mailed[r] \in MailRows /\ Older(mailed[r].age, Longest) \in Ages
      BY AgeBounds DEF ReportsInv, ReportShapes, ReportsTypeOK, MailRows
    <3>2. mailed'[r] = [mailed[r] EXCEPT !.age = Older(mailed[r].age, Longest)]
      BY <1>1
    <3> QED BY <3>1, <3>2 DEF MailRows
  <2> QED BY <1>1, <2>1
<1>4. ReportShapes'
  BY <1>1, <1>2, <1>3 DEF ReportsInv, ReportShapes, ReportsTypeOK, ReportRows, MailRows
<1>5. ASSUME NEW r \in ReportIds PROVE ReportHolds(r)'
  <2>1. ReportHolds(r) /\ r \notin reportRun.todo /\ \A result : ~MarkedAs(r, result) /\ ~MarkedAs(r, result)'
    BY <1>1 DEF ReportsInv, ReportShapes, MarkedAs
  <2>2. reports[r].age \in Nat /\ mailed[r].age \in Nat /\ Longest \in Nat
    BY AgeBounds DEF ReportsInv, ReportShapes, ReportsTypeOK
  <2>3. MailAsMarked(r)' /\ DueHasWaited(r)'
    BY <1>1, <1>2, <1>3, <2>1, <2>2 DEF ReportHolds, MailAsMarked, DueHasWaited, Older
  <2>4. FailureIsDated(r)'
    BY <1>1, <1>2, <2>1, <2>2 DEF ReportHolds, FailureIsDated, Older
  <2>5. FailureTold(r)'
    <3>1. CASE ~(reports[r].there /\ reports[r].result = "FAILED")
      <4>1. ~(reports'[r].there /\ reports'[r].result = "FAILED")
        BY <1>2, <3>1
      <4> QED BY <4>1 DEF FailureTold
    <3>2. CASE reports[r].age <= Longest /\ (mailed[r].age > reports[r].age \/ reports[r].age = Longest)
      <4>1. mailed'[r].age > reports'[r].age \/ reports'[r].age = Longest
        BY <1>2, <1>3, <2>2, <3>2, OlderKeeps
      <4> QED BY <4>1 DEF FailureTold
    <3>3. CASE mailed[r].unmarked
      BY <1>3, <3>3 DEF FailureTold
    <3> QED BY <2>1, <3>1, <3>2, <3>3 DEF ReportHolds, FailureIsDated, FailureTold
  <2> QED BY <2>3, <2>4, <2>5 DEF ReportHolds
<1> QED BY <1>4, <1>5 DEF ReportsInv

LEMMA ReportsInductive == ReportsInv /\ [ReportsNext]_reportVars => ReportsInv'
<1> SUFFICES ASSUME ReportsInv, [ReportsNext]_reportVars PROVE ReportsInv'
  OBVIOUS
<1>1. CASE UNCHANGED reportVars
  <2>1. ReportShapes'
    BY <1>1 DEF reportVars, ReportsInv, ReportShapes, ReportsTypeOK
  <2>2. ASSUME NEW r \in ReportIds PROVE ReportHolds(r)'
    BY <1>1, ReportStands DEF reportVars, MarkedAs
  <2> QED BY <2>1, <2>2 DEF ReportsInv
<1>2. ASSUME NEW r \in ReportIds,
             \/ \E every \in Periods : CreatesReport(r, every) \/ \E on \in BOOLEAN : UpdatesReport(r, every, on)
             \/ DeletesReport(r) \/ SendsNow(r)
      PROVE  ReportsInv'
  BY <1>2, CreateKeeps, UpdateKeeps, DeleteKeeps, SendNowKeeps
<1>3. ASSUME NEW r \in ReportIds, SendsMail(r) \/ MailIsRefused(r) \/ GenerationFails(r)
      PROVE  ReportsInv'
  BY <1>3, MarkKeeps DEF SendsMail, MailIsRefused, GenerationFails
<1>4. CASE ReportRunBegins \/ TransactionBreaks \/ ReportRunCommits \/ ReportRunIsLost \/ ReportsAge
  BY <1>4, ReportRunBeginKeeps, BreakKeeps, ReportCommitKeeps, ReportLossKeeps, AgingKeeps
<1> QED BY <1>1, <1>2, <1>3, <1>4 DEF ReportsNext

(* ReportsSound: run_due_reports mails no report twice within the period that *)
(* its SELECT read, and a report that shows FAILED was not mailed since,      *)
(* whatever users do to the row meanwhile, but for a mark that was lost with  *)
(* its run, or is not committed yet.                                          *)
THEOREM ReportsAreSound == ReportsSpec => ReportsSound
<1>1. ReportsInit => ReportsInv
  BY ReportsStart
<1>2. ReportsInv => ReportsTypeOK /\ FailureIsTold
  BY DEF ReportsInv, ReportShapes, ReportHolds, FailureTold, FailureIsTold, MailUnmarked, MarkedAs
<1>3. ReportsInv /\ [ReportsNext]_reportVars =>
        [\A r \in ReportIds :
           SendsMail(r) => mailed[r].age >= reportRun.read[r] \/ mailed[r].unmarked]_reportVars
  <2> SUFFICES ASSUME ReportsInv, NEW r \in ReportIds, SendsMail(r)
               PROVE  mailed[r].age >= reportRun.read[r] \/ mailed[r].unmarked
    OBVIOUS
  <2>1. r \in reportRun.todo /\ DueHasWaited(r)
    BY DEF SendsMail, Marks, ReportsInv, ReportHolds
  <2> QED BY <2>1 DEF DueHasWaited
<1> QED BY <1>1, <1>2, <1>3, ReportsInductive, PTL DEF ReportsSpec, ReportsSound, MailSpacing
-----------------------------------------------------------------------------
(* Notes, findings in progress and statistics.  A ticket is opened once and   *)
(* its rows stay until it is deleted, so the first of them stays the first;   *)
(* and a finding in progress has a row that no deletion is about to take      *)
(* without reopening the finding.                                             *)

PageRec == [stage : {"open"}, line : Lines, whole : BOOLEAN]
TallyRec == [stage : {"counting", "shown"}, total : Nat, open : Nat, since : BOOLEAN]
Completed == Listing([Unfiltered EXCEPT !.chips = {"completed"}])
IsFirst(l) == \A k \in RowsOf(l[1]) : lines[l].id <= lines[k].id

LinesNumbered ==
    /\ DOMAIN lines \subseteq Lines
    /\ \A k, l \in DOMAIN lines : k[1] = l[1] /\ lines[k].id = lines[l].id => k = l
    /\ tasks \subseteq Urls /\ IsFiniteSet(tasks)
PagesKept ==
    /\ page \in [People -> {NoPage} \cup PageRec]
    /\ \A p \in People : page[p] # NoPage =>
         page[p].line[1] \in tasks /\ (page[p].whole /\ page[p].line \in DOMAIN lines => IsFirst(page[p].line))
RemarksKept ==
    /\ remarks \subseteq [line : DOMAIN lines, by : People, kind : {"comment", "watch"}, whole : BOOLEAN]
    /\ \A n \in remarks : n.whole => IsFirst(n.line)
RemovalsAimed ==
    \A p \in Deleters : removal[p] # NoRemoval =>
        /\ removal[p].url \in tasks /\ removal[p].late \subseteq DeskFindings
        /\ removal[p].stage = "held" => removal[p].at \in DeskFindings
\* A row that no deletion takes with it, leaving the finding in progress.
Stays(l) ==
    \A p \in Deleters : removal[p] # NoRemoval /\ removal[p].url = l[1] =>
        l[2] \in removal[p].todo \cup removal[p].reopens
ProgressKept ==
    \A f \in DeskFindings \ byHand : verdict[f] = "IN_PROGRESS" =>
        \E l \in DOMAIN lines : l[2] = f /\ Stays(l)
TallyRight ==
    /\ tally \in {NoTally} \cup TallyRec
    /\ tally.stage = "counting" /\ ~tally.since => tally.total = TotalTickets
    /\ TallyForCause
DeskCounts == byHand \subseteq DeskFindings /\ deskWrites \in 0 .. MaxDeskWrites
DeskInv ==
    /\ RowsInv /\ RemovalsInv /\ LinesNumbered /\ PagesKept /\ RemarksKept
    /\ RemovalsAimed /\ ProgressKept /\ TallyRight /\ DeskCounts

LEMMA DeskStart == DeskInit => DeskInv
<1> SUFFICES ASSUME DeskInit PROVE DeskInv
  OBVIOUS
<1>1. /\ DOMAIN lines = {} /\ byHand = {} /\ remarks = {} /\ tally = NoTally /\ tasks = {} /\ deskWrites = 0
      /\ page = [p \in People |-> NoPage] /\ \A p \in Deleters : removal[p] = NoRemoval
      /\ \A f \in DeskFindings : verdict[f] = "OPEN"
  BY DEF DeskInit
<1>2. LinesNumbered
  BY <1>1, FS_EmptySet DEF LinesNumbered
<1>3. PagesKept /\ RemarksKept /\ RemovalsAimed /\ ProgressKept
  BY <1>1 DEF PagesKept, RemarksKept, RemovalsAimed, ProgressKept
<1>4. TallyRight
  <2>1. tally.stage = "none"
    BY <1>1 DEF NoTally
  <2> QED BY <1>1, <2>1 DEF TallyRight, TallyForCause
<1>5. DeskCounts
  BY <1>1, DeskAssumption DEF DeskCounts
<1> QED BY <1>2, <1>3, <1>4, <1>5, RowsStart, RemovalsStart DEF DeskInv

\* Of some numbers one is the smallest.
LEMMA SmallestOf ==
    ASSUME NEW S \in SUBSET Nat, S # {}
    PROVE  \E x \in S : \A y \in S : x <= y
<1>1. PICK n \in S : TRUE
  OBVIOUS
<1> DEFINE T == {d \in 0 .. n : n - d \in S}
<1>2. T \in SUBSET Int /\ T # {} /\ IsFiniteSet(T)
  <2>1. n \in Nat /\ 0 \in 0 .. n /\ n - 0 = n
    OBVIOUS
  <2>2. T \in SUBSET (0 .. n) /\ IsFiniteSet(0 .. n)
    BY <2>1, FS_Interval
  <2>3. T # {}
    BY <2>1
  <2>4. T \in SUBSET Int /\ IsFiniteSet(T)
    <3>1. 0 .. n \in SUBSET Int
      OBVIOUS
    <3> HIDE DEF T
    <3>2. T \in SUBSET Int
      BY <2>2, <3>1
    <3>3. IsFiniteSet(T)
      BY <2>2, FS_Subset
    <3> QED BY <3>2, <3>3
  <2> QED BY <2>3, <2>4
<1>3. PICK top \in T : \A d \in T : d <= top
  <2> HIDE DEF T
  <2> QED BY <1>2, LargestOf
<1>4. ASSUME NEW y \in S PROVE n - top <= y
  <2>1. n \in Nat /\ y \in Nat /\ top \in 0 .. n
    BY <1>2
  <2>2. CASE y > n
    BY <2>1, <2>2
  <2>3. CASE y <= n
    <3>1. n - y \in 0 .. n /\ n - (n - y) = y
      BY <2>1, <2>3
    <3>2. n - y \in T
      BY <3>1
    <3>3. n - y <= top
      BY <1>3, <3>2
    <3> QED BY <2>1, <3>3
  <2> QED BY <2>1, <2>2, <2>3
<1>5. n - top \in S
  OBVIOUS
<1> QED BY <1>4, <1>5

\* The first row of a ticket is one of its rows, and no other is.
LEMMA LeastIsFirst ==
    ASSUME RowsInv, LinesNumbered, NEW u, NEW rows \in SUBSET RowsOf(u), rows # {}
    PROVE  Least(rows) \in rows /\ \A k \in rows : lines[Least(rows)].id <= lines[k].id
<1>1. \A l \in rows : lines[l].id \in Nat
  BY DEF RowsInv, RowsShaped, RowsOf, LineRec
<1> DEFINE ids == {lines[l].id : l \in rows}
<1>2. ids \in SUBSET Nat /\ ids # {}
  BY <1>1
<1>3. PICK x \in ids : \A y \in ids : x <= y
  <2> HIDE DEF ids
  <2> QED BY <1>2, SmallestOf
<1>4. \E l \in rows : \A k \in rows : lines[l].id <= lines[k].id
  BY <1>3
<1> QED BY <1>4 DEF Least

LEMMA FirstIsLeast ==
    ASSUME RowsInv, LinesNumbered, NEW l \in DOMAIN lines, IsFirst(l)
    PROVE  l = Least(RowsOf(l[1]))
<1> DEFINE least == Least(RowsOf(l[1]))
<1>1. l \in RowsOf(l[1])
  BY DEF RowsOf
<1>2. least \in RowsOf(l[1]) /\ lines[least].id <= lines[l].id
  BY <1>1, LeastIsFirst
<1>3. lines[l].id <= lines[least].id /\ lines[l].id \in Nat /\ lines[least].id \in Nat
  BY <1>2 DEF IsFirst, RowsInv, RowsShaped, RowsOf, LineRec
<1>4. lines[l].id = lines[least].id /\ least \in DOMAIN lines /\ least[1] = l[1]
  BY <1>2, <1>3 DEF RowsOf
<1> QED BY <1>4 DEF LinesNumbered

\* A step after which the rows are the same but for their marks.
SameRows == DOMAIN lines' = DOMAIN lines /\ \A l \in DOMAIN lines : lines'[l].id = lines[l].id
NotesInv == LinesNumbered /\ PagesKept /\ RemarksKept

LEMMA SameRowsKeep ==
    ASSUME DeskInv, SameRows, tasks' = tasks
    PROVE  LinesNumbered' /\ \A l \in DOMAIN lines : IsFirst(l) => IsFirst(l)'
<1>1. ASSUME NEW l \in DOMAIN lines, IsFirst(l) PROVE IsFirst(l)'
  <2>1. RowsOf(l[1])' = RowsOf(l[1]) /\ RowsOf(l[1]) \subseteq DOMAIN lines
    BY DEF SameRows, RowsOf
  <2> QED BY <1>1, <2>1 DEF IsFirst, SameRows
<1>2. LinesNumbered'
  BY DEF DeskInv, LinesNumbered, SameRows
<1> QED BY <1>1, <1>2

LEMMA NotesIdle ==
    ASSUME DeskInv, SameRows, UNCHANGED <<page, remarks, tasks>> PROVE NotesInv'
<1>1. LinesNumbered' /\ DOMAIN lines' = DOMAIN lines /\ \A l \in DOMAIN lines : IsFirst(l) => IsFirst(l)'
  BY SameRowsKeep DEF SameRows
<1>2. PagesKept'
  BY <1>1 DEF DeskInv, PagesKept
<1>3. RemarksKept'
  BY <1>1 DEF DeskInv, RemarksKept
<1> QED BY <1>1, <1>2, <1>3 DEF NotesInv

LEMMA MarksKeepNotes ==
    ASSUME DeskInv, (\E u \in Urls : ClosesTask(u)) \/ \E l, blocked : Blocks(l, blocked) PROVE NotesInv'
<1>1. \A l \in DOMAIN lines : lines[l] \in LineRec
  BY DEF DeskInv, RowsInv, RowsShaped
<1>2. SameRows
  <2>1. ASSUME NEW u \in Urls, ClosesTask(u) PROVE SameRows
    BY <1>1, <2>1 DEF ClosesTask, SameRows, LineRec
  <2>2. ASSUME NEW l, NEW blocked, Blocks(l, blocked) PROVE SameRows
    BY <1>1, <2>2 DEF Blocks, SameRows, LineRec
  <2> QED BY <2>1, <2>2
<1>3. UNCHANGED <<page, remarks, tasks>>
  BY DEF ClosesTask, Blocks
<1> QED BY <1>2, <1>3, NotesIdle

LEMMA OpeningKeepsNotes ==
    ASSUME DeskInv, NEW u \in Urls, OpensTask(u) PROVE NotesInv'
<1> DEFINE linked == Linkage(u)
<1>1. PICK id \in [linked -> 1 .. Cardinality(linked)] :
        /\ IsInjective(id)
        /\ lines' = [l \in DOMAIN lines \cup ({u} \X linked) |->
                       IF l[1] = u THEN [id |-> id[l[2]], resolved |-> FALSE, blocked |-> FALSE] ELSE lines[l]]
  BY DEF OpensTask
<1>2. u \notin tasks /\ tasks' = tasks \cup {u} /\ UNCHANGED <<page, remarks>>
  BY DEF OpensTask
<1>3. linked \subseteq Sheets[u] /\ linked \subseteq DeskFindings
  BY DEF Linkage, DeskFindings
<1>4. \A l \in DOMAIN lines : l[1] \in tasks /\ l[1] # u
  BY <1>2 DEF DeskInv, RowsInv, RowsShaped
<1> HIDE DEF linked
<1>5. /\ DOMAIN lines' = DOMAIN lines \cup ({u} \X linked)
      /\ \A l \in DOMAIN lines : lines'[l] = lines[l]
      /\ \A f \in linked : lines'[<<u, f>>].id = id[f]
  BY <1>1, <1>4
<1>6. ASSUME NEW l \in DOMAIN lines, IsFirst(l) PROVE IsFirst(l)'
  <2>1. RowsOf(l[1])' = RowsOf(l[1]) /\ RowsOf(l[1]) \subseteq DOMAIN lines
    BY <1>4, <1>5 DEF RowsOf
  <2> QED BY <1>5, <1>6, <2>1 DEF IsFirst
<1>7. LinesNumbered'
  <2>1. DOMAIN lines' \subseteq Lines
    BY <1>3, <1>5 DEF DeskInv, LinesNumbered, Lines
  <2>2. tasks' \subseteq Urls /\ IsFiniteSet(tasks')
    BY <1>2, FS_AddElement DEF DeskInv, LinesNumbered
  <2>3. ASSUME NEW k \in DOMAIN lines', NEW l \in DOMAIN lines', k[1] = l[1], lines'[k].id = lines'[l].id PROVE k = l
    <3>1. CASE k[1] # u
      <4>1. k \in DOMAIN lines /\ l \in DOMAIN lines
        BY <1>5, <2>3, <3>1
      <4> QED BY <1>5, <2>3, <4>1 DEF DeskInv, LinesNumbered
    <3>2. CASE k[1] = u
      <4>1. k \in {u} \X linked /\ l \in {u} \X linked
        BY <1>4, <1>5, <2>3, <3>2
      <4>2. PICK f \in linked, g \in linked : k = <<u, f>> /\ l = <<u, g>>
        BY <4>1
      <4>3. id[f] = id[g]
        BY <1>5, <2>3, <4>2
      <4>4. f = g
        BY <1>1, <4>3 DEF IsInjective
      <4> QED BY <4>2, <4>4
    <3> QED BY <3>1, <3>2
  <2> QED BY <2>1, <2>2, <2>3 DEF LinesNumbered
<1>8. PagesKept'
  <2>1. ASSUME NEW p \in People, page[p] # NoPage, page[p].whole, page[p].line \in DOMAIN lines' PROVE IsFirst(page[p].line)'
    <3>1. page[p].line \in DOMAIN lines
      <4>1. page[p].line[1] # u
        BY <1>2, <2>1 DEF DeskInv, PagesKept
      <4>2. \A l : l \in {u} \X linked => l[1] = u
        OBVIOUS
      <4>3. page[p].line \notin {u} \X linked
        BY <4>1, <4>2
      <4> QED BY <1>5, <2>1, <4>3
    <3>2. IsFirst(page[p].line)
      BY <2>1, <3>1 DEF DeskInv, PagesKept
    <3>3. PICK l \in DOMAIN lines : l = page[p].line
      BY <3>1
    <3>4. IsFirst(l)
      BY <3>2, <3>3
    <3>5. IsFirst(l)'
      BY <1>6, <3>4
    <3>6. page'[p].line = l
      BY <1>2, <3>3
    <3> QED BY <3>5, <3>6 DEF IsFirst
  <2>2. /\ page \in [People -> {NoPage} \cup PageRec]
        /\ \A p \in People : page[p] # NoPage => page[p].line[1] \in tasks
    BY DEF DeskInv, PagesKept
  <2>3. \A p \in People : page[p] # NoPage => page[p].line[1] \in tasks'
    BY <1>2, <2>2
  <2>4. page' = page
    BY <1>2
  <2>5. \A p \in People : page[p] # NoPage /\ page[p].whole /\ page[p].line \in DOMAIN lines' => IsFirst(page[p].line)'
    BY <2>1
  <2>6. ASSUME NEW p \in People PROVE (page[p] # NoPage /\ page[p].whole /\ page[p].line \in DOMAIN lines => IsFirst(page[p].line))'
    <3>1. CASE page[p] # NoPage /\ page[p].whole /\ page[p].line \in DOMAIN lines'
      <4>1. IsFirst(page[p].line)'
        BY <2>5, <3>1
      <4> QED BY <4>1
    <3>2. CASE ~(page[p] # NoPage /\ page[p].whole /\ page[p].line \in DOMAIN lines')
      BY <2>4, <3>2
    <3> QED BY <3>1, <3>2
  <2> QED BY <2>2, <2>3, <2>4, <2>6 DEF PagesKept
<1>9. RemarksKept'
  <2>1. \A n \in remarks : n.line \in DOMAIN lines
    BY DEF DeskInv, RemarksKept
  <2>2. remarks \subseteq [line : DOMAIN lines', by : People, kind : {"comment", "watch"}, whole : BOOLEAN]
    BY <1>5 DEF DeskInv, RemarksKept
  <2> QED BY <1>2, <1>6, <2>1, <2>2 DEF DeskInv, RemarksKept
<1> QED BY <1>7, <1>8, <1>9 DEF NotesInv

LEMMA CommitKeepsNotes ==
    ASSUME DeskInv, NEW p \in Deleters, RemovalCommits(p) PROVE NotesInv'
<1> DEFINE gone == Gone(removal[p])
<1>1. /\ lines' = [l \in DOMAIN lines \ gone |-> lines[l]] /\ UNCHANGED <<page, tasks>>
      /\ remarks' = {n \in remarks : n.line \notin gone}
  BY DEF RemovalCommits
<1>2. \A k, l \in DOMAIN lines : k[1] = l[1] /\ k \in gone => l \in gone
  BY DEF Gone
<1> HIDE DEF gone
<1>3. DOMAIN lines' = DOMAIN lines \ gone /\ \A l \in DOMAIN lines' : lines'[l] = lines[l]
  BY <1>1
<1>4. ASSUME NEW l \in DOMAIN lines', IsFirst(l) PROVE IsFirst(l)'
  <2>1. RowsOf(l[1])' \subseteq RowsOf(l[1]) /\ RowsOf(l[1])' \subseteq DOMAIN lines'
    BY <1>3 DEF RowsOf
  <2> QED BY <1>3, <1>4, <2>1 DEF IsFirst
<1>5. LinesNumbered'
  BY <1>1, <1>3 DEF DeskInv, LinesNumbered
<1>6. PagesKept'
  BY <1>1, <1>3, <1>4 DEF DeskInv, PagesKept
<1>7. RemarksKept'
  <2>1. \A n \in remarks' : n \in remarks /\ n.line \in DOMAIN lines'
    BY <1>1, <1>3 DEF DeskInv, RemarksKept
  <2>2. remarks' \subseteq [line : DOMAIN lines', by : People, kind : {"comment", "watch"}, whole : BOOLEAN]
    BY <2>1 DEF DeskInv, RemarksKept
  <2> QED BY <1>4, <2>1, <2>2 DEF DeskInv, RemarksKept
<1> QED BY <1>5, <1>6, <1>7 DEF NotesInv

\* A ticket of the whole list is opened at its first row.
LEMMA OpeningPageKeepsNotes ==
    ASSUME DeskInv, NEW p \in People, NEW filter \in DeskFilters, NEW u \in Urls, OpensTicket(p, filter, u)
    PROVE  NotesInv'
<1> DEFINE line == Least(ItemRows(filter, u))
           new == [stage |-> "open", line |-> line, whole |-> filter = Unfiltered]
<1>1. ItemRows(filter, u) # {} /\ page' = [page EXCEPT ![p] = new] /\ UNCHANGED <<lines, remarks, tasks>>
  BY DEF OpensTicket, Listing
<1>2. ItemRows(filter, u) \in SUBSET RowsOf(u)
  BY DEF ItemRows
<1>3. line \in ItemRows(filter, u) /\ \A k \in ItemRows(filter, u) : lines[line].id <= lines[k].id
  BY <1>1, <1>2, LeastIsFirst DEF DeskInv
<1>4. line \in DOMAIN lines /\ line[1] = u
  BY <1>2, <1>3 DEF RowsOf
<1>5. line \in Lines /\ u \in tasks
  BY <1>4 DEF DeskInv, LinesNumbered, RowsInv, RowsShaped
<1>6. ASSUME filter = Unfiltered PROVE IsFirst(line)
  <2>1. \A l \in DOMAIN lines : l[2] \in DeskFindings
    BY DEF DeskInv, RowsInv, RowsShaped
  <2>2. Unfiltered.of = DeskFindings /\ Unfiltered.chips = {}
    BY DEF Unfiltered
  <2>3. ItemRows(filter, u) = RowsOf(u)
    BY <1>6, <2>1, <2>2 DEF ItemRows, Matching, RowsOf
  <2> QED BY <1>3, <1>4, <2>3 DEF IsFirst
<1> HIDE DEF line
<1>7. new \in PageRec /\ new.line = line /\ new.whole = (filter = Unfiltered)
  BY <1>5 DEF PageRec
<1> HIDE DEF new
<1>8. PagesKept'
  <2>1. \A q \in People : page'[q] = IF q = p THEN new ELSE page[q]
    BY <1>1 DEF DeskInv, PagesKept
  <2>2. page' \in [People -> {NoPage} \cup PageRec]
    BY <1>1, <1>7 DEF DeskInv, PagesKept
  <2>3. \A l : IsFirst(l)' = IsFirst(l)
    BY <1>1 DEF IsFirst, RowsOf
  <2> QED BY <1>1, <1>4, <1>5, <1>6, <1>7, <2>1, <2>2, <2>3 DEF DeskInv, PagesKept
<1>9. RemarksKept' /\ LinesNumbered'
  BY <1>1 DEF DeskInv, RemarksKept, LinesNumbered, IsFirst, RowsOf
<1> QED BY <1>8, <1>9 DEF NotesInv

LEMMA NotingKeepsNotes ==
    ASSUME DeskInv, NEW p \in People, (\E kind \in {"comment", "watch"} : Notes(p, kind)) \/ Unwatches(p) PROVE NotesInv'
<1>1. UNCHANGED <<lines, page, tasks>>
  BY DEF Notes, Unwatches
<1>2. \A n \in remarks' : n \in remarks \/
        (n.line \in DOMAIN lines /\ n \in [line : DOMAIN lines, by : People, kind : {"comment", "watch"}, whole : BOOLEAN]
         /\ (n.whole => IsFirst(n.line)))
  <2>1. ASSUME NEW kind \in {"comment", "watch"}, Notes(p, kind), NEW n \in remarks'
        PROVE  \/ n \in remarks
               \/ /\ n.line \in DOMAIN lines
                  /\ n \in [line : DOMAIN lines, by : People, kind : {"comment", "watch"}, whole : BOOLEAN]
                  /\ n.whole => IsFirst(n.line)
    <3>1. page[p] \in PageRec /\ page[p].line \in DOMAIN lines /\ (page[p].whole => IsFirst(page[p].line))
      BY <2>1 DEF Notes, DeskInv, PagesKept
    <3>2. n \in remarks \/ n = [line |-> page[p].line, by |-> p, kind |-> kind, whole |-> page[p].whole]
      BY <2>1 DEF Notes, NoteOn
    <3>3. page[p].whole \in BOOLEAN
      BY <3>1 DEF PageRec
    <3> QED BY <3>1, <3>2, <3>3
  <2>2. CASE Unwatches(p)
    BY <2>2 DEF Unwatches
  <2> QED BY <2>1, <2>2
<1>3. RemarksKept'
  <2>1. \A l : IsFirst(l)' = IsFirst(l)
    BY <1>1 DEF IsFirst, RowsOf
  <2>2. \A n \in remarks' : n \in [line : DOMAIN lines, by : People, kind : {"comment", "watch"}, whole : BOOLEAN]
    BY <1>2 DEF DeskInv, RemarksKept
  <2>3. \A n \in remarks' : n.whole => IsFirst(n.line)
    BY <1>2 DEF DeskInv, RemarksKept
  <2> QED BY <1>1, <2>1, <2>2, <2>3 DEF RemarksKept
<1>4. PagesKept' /\ LinesNumbered'
  BY <1>1 DEF DeskInv, PagesKept, LinesNumbered, IsFirst, RowsOf
<1> QED BY <1>3, <1>4 DEF NotesInv

LEMMA NotesInductive == DeskInv /\ [DeskNext]_deskVars => NotesInv'
<1> SUFFICES ASSUME DeskInv, [DeskNext]_deskVars PROVE NotesInv'
  OBVIOUS
<1>1. CASE UNCHANGED <<lines, page, remarks, tasks>>
  BY <1>1, NotesIdle DEF SameRows
<1>2. ASSUME NEW u \in Urls, OpensTask(u) PROVE NotesInv'
  BY <1>2, OpeningKeepsNotes
<1>3. CASE (\E u \in Urls : ClosesTask(u)) \/ \E l, blocked : Blocks(l, blocked)
  BY <1>3, MarksKeepNotes
<1>4. ASSUME NEW f \in DeskFindings, NEW s \in Verdicts, SetsVerdict(f, s) PROVE NotesInv'
  BY <1>1, <1>4 DEF SetsVerdict
<1>5. ASSUME NEW p \in People, NEW filter \in DeskFilters, NEW u \in Urls, OpensTicket(p, filter, u) PROVE NotesInv'
  BY <1>5, OpeningPageKeepsNotes
<1>6. ASSUME NEW p \in People, (\E kind \in {"comment", "watch"} : Notes(p, kind)) \/ Unwatches(p) PROVE NotesInv'
  BY <1>6, NotingKeepsNotes
<1>7. ASSUME NEW p \in Deleters,
             (\E u \in Urls : RemovalBegins(p, u)) \/ (\E f \in DeskFindings : RemovalReads(p, f)) \/ RemovalFails(p)
      PROVE  NotesInv'
  BY <1>1, <1>7 DEF RemovalBegins, RemovalReads, RemovalFails
<1>8. ASSUME NEW p \in Deleters, RemovalCommits(p) PROVE NotesInv'
  BY <1>8, CommitKeepsNotes
<1>9. CASE CountsAll \/ CountsOpen \/ StatsAreRead
  BY <1>1, <1>9 DEF CountsAll, CountsOpen, StatsAreRead
<1>10. ASSUME NEW u \in Urls, NEW blocked \in BOOLEAN, BulkBlocks(u, blocked) PROVE NotesInv'
  BY <1>3, <1>10 DEF BulkBlocks
<1>11. ASSUME NEW p \in People, NEW blocked \in BOOLEAN, BlocksFromPage(p, blocked) PROVE NotesInv'
  BY <1>3, <1>11 DEF BlocksFromPage
<1>12. CASE UNCHANGED deskVars
  BY <1>1, <1>12 DEF deskVars
<1> QED BY <1>2, <1>3, <1>4, <1>5, <1>6, <1>7, <1>8, <1>9, <1>10, <1>11, <1>12 DEF DeskNext


\* What a write leaves of the deletions, but for who is late.
RemovalsGoOn ==
    \A p \in Deleters : removal'[p] # NoRemoval =>
        /\ removal[p] # NoRemoval /\ removal'[p].url = removal[p].url
        /\ removal'[p].todo = removal[p].todo /\ removal'[p].reopens = removal[p].reopens
LEMMA WriteGoesOn ==
    ASSUME DeskInv, NEW of, \A p \in Deleters : removal'[p] \in {NoRemoval, Later(of)[p]}, tasks \subseteq tasks'
    PROVE  RemovalsGoOn /\ RemovalsAimed'
<1> SUFFICES ASSUME NEW p \in Deleters, removal'[p] # NoRemoval
             PROVE  /\ removal[p] # NoRemoval /\ removal'[p].url = removal[p].url
                    /\ removal'[p].todo = removal[p].todo /\ removal'[p].reopens = removal[p].reopens
                    /\ removal'[p].url \in tasks' /\ removal'[p].late \subseteq DeskFindings
                    /\ removal'[p].stage = "held" => removal'[p].at \in DeskFindings
  BY DEF RemovalsGoOn, RemovalsAimed
<1>1. removal'[p] = IF removal[p].stage = "held"
                    THEN [removal[p] EXCEPT !.late = removal[p].late \cup (of \cap {removal[p].at})] ELSE removal[p]
  BY DEF Later
<1>2. CASE removal[p].stage # "held"
  BY <1>1, <1>2 DEF DeskInv, RemovalsAimed
<1>3. CASE removal[p].stage = "held"
  <2>1. removal[p] \in RemovalRec
    BY <1>3 DEF DeskInv, RemovalsInv, RemovalsShaped, NoRemoval
  <2>2. removal[p] # NoRemoval
    BY <1>3 DEF NoRemoval
  <2>3. /\ removal'[p].url = removal[p].url /\ removal'[p].todo = removal[p].todo /\ removal'[p].at = removal[p].at
        /\ removal'[p].reopens = removal[p].reopens /\ removal'[p].stage = removal[p].stage
        /\ removal'[p].late = removal[p].late \cup (of \cap {removal[p].at})
    BY <1>1, <1>3, <2>1 DEF RemovalRec
  <2> QED BY <1>3, <2>2, <2>3 DEF DeskInv, RemovalsAimed
<1> QED BY <1>2, <1>3

LEMMA DeskWriteGoesOn ==
    ASSUME DeskInv, NEW of, DeskWrite(of), tasks \subseteq tasks' PROVE RemovalsGoOn /\ RemovalsAimed'
BY DeskWritesRemoval, WriteGoesOn

LEMMA StaysOn == ASSUME NEW l, Stays(l), RemovalsGoOn PROVE Stays(l)'
BY DEF Stays, RemovalsGoOn

\* Steps that put no finding in progress and take no row away.
LEMMA ProgressIdle ==
    ASSUME DeskInv, RemovalsGoOn, DOMAIN lines \subseteq DOMAIN lines',
           \A f \in DeskFindings \ byHand' : verdict'[f] = "IN_PROGRESS" => f \notin byHand /\ verdict[f] = "IN_PROGRESS"
    PROVE  ProgressKept'
<1> SUFFICES ASSUME NEW f \in DeskFindings \ byHand', verdict'[f] = "IN_PROGRESS"
             PROVE  \E l \in DOMAIN lines' : l[2] = f /\ Stays(l)'
  BY DEF ProgressKept, Stays
<1>1. PICK l \in DOMAIN lines : l[2] = f /\ Stays(l)
  BY DEF DeskInv, ProgressKept
<1> QED BY <1>1, StaysOn

LEMMA OpeningKeepsProgress ==
    ASSUME DeskInv, NEW u \in Urls, OpensTask(u) PROVE RemovalsAimed' /\ ProgressKept'
<1> DEFINE linked == Linkage(u)
<1>1. /\ u \notin tasks /\ tasks' = tasks \cup {u} /\ DeskWrite(linked)
      /\ verdict' = [f \in DeskFindings |-> IF f \in linked THEN "IN_PROGRESS" ELSE verdict[f]]
      /\ byHand' = byHand \ linked
  BY DEF OpensTask
<1>2. DOMAIN lines' = DOMAIN lines \cup ({u} \X linked)
  BY DEF OpensTask
<1> HIDE DEF linked
<1>3. RemovalsGoOn /\ RemovalsAimed'
  BY <1>1, DeskWriteGoesOn
<1>4. ASSUME NEW f \in DeskFindings \ byHand', verdict'[f] = "IN_PROGRESS"
      PROVE  \E l \in DOMAIN lines' : l[2] = f /\ Stays(l)'
  <2>1. CASE f \in linked
    <3> DEFINE l == <<u, f>>
    <3>1. l \in DOMAIN lines' /\ l[1] = u /\ l[2] = f
      BY <1>2, <2>1
    <3>2. \A p \in Deleters : removal'[p] # NoRemoval => removal'[p].url # u
      BY <1>1, <1>3 DEF RemovalsGoOn, DeskInv, RemovalsAimed
    <3>3. Stays(l)'
      BY <3>1, <3>2 DEF Stays
    <3> QED BY <3>1, <3>3
  <2>2. CASE f \notin linked
    <3>1. PICK l \in DOMAIN lines : l[2] = f /\ Stays(l)
      BY <1>1, <1>4, <2>2 DEF DeskInv, ProgressKept
    <3> QED BY <1>2, <1>3, <3>1, StaysOn
  <2> QED BY <2>1, <2>2
<1> QED BY <1>3, <1>4 DEF ProgressKept, Stays

LEMMA VerdictsKeepProgress ==
    ASSUME DeskInv, (\E u \in Urls : ClosesTask(u)) \/ \E f \in DeskFindings, s \in Verdicts : SetsVerdict(f, s)
    PROVE  RemovalsAimed' /\ ProgressKept'
<1>1. verdict \in [DeskFindings -> Verdicts]
  BY DEF DeskInv, RemovalsInv, RemovalsShaped
<1>2. ASSUME NEW u \in Urls, ClosesTask(u) PROVE RemovalsAimed' /\ ProgressKept'
  <2>1. DeskWrite({l[2] : l \in RowsOf(u)}) /\ DOMAIN lines' = DOMAIN lines /\ UNCHANGED <<byHand, tasks>>
    BY <1>2 DEF ClosesTask
  <2>2. \A f \in DeskFindings : verdict'[f] = "IN_PROGRESS" => verdict[f] = "IN_PROGRESS"
    BY <1>2 DEF ClosesTask
  <2>3. RemovalsGoOn /\ RemovalsAimed'
    BY <2>1, DeskWriteGoesOn
  <2> QED BY <2>1, <2>2, <2>3, ProgressIdle
<1>3. ASSUME NEW f \in DeskFindings, NEW s \in Verdicts, SetsVerdict(f, s) PROVE RemovalsAimed' /\ ProgressKept'
  <2>1. DeskWrite({f}) /\ byHand' = byHand \cup {f} /\ UNCHANGED <<lines, tasks>>
        /\ \A g \in DeskFindings \ {f} : verdict'[g] = verdict[g]
    BY <1>1, <1>3 DEF SetsVerdict
  <2>2. RemovalsGoOn /\ RemovalsAimed'
    BY <2>1, DeskWriteGoesOn
  <2> QED BY <2>1, <2>2, ProgressIdle
<1> QED BY <1>2, <1>3

LEMMA OthersKeepProgress ==
    ASSUME DeskInv, DOMAIN lines' = DOMAIN lines, UNCHANGED <<verdict, byHand, tasks>>, DeskWrite({}) \/ removal' = removal
    PROVE  RemovalsAimed' /\ ProgressKept'
<1>1. RemovalsGoOn /\ RemovalsAimed'
  <2>1. CASE DeskWrite({})
    BY <2>1, DeskWriteGoesOn
  <2>2. CASE removal' = removal
    BY <2>2 DEF RemovalsGoOn, RemovalsAimed, DeskInv
  <2> QED BY <2>1, <2>2
<1> QED BY <1>1, ProgressIdle

LEMMA BeginningKeepsProgress ==
    ASSUME DeskInv, NEW p \in Deleters, NEW u \in Urls, RemovalBegins(p, u) PROVE RemovalsAimed' /\ ProgressKept'
<1> DEFINE new == [stage |-> "next", url |-> u, todo |-> {l[2] : l \in RowsOf(u)}, done |-> {},
                   at |-> None0, reopens |-> {}, late |-> {}]
<1>1. removal' = [removal EXCEPT ![p] = new] /\ RowsOf(u) # {} /\ UNCHANGED <<lines, verdict, byHand, tasks>>
  BY DEF RemovalBegins
<1>2. new.stage = "next" /\ new.url = u /\ new.todo = {l[2] : l \in RowsOf(u)} /\ new.late = {}
  OBVIOUS
<1>3. u \in tasks
  BY <1>1 DEF RowsOf, DeskInv, RowsInv, RowsShaped
<1> HIDE DEF new
<1>4. \A q \in Deleters : removal'[q] = IF q = p THEN new ELSE removal[q]
  BY <1>1 DEF DeskInv, RemovalsInv, RemovalsShaped
<1>5. RemovalsAimed'
  BY <1>1, <1>2, <1>3, <1>4 DEF DeskInv, RemovalsAimed
<1>6. ASSUME NEW l \in DOMAIN lines, Stays(l) PROVE Stays(l)'
  <2>1. l[1] = u => l[2] \in new.todo
    BY <1>2 DEF RowsOf
  <2> QED BY <1>2, <1>4, <1>6, <2>1 DEF Stays
<1> QED BY <1>1, <1>5, <1>6 DEF DeskInv, ProgressKept, Stays

LEMMA ReadingKeepsProgress ==
    ASSUME DeskInv, NEW p \in Deleters, NEW f \in DeskFindings, RemovalReads(p, f) PROVE RemovalsAimed' /\ ProgressKept'
<1> DEFINE r == removal[p]
           new == [r EXCEPT !.stage = "held", !.todo = r.todo \ {f}, !.done = Sent(r), !.at = f,
                            !.reopens = IF Reopens(f) THEN r.reopens \cup {f} ELSE r.reopens]
<1>1. /\ r # NoRemoval /\ UNCHANGED <<lines, verdict, byHand, tasks>>
      /\ removal' = [removal EXCEPT ![p] = new]
  BY DEF RemovalReads
<1>2. r \in RemovalRec
  BY <1>1 DEF DeskInv, RemovalsInv, RemovalsShaped
<1>3. /\ new.stage = "held" /\ new.todo = r.todo \ {f} /\ new.at = f /\ new.late = r.late /\ new.url = r.url
      /\ new.reopens = (IF Reopens(f) THEN r.reopens \cup {f} ELSE r.reopens)
  BY <1>2 DEF RemovalRec
<1> HIDE DEF new
<1>4. \A q \in Deleters : removal'[q] = IF q = p THEN new ELSE removal[q]
  BY <1>1 DEF DeskInv, RemovalsInv, RemovalsShaped
<1>5. RemovalsAimed'
  BY <1>1, <1>3, <1>4 DEF DeskInv, RemovalsAimed
<1>6. ASSUME NEW l \in DOMAIN lines, Stays(l), verdict[l[2]] = "IN_PROGRESS" PROVE Stays(l)'
  <2>1. l[2] = f => Reopens(f)
    BY <1>6 DEF Reopens
  <2>2. r.url = l[1] => l[2] \in new.todo \cup new.reopens
    BY <1>1, <1>3, <1>6, <2>1 DEF Stays
  <2> QED BY <1>3, <1>4, <1>6, <2>2 DEF Stays
<1>7. ASSUME NEW g \in DeskFindings \ byHand, verdict[g] = "IN_PROGRESS"
      PROVE  \E l \in DOMAIN lines : l[2] = g /\ Stays(l)'
  <2>1. PICK l \in DOMAIN lines : l[2] = g /\ Stays(l)
    BY <1>7 DEF DeskInv, ProgressKept
  <2> QED BY <1>6, <1>7, <2>1
<1> QED BY <1>1, <1>5, <1>7 DEF ProgressKept, Stays

LEMMA CommitKeepsProgress ==
    ASSUME DeskInv, NEW p \in Deleters, RemovalCommits(p) PROVE RemovalsAimed' /\ ProgressKept'
<1> DEFINE r == removal[p]
<1>1. /\ r # NoRemoval /\ r.todo = {} /\ tasks' = tasks
      /\ lines' = [l \in DOMAIN lines \ Gone(r) |-> lines[l]]
      /\ verdict' = [f \in DeskFindings |-> IF f \in r.reopens THEN "OPEN" ELSE verdict[f]]
      /\ byHand' = byHand \ r.reopens
  BY DEF RemovalCommits
<1>2. \A q \in Deleters : removal'[q] \in {NoRemoval, Later(r.reopens)[q]}
  BY DEF RemovalCommits, Later
<1>3. RemovalsGoOn /\ RemovalsAimed'
  BY <1>1, <1>2, WriteGoesOn
<1>4. ASSUME NEW f \in DeskFindings \ byHand', verdict'[f] = "IN_PROGRESS"
      PROVE  \E l \in DOMAIN lines' : l[2] = f /\ Stays(l)'
  <2>1. f \notin r.reopens /\ f \notin byHand /\ verdict[f] = "IN_PROGRESS"
    BY <1>1, <1>4
  <2>2. PICK l \in DOMAIN lines : l[2] = f /\ Stays(l)
    BY <2>1 DEF DeskInv, ProgressKept
  <2>3. r.url # l[1]
    BY <1>1, <2>1, <2>2 DEF Stays
  <2>4. l \in DOMAIN lines'
    BY <1>1, <2>3 DEF Gone
  <2> QED BY <1>3, <2>2, <2>4, StaysOn
<1> QED BY <1>3, <1>4 DEF ProgressKept, Stays

LEMMA FailureKeepsProgress ==
    ASSUME DeskInv, NEW p \in Deleters, RemovalFails(p) PROVE RemovalsAimed' /\ ProgressKept'
<1>1. removal' = [removal EXCEPT ![p] = NoRemoval] /\ UNCHANGED <<lines, verdict, byHand, tasks>>
  BY DEF RemovalFails
<1>2. \A q \in Deleters : removal'[q] = IF q = p THEN NoRemoval ELSE removal[q]
  BY <1>1 DEF DeskInv, RemovalsInv, RemovalsShaped
<1>3. RemovalsGoOn /\ RemovalsAimed'
  BY <1>1, <1>2 DEF DeskInv, RemovalsAimed, RemovalsGoOn
<1> QED BY <1>1, <1>3, ProgressIdle

LEMMA ProgressInductive == DeskInv /\ [DeskNext]_deskVars => RemovalsAimed' /\ ProgressKept'
<1> SUFFICES ASSUME DeskInv, [DeskNext]_deskVars PROVE RemovalsAimed' /\ ProgressKept'
  OBVIOUS
<1>1. CASE UNCHANGED <<lines, verdict, byHand, removal, tasks>>
  BY <1>1, OthersKeepProgress
<1>2. ASSUME NEW u \in Urls, OpensTask(u) PROVE RemovalsAimed' /\ ProgressKept'
  BY <1>2, OpeningKeepsProgress
<1>3. CASE (\E u \in Urls : ClosesTask(u)) \/ \E f \in DeskFindings, s \in Verdicts : SetsVerdict(f, s)
  BY <1>3, VerdictsKeepProgress
<1>4. ASSUME NEW l, NEW blocked, Blocks(l, blocked) PROVE RemovalsAimed' /\ ProgressKept'
  <2>1. DOMAIN lines' = DOMAIN lines /\ DeskWrite({}) /\ UNCHANGED <<verdict, byHand, tasks>>
    BY <1>4 DEF Blocks
  <2> QED BY <2>1, OthersKeepProgress
<1>5. ASSUME NEW p \in People, NEW filter \in DeskFilters, NEW u \in Urls, OpensTicket(p, filter, u)
      PROVE  RemovalsAimed' /\ ProgressKept'
  BY <1>1, <1>5 DEF OpensTicket
<1>6. ASSUME NEW p \in People, NEW kind \in {"comment", "watch"}, Notes(p, kind) PROVE RemovalsAimed' /\ ProgressKept'
  BY <1>6, OthersKeepProgress DEF Notes
<1>7. ASSUME NEW p \in People, Unwatches(p) PROVE RemovalsAimed' /\ ProgressKept'
  BY <1>1, <1>7 DEF Unwatches
<1>8. ASSUME NEW p \in Deleters, NEW u \in Urls, RemovalBegins(p, u) PROVE RemovalsAimed' /\ ProgressKept'
  BY <1>8, BeginningKeepsProgress
<1>9. ASSUME NEW p \in Deleters, NEW f \in DeskFindings, RemovalReads(p, f) PROVE RemovalsAimed' /\ ProgressKept'
  BY <1>9, ReadingKeepsProgress
<1>10. ASSUME NEW p \in Deleters, RemovalCommits(p) \/ RemovalFails(p) PROVE RemovalsAimed' /\ ProgressKept'
  BY <1>10, CommitKeepsProgress, FailureKeepsProgress
<1>11. CASE CountsAll \/ CountsOpen \/ StatsAreRead
  BY <1>1, <1>11 DEF CountsAll, CountsOpen, StatsAreRead
<1>12. ASSUME NEW u \in Urls, NEW blocked \in BOOLEAN, BulkBlocks(u, blocked) PROVE RemovalsAimed' /\ ProgressKept'
  BY <1>4, <1>12 DEF BulkBlocks
<1>13. ASSUME NEW p \in People, NEW blocked \in BOOLEAN, BlocksFromPage(p, blocked) PROVE RemovalsAimed' /\ ProgressKept'
  BY <1>4, <1>13 DEF BlocksFromPage
<1>14. CASE UNCHANGED deskVars
  BY <1>1, <1>14 DEF deskVars
<1> QED BY <1>2, <1>3, <1>5, <1>6, <1>7, <1>8, <1>9, <1>10, <1>11, <1>12, <1>13, <1>14 DEF DeskNext

\* A ticket is open or resolved, whatever the number of its rows.
LEMMA CountsAdd ==
    ASSUME DeskInv
    PROVE  /\ TotalTickets \in Nat /\ OpenTickets \in Nat
           /\ TotalTickets - OpenTickets = Cardinality(Completed)
<1> DEFINE opened == {l[1] : l \in {k \in DOMAIN lines : ~lines[k].resolved}}
<1>1. OnDesk \in SUBSET tasks /\ IsFiniteSet(tasks)
  BY DEF DeskInv, RowsInv, RowsShaped, LinesNumbered, OnDesk
<1>2. Completed = {u \in OnDesk : \E l \in DOMAIN lines : l[1] = u /\ lines[l].resolved}
  <2> DEFINE filter == [Unfiltered EXCEPT !.chips = {"completed"}]
  <2>1. filter.of = DeskFindings /\ filter.chips = {"completed"}
    BY DEF Unfiltered
  <2>2. \A l \in DOMAIN lines : l[2] \in DeskFindings
    BY DEF DeskInv, RowsInv, RowsShaped
  <2> HIDE DEF filter
  <2>3. Matching(filter) = {l \in DOMAIN lines : lines[l].resolved}
    BY <2>1, <2>2 DEF Matching
  <2>4. Listing(filter) = {u \in OnDesk : \E l \in DOMAIN lines : l[1] = u /\ lines[l].resolved}
    BY <2>3 DEF Listing, ItemRows, RowsOf
  <2> QED BY <2>4 DEF Completed, filter
<1>3. opened \subseteq OnDesk /\ Completed \subseteq OnDesk /\ opened \cup Completed = OnDesk
  BY <1>2 DEF OnDesk
<1>4. opened \cap Completed = {}
  BY <1>2 DEF DeskInv, RowsInv, RowsAgree
<1> HIDE DEF opened
<1>5. /\ IsFiniteSet(OnDesk) /\ IsFiniteSet(opened) /\ IsFiniteSet(Completed)
  <2>1. IsFiniteSet(OnDesk)
    BY <1>1, FS_Subset
  <2> QED BY <1>3, <2>1, FS_Subset
<1>6. Cardinality(OnDesk) = Cardinality(opened) + Cardinality(Completed) - Cardinality(opened \cap Completed)
  BY <1>3, <1>5, FS_Union
<1>7. Cardinality(opened \cap Completed) = 0
  BY <1>4, FS_EmptySet
<1>8. Cardinality(OnDesk) \in Nat /\ Cardinality(opened) \in Nat /\ Cardinality(Completed) \in Nat
  BY <1>5, FS_CardinalityType
<1>9. OpenTickets = Cardinality(opened) /\ TotalTickets = Cardinality(OnDesk)
  BY DEF OpenTickets, TotalTickets, opened
<1> QED BY <1>6, <1>7, <1>8, <1>9

LEMMA TallyShape == NoTally.stage = "none" /\ \A x : x \in TallyRec => x.stage \in {"counting", "shown"}
BY DEF NoTally, TallyRec

\* A write: who counts is told, and what was counted is forgotten.
LEMMA WriteKeepsTally ==
    ASSUME DeskInv, tally' = IF tally.stage = "counting" THEN [tally EXCEPT !.since = TRUE] ELSE NoTally
    PROVE  TallyRight'
<1>1. CASE tally.stage = "counting"
  <2>1. tally \in TallyRec
    BY <1>1, TallyShape DEF DeskInv, TallyRight
  <2>2. tally' \in TallyRec /\ tally'.since = TRUE /\ tally'.stage = "counting"
    BY <1>1, <2>1 DEF TallyRec
  <2> QED BY <2>2 DEF TallyRight, TallyForCause
<1>2. CASE tally.stage # "counting"
  BY <1>2, TallyShape DEF TallyRight, TallyForCause
<1> QED BY <1>1, <1>2

LEMMA IdleKeepsTally == ASSUME DeskInv, UNCHANGED <<lines, tally>> PROVE TallyRight'
BY DEF DeskInv, TallyRight, TallyForCause, TotalTickets, OnDesk, Listing, ItemRows, Matching, RowsOf

LEMMA CountingKeepsTally ==
    ASSUME DeskInv, CountsAll \/ CountsOpen \/ StatsAreRead PROVE TallyRight'
<1>1. UNCHANGED lines
  BY DEF CountsAll, CountsOpen, StatsAreRead
<1>2. TotalTickets' = TotalTickets /\ OpenTickets' = OpenTickets /\ Completed' = Completed
  BY <1>1 DEF TotalTickets, OnDesk, OpenTickets, Completed, Listing, ItemRows, Matching, RowsOf
<1>3. CASE CountsAll
  <2>1. tally' = [stage |-> "counting", total |-> TotalTickets, open |-> 0, since |-> FALSE]
    BY <1>3 DEF CountsAll
  <2>2. tally' \in TallyRec /\ tally'.stage = "counting" /\ tally'.total = TotalTickets
    BY <2>1, CountsAdd DEF TallyRec
  <2> QED BY <1>2, <2>2 DEF TallyRight, TallyForCause
<1>4. CASE CountsOpen
  <2>1. tally \in TallyRec /\ tally.stage = "counting"
    BY <1>4, TallyShape DEF CountsOpen, DeskInv, TallyRight
  <2>2. tally' = [tally EXCEPT !.stage = "shown", !.open = OpenTickets]
    BY <1>4 DEF CountsOpen
  <2>3. tally' \in TallyRec /\ tally'.stage = "shown" /\ tally'.open = OpenTickets /\ tally'.total = tally.total /\ tally'.since = tally.since
    BY <2>1, <2>2, CountsAdd DEF TallyRec
  <2>4. ~tally'.since => tally'.total - tally'.open = Cardinality(Completed)
    BY <2>1, <2>3, CountsAdd DEF DeskInv, TallyRight
  <2> QED BY <1>2, <2>3, <2>4 DEF TallyRight, TallyForCause, Completed
<1>5. CASE StatsAreRead
  BY <1>5, TallyShape DEF StatsAreRead, TallyRight, TallyForCause
<1> QED BY <1>3, <1>4, <1>5

LEMMA TallyInductive == DeskInv /\ [DeskNext]_deskVars => TallyRight' /\ DeskCounts'
<1> SUFFICES ASSUME DeskInv, [DeskNext]_deskVars PROVE TallyRight' /\ DeskCounts'
  OBVIOUS
<1> USE DEF DeskCounts
<1>1. CASE UNCHANGED <<lines, tally, byHand, deskWrites>>
  BY <1>1, IdleKeepsTally DEF DeskInv
<1>2. ASSUME NEW of, DeskWrite(of), byHand' \subseteq DeskFindings PROVE TallyRight' /\ DeskCounts'
  <2>1. deskWrites' \in 0 .. MaxDeskWrites
    BY <1>2, DeskAssumption DEF DeskWrite, DeskInv
  <2> QED BY <1>2, <2>1, WriteKeepsTally DEF DeskWrite
<1>3. ASSUME NEW u \in Urls, OpensTask(u) \/ ClosesTask(u) PROVE TallyRight' /\ DeskCounts'
  BY <1>2, <1>3 DEF OpensTask, ClosesTask, DeskInv
<1>4. ASSUME NEW f \in DeskFindings, NEW s \in Verdicts, SetsVerdict(f, s) PROVE TallyRight' /\ DeskCounts'
  BY <1>2, <1>4 DEF SetsVerdict, DeskInv
<1>5. ASSUME NEW l, NEW blocked, Blocks(l, blocked) PROVE TallyRight' /\ DeskCounts'
  BY <1>2, <1>5 DEF Blocks, DeskInv
<1>6. ASSUME NEW p \in People, NEW kind \in {"comment", "watch"}, Notes(p, kind) PROVE TallyRight' /\ DeskCounts'
  BY <1>2, <1>6 DEF Notes, DeskInv
<1>7. ASSUME NEW p \in People,
             Unwatches(p) \/ \E filter \in DeskFilters, u \in Urls : OpensTicket(p, filter, u)
      PROVE  TallyRight' /\ DeskCounts'
  BY <1>1, <1>7 DEF Unwatches, OpensTicket
<1>8. ASSUME NEW p \in Deleters,
             (\E u \in Urls : RemovalBegins(p, u)) \/ (\E f \in DeskFindings : RemovalReads(p, f)) \/ RemovalFails(p)
      PROVE  TallyRight' /\ DeskCounts'
  BY <1>1, <1>8 DEF RemovalBegins, RemovalReads, RemovalFails
<1>9. ASSUME NEW p \in Deleters, RemovalCommits(p) PROVE TallyRight' /\ DeskCounts'
  <2>1. /\ tally' = IF tally.stage = "counting" THEN [tally EXCEPT !.since = TRUE] ELSE NoTally
        /\ byHand' \subseteq byHand /\ deskWrites' = deskWrites
    BY <1>9 DEF RemovalCommits
  <2> QED BY <2>1, WriteKeepsTally DEF DeskInv
<1>10. CASE CountsAll \/ CountsOpen \/ StatsAreRead
  BY <1>10, CountingKeepsTally DEF CountsAll, CountsOpen, StatsAreRead, DeskInv
<1>11. ASSUME NEW u \in Urls, NEW blocked \in BOOLEAN, BulkBlocks(u, blocked) PROVE TallyRight' /\ DeskCounts'
  BY <1>5, <1>11 DEF BulkBlocks
<1>12. ASSUME NEW p \in People, NEW blocked \in BOOLEAN, BlocksFromPage(p, blocked) PROVE TallyRight' /\ DeskCounts'
  BY <1>5, <1>12 DEF BlocksFromPage
<1>13. CASE UNCHANGED deskVars
  BY <1>1, <1>13 DEF deskVars
<1> QED BY <1>3, <1>4, <1>6, <1>7, <1>8, <1>9, <1>10, <1>11, <1>12, <1>13 DEF DeskNext

LEMMA DeskInductive == DeskInv /\ [DeskNext]_deskVars => DeskInv'
<1> SUFFICES ASSUME DeskInv, [DeskNext]_deskVars PROVE DeskInv'
  OBVIOUS
<1>1. RowsInv' /\ RemovalsInv'
  BY RowsInductive, RemovalsInductive DEF DeskInv
<1> QED BY <1>1, NotesInductive, ProgressInductive, TallyInductive DEF DeskInv, NotesInv

LEMMA DeskInvSound == DeskInv => DeskSound
<1> SUFFICES ASSUME DeskInv PROVE DeskSound
  OBVIOUS
<1>1. DeskTypeOK
  <2>1. \A l \in DOMAIN lines : lines[l] \in [id : Nat, resolved : BOOLEAN, blocked : BOOLEAN]
    BY DEF DeskInv, RowsInv, RowsShaped, LineRec
  <2>2. \A p \in People : page[p] # NoPage => page[p] \in [stage : {"open"}, line : Lines, whole : BOOLEAN]
    BY DEF DeskInv, PagesKept, PageRec
  <2>3. ASSUME NEW p \in Deleters, removal[p] # NoRemoval
        PROVE  /\ removal[p].stage \in {"next", "held"} /\ removal[p].url \in Urls
               /\ removal[p].todo \cup removal[p].reopens \cup removal[p].late \subseteq DeskFindings
    <3>1. removal[p] \in RemovalRec
      BY <2>3 DEF DeskInv, RemovalsInv, RemovalsShaped
    <3> QED BY <2>3, <3>1 DEF RemovalRec, DeskInv, RemovalsAimed
  <2>4. tally # NoTally => tally.stage \in {"counting", "shown"}
    BY TallyShape DEF DeskInv, TallyRight
  <2> QED BY <2>1, <2>2, <2>3, <2>4
          DEF DeskTypeOK, DeskInv, LinesNumbered, RemarksKept, RemovalsInv, RemovalsShaped, DeskCounts
<1>2. NotesStay
  <2>1. \A n \in remarks : n.line \in DOMAIN lines /\ (n.whole => IsFirst(n.line))
    BY DEF DeskInv, RemarksKept
  <2> QED BY <2>1, FirstIsLeast DEF NotesStay, DeskInv
<1>3. ListedAsOnPage
  <2> SUFFICES ASSUME NEW filter \in DeskFilters, NEW u \in Listing(filter) PROVE Item(filter, u) = PageOf(u)
    BY DEF ListedAsOnPage
  <2>1. ItemRows(filter, u) # {} /\ ItemRows(filter, u) \subseteq RowsOf(u)
    BY DEF Listing, ItemRows
  <2> QED BY <2>1, AggregateOfSome DEF Item, PageOf, DeskInv
<1>4. InProgressForCause
  BY DEF DeskInv, ProgressKept, InProgressForCause
<1> QED BY <1>1, <1>2, <1>3, <1>4 DEF DeskSound, DeskInv, TallyRight

(* DeskSound, of ticketing/router.py and service.py: every list shows a       *)
(* ticket as its page does, comments stay on the row under which the whole    *)
(* list opens the ticket, a finding in progress has a ticket or was put there *)
(* by hand, and the statistics add up unless a ticket changed between their   *)
(* two reads.                                                                 *)
THEOREM DeskIsSound == DeskSpec => []DeskSound
BY DeskStart, DeskInductive, DeskInvSound, PTL DEF DeskSpec

-----------------------------------------------------------------------------
(* What is shown: counts that add up, orders that exist, and a walk through   *)
(* the pages that has shown what comes first in the list.                     *)

ScreensSpec == ScreensInit /\ [][ScreensNext]_screenVars

\* Parts that split a set, and the number of members of each.
Splits(A, K, parts) ==
    /\ IsFiniteSet(A)
    /\ \A k \in K : parts[k] \subseteq A
    /\ \A x \in A : \E k \in K : x \in parts[k]
    /\ \A j, k \in K : \A x : x \in parts[j] /\ x \in parts[k] => j = k
Numbers(n, K, parts) == n = [k \in K |-> Cardinality(parts[k])]

\* The numbers of the parts of a set add up to the number of its members.
LEMMA SumOfParts ==
    ASSUME NEW A, NEW K, NEW parts, NEW n, Splits(A, K, parts), Numbers(n, K, parts)
    PROVE  SumOver(n) = Cardinality(A)
<1>0. /\ IsFiniteSet(A) /\ \A k \in K : parts[k] \subseteq A
      /\ \A x \in A : \E k \in K : x \in parts[k]
      /\ \A j, k \in K : \A x : x \in parts[j] /\ x \in parts[k] => j = k
      /\ n = [k \in K |-> Cardinality(parts[k])]
  BY DEF Splits, Numbers
<1> DEFINE b == [k \in K |-> CHOOSE e : e \in Bijection(1 .. n[k], parts[k])]
           Cells == UNION {{k} \X (1 .. n[k]) : k \in DOMAIN n}
           g == [c \in Cells |-> b[c[1]][c[2]]]
<1>1. ASSUME NEW k \in K
      PROVE  b[k] \in Bijection(1 .. n[k], parts[k])
  <2>1. n[k] = Cardinality(parts[k]) /\ IsFiniteSet(parts[k])
    BY <1>0, FS_Subset
  <2>2. \E e : e \in Bijection(1 .. n[k], parts[k])
    BY <2>1, FS_CardinalityType DEF ExistsBijection
  <2>3. b[k] = CHOOSE e : e \in Bijection(1 .. n[k], parts[k])
    OBVIOUS
  <2> QED BY <2>2, <2>3
<1>2. ASSUME NEW k \in K
      PROVE  /\ \A i \in 1 .. n[k] : b[k][i] \in parts[k]
             /\ \A i, j \in 1 .. n[k] : b[k][i] = b[k][j] => i = j
             /\ \A x \in parts[k] : \E i \in 1 .. n[k] : b[k][i] = x
  <2>1. PICK e : e = b[k]
    OBVIOUS
  <2> HIDE DEF b
  <2>2. e \in Injection(1 .. n[k], parts[k]) /\ e \in Surjection(1 .. n[k], parts[k])
    BY <1>1, <2>1 DEF Bijection
  <2>3. e \in [1 .. n[k] -> parts[k]] /\ \A i, j \in 1 .. n[k] : e[i] = e[j] => i = j
    BY <2>2 DEF Injection, IsInjective
  <2>4. \A x \in parts[k] : \E i \in 1 .. n[k] : e[i] = x
    BY <2>2 DEF Surjection
  <2> QED BY <2>1, <2>3, <2>4
<1>3. \A c : c \in Cells <=> \E k \in K : \E i \in 1 .. n[k] : c = <<k, i>>
  <2>1. DOMAIN n = K
    BY <1>0
  <2> QED BY <2>1
<1> HIDE DEF Cells, b
<1>4. g \in [Cells -> A]
  <2> SUFFICES ASSUME NEW c \in Cells PROVE b[c[1]][c[2]] \in A
    OBVIOUS
  <2>1. PICK k \in K, i \in Nat : i \in 1 .. n[k] /\ c = <<k, i>>
    BY <1>3
  <2> QED BY <1>0, <1>2, <2>1
<1>5. ASSUME NEW c \in Cells, NEW d \in Cells, g[c] = g[d] PROVE c = d
  <2>1. PICK k \in K, i \in Nat : i \in 1 .. n[k] /\ c = <<k, i>>
    BY <1>3
  <2>2. PICK l \in K, j \in Nat : j \in 1 .. n[l] /\ d = <<l, j>>
    BY <1>3
  <2>3. b[k][i] = b[l][j]
    BY <1>5, <2>1, <2>2
  <2>4. k = l
    BY <1>0, <1>2, <2>1, <2>2, <2>3
  <2> QED BY <1>2, <2>1, <2>2, <2>3, <2>4
<1>6. ASSUME NEW x \in A PROVE \E c \in Cells : g[c] = x
  <2>1. PICK k \in K : x \in parts[k]
    BY <1>0
  <2>2. PICK i \in 1 .. n[k] : b[k][i] = x
    BY <1>2, <2>1
  <2>3. <<k, i>> \in Cells
    BY <1>3, <2>2
  <2>4. g[<<k, i>>] = x
    BY <2>2, <2>3
  <2> QED BY <2>3, <2>4
<1> HIDE DEF g
<1>7. g \in Bijection(Cells, A)
  BY <1>4, <1>5, <1>6, Fun_IsBij
<1>8. ExistsBijection(A, Cells)
  BY <1>7, Fun_ExistsBijSymmetric DEF ExistsBijection
<1>9. Cardinality(Cells) = Cardinality(A)
  BY <1>0, <1>8, FS_Bijection
<1> QED BY <1>9 DEF SumOver, Cells

\* An order has every row once, and none before one that must precede it.
LEMMA OrderHasAll ==
    ASSUME NEW rows, IsFiniteSet(rows), NEW sort, NEW o \in Orders(sort, rows),
           NEW n, n = Cardinality(rows)
    PROVE  /\ n \in Nat /\ o \in [1 .. n -> rows] /\ DOMAIN o = 1 .. n
           /\ \A i, j \in 1 .. n : o[i] = o[j] => i = j
           /\ \A f \in rows : \E i \in 1 .. n : o[i] = f
           /\ \A i, j \in 1 .. n : i < j => ~Before(sort, o[j], o[i])
<1>1. n \in Nat
  BY FS_CardinalityType
<1>2. o \in [1 .. n -> rows] /\ \A i, j \in 1 .. n : i # j => o[i] # o[j]
  BY DEF Orders, SetToSeqs
<1>3. o \in Injection(1 .. n, rows)
  BY <1>2, Fun_IsInj
<1>4. Cardinality(1 .. n) = n
  BY <1>1, FS_Interval
<1>5. o \in Surjection(1 .. n, rows)
  BY <1>3, <1>4, FS_Injection
<1>6. \A f \in rows : \E i \in 1 .. n : o[i] = f
  BY <1>5 DEF Surjection
<1>7. \A i, j \in DOMAIN o : i < j => ~Before(sort, o[j], o[i])
  BY DEF Orders
<1> QED BY <1>1, <1>2, <1>6, <1>7

LEMMA RanksOfSeverity == \A f : SeverityRank(f) \in 1 .. 3
BY DEF SeverityRank

\* No two findings come before each other, and in the default order no two tie.
LEMMA OneIsBefore ==
    ASSUME ScreensTypeOK, NEW f \in Shelf, NEW g \in Shelf, NEW sort
    PROVE  /\ ~(Before(sort, f, g) /\ Before(sort, g, f))
           /\ f \in Present /\ g \in Present /\ f # g =>
                Before("lastSeen", f, g) \/ Before("lastSeen", g, f)
<1>1. SeverityRank(f) \in Int /\ SeverityRank(g) \in Int
  BY RanksOfSeverity
<1>2. seen[f] \in Int /\ seen[g] \in Int
  BY DEF ScreensTypeOK
<1>3. f \in Present /\ g \in Present /\ f # g => seen[f] # seen[g]
  BY DEF ScreensTypeOK
<1>4. ~(Before(sort, f, g) /\ Before(sort, g, f))
  BY <1>1, <1>2 DEF Before
<1>5. ASSUME f \in Present, g \in Present, f # g
      PROVE  Before("lastSeen", f, g) \/ Before("lastSeen", g, f)
  <2>1. seen[f] > seen[g] \/ seen[g] > seen[f]
    BY <1>2, <1>3, <1>5
  <2>2. \/ SeverityRank(f) < SeverityRank(g)
        \/ SeverityRank(g) < SeverityRank(f)
        \/ SeverityRank(f) = SeverityRank(g)
    BY <1>1
  <2> QED BY <2>1, <2>2 DEF Before
<1> QED BY <1>4, <1>5

LEMMA OneIsLast ==
    ASSUME ScreensTypeOK, NEW S \in SUBSET Present, S # {}
    PROVE  \E f \in S : \A g \in S : ~Before("lastSeen", f, g)
<1> DEFINE R == {SeverityRank(f) : f \in S}
           m == Max(R)
           T == {writes - seen[f] : f \in {e \in S : SeverityRank(e) = m}}
<1>1. R \in SUBSET Int /\ R # {} /\ IsFiniteSet(R)
  <2>1. R \subseteq 1 .. 3 /\ R # {}
    BY RanksOfSeverity
  <2> HIDE DEF R
  <2>2. \A a, b \in Int : IsFiniteSet(a .. b)
    BY FS_Interval
  <2>3. IsFiniteSet(1 .. 3)
    <3>1. 1 \in Int /\ 3 \in Int
      OBVIOUS
    <3> QED BY <2>2, <3>1
  <2>4. 1 .. 3 \subseteq Int
    OBVIOUS
  <2> QED BY <2>1, <2>3, <2>4, FS_Subset
<1>2. m \in R /\ \A r \in R : r <= m
  <2> HIDE DEF R
  <2> QED BY <1>1, LargestOf
<1> HIDE DEF m
<1>3. \A f \in S : SeverityRank(f) <= m /\ seen[f] \in 0 .. writes /\ writes \in Nat
  <2>1. \A f \in S : f \in Shelf
    BY DEF Present
  <2> QED BY <1>2, <2>1 DEF ScreensTypeOK
<1>4. T \in SUBSET Int /\ T # {} /\ IsFiniteSet(T)
  <2>1. T \subseteq 0 .. writes
    <3>1. ASSUME NEW f \in S PROVE writes - seen[f] \in 0 .. writes
      BY <1>3
    <3> QED BY <3>1
  <2>2. T # {}
    BY <1>2
  <2>3. writes \in Nat
    BY <1>2, <1>3
  <2> HIDE DEF T
  <2>4. IsFiniteSet(0 .. writes) /\ 0 .. writes \subseteq Int
    BY <2>3, FS_Interval
  <2> QED BY <2>1, <2>2, <2>4, FS_Subset
<1>5. Max(T) \in T /\ \A t \in T : t <= Max(T)
  <2> HIDE DEF T
  <2> QED BY <1>4, LargestOf
<1>6. PICK f \in S : SeverityRank(f) = m /\ Max(T) = writes - seen[f]
  BY <1>5
<1>7. ASSUME NEW g \in S, Before("lastSeen", f, g) PROVE FALSE
  <2>1. SeverityRank(f) \in Int /\ SeverityRank(g) \in Int /\ SeverityRank(g) <= SeverityRank(f)
    BY <1>3, <1>6, RanksOfSeverity
  <2>2. SeverityRank(g) = m /\ seen[f] > seen[g]
    BY <1>6, <1>7, <2>1 DEF Before
  <2>3. writes - seen[g] <= writes - seen[f]
    BY <1>5, <1>6, <2>2
  <2> QED BY <1>3, <2>2, <2>3
<1> QED BY <1>7

\* There is a default order of any findings: take away the last, again and
\* again.
LEMMA OrdersExist ==
    ASSUME ScreensTypeOK, NEW rows \in SUBSET Present
    PROVE  Orders("lastSeen", rows) # {}
<1> SUFFICES ASSUME Orders("lastSeen", rows) = {} PROVE FALSE
  OBVIOUS
<1> DEFINE Bad == {S \in SUBSET Present : Orders("lastSeen", S) = {}}
<1>1. IsFiniteSet(Present) /\ \A S \in SUBSET Present : IsFiniteSet(S)
  BY ScreenBounds, FS_Subset DEF Present
<1>2. PICK least \in Bad : \A U \in Bad : ~(<<U, least>> \in StrictSubsetOrdering(Present))
  <2> DEFINE R == StrictSubsetOrdering(Present)
             F == FiniteSubsetsOf(Present)
  <2>1. IsWellFoundedOn(R, F)
    BY FS_StrictSubsetOrderingWellFounded
  <2>2. Bad \subseteq F /\ Bad # {}
    BY <1>1 DEF FiniteSubsetsOf
  <2> HIDE DEF Bad, R, F
  <2>3. \E U \in Bad : \A V \in Bad : ~(<<V, U>> \in R)
    BY <2>1, <2>2, WFMin DEF F
  <2> QED BY <2>3 DEF R
<1>3. least # {}
  <2> SUFFICES ASSUME least = {} PROVE FALSE
    OBVIOUS
  <2>1. Cardinality({}) = 0 /\ 1 .. 0 = {}
    BY FS_EmptySet
  <2>2. [i \in {} |-> i] \in SetToSeqs({})
    BY <2>1 DEF SetToSeqs
  <2>3. [i \in {} |-> i] \in Orders("lastSeen", {})
    BY <2>2 DEF Orders
  <2> QED BY <2>3
<1>4. PICK f \in least : \A g \in least : ~Before("lastSeen", f, g)
  BY <1>3, OneIsLast
<1> DEFINE U == least \ {f}
<1>5. U \in SUBSET Present /\ f \notin U /\ <<U, least>> \in StrictSubsetOrdering(Present)
  BY DEF StrictSubsetOrdering
<1>6. PICK p : p \in Orders("lastSeen", U)
  BY <1>2, <1>5
<1>7. PICK n \in Nat : n = Cardinality(U) /\ Cardinality(least) = n + 1
  <2>1. IsFiniteSet(least) /\ Cardinality(least) \in Nat
    BY <1>1, FS_CardinalityType
  <2>2. IsFiniteSet(U) /\ Cardinality(U) \in Nat
    BY <1>1, <1>5, FS_CardinalityType
  <2>3. Cardinality(U) = Cardinality(least) - 1
    BY <2>1, FS_RemoveElement
  <2> HIDE DEF U
  <2> QED BY <2>1, <2>2, <2>3
<1> DEFINE o == [i \in 1 .. n + 1 |-> IF i = n + 1 THEN f ELSE p[i]]
<1>8. /\ p \in [1 .. n -> U]
      /\ \A i, j \in 1 .. n : p[i] = p[j] => i = j
      /\ \A i, j \in 1 .. n : i < j => ~Before("lastSeen", p[j], p[i])
  <2> HIDE DEF U
  <2>1. IsFiniteSet(U)
    BY <1>1, <1>5
  <2> QED BY <1>6, <1>7, <2>1, OrderHasAll
<1>9. ASSUME NEW i \in 1 .. n PROVE o[i] = p[i] /\ o[i] \in U /\ o[i] \in least
  <2>1. i \in 1 .. n + 1 /\ i # n + 1
    BY <1>7
  <2> QED BY <1>8, <2>1
<1>10. o[n + 1] = f
  BY <1>7
<1>11. \A i \in 1 .. n + 1 : i \in 1 .. n \/ i = n + 1
  BY <1>7
<1>12. o \in [1 .. n + 1 -> least] /\ DOMAIN o = 1 .. n + 1
  BY <1>9, <1>10, <1>11
<1> HIDE DEF o, U
<1>13. ASSUME NEW i \in 1 .. n + 1, NEW j \in 1 .. n + 1, i # j PROVE o[i] # o[j]
  BY <1>5, <1>8, <1>9, <1>10, <1>11, <1>13
<1>14. ASSUME NEW i \in 1 .. n + 1, NEW j \in 1 .. n + 1, i < j
       PROVE  ~Before("lastSeen", o[j], o[i])
  <2>1. i \in 1 .. n
    BY <1>7, <1>14
  <2>2. CASE j = n + 1
    BY <1>4, <1>9, <1>10, <2>1, <2>2
  <2>3. CASE j \in 1 .. n
    BY <1>8, <1>9, <1>14, <2>1, <2>3
  <2> QED BY <1>11, <2>2, <2>3
<1>15. o \in SetToSeqs(least)
  BY <1>7, <1>12, <1>13 DEF SetToSeqs
<1>16. o \in Orders("lastSeen", least)
  BY <1>12, <1>14, <1>15 DEF Orders
<1> QED BY <1>2, <1>16

\* A finding that ties with no other has its place in every order.
LEMMA PlaceInOrder ==
    ASSUME ScreensTypeOK, NEW rows \in SUBSET Present, NEW sort, NEW o \in Orders(sort, rows),
           NEW f \in rows, \A g \in rows \ {f} : ~Tied(sort, f, g),
           NEW i \in DOMAIN o, o[i] = f
    PROVE  i = 1 + Cardinality({g \in rows : Before(sort, g, f)})
<1> DEFINE n == Cardinality(rows)
           B == {g \in rows : Before(sort, g, f)}
           q == [j \in 1 .. i - 1 |-> o[j]]
<1>1. IsFiniteSet(rows) /\ rows \subseteq Shelf
  BY ScreenBounds, FS_Subset DEF Present
<1>2. /\ n \in Nat /\ o \in [1 .. n -> rows] /\ DOMAIN o = 1 .. n
      /\ \A j, k \in 1 .. n : o[j] = o[k] => j = k
      /\ \A g \in rows : \E j \in 1 .. n : o[j] = g
      /\ \A j, k \in 1 .. n : j < k => ~Before(sort, o[k], o[j])
  BY <1>1, OrderHasAll
<1> HIDE DEF n
<1>3. i \in 1 .. n /\ i \in Nat /\ i - 1 \in Nat
  BY <1>2
<1>4. ASSUME NEW j \in 1 .. i - 1 PROVE j \in 1 .. n /\ j < i /\ o[j] \in B
  <2>1. j \in 1 .. n /\ j < i
    BY <1>2, <1>3
  <2>2. o[j] \in rows \ {f} /\ ~Before(sort, f, o[j])
    BY <1>2, <1>3, <2>1
  <2> QED BY <2>1, <2>2 DEF Tied
<1>5. ASSUME NEW g \in B PROVE \E j \in 1 .. i - 1 : o[j] = g
  <2>1. PICK j \in 1 .. n : o[j] = g
    BY <1>2
  <2>2. g \in Shelf /\ f \in Shelf /\ Before(sort, g, f) /\ ~Before(sort, f, g)
    BY <1>1, OneIsBefore
  <2>3. j # i
    BY <2>1, <2>2
  <2>4. ~(i < j)
    BY <1>2, <1>3, <2>1, <2>2
  <2>5. j \in 1 .. i - 1
    BY <1>2, <1>3, <2>3, <2>4
  <2> QED BY <2>1, <2>5
<1> HIDE DEF B
<1>6. q \in [1 .. i - 1 -> B] /\ \A j \in 1 .. i - 1 : q[j] = o[j]
  BY <1>4
<1> HIDE DEF q
<1>7. q \in Bijection(1 .. i - 1, B)
  <2>1. \A j, k \in 1 .. i - 1 : q[j] = q[k] => j = k
    BY <1>2, <1>4, <1>6
  <2>2. \A g \in B : \E j \in 1 .. i - 1 : q[j] = g
    BY <1>5, <1>6
  <2> QED BY <1>6, <2>1, <2>2, Fun_IsBij
<1>8. Cardinality(B) = i - 1
  BY <1>3, <1>7, FS_CountingElements DEF ExistsBijection
<1> QED BY <1>3, <1>8 DEF B

\* Of a walk beside which nothing was written: the total is that of the list,
\* and a finding that ties with no other was shown once when the pages that
\* were read reach its place, and never before.
Alone(filter, sort, f) == \A g \in Listed(filter) \ {f} : ~Tied(sort, f, g)
Place(filter, sort, f) == 1 + Cardinality({g \in Listed(filter) : Before(sort, g, f)})
WalkCounts ==
    walk # NoWalk /\ walk.written = {} =>
      /\ walk.stage # "count" => walk.total = Cardinality(Listed(walk.filter))
      /\ walk.stage = "done" => walk.page > LastPage(walk.total)
      /\ \A f \in Listed(walk.filter) : Alone(walk.filter, walk.sort, f) =>
           walk.shown[f] = IF Place(walk.filter, walk.sort, f) <= (walk.page - 1) * PageSize THEN 1 ELSE 0
CorrelationsPair == \A k \in DOMAIN paired : paired[k] # {} => Cardinality(paired[k]) >= 2
ScreensInv == ScreensTypeOK /\ CorrelationsPair /\ OwnSourceShown /\ WalkCounts

LEMMA ListedArePresent == \A filter : Listed(filter) \subseteq Present /\ Present \subseteq Shelf
BY DEF Listed, Present

LEMMA ShelfFinite ==
    /\ IsFiniteSet(Shelf)
    /\ \A S \in SUBSET Shelf : IsFiniteSet(S) /\ Cardinality(S) \in Nat
<1>1. IsFiniteSet(Shelf)
  BY ScreenBounds
<1>2. ASSUME NEW S \in SUBSET Shelf PROVE IsFiniteSet(S) /\ Cardinality(S) \in Nat
  <2>1. IsFiniteSet(S)
    BY <1>1, FS_Subset
  <2> QED BY <2>1, FS_CardinalityType
<1> QED BY <1>1, <1>2

LEMMA WalkForm ==
    ASSUME ScreensTypeOK, walk # NoWalk
    PROVE  /\ walk \in Walks
           /\ walk = [stage |-> walk.stage, filter |-> walk.filter, sort |-> walk.sort, page |-> walk.page,
                      total |-> walk.total, shown |-> walk.shown, written |-> walk.written]
           /\ walk.stage \in {"count", "read", "done"} /\ walk.filter \in Filters /\ walk.sort \in Sorts
           /\ walk.page \in Nat \ {0} /\ walk.total \in Nat /\ walk.shown \in [Shelf -> Nat]
           /\ walk.written \subseteq Shelf
<1>1. walk \in Walks
  BY DEF ScreensTypeOK
<1> QED BY <1>1 DEF Walks

LEMMA NoWalkForm == NoWalk.stage = "none" /\ NoWalk \notin Walks
<1>1. NoWalk.stage = "none"
  BY DEF NoWalk
<1>2. \A w \in Walks : w.stage # "none"
  BY DEF Walks
<1> QED BY <1>1, <1>2

LEMMA ScreensStart == ScreensInit => ScreensInv
<1> SUFFICES ASSUME ScreensInit PROVE ScreensInv
  OBVIOUS
<1>1. Present = {}
  BY DEF Present, ScreensInit
<1>2. ScreensTypeOK
  <2>1. state \in [Shelf -> ScreenStatuses \cup {"absent"}] /\ \A f \in Shelf : state[f] = "absent"
    BY DEF ScreensInit
  <2>2. seen \in [Shelf -> 0 .. writes] /\ writes \in 0 .. MaxWrites
    BY ScreenBounds DEF ScreensInit
  <2>3. paired \in [{KeyOfFinding(f) : f \in Shelf} -> SUBSET ScreenSources]
    BY DEF ScreensInit
  <2> QED BY <1>1, <2>1, <2>2, <2>3 DEF ScreensTypeOK, ScreensInit
<1>3. CorrelationsPair /\ OwnSourceShown /\ WalkCounts
  BY DEF ScreensInit, CorrelationsPair, OwnSourceShown, WalkCounts
<1> QED BY <1>2, <1>3 DEF ScreensInv

\* Lists and orders depend on the rows and the correlations alone.
LEMMA SameLists ==
    ASSUME UNCHANGED <<state, seen, paired>>
    PROVE  /\ \A filter : Listed(filter)' = Listed(filter)
           /\ \A sort, f, g : Before(sort, f, g)' = Before(sort, f, g)
           /\ \A filter, sort, f : Alone(filter, sort, f)' = Alone(filter, sort, f)
           /\ \A filter, sort, f : Place(filter, sort, f)' = Place(filter, sort, f)
<1>1. \A filter : Listed(filter)' = Listed(filter)
  BY DEF Listed, OfSource, InCorrelation, Present
<1>2. \A sort, f, g : Before(sort, f, g)' = Before(sort, f, g)
  BY DEF Before
<1>3. \A sort, f, g : Tied(sort, f, g)' = Tied(sort, f, g)
  BY <1>2 DEF Tied
<1>4. \A filter, sort, f : Alone(filter, sort, f)' = Alone(filter, sort, f)
  BY <1>1, <1>3 DEF Alone
<1>5. \A filter, sort, f : Place(filter, sort, f)' = Place(filter, sort, f)
  BY <1>1, <1>2 DEF Place
<1> QED BY <1>1, <1>2, <1>4, <1>5

\* Writing goes on a walk's list of what was written.
LEMMA WritesMarkWalk ==
    ASSUME ScreensInv, NEW S \in SUBSET Shelf, Writes(S)
    PROVE  /\ writes \in Nat /\ writes + 1 \in 0 .. MaxWrites /\ writes' = writes + 1
           /\ walk' \in Walks \cup {NoWalk} /\ (walk' = NoWalk <=> walk = NoWalk)
           /\ walk # NoWalk => /\ walk'.written = walk.written \cup S
                               /\ walk' = [walk EXCEPT !.written = walk.written \cup S]
<1>1. writes \in Nat /\ writes + 1 \in 0 .. MaxWrites /\ writes' = writes + 1
  BY ScreenBounds DEF Writes, ScreensInv, ScreensTypeOK
<1>2. CASE walk = NoWalk
  BY <1>1, <1>2 DEF Writes
<1>3. CASE walk # NoWalk
  <2>1. walk' = [walk EXCEPT !.written = walk.written \cup S]
    BY <1>3 DEF Writes
  <2>2. walk' \in Walks /\ walk'.written = walk.written \cup S
    BY <1>3, <2>1, WalkForm DEF Walks, ScreensInv
  <2> QED BY <1>1, <1>3, <2>1, <2>2, NoWalkForm
<1> QED BY <1>2, <1>3

LEMMA CorrelatedForm ==
    ASSUME NEW s, NEW p
    PROVE  /\ Correlated(s, p) \in [DOMAIN p -> SUBSET ScreenSources]
           /\ \A k \in DOMAIN p : Correlated(s, p)[k] # {} => Cardinality(Correlated(s, p)[k]) >= 2
           /\ \A f \in Shelf : s[f] \in Worked /\ KeyOfFinding(f) \in DOMAIN p
                /\ Correlated(s, p)[KeyOfFinding(f)] # {} =>
                     Catalog[f].source \in Correlated(s, p)[KeyOfFinding(f)]
<1> DEFINE sources(k) == {Catalog[f].source : f \in {g \in {h \in Shelf : s[h] \in Worked} : KeyOfFinding(g) = k}}
<1>1. Correlated(s, p) = [k \in DOMAIN p |-> IF Cardinality(sources(k)) >= 2 THEN sources(k) ELSE {}]
  BY DEF Correlated
<1>2. \A k : sources(k) \subseteq ScreenSources
  BY DEF ScreenSources
<1>3. \A f \in Shelf : s[f] \in Worked => Catalog[f].source \in sources(KeyOfFinding(f))
  OBVIOUS
<1> HIDE DEF sources
<1> QED BY <1>1, <1>2, <1>3

LEMMA SyncSeesKeeps ==
    ASSUME ScreensInv, NEW f \in Shelf, NEW ends \in BOOLEAN, SyncSees(f, ends) PROVE ScreensInv'
<1>0. ScreensTypeOK /\ CorrelationsPair /\ OwnSourceShown
  BY DEF ScreensInv
<1>1. /\ writes \in Nat /\ writes + 1 \in 0 .. MaxWrites /\ writes' = writes + 1
      /\ walk' \in Walks \cup {NoWalk} /\ (walk' = NoWalk <=> walk = NoWalk)
      /\ walk # NoWalk => walk'.written = walk.written \cup {f}
  BY WritesMarkWalk DEF SyncSees
<1>2. /\ state' \in [Shelf -> ScreenStatuses \cup {"absent"}]
      /\ \A g \in Shelf : state'[g] # "absent" <=> g = f \/ state[g] # "absent"
  <2>1. "OPEN" \in ScreenStatuses /\ "absent" \notin ScreenStatuses /\ "OPEN" # "absent"
    BY DEF ScreenStatuses, Worked
  <2> QED BY <1>0, <2>1 DEF SyncSees, ScreensTypeOK
<1>3. /\ seen' \in [Shelf -> 0 .. writes'] /\ seen'[f] = writes + 1
      /\ \A g \in Shelf \ {f} : seen'[g] = seen[g] /\ seen[g] \in 0 .. writes
  <2>1. seen' = [seen EXCEPT ![f] = writes + 1]
    BY DEF SyncSees
  <2>2. \A x \in 0 .. writes : x \in 0 .. writes + 1
    BY <1>1
  <2>3. writes + 1 \in 0 .. writes + 1
    BY <1>1
  <2> QED BY <1>0, <1>1, <2>1, <2>2, <2>3 DEF ScreensTypeOK
<1>4. Present' = Present \cup {f}
  <2>1. Present' = {g \in Shelf : seen'[g] > 0}
    BY DEF Present
  <2>2. \A g \in Shelf : seen'[g] > 0 <=> g = f \/ seen[g] > 0
    BY <1>1, <1>3
  <2> QED BY <2>1, <2>2 DEF Present
<1>5. \A g, h \in Present' : seen'[g] = seen'[h] => g = h
  <2>1. \A g \in Shelf \ {f} : seen'[g] # writes + 1
    BY <1>1, <1>3
  <2>2. \A g, h \in Present : seen[g] = seen[h] => g = h
    BY <1>0 DEF ScreensTypeOK
  <2>3. Present \subseteq Shelf
    BY DEF Present
  <2> QED BY <1>3, <1>4, <2>1, <2>2, <2>3
<1>6. Present' = {g \in Shelf : state'[g] # "absent"}
  <2>1. Present = {g \in Shelf : state[g] # "absent"}
    BY <1>0 DEF ScreensTypeOK
  <2> QED BY <1>2, <1>4, <2>1
<1>7. /\ paired' \in [{KeyOfFinding(g) : g \in Shelf} -> SUBSET ScreenSources]
      /\ counted' \subseteq Present'
      /\ CorrelationsPair' /\ OwnSourceShown'
  <2>0. DOMAIN paired = {KeyOfFinding(g) : g \in Shelf}
    BY <1>0 DEF ScreensTypeOK
  <2>1. CASE ends
    <3>1. paired' = Correlated(state', paired) /\ counted' = {g \in Shelf : state'[g] \in Worked}
      BY <2>1 DEF SyncSees
    <3>2. PICK s, p : s = state' /\ p = paired'
      OBVIOUS
    <3>3. p = Correlated(s, paired)
      BY <3>1, <3>2
    <3>4. /\ p \in [DOMAIN paired -> SUBSET ScreenSources] /\ DOMAIN p = DOMAIN paired
          /\ \A k \in DOMAIN paired : p[k] # {} => Cardinality(p[k]) >= 2
          /\ \A g \in Shelf : s[g] \in Worked /\ KeyOfFinding(g) \in DOMAIN paired /\ p[KeyOfFinding(g)] # {} =>
               Catalog[g].source \in p[KeyOfFinding(g)]
      BY <3>3, CorrelatedForm
    <3>5. CorrelationsPair'
      BY <3>2, <3>4 DEF CorrelationsPair
    <3>6. OwnSourceShown'
      <4>1. SUFFICES ASSUME NEW g \in counted' PROVE (Catalog[g].source \in Provenance(g))'
        BY DEF OwnSourceShown
      <4>2. g \in Shelf /\ s[g] \in Worked /\ KeyOfFinding(g) \in DOMAIN paired
        BY <2>0, <3>1, <3>2
      <4>3. p[KeyOfFinding(g)] # {} => Catalog[g].source \in p[KeyOfFinding(g)]
        BY <3>4, <4>2
      <4> QED BY <3>2, <4>3 DEF Provenance
    <3>7. counted' \subseteq Present'
      <4>1. "absent" \notin Worked
        BY DEF Worked
      <4> QED BY <1>6, <3>1, <4>1
    <3> QED BY <2>0, <3>2, <3>4, <3>5, <3>6, <3>7
  <2>2. CASE ~ends
    <3>1. paired' = paired /\ counted' = counted
      BY <2>2 DEF SyncSees
    <3>2. CorrelationsPair' /\ OwnSourceShown'
      BY <1>0, <3>1 DEF CorrelationsPair, OwnSourceShown, Provenance
    <3> QED BY <1>0, <1>4, <3>1, <3>2 DEF ScreensTypeOK
  <2> QED BY <2>1, <2>2
<1>8. ScreensTypeOK'
  BY <1>0, <1>1, <1>2, <1>3, <1>5, <1>6, <1>7 DEF ScreensTypeOK, SyncSees
<1>9. WalkCounts'
  BY <1>1 DEF WalkCounts
<1> QED BY <1>7, <1>8, <1>9 DEF ScreensInv

LEMMA SetsStateKeeps ==
    ASSUME ScreensInv, NEW selected, NEW s \in ScreenStatuses, SetsState(selected, s) PROVE ScreensInv'
<1>0. ScreensTypeOK /\ CorrelationsPair /\ OwnSourceShown
  BY DEF ScreensInv
<1>1. /\ selected \subseteq Present /\ selected \subseteq Shelf /\ selected # {} /\ Writes(selected)
      /\ UNCHANGED <<seen, paired, counted, hidden>>
  BY DEF SetsState, Present
<1>2. /\ writes \in Nat /\ writes + 1 \in 0 .. MaxWrites /\ writes' = writes + 1
      /\ walk' \in Walks \cup {NoWalk} /\ (walk' = NoWalk <=> walk = NoWalk)
      /\ walk # NoWalk => walk'.written = walk.written \cup selected
  BY <1>1, WritesMarkWalk
<1>3. /\ state' \in [Shelf -> ScreenStatuses \cup {"absent"}]
      /\ \A g \in Shelf : state'[g] # "absent" <=> state[g] # "absent"
  <2>1. "absent" \notin ScreenStatuses
    BY DEF ScreenStatuses, Worked
  <2>2. \A g \in selected : state[g] # "absent"
    BY <1>0, <1>1 DEF ScreensTypeOK
  <2>3. state' = [f \in Shelf |-> IF f \in selected THEN s ELSE state[f]]
    BY DEF SetsState
  <2> QED BY <1>0, <2>1, <2>2, <2>3 DEF ScreensTypeOK
<1>4. Present' = Present
  BY <1>1 DEF Present
<1>5. ScreensTypeOK'
  <2>1. Present' = {g \in Shelf : state'[g] # "absent"}
    BY <1>0, <1>3, <1>4 DEF ScreensTypeOK
  <2>2. seen' \in [Shelf -> 0 .. writes']
    <3>1. \A x \in 0 .. writes : x \in 0 .. writes + 1
      BY <1>2
    <3> QED BY <1>0, <1>1, <1>2, <3>1 DEF ScreensTypeOK
  <2> QED BY <1>0, <1>1, <1>2, <1>3, <1>4, <2>1, <2>2 DEF ScreensTypeOK
<1>6. CorrelationsPair' /\ OwnSourceShown'
  BY <1>0, <1>1 DEF CorrelationsPair, OwnSourceShown, Provenance
<1>7. WalkCounts'
  BY <1>1, <1>2 DEF WalkCounts
<1> QED BY <1>5, <1>6, <1>7 DEF ScreensInv

LEMMA IgnoresHostsKeeps ==
    ASSUME ScreensInv, NEW hosts, NEW ignored, IgnoresHosts(hosts, ignored) PROVE ScreensInv'
<1>0. ScreensTypeOK /\ CorrelationsPair /\ OwnSourceShown /\ WalkCounts
  BY DEF ScreensInv
<1>1. /\ Writes({}) /\ UNCHANGED <<state, seen, paired, counted>> /\ hosts \subseteq KnownHosts
      /\ hidden' = IF ignored THEN hidden \cup hosts ELSE hidden \ hosts
  BY DEF IgnoresHosts
<1>2. /\ writes \in Nat /\ writes + 1 \in 0 .. MaxWrites /\ writes' = writes + 1
      /\ walk' \in Walks \cup {NoWalk} /\ (walk' = NoWalk <=> walk = NoWalk)
      /\ walk # NoWalk => walk' = [walk EXCEPT !.written = walk.written \cup {}]
  BY <1>1, WritesMarkWalk
<1>3. KnownHosts \subseteq ScreenHosts
  BY DEF KnownHosts, ScreenHosts, Present
<1>4. ScreensTypeOK'
  <2>1. Present' = Present
    BY <1>1 DEF Present
  <2>2. seen' \in [Shelf -> 0 .. writes']
    <3>1. \A x \in 0 .. writes : x \in 0 .. writes + 1
      BY <1>2
    <3> QED BY <1>0, <1>1, <1>2, <3>1 DEF ScreensTypeOK
  <2>3. hidden' \subseteq ScreenHosts
    BY <1>0, <1>1, <1>3 DEF ScreensTypeOK
  <2> QED BY <1>0, <1>1, <1>2, <2>1, <2>2, <2>3 DEF ScreensTypeOK
<1>5. CorrelationsPair' /\ OwnSourceShown'
  BY <1>0, <1>1 DEF CorrelationsPair, OwnSourceShown, Provenance
<1>6. walk' = walk
  BY <1>0, <1>2, WalkForm
<1>7. WalkCounts'
  BY <1>0, <1>1, <1>6, SameLists DEF WalkCounts
<1> QED BY <1>4, <1>5, <1>7 DEF ScreensInv

LEMMA OpensListKeeps ==
    ASSUME ScreensInv, NEW filter \in Filters, NEW sort \in Sorts, OpensList(filter, sort) PROVE ScreensInv'
<1>0. ScreensTypeOK /\ CorrelationsPair /\ OwnSourceShown
  BY DEF ScreensInv
<1>1. UNCHANGED <<state, seen, paired, counted, hidden, writes>>
  BY DEF OpensList
<1>2. /\ walk' \in Walks
      /\ walk'.stage = "count" /\ walk'.page = 1 /\ walk'.filter = filter /\ walk'.sort = sort
      /\ \A f \in Shelf : walk'.shown[f] = 0
  BY DEF OpensList, Walks
<1>3. ScreensTypeOK'
  <2>1. Present' = Present
    BY <1>1 DEF Present
  <2> QED BY <1>0, <1>1, <1>2, <2>1 DEF ScreensTypeOK
<1>4. CorrelationsPair' /\ OwnSourceShown'
  BY <1>0, <1>1 DEF CorrelationsPair, OwnSourceShown, Provenance
<1>5. WalkCounts'
  <2>1. ASSUME NEW f \in Listed(filter) PROVE ~(Place(filter, sort, f) <= 0) /\ f \in Shelf
    <3>1. {g \in Listed(filter) : Before(sort, g, f)} \in SUBSET Shelf
      BY ListedArePresent
    <3>2. Cardinality({g \in Listed(filter) : Before(sort, g, f)}) \in Nat
      BY <3>1, ShelfFinite
    <3>3. f \in Shelf
      BY ListedArePresent
    <3> QED BY <3>2, <3>3 DEF Place
  <2>2. (walk'.page - 1) * PageSize = 0
    BY <1>2, ScreenBounds
  <2> QED BY <1>1, <1>2, <2>1, <2>2, SameLists DEF WalkCounts
<1> QED BY <1>3, <1>4, <1>5 DEF ScreensInv

LEMMA CountsListKeeps == ASSUME ScreensInv, CountsList PROVE ScreensInv'
<1>0. ScreensTypeOK /\ CorrelationsPair /\ OwnSourceShown /\ WalkCounts
  BY DEF ScreensInv
<1>1. UNCHANGED <<state, seen, paired, counted, hidden, writes>> /\ walk # NoWalk
  BY NoWalkForm DEF CountsList
<1>2. PICK total : total = Cardinality(Listed(walk.filter))
  OBVIOUS
<1>3. total \in Nat
  BY <1>2, ListedArePresent, ShelfFinite
<1>4. /\ walk' \in Walks /\ walk'.stage = "read" /\ walk'.total = total /\ walk'.filter = walk.filter
      /\ walk'.sort = walk.sort /\ walk'.page = walk.page /\ walk'.shown = walk.shown
      /\ walk'.written = walk.written
  <2>1. walk' = [walk EXCEPT !.stage = "read", !.total = total]
    BY <1>2 DEF CountsList
  <2> QED BY <1>0, <1>1, <1>3, <2>1, WalkForm DEF Walks
<1>5. ScreensTypeOK'
  <2>1. Present' = Present
    BY <1>1 DEF Present
  <2> QED BY <1>0, <1>1, <1>4, <2>1 DEF ScreensTypeOK
<1>6. CorrelationsPair' /\ OwnSourceShown'
  BY <1>0, <1>1 DEF CorrelationsPair, OwnSourceShown, Provenance
<1>7. WalkCounts'
  BY <1>0, <1>1, <1>2, <1>4, SameLists DEF WalkCounts
<1> QED BY <1>5, <1>6, <1>7 DEF ScreensInv

\* A page has a finding that ties with no other when its place is between the
\* page before and the next.
LEMMA PageHasPlace ==
    ASSUME ScreensTypeOK, NEW filter, NEW sort, NEW o \in Orders(sort, Listed(filter)), NEW at \in Nat \ {0},
           NEW f \in Listed(filter), Alone(filter, sort, f), NEW i, i = Place(filter, sort, f)
    PROVE  i \in Nat /\ (f \in Page(o, at) <=> (at - 1) * PageSize < i /\ i <= at * PageSize)
<1>1. Listed(filter) \in SUBSET Present /\ IsFiniteSet(Listed(filter))
  BY ListedArePresent, ShelfFinite
<1>2. PICK rows : rows = Listed(filter)
  OBVIOUS
<1>3. PICK n : n = Cardinality(rows)
  OBVIOUS
<1>4. /\ n \in Nat /\ DOMAIN o = 1 .. n
      /\ \A j, k \in 1 .. n : o[j] = o[k] => j = k
      /\ \A g \in rows : \E j \in 1 .. n : o[j] = g
  BY <1>1, <1>2, <1>3, OrderHasAll
<1>5. PICK j \in 1 .. n : o[j] = f
  BY <1>2, <1>4
<1>6. j = i
  <2>1. \A g \in rows \ {f} : ~Tied(sort, f, g)
    BY <1>2 DEF Alone
  <2>2. j = 1 + Cardinality({g \in rows : Before(sort, g, f)})
    BY <1>1, <1>2, <1>4, <1>5, <2>1, PlaceInOrder
  <2> QED BY <1>2, <2>2 DEF Place
<1>7. PICK a \in Nat, b \in Nat : a = (at - 1) * PageSize /\ b = at * PageSize
  <2>1. at - 1 \in Nat /\ PageSize \in Nat
    BY ScreenBounds
  <2> QED BY <2>1
<1>8. Page(o, at) = {o[k] : k \in (1 .. n) \cap (a + 1 .. b)}
  BY <1>4, <1>7 DEF Page, Rows
<1>9. f \in Page(o, at) <=> j \in a + 1 .. b
  BY <1>4, <1>5, <1>8
<1> QED BY <1>4, <1>5, <1>6, <1>7, <1>9

LEMMA ReadsPageKeeps == ASSUME ScreensInv, ReadsPage PROVE ScreensInv'
<1>0. ScreensTypeOK /\ CorrelationsPair /\ OwnSourceShown /\ WalkCounts
  BY DEF ScreensInv
<1>1. UNCHANGED <<state, seen, paired, counted, hidden, writes>> /\ walk # NoWalk /\ walk.stage = "read"
  BY NoWalkForm DEF ReadsPage
<1>2. PICK o \in Orders(walk.sort, Listed(walk.filter)) :
        walk' = [walk EXCEPT
                    !.stage = IF walk.page >= LastPage(walk.total) THEN "done" ELSE "count",
                    !.page = @ + 1,
                    !.shown = [f \in Shelf |-> @[f] + (IF f \in Page(o, walk.page) THEN 1 ELSE 0)]]
  BY DEF ReadsPage
<1>3. /\ walk.filter \in Filters /\ walk.sort \in Sorts /\ walk.page \in Nat \ {0} /\ walk.total \in Nat
      /\ walk.shown \in [Shelf -> Nat] /\ walk.written \subseteq Shelf
  BY <1>0, <1>1, WalkForm
<1>4. PICK to : to = [f \in Shelf |-> walk.shown[f] + (IF f \in Page(o, walk.page) THEN 1 ELSE 0)]
  OBVIOUS
<1>5. PICK stage : stage = IF walk.page >= LastPage(walk.total) THEN "done" ELSE "count"
  OBVIOUS
<1>6. walk' = [walk EXCEPT !.stage = stage, !.page = walk.page + 1, !.shown = to]
  BY <1>2, <1>4, <1>5
<1>7. to \in [Shelf -> Nat] /\ stage \in {"count", "done"} /\ walk.page + 1 \in Nat \ {0}
  BY <1>3, <1>4, <1>5
<1>8. /\ walk' \in Walks /\ walk'.stage = stage /\ walk'.total = walk.total /\ walk'.filter = walk.filter
      /\ walk'.sort = walk.sort /\ walk'.page = walk.page + 1 /\ walk'.shown = to
      /\ walk'.written = walk.written
  <2> QED BY <1>0, <1>1, <1>6, <1>7, WalkForm DEF Walks
<1>9. ScreensTypeOK'
  <2>1. Present' = Present
    BY <1>1 DEF Present
  <2> QED BY <1>0, <1>1, <1>8, <2>1 DEF ScreensTypeOK
<1>10. CorrelationsPair' /\ OwnSourceShown'
  BY <1>0, <1>1 DEF CorrelationsPair, OwnSourceShown, Provenance
<1>11. WalkCounts'
  <2>0. PICK next, filter, sort : next = walk.page + 1 /\ filter = walk.filter /\ sort = walk.sort
    OBVIOUS
  <2>1. SUFFICES ASSUME walk.written = {}
                 PROVE  /\ walk.total = Cardinality(Listed(filter))
                        /\ stage = "done" => next > LastPage(walk.total)
                        /\ \A f \in Listed(filter) : Alone(filter, sort, f) =>
                             to[f] = IF Place(filter, sort, f) <= (next - 1) * PageSize THEN 1 ELSE 0
    <3>1. /\ walk'.page = next /\ walk'.filter = filter /\ walk'.sort = sort /\ walk'.shown = to
          /\ walk'.stage = stage /\ walk'.total = walk.total /\ walk'.written = walk.written
      BY <1>8, <2>0
    <3>2. /\ Listed(filter)' = Listed(filter)
          /\ \A f : Alone(filter, sort, f)' = Alone(filter, sort, f)
          /\ \A f : Place(filter, sort, f)' = Place(filter, sort, f)
      BY <1>1, SameLists
    <3>3. LastPage(walk.total)' = LastPage(walk.total)
      BY <3>1 DEF LastPage
    <3> QED BY <3>1, <3>2, <3>3 DEF WalkCounts
  <2>2. walk.total = Cardinality(Listed(filter))
    BY <1>0, <1>1, <2>0, <2>1 DEF WalkCounts
  <2>3. ASSUME stage = "done" PROVE next > LastPage(walk.total)
    <3>1. PICK last \in Nat : last = LastPage(walk.total)
      BY <1>3, ScreenBounds DEF LastPage
    <3> QED BY <1>3, <1>5, <2>0, <2>3, <3>1
  <2>4. ASSUME NEW f \in Listed(filter), Alone(filter, sort, f)
        PROVE  to[f] = IF Place(filter, sort, f) <= (next - 1) * PageSize THEN 1 ELSE 0
    <3>0. f \in Listed(walk.filter) /\ Alone(walk.filter, walk.sort, f)
      BY <2>0, <2>4
    <3>1. PICK i : i = Place(walk.filter, walk.sort, f) /\ i = Place(filter, sort, f)
      BY <2>0
    <3>2. i \in Nat /\ (f \in Page(o, walk.page) <=> (walk.page - 1) * PageSize < i /\ i <= walk.page * PageSize)
      BY <1>0, <1>3, <3>0, <3>1, PageHasPlace
    <3>3. PICK a \in Nat, b \in Nat : /\ a = (walk.page - 1) * PageSize /\ b = walk.page * PageSize
                                      /\ b = (next - 1) * PageSize /\ a <= b
      <4>0. walk.page - 1 \in Nat /\ (walk.page - 1) + 1 = walk.page /\ PageSize \in Nat
        BY <1>3, ScreenBounds
      <4>1. PICK p \in Nat, s \in Nat : p + 1 = walk.page /\ s = PageSize
        BY <4>0
      <4>2. (p + 1) * s = p * s + s /\ p * s \in Nat /\ (p + 1) * s \in Nat
        BY <4>1
      <4>3. walk.page - 1 = p /\ next - 1 = p + 1
        BY <2>0, <4>1
      <4> QED BY <4>1, <4>2, <4>3
    <3>4. walk.shown[f] = IF i <= a THEN 1 ELSE 0
      BY <1>0, <1>1, <2>1, <3>0, <3>1, <3>3 DEF WalkCounts
    <3>5. to[f] = walk.shown[f] + (IF a < i /\ i <= b THEN 1 ELSE 0)
      <4>1. f \in Shelf
        BY ListedArePresent
      <4> QED BY <1>4, <2>4, <3>2, <3>3, <4>1
    <3>6. to[f] = IF i <= b THEN 1 ELSE 0
      BY <3>2, <3>3, <3>4, <3>5
    <3> QED BY <3>1, <3>3, <3>6
  <2> QED BY <2>2, <2>3, <2>4
<1> QED BY <1>9, <1>10, <1>11 DEF ScreensInv

LEMMA ScreensStep == ScreensInv /\ [ScreensNext]_screenVars => ScreensInv'
<1> SUFFICES ASSUME ScreensInv, [ScreensNext]_screenVars PROVE ScreensInv'
  OBVIOUS
<1>1. CASE UNCHANGED screenVars
  <2>1. UNCHANGED <<state, seen, paired>> /\ Present' = Present
    BY <1>1 DEF screenVars, Present
  <2>2. ScreensTypeOK' /\ CorrelationsPair' /\ OwnSourceShown'
    BY <1>1, <2>1 DEF screenVars, ScreensInv, ScreensTypeOK, CorrelationsPair, OwnSourceShown, Provenance
  <2>3. WalkCounts'
    BY <1>1, <2>1, SameLists DEF screenVars, ScreensInv, WalkCounts
  <2> QED BY <2>2, <2>3 DEF ScreensInv
<1>2. ASSUME NEW f \in Shelf, NEW ends \in BOOLEAN, SyncSees(f, ends) PROVE ScreensInv'
  BY <1>2, SyncSeesKeeps
<1>3. ASSUME NEW selected, NEW s \in ScreenStatuses, SetsState(selected, s) PROVE ScreensInv'
  BY <1>3, SetsStateKeeps
<1>4. ASSUME NEW hosts, NEW ignored, IgnoresHosts(hosts, ignored) PROVE ScreensInv'
  BY <1>4, IgnoresHostsKeeps
<1>5. ASSUME NEW host, IgnoresHost(host) \/ UnignoresHost(host) PROVE ScreensInv'
  BY <1>4, <1>5 DEF IgnoresHost, UnignoresHost
<1>6. ASSUME NEW filter \in Filters, NEW sort \in Sorts, OpensList(filter, sort) PROVE ScreensInv'
  BY <1>6, OpensListKeeps
<1>7. CASE CountsList
  BY <1>7, CountsListKeeps
<1>8. CASE ReadsPage
  BY <1>8, ReadsPageKeeps
<1> QED BY <1>1, <1>2, <1>3, <1>4, <1>5, <1>6, <1>7, <1>8 DEF ScreensNext

\* The last page is far enough.
LEMMA LastPageCovers ==
    ASSUME NEW total \in Nat, NEW p \in Nat, p >= LastPage(total)
    PROVE  total <= p * PageSize
<1>1. CASE total = 0
  <2>1. p * PageSize \in Nat
    BY ScreenBounds
  <2> QED BY <1>1, <2>1
<1>2. CASE total # 0
  <2>1. PICK s \in Nat : s = PageSize /\ s > 0
    BY ScreenBounds
  <2>2. PICK l \in Nat : l = (total + s - 1) \div s
    BY <2>1
  <2>3. total + s - 1 < l * s + s
    BY <2>1, <2>2
  <2>4. l <= p
    BY <1>2, <2>1, <2>2 DEF LastPage
  <2>5. PICK d \in Nat : p = l + d
    <3>1. p - l \in Nat /\ p = l + (p - l)
      BY <2>4
    <3> QED BY <3>1
  <2>6. p * s = l * s + d * s /\ d * s \in Nat /\ l * s \in Nat
    BY <2>5
  <2>7. total <= l * s
    BY <2>1, <2>3, <2>6
  <2>8. total <= p * s
    BY <2>6, <2>7
  <2> QED BY <2>1, <2>8
<1> QED BY <1>1, <1>2

LEMMA WalksSeeAll == ASSUME ScreensInv PROVE WalkSeesAll
<1>0. ScreensTypeOK /\ WalkCounts
  BY DEF ScreensInv
<1> SUFFICES ASSUME walk.stage = "done", NEW f \in Listed(walk.filter) \ walk.written,
                    walk.written = {}, Alone(walk.filter, walk.sort, f)
             PROVE  walk.shown[f] = 1
  BY DEF WalkSeesAll, Alone
<1>1. walk # NoWalk
  BY NoWalkForm
<1>2. walk.page \in Nat \ {0} /\ walk.total \in Nat
  BY <1>0, <1>1, WalkForm
<1>3. /\ walk.total = Cardinality(Listed(walk.filter)) /\ walk.page > LastPage(walk.total)
      /\ walk.shown[f] = IF Place(walk.filter, walk.sort, f) <= (walk.page - 1) * PageSize THEN 1 ELSE 0
  BY <1>0, <1>1 DEF WalkCounts
<1>4. Place(walk.filter, walk.sort, f) <= walk.total /\ Place(walk.filter, walk.sort, f) \in Nat
  <2> DEFINE L == Listed(walk.filter)
             B == {g \in L : Before(walk.sort, g, f)}
  <2>1. L \in SUBSET Shelf /\ f \in L /\ f \in Shelf
    BY ListedArePresent
  <2>2. B \subseteq L \ {f}
    BY <1>0, <2>1, OneIsBefore
  <2>3. IsFiniteSet(L) /\ IsFiniteSet(L \ {f}) /\ Cardinality(L) \in Nat
    BY <2>1, ShelfFinite
  <2>4. Place(walk.filter, walk.sort, f) = 1 + Cardinality(B)
    BY DEF Place
  <2> HIDE DEF B, L
  <2>5. Cardinality(L \ {f}) = Cardinality(L) - 1
    BY <2>1, <2>3, FS_RemoveElement
  <2>6. Cardinality(B) <= Cardinality(L \ {f}) /\ Cardinality(B) \in Nat
    BY <2>2, <2>3, FS_Subset, FS_CardinalityType
  <2> QED BY <1>3, <2>3, <2>4, <2>5, <2>6 DEF L
<1>5. PICK p \in Nat : p = walk.page - 1 /\ p >= LastPage(walk.total)
  <2>1. LastPage(walk.total) \in Int
    BY <1>2, ScreenBounds DEF LastPage
  <2> QED BY <1>2, <1>3, <2>1
<1>6. walk.total <= p * PageSize /\ p * PageSize \in Nat
  BY <1>2, <1>5, LastPageCovers, ScreenBounds
<1> QED BY <1>2, <1>3, <1>4, <1>5, <1>6

LEMMA FilterForm ==
    ASSUME NEW filter \in Filters, NEW S
    PROVE  /\ filter.kev \in BOOLEAN /\ filter.and \in BOOLEAN
           /\ LET g == [filter EXCEPT !.severity = S] IN
                /\ g.severity = S /\ g.source = filter.source /\ g.and = filter.and
                /\ g.status = filter.status /\ g.kev = filter.kev
           /\ LET g == [filter EXCEPT !.source = S] IN
                /\ g.severity = filter.severity /\ g.source = S /\ g.and = filter.and
                /\ g.status = filter.status /\ g.kev = filter.kev
           /\ LET g == [filter EXCEPT !.status = S] IN
                /\ g.severity = filter.severity /\ g.source = filter.source /\ g.and = filter.and
                /\ g.status = S /\ g.kev = filter.kev
<1>1. filter \in [severity : SUBSET Severities, source : SUBSET STRING, and : BOOLEAN,
                  status : SUBSET ScreenStatuses, kev : BOOLEAN]
  BY ScreenBounds
<1> QED BY <1>1

LEMMA FacetsAreListed == FacetsLeadToLists
<1> SUFFICES ASSUME NEW filter \in Filters
             PROVE  /\ \A s \in Severities :
                         Facet("severity", s, filter) = Cardinality(Listed([filter EXCEPT !.severity = {s}]))
                    /\ \A s \in ScreenStatuses :
                         Facet("status", s, filter) = Cardinality(Listed([filter EXCEPT !.status = {s}]))
                    /\ \A s \in ScreenSources :
                         Facet("source", s, filter) <= Cardinality(Listed([filter EXCEPT !.source = {s}]))
  BY DEF FacetsLeadToLists
<1>1. ASSUME NEW s PROVE Facet("severity", s, filter) = Cardinality(Listed([filter EXCEPT !.severity = {s}]))
  <2>1. PICK any, one : any = [filter EXCEPT !.severity = {}] /\ one = [filter EXCEPT !.severity = {s}]
    OBVIOUS
  <2>2. /\ any.severity = {} /\ any.source = one.source /\ any.and = one.and
        /\ any.status = one.status /\ any.kev = one.kev /\ one.severity = {s}
    BY <2>1, FilterForm
  <2>3. \A f : OfSource(f, any) <=> OfSource(f, one)
    BY <2>2 DEF OfSource, InCorrelation
  <2>4. {f \in Listed(any) : Catalog[f].severity = s} = Listed(one)
    BY <2>2, <2>3 DEF Listed
  <2>5. Facet("severity", s, filter) = Cardinality({f \in Listed(any) : Catalog[f].severity = s})
    BY <2>1 DEF Facet
  <2> QED BY <2>1, <2>4, <2>5
<1>2. ASSUME NEW s PROVE Facet("status", s, filter) = Cardinality(Listed([filter EXCEPT !.status = {s}]))
  <2>1. PICK any, one : any = [filter EXCEPT !.status = {}] /\ one = [filter EXCEPT !.status = {s}]
    OBVIOUS
  <2>2. /\ any.status = {} /\ any.source = one.source /\ any.and = one.and
        /\ any.severity = one.severity /\ any.kev = one.kev /\ one.status = {s}
    BY <2>1, FilterForm
  <2>3. \A f : OfSource(f, any) <=> OfSource(f, one)
    BY <2>2 DEF OfSource, InCorrelation
  <2>4. {f \in Listed(any) : state[f] = s} = Listed(one)
    BY <2>2, <2>3 DEF Listed
  <2>5. Facet("status", s, filter) = Cardinality({f \in Listed(any) : state[f] = s})
    BY <2>1 DEF Facet
  <2> QED BY <2>1, <2>4, <2>5
<1>3. ASSUME NEW s PROVE Facet("source", s, filter) <= Cardinality(Listed([filter EXCEPT !.source = {s}]))
  <2>1. PICK any, one : any = [filter EXCEPT !.source = {}] /\ one = [filter EXCEPT !.source = {s}]
    OBVIOUS
  <2>2. /\ any.source = {} /\ any.status = one.status /\ any.and = one.and
        /\ any.severity = one.severity /\ any.kev = one.kev /\ one.source = {s}
    BY <2>1, FilterForm
  <2>3. ~(Cardinality(one.source) >= 2)
    <3>1. Cardinality({s}) = 1
      BY FS_Singleton
    <3> QED BY <2>2, <3>1
  <2>4. \A f : Catalog[f].source = s => OfSource(f, one)
    BY <2>2, <2>3 DEF OfSource
  <2>5. {f \in Listed(any) : Catalog[f].source = s} \subseteq Listed(one)
    BY <2>2, <2>4 DEF Listed
  <2>6. Facet("source", s, filter) = Cardinality({f \in Listed(any) : Catalog[f].source = s})
    BY <2>1 DEF Facet
  <2>7. IsFiniteSet(Listed(one))
    BY ListedArePresent, ShelfFinite
  <2> QED BY <2>1, <2>5, <2>6, <2>7, FS_Subset
<1> QED BY <1>1, <1>2, <1>3

\* Hosts, severities and statuses split a list.
LEMMA HostsAddUp ==
    ASSUME NEW filter
    PROVE  /\ SumOver([h \in HostRows(filter) |-> HostRow(h, filter).count]) = Cardinality(Listed(filter))
           /\ \A h \in HostRows(filter) : HostRow(h, filter).count = SumOver(HostRow(h, filter).of)
<1> DEFINE L == Listed(filter)
           Of(h) == {f \in L : Catalog[f].host = h}
           K == HostRows(filter)
           parts == [h \in K |-> Of(h)]
<1>1. L \in SUBSET Shelf /\ IsFiniteSet(L)
  BY ListedArePresent, ShelfFinite
<1>2. \A h : /\ HostRow(h, filter).count = Cardinality(Of(h))
             /\ HostRow(h, filter).of = [s \in Severities |-> Cardinality({f \in Of(h) : Catalog[f].severity = s})]
  BY DEF HostRow
<1>3. \A h : Of(h) \subseteq L /\ Of(h) \in SUBSET Shelf /\ IsFiniteSet(Of(h)) /\ Cardinality(Of(h)) \in Nat
  <2> SUFFICES ASSUME NEW h PROVE Of(h) \in SUBSET Shelf /\ Of(h) \subseteq L
    BY ShelfFinite
  <2> QED BY <1>1
<1>4. \A f \in L : f \in Of(Catalog[f].host) /\ Catalog[f].host \in K
  <2> SUFFICES ASSUME NEW f \in L PROVE f \in Of(Catalog[f].host) /\ Catalog[f].host \in K
    OBVIOUS
  <2>1. PICK h : h = Catalog[f].host
    OBVIOUS
  <2>2. f \in Of(h) /\ h \in ScreenHosts
    BY <1>1, <2>1 DEF ScreenHosts
  <2>3. Cardinality(Of(h)) > 0
    BY <1>3, <2>2, FS_EmptySet
  <2>4. h \in K
    BY <1>2, <2>2, <2>3 DEF HostRows
  <2> QED BY <2>1, <2>2, <2>4
<1>5. SumOver([h \in K |-> HostRow(h, filter).count]) = Cardinality(L)
  <2>1. \A h \in K : parts[h] = Of(h)
    OBVIOUS
  <2>2. [h \in K |-> HostRow(h, filter).count] = [h \in K |-> Cardinality(parts[h])]
    BY <1>2, <2>1
  <2>3. \A h \in K : parts[h] \subseteq L
    BY <1>3, <2>1
  <2>4. \A f \in L : \E h \in K : f \in parts[h]
    BY <1>4, <2>1
  <2>5. \A j, k \in K : \A f : f \in parts[j] /\ f \in parts[k] => j = k
    BY <2>1
  <2>6. PICK n : n = [h \in K |-> HostRow(h, filter).count]
    OBVIOUS
  <2> HIDE DEF parts, K, L
  <2>7. Splits(L, K, parts)
    BY <1>1, <2>3, <2>4, <2>5 DEF Splits
  <2>8. Numbers(n, K, parts)
    BY <2>2, <2>6 DEF Numbers
  <2> QED BY <2>6, <2>7, <2>8, SumOfParts
<1>6. ASSUME NEW h PROVE HostRow(h, filter).count = SumOver(HostRow(h, filter).of)
  <2> DEFINE A == Of(h)
             bits == [s \in Severities |-> {f \in A : Catalog[f].severity = s}]
  <2>1. \A s \in Severities : bits[s] = {f \in A : Catalog[f].severity = s}
    OBVIOUS
  <2>2. HostRow(h, filter).of = [s \in Severities |-> Cardinality(bits[s])]
    BY <1>2, <2>1
  <2>3. \A f \in A : Catalog[f].severity \in Severities
    BY <1>1, ScreenBounds
  <2>4. HostRow(h, filter).count = Cardinality(A) /\ IsFiniteSet(A)
    BY <1>2, <1>3
  <2>5. \A s \in Severities : bits[s] \subseteq A
    BY <2>1
  <2>6. \A f \in A : \E s \in Severities : f \in bits[s]
    BY <2>1, <2>3
  <2>7. \A j, k \in Severities : \A f : f \in bits[j] /\ f \in bits[k] => j = k
    BY <2>1
  <2> HIDE DEF A, bits
  <2>8. Splits(A, Severities, bits)
    BY <2>4, <2>5, <2>6, <2>7 DEF Splits
  <2>9. Numbers(HostRow(h, filter).of, Severities, bits)
    BY <2>2 DEF Numbers
  <2> QED BY <2>4, <2>8, <2>9, SumOfParts
<1> QED BY <1>5, <1>6

LEMMA TotalsAddUp ==
    ASSUME ScreensTypeOK
    PROVE  Totals.total = SumOver(StatusCounts) /\ Totals.total = SumOver(Totals.bySeverity)
<1>1. Present \in SUBSET Shelf /\ IsFiniteSet(Present)
  <2>1. Present \in SUBSET Shelf
    BY DEF Present
  <2> QED BY <2>1, ShelfFinite
<1>2. /\ Totals.total = Cardinality(Present)
      /\ Totals.bySeverity = [s \in Severities |-> Cardinality({f \in Present : Catalog[f].severity = s})]
  BY DEF Totals
<1>3. Cardinality(Present) = SumOver(StatusCounts)
  <2> DEFINE parts == [s \in ScreenStatuses |-> {f \in Present : state[f] = s}]
  <2>1. \A s \in ScreenStatuses : parts[s] = {f \in Present : state[f] = s}
    OBVIOUS
  <2>2. StatusCounts = [s \in ScreenStatuses |-> Cardinality(parts[s])]
    BY <2>1 DEF StatusCounts
  <2>3. \A f \in Present : state[f] \in ScreenStatuses
    BY <1>1 DEF ScreensTypeOK
  <2>4. \A s \in ScreenStatuses : parts[s] \subseteq Present
    BY <2>1
  <2>5. \A f \in Present : \E s \in ScreenStatuses : f \in parts[s]
    BY <2>1, <2>3
  <2>6. \A j, k \in ScreenStatuses : \A f : f \in parts[j] /\ f \in parts[k] => j = k
    BY <2>1
  <2> HIDE DEF parts
  <2>7. Splits(Present, ScreenStatuses, parts)
    BY <1>1, <2>4, <2>5, <2>6 DEF Splits
  <2>8. Numbers(StatusCounts, ScreenStatuses, parts)
    BY <2>2 DEF Numbers
  <2> QED BY <2>7, <2>8, SumOfParts
<1>4. Cardinality(Present) = SumOver(Totals.bySeverity)
  <2> DEFINE parts == [s \in Severities |-> {f \in Present : Catalog[f].severity = s}]
  <2>1. \A s \in Severities : parts[s] = {f \in Present : Catalog[f].severity = s}
    OBVIOUS
  <2>2. Totals.bySeverity = [s \in Severities |-> Cardinality(parts[s])]
    BY <1>2, <2>1
  <2>3. \A f \in Present : Catalog[f].severity \in Severities
    BY <1>1, ScreenBounds
  <2>4. \A s \in Severities : parts[s] \subseteq Present
    BY <2>1
  <2>5. \A f \in Present : \E s \in Severities : f \in parts[s]
    BY <2>1, <2>3
  <2>6. \A j, k \in Severities : \A f : f \in parts[j] /\ f \in parts[k] => j = k
    BY <2>1
  <2> HIDE DEF parts
  <2>7. Splits(Present, Severities, parts)
    BY <1>1, <2>4, <2>5, <2>6 DEF Splits
  <2>8. Numbers(Totals.bySeverity, Severities, parts)
    BY <2>2 DEF Numbers
  <2> QED BY <2>7, <2>8, SumOfParts
<1> QED BY <1>2, <1>3, <1>4

LEMMA CorrelationsCountOnce ==
    ASSUME CorrelationsPair
    PROVE  /\ Totals.corroborated = CorrelationStats
           /\ \A f \in Present : KeyOfFinding(f) \in DOMAIN paired =>
                SourcesOnPage(f) \in {0, Cardinality(Provenance(f))} \ {1}
<1>1. Cardinality({}) = 0
  BY FS_EmptySet
<1>2. {k \in DOMAIN paired : Cardinality(paired[k]) >= 2} = {k \in DOMAIN paired : paired[k] # {}}
  <2>1. \A k \in DOMAIN paired : Cardinality(paired[k]) >= 2 => paired[k] # {}
    BY <1>1
  <2> QED BY <2>1 DEF CorrelationsPair
<1>3. Totals.corroborated = CorrelationStats
  BY <1>2 DEF Totals, CorrelationStats
<1>4. ASSUME NEW f \in Present, KeyOfFinding(f) \in DOMAIN paired
      PROVE  SourcesOnPage(f) \in {0, Cardinality(Provenance(f))} \ {1}
  <2>1. CASE paired[KeyOfFinding(f)] = {}
    BY <1>1, <2>1 DEF SourcesOnPage
  <2>2. CASE paired[KeyOfFinding(f)] # {}
    <3>1. Cardinality(paired[KeyOfFinding(f)]) >= 2 /\ Provenance(f) = paired[KeyOfFinding(f)]
      BY <1>4, <2>2 DEF CorrelationsPair, Provenance
    <3>2. Cardinality(paired[KeyOfFinding(f)]) # 1
      BY <3>1
    <3> QED BY <3>1, <3>2 DEF SourcesOnPage
  <2> QED BY <2>1, <2>2
<1> QED BY <1>3, <1>4

\* What is worked on, counted by status, in a list, by asset and in the summary.
LEMMA OpenCountsAgree ==
    ASSUME ScreensTypeOK
    PROVE  /\ NavOpen = Totals.open + StatusCounts["IN_PROGRESS"]
           /\ NavOpen = Cardinality(Listed([Everything EXCEPT !.status = Worked]))
           /\ NavOpen = SumOver(TopHosts) /\ NavOpen = InSummary({}, FALSE)
           /\ Tiles = [critical |-> InSummary({"CRITICAL"}, FALSE), kev |-> InSummary({}, TRUE)]
           /\ TopFindings # {} => Tiles.critical > 0
<1> DEFINE A == {f \in Present : state[f] \in Worked}
<1>1. Present \in SUBSET Shelf /\ A \in SUBSET Shelf /\ IsFiniteSet(A)
  <2>1. Present \in SUBSET Shelf
    BY DEF Present
  <2> QED BY <2>1, ShelfFinite
<1>2. NavOpen = Cardinality(A)
  BY DEF NavOpen
<1>3. NavOpen = Totals.open + StatusCounts["IN_PROGRESS"]
  <2> DEFINE S == {f \in Present : state[f] = "OPEN"}
             T == {f \in Present : state[f] = "IN_PROGRESS"}
  <2>1. A = S \cup T /\ S \cap T = {}
    BY DEF Worked
  <2>2. Totals.open = Cardinality(S) /\ StatusCounts["IN_PROGRESS"] = Cardinality(T)
    BY DEF Totals, StatusCounts, ScreenStatuses, Worked
  <2>3. S \in SUBSET Shelf /\ T \in SUBSET Shelf
    BY <1>1
  <2> HIDE DEF S, T, A
  <2>4. IsFiniteSet(S) /\ IsFiniteSet(T) /\ Cardinality(S) \in Nat /\ Cardinality(T) \in Nat
    BY <2>3, ShelfFinite
  <2>5. Cardinality(S \cup T) = Cardinality(S) + Cardinality(T) - Cardinality(S \cap T)
    BY <2>4, FS_Union
  <2>6. Cardinality(S \cap T) = 0
    BY <2>1, FS_EmptySet
  <2> QED BY <1>2, <2>1, <2>2, <2>4, <2>5, <2>6
<1>4. NavOpen = Cardinality(Listed([Everything EXCEPT !.status = Worked]))
  <2>1. PICK filter : filter = [Everything EXCEPT !.status = Worked]
    OBVIOUS
  <2>2. filter.severity = {} /\ filter.source = {} /\ filter.status = Worked /\ filter.kev = FALSE
    BY <2>1 DEF Everything
  <2>3. Worked # {}
    BY DEF Worked
  <2>4. Listed(filter) = A
    BY <2>2, <2>3 DEF Listed, OfSource
  <2> QED BY <1>2, <2>1, <2>4
<1>5. NavOpen = SumOver(TopHosts)
  <2> DEFINE parts == [h \in KnownHosts |-> {f \in Present : Catalog[f].host = h /\ state[f] \in Worked}]
  <2>1. \A h \in KnownHosts : parts[h] = {f \in Present : Catalog[f].host = h /\ state[f] \in Worked}
    OBVIOUS
  <2>2. TopHosts = [h \in KnownHosts |-> Cardinality(parts[h])]
    BY <2>1 DEF TopHosts, AssetVulns
  <2>3. \A h \in KnownHosts : parts[h] \subseteq A
    BY <2>1
  <2>4. \A f \in A : \E h \in KnownHosts : f \in parts[h]
    BY <2>1 DEF KnownHosts
  <2>5. \A j, k \in KnownHosts : \A f : f \in parts[j] /\ f \in parts[k] => j = k
    BY <2>1
  <2> HIDE DEF parts, A
  <2>6. Splits(A, KnownHosts, parts)
    BY <1>1, <2>3, <2>4, <2>5 DEF Splits
  <2>7. Numbers(TopHosts, KnownHosts, parts)
    BY <2>2 DEF Numbers
  <2> QED BY <1>2, <2>6, <2>7, SumOfParts
<1>6. NavOpen = InSummary({}, FALSE)
  <2>1. {f \in Present : state[f] \in Worked /\ ({} = {} \/ Catalog[f].severity \in {}) /\ (FALSE => Catalog[f].kev)} = A
    OBVIOUS
  <2> QED BY <1>2, <2>1 DEF InSummary
<1>7. Tiles.critical = InSummary({"CRITICAL"}, FALSE) /\ Tiles.kev = InSummary({}, TRUE)
  <2>1. {f \in Present : /\ state[f] \in Worked
                         /\ {"CRITICAL"} = {} \/ Catalog[f].severity \in {"CRITICAL"}
                         /\ FALSE => Catalog[f].kev} =
        {f \in Present : state[f] \in Worked /\ Catalog[f].severity = "CRITICAL"}
    OBVIOUS
  <2>2. {f \in Present : /\ state[f] \in Worked
                         /\ {} = {} \/ Catalog[f].severity \in {}
                         /\ TRUE => Catalog[f].kev} =
        {f \in Present : state[f] \in Worked /\ Catalog[f].kev}
    <3>1. \A f \in Present : Catalog[f].kev \in BOOLEAN
      BY <1>1, ScreenBounds
    <3> QED BY <3>1
  <2>3. InSummary({"CRITICAL"}, FALSE) = Cardinality({f \in Present : state[f] \in Worked /\ Catalog[f].severity = "CRITICAL"})
    BY <2>1 DEF InSummary
  <2>4. InSummary({}, TRUE) = Cardinality({f \in Present : state[f] \in Worked /\ Catalog[f].kev})
    BY <2>2 DEF InSummary
  <2> QED BY <2>3, <2>4 DEF Tiles
<1>8. Tiles = [critical |-> Tiles.critical, kev |-> Tiles.kev]
  BY DEF Tiles
<1>9. ASSUME TopFindings # {} PROVE Tiles.critical > 0
  <2> DEFINE C == {f \in Present : state[f] \in Worked /\ Catalog[f].severity = "CRITICAL"}
  <2>1. TopFindings \subseteq C /\ C # {} /\ C \in SUBSET Shelf
    BY <1>1, <1>9 DEF TopFindings, Worked
  <2>2. Tiles.critical = Cardinality(C)
    BY DEF Tiles
  <2> HIDE DEF C
  <2>3. Cardinality(C) # 0 /\ Cardinality(C) \in Nat
    BY <2>1, ShelfFinite, FS_EmptySet
  <2> QED BY <2>2, <2>3
<1> QED BY <1>3, <1>4, <1>5, <1>6, <1>7, <1>8, <1>9

\* Groups of a remediation and a product, and the findings in each.
GroupOfRemedy(f) == <<Catalog[f].remedy, Catalog[f].product>>
RemedyRows(show, g) == {f \in Present : Fixable(f, show) /\ GroupOfRemedy(f) = g}

LEMMA GroupsForm ==
    ASSUME NEW show
    PROVE  /\ DOMAIN RemedyGroups(show) = {GroupOfRemedy(f) : f \in {g \in Present : Fixable(g, show)}}
           /\ \A g \in DOMAIN RemedyGroups(show) :
                /\ RemedyGroups(show)[g].vulns = Cardinality(RemedyRows(show, g))
                /\ RemedyGroups(show)[g].suppressed =
                     Cardinality({f \in RemedyRows(show, g) : state[f] = "SUPPRESSED"})
<1> DEFINE groups == {GroupOfRemedy(f) : f \in {g \in Present : Fixable(g, show)}}
<1>1. RemedyGroups(show) =
        [g \in groups |-> [vulns |-> Cardinality(RemedyRows(show, g)),
                           suppressed |-> Cardinality({f \in RemedyRows(show, g) : state[f] = "SUPPRESSED"})]]
  BY DEF RemedyGroups, RemedyRows, GroupOfRemedy
<1> HIDE DEF groups
<1> QED BY <1>1 DEF groups

LEMMA FixableForm ==
    \A f : LET ok == Catalog[f].remedy \notin {NoRemedy, ""} /\ Catalog[f].host \notin hidden IN
       /\ Fixable(f, "active") <=> ok /\ state[f] \in Worked
       /\ Fixable(f, "ignored") <=> ok /\ state[f] = "SUPPRESSED"
       /\ Fixable(f, "all") <=> ok /\ (state[f] \in Worked \/ state[f] = "SUPPRESSED")
BY DEF Fixable

LEMMA RemediesAddUp ==
    ASSUME NEW remedy, remedy \notin {NoRemedy, ""}
    PROVE  Cardinality(RowsOfRemedy(remedy)) =
             SumOver([g \in {h \in DOMAIN RemedyGroups("active") : h[1] = remedy} |-> RemedyGroups("active")[g].vulns])
<1> DEFINE A == RowsOfRemedy(remedy)
           groups == RemedyGroups("active")
           K == {h \in DOMAIN groups : h[1] = remedy}
           parts == [g \in K |-> RemedyRows("active", g)]
<1>1. A \in SUBSET Shelf /\ IsFiniteSet(A)
  <2>1. A \in SUBSET Shelf
    BY DEF RowsOfRemedy, Present
  <2> QED BY <2>1, ShelfFinite
<1>2. \A g \in K : parts[g] = RemedyRows("active", g) /\ g \in DOMAIN groups /\ g[1] = remedy
  OBVIOUS
<1>3. [g \in K |-> groups[g].vulns] = [g \in K |-> Cardinality(parts[g])]
  <2>1. \A g \in K : groups[g].vulns = Cardinality(parts[g])
    BY <1>2, GroupsForm
  <2> HIDE DEF K, parts, groups
  <2> QED BY <2>1
<1>4. ASSUME NEW g \in K PROVE parts[g] \subseteq A
  <2> SUFFICES ASSUME NEW f \in RemedyRows("active", g) PROVE f \in A
    BY <1>2
  <2>1. f \in Present /\ Fixable(f, "active") /\ GroupOfRemedy(f) = g
    BY DEF RemedyRows
  <2>2. Catalog[f].remedy = remedy
    BY <1>2, <2>1 DEF GroupOfRemedy
  <2> QED BY <2>1, <2>2, FixableForm DEF RowsOfRemedy
<1>5. ASSUME NEW f \in A PROVE \E g \in K : f \in parts[g]
  <2>1. f \in Present /\ Fixable(f, "active") /\ Catalog[f].remedy = remedy
    BY FixableForm DEF RowsOfRemedy
  <2>2. PICK g : g = GroupOfRemedy(f)
    OBVIOUS
  <2>3. g \in DOMAIN groups /\ g[1] = remedy
    BY <2>1, <2>2, GroupsForm DEF GroupOfRemedy
  <2>4. f \in RemedyRows("active", g)
    BY <2>1, <2>2 DEF RemedyRows
  <2> QED BY <1>2, <2>3, <2>4
<1>6. \A j, k \in K : \A f : f \in parts[j] /\ f \in parts[k] => j = k
  BY <1>2 DEF RemedyRows
<1>7. PICK n : n = [g \in K |-> groups[g].vulns]
  OBVIOUS
<1> HIDE DEF A, K, parts, groups
<1>8. n = [g \in K |-> Cardinality(parts[g])]
  BY <1>3, <1>7
<1>9. Splits(A, K, parts)
  BY <1>1, <1>4, <1>5, <1>6 DEF Splits
<1>10. Numbers(n, K, parts)
  BY <1>8 DEF Numbers
<1>11. SumOver(n) = Cardinality(A)
  BY <1>9, <1>10, SumOfParts
<1> QED BY <1>7, <1>11 DEF A, K, groups

LEMMA RemedyFileAgrees ==
    /\ RowsOfExport = {f \in UNION {RowsOfHost(h) : h \in KnownHosts} : Catalog[f].remedy # NoRemedy}
    /\ \A f \in RowsOfExport :
         f \notin RowsOfRemedy(Catalog[f].remedy) => Catalog[f].host \in AssetsShown("ignored")
<1>1. ASSUME NEW f PROVE f \in RowsOfExport <=>
        f \in UNION {RowsOfHost(h) : h \in KnownHosts} /\ Catalog[f].remedy # NoRemedy
  BY DEF RowsOfExport, RowsOfHost, KnownHosts
<1>2. ASSUME NEW f \in RowsOfExport, f \notin RowsOfRemedy(Catalog[f].remedy)
      PROVE  Catalog[f].host \in AssetsShown("ignored")
  <2>1. Catalog[f].host \in KnownHosts /\ Catalog[f].host \in hidden
    BY <1>2 DEF RowsOfExport, RowsOfRemedy, KnownHosts
  <2>2. AssetsShown("ignored") = KnownHosts \cap hidden
    BY DEF AssetsShown
  <2> QED BY <2>1, <2>2
<1> QED BY <1>1, <1>2

LEMMA GroupsSplit ==
    ASSUME NEW g \in DOMAIN RemedyGroups("all")
    PROVE  LET group == RemedyGroups("all")[g] IN
           /\ group.suppressed = (IF g \in DOMAIN RemedyGroups("ignored") THEN RemedyGroups("ignored")[g].vulns ELSE 0)
           /\ (group.suppressed < group.vulns) <=> (g \in DOMAIN RemedyGroups("active"))
<1> DEFINE R == RemedyRows("all", g)
           S == {f \in R : state[f] = "SUPPRESSED"}
<1>1. RemedyGroups("all")[g].vulns = Cardinality(R) /\ RemedyGroups("all")[g].suppressed = Cardinality(S)
  BY GroupsForm
<1>2. S = RemedyRows("ignored", g) /\ R = S \cup RemedyRows("active", g)
  BY FixableForm DEF RemedyRows
<1>3. \A f \in RemedyRows("active", g) : f \in R /\ f \notin S
  BY <1>2, FixableForm DEF RemedyRows, Worked
<1>4. R \in SUBSET Shelf /\ S \subseteq R /\ S \in SUBSET Shelf
  BY DEF RemedyRows, Present
<1>5. ASSUME NEW show PROVE g \in DOMAIN RemedyGroups(show) <=> RemedyRows(show, g) # {}
  <2>1. DOMAIN RemedyGroups(show) = {GroupOfRemedy(f) : f \in {h \in Present : Fixable(h, show)}}
    BY GroupsForm
  <2> QED BY <2>1 DEF RemedyRows
<1> HIDE DEF R, S
<1>6. IsFiniteSet(R) /\ IsFiniteSet(S) /\ Cardinality(R) \in Nat /\ Cardinality(S) \in Nat
  BY <1>4, ShelfFinite
<1>7. Cardinality(S) = (IF g \in DOMAIN RemedyGroups("ignored") THEN RemedyGroups("ignored")[g].vulns ELSE 0)
  <2>1. CASE g \in DOMAIN RemedyGroups("ignored")
    BY <1>2, <2>1, GroupsForm
  <2>2. CASE g \notin DOMAIN RemedyGroups("ignored")
    <3>1. S = {}
      BY <1>2, <1>5, <2>2
    <3> QED BY <2>2, <3>1, FS_EmptySet
  <2> QED BY <2>1, <2>2
<1>8. (Cardinality(S) < Cardinality(R)) <=> g \in DOMAIN RemedyGroups("active")
  <2>1. Cardinality(S) <= Cardinality(R) /\ (Cardinality(R) = Cardinality(S) => R = S)
    BY <1>4, <1>6, FS_Subset
  <2>2. R = S <=> RemedyRows("active", g) = {}
    BY <1>2, <1>3
  <2>3. (Cardinality(S) < Cardinality(R)) <=> R # S
    BY <1>6, <2>1
  <2> QED BY <1>5, <2>2, <2>3
<1> QED BY <1>1, <1>7, <1>8

LEMMA ScreensDoAgree == ASSUME ScreensInv PROVE ScreensAgree
<1>0. ScreensTypeOK /\ CorrelationsPair
  BY DEF ScreensInv
<1>1. \A filter \in Filters :
        /\ SumOver([h \in HostRows(filter) |-> HostRow(h, filter).count]) = Cardinality(Listed(filter))
        /\ \A h \in HostRows(filter) : HostRow(h, filter).count = SumOver(HostRow(h, filter).of)
  BY HostsAddUp
<1>2. \A f \in Present : KeyOfFinding(f) \in DOMAIN paired
  BY <1>0 DEF ScreensTypeOK, Present
<1>3. /\ Totals.corroborated = CorrelationStats
      /\ \A f \in Present : SourcesOnPage(f) \in {0, Cardinality(Provenance(f))} \ {1}
  BY <1>0, <1>2, CorrelationsCountOnce
<1>4. \A remedy \in {Catalog[f].remedy : f \in Shelf} \ {NoRemedy, ""} :
        LET groups == RemedyGroups("active") IN
        Cardinality(RowsOfRemedy(remedy)) = SumOver([g \in {h \in DOMAIN groups : h[1] = remedy} |-> groups[g].vulns])
  BY RemediesAddUp
<1>5. \A g \in DOMAIN RemedyGroups("all") :
        LET group == RemedyGroups("all")[g] IN
        /\ group.suppressed = (IF g \in DOMAIN RemedyGroups("ignored") THEN RemedyGroups("ignored")[g].vulns ELSE 0)
        /\ (group.suppressed < group.vulns) <=> (g \in DOMAIN RemedyGroups("active"))
  BY GroupsSplit
<1> QED BY <1>0, <1>1, <1>3, <1>4, <1>5, TotalsAddUp, OpenCountsAgree, RemedyFileAgrees DEF ScreensAgree

LEMMA ExportsHaveCause == ASSUME ScreensInv PROVE ExportForCause
<1>0. ScreensTypeOK
  BY DEF ScreensInv
<1> SUFFICES ASSUME NEW filter \in Filters, ~filter.and
             PROVE  /\ Export(filter) \subseteq Listed(filter)
                    /\ \A f \in Listed(filter) \ Export(filter) :
                         \/ filter.source # {} /\ Catalog[f].source \notin filter.source
                         \/ /\ Cardinality(Export(filter)) = ExportLimit
                            /\ \A g \in Export(filter) : Before("lastSeen", g, f)
  BY DEF ExportForCause
<1> DEFINE rows == {f \in Present : /\ filter.severity = {} \/ Catalog[f].severity \in filter.severity
                                    /\ filter.source = {} \/ Catalog[f].source \in filter.source
                                    /\ filter.status = {} \/ state[f] \in filter.status
                                    /\ filter.kev => Catalog[f].kev}
           o == CHOOSE x \in Orders("lastSeen", rows) : TRUE
           n == Cardinality(rows)
<1>1. Export(filter) = Rows(o, 1, ExportLimit)
  BY DEF Export
<1>2. rows \in SUBSET Present /\ rows \in SUBSET Shelf /\ Present \subseteq Shelf
  BY DEF Present
<1>3. rows \subseteq Listed(filter)
  BY DEF Listed, OfSource
<1>4. \A f \in Listed(filter) : f \in Present /\ (f \notin rows => filter.source # {} /\ Catalog[f].source \notin filter.source)
  BY DEF Listed
<1> HIDE DEF rows
<1>5. o \in Orders("lastSeen", rows)
  BY <1>0, <1>2, OrdersExist
<1> HIDE DEF o
<1>6. IsFiniteSet(rows)
  BY <1>2, ShelfFinite
<1>7. /\ n \in Nat /\ o \in [1 .. n -> rows] /\ DOMAIN o = 1 .. n
      /\ \A i, j \in 1 .. n : o[i] = o[j] => i = j
      /\ \A f \in rows : \E i \in 1 .. n : o[i] = f
      /\ \A i, j \in 1 .. n : i < j => ~Before("lastSeen", o[j], o[i])
  BY <1>5, <1>6, OrderHasAll
<1> HIDE DEF n
<1>8. \A g : g \in Export(filter) <=> \E i \in 1 .. n : i <= ExportLimit /\ o[i] = g
  <2>1. Export(filter) = {o[i] : i \in (1 .. n) \cap (1 .. ExportLimit)}
    BY <1>1, <1>7 DEF Rows
  <2>2. \A i \in 1 .. n : i \in 1 .. ExportLimit <=> i <= ExportLimit
    BY <1>7, ScreenBounds
  <2> QED BY <2>1, <2>2
<1>9. Export(filter) \subseteq Listed(filter)
  BY <1>3, <1>7, <1>8
<1>10. ASSUME NEW f \in Listed(filter) \ Export(filter), f \in rows
       PROVE  /\ Cardinality(Export(filter)) = ExportLimit
              /\ \A g \in Export(filter) : Before("lastSeen", g, f)
  <2>1. PICK j \in 1 .. n : o[j] = f
    BY <1>7, <1>10
  <2>2. j > ExportLimit /\ ExportLimit \in Nat /\ j \in Nat /\ j <= n
    BY <1>7, <1>8, <2>1, ScreenBounds
  <2>3. Cardinality(Export(filter)) = ExportLimit
    <3> DEFINE q == [i \in 1 .. ExportLimit |-> o[i]]
               E == Export(filter)
    <3>1. ASSUME NEW i \in 1 .. ExportLimit PROVE i \in 1 .. n /\ i <= ExportLimit
      BY <1>7, <2>2
    <3>2. \A i \in 1 .. ExportLimit : q[i] = o[i] /\ o[i] \in E
      BY <1>8, <3>1
    <3>3. \A g \in E : \E i \in 1 .. ExportLimit : o[i] = g
      <4>1. \A i \in 1 .. n : i <= ExportLimit => i \in 1 .. ExportLimit
        BY <1>7, <2>2
      <4> QED BY <1>8, <4>1
    <3>4. q \in [1 .. ExportLimit -> E]
      BY <3>2
    <3> HIDE DEF q, E
    <3>5. \A i, k \in 1 .. ExportLimit : q[i] = q[k] => i = k
      BY <1>7, <3>1, <3>2
    <3>6. q \in Bijection(1 .. ExportLimit, E)
      <4>1. \A g \in E : \E i \in 1 .. ExportLimit : q[i] = g
        BY <3>2, <3>3
      <4> QED BY <3>4, <3>5, <4>1, Fun_IsBij
    <3>7. Cardinality(E) = ExportLimit
      BY <2>2, <3>6, FS_CountingElements DEF ExistsBijection
    <3> QED BY <3>7 DEF E
  <2>4. ASSUME NEW g \in Export(filter) PROVE Before("lastSeen", g, f)
    <3>1. PICK i \in 1 .. n : i <= ExportLimit /\ o[i] = g
      BY <1>8
    <3>2. i < j
      BY <1>7, <2>2, <3>1
    <3>3. ~Before("lastSeen", f, g) /\ g # f
      BY <1>7, <1>10, <2>1, <3>1, <3>2
    <3>4. g \in rows /\ g \in Present /\ f \in Present /\ g \in Shelf /\ f \in Shelf
      BY <1>2, <1>7, <1>10, <3>1
    <3> QED BY <1>0, <3>3, <3>4, OneIsBefore
  <2> QED BY <2>3, <2>4
<1> QED BY <1>4, <1>9, <1>10

\* Whatever is written meanwhile, pages, facets, hosts, tiles, remediations
\* and files are views of one set of rows (service.py:34, 186, 366;
\* dashboard.py:177, 318; export.py:42).
THEOREM ScreensAreSound == ScreensSpec => []ScreensSound
<1>1. ScreensInit => ScreensInv
  BY ScreensStart
<1>2. ScreensInv /\ [ScreensNext]_screenVars => ScreensInv'
  BY ScreensStep
<1>3. ScreensInv => ScreensSound
  <2> SUFFICES ASSUME ScreensInv PROVE ScreensSound
    OBVIOUS
  <2>1. ScreensTypeOK /\ OwnSourceShown
    BY DEF ScreensInv
  <2> QED BY <2>1, WalksSeeAll, FacetsAreListed, ScreensDoAgree, ExportsHaveCause DEF ScreensSound
<1> QED BY <1>1, <1>2, <1>3, PTL DEF ScreensSpec
=============================================================================
