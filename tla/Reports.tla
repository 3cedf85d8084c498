-------------------------------- MODULE Reports --------------------------------
(* Scheduled reports (reports.py and the report endpoints of main.py): the    *)
(* scheduler's run generates and mails every report that is due, marks each   *)
(* one, and commits once, if one was sent.  Ages are counted in parts of the  *)
(* longest period of a schedule and stop at its end.                          *)
EXTENDS Integers, FiniteSets

CONSTANTS
    ReportIds,
    Periods,      \* the ages at which reports are due: 23, 167 and 719 hours
    Longest,      \* the longest
    MaxEdits      \* requests of users

ASSUME ReportBounds ==
    Longest \in Nat \ {0} /\ Periods \subseteq 1 .. Longest /\ MaxEdits \in Nat

VARIABLES
    reports,      \* the rows
    reportRun,    \* the scheduler's run
    mailed,       \* when the scheduler last mailed each report, and if the mark was lost
    edits         \* requests so far

reportVars == <<reports, reportRun, mailed, edits>>

Forever == Longest + 1      \* not sent, not mailed
Ages == 0 .. Forever
NoReport == [there |-> FALSE, on |-> FALSE, schedule |-> Longest, age |-> Forever, result |-> "none"]
\* The run keeps the schedules its SELECT read, and what is deleted under it.
NoReportRun ==
    [on |-> FALSE, read |-> [r \in ReportIds |-> Longest], todo |-> {}, marks |-> <<>>, held |-> {},
     gone |-> {}, sent |-> FALSE, broken |-> FALSE]

ReportsTypeOK ==
    /\ reports \in [ReportIds -> [there : BOOLEAN, on : BOOLEAN, schedule : 1 .. Longest, age : Ages,
                                  result : {"none", "SUCCESS", "FAILED"}]]
    /\ reportRun.todo \subseteq ReportIds /\ DOMAIN reportRun.marks \subseteq ReportIds
    /\ mailed \in [ReportIds -> [age : Ages, unmarked : BOOLEAN]]
    /\ edits \in 0 .. MaxEdits

ReportsInit ==
    /\ reports = [r \in ReportIds |-> NoReport]
    /\ reportRun = NoReportRun
    /\ mailed = [r \in ReportIds |-> [age |-> Forever, unmarked |-> FALSE]]
    /\ edits = 0

-----------------------------------------------------------------------------
(* Users *)

Edited == edits < MaxEdits /\ edits' = edits + 1
CreatesReport(r, every) ==
    /\ Edited /\ ~reports[r].there /\ r \notin reportRun.gone
    /\ reports' = [reports EXCEPT ![r] = [NoReport EXCEPT !.there = TRUE, !.on = TRUE, !.schedule = every]]
    /\ mailed' = [mailed EXCEPT ![r] = [age |-> Forever, unmarked |-> FALSE]]
    /\ UNCHANGED reportRun
UpdatesReport(r, every, on) ==
    /\ Edited /\ reports[r].there /\ r \notin reportRun.held
    /\ reports' = [reports EXCEPT ![r].on = on, ![r].schedule = every]
    /\ UNCHANGED <<reportRun, mailed>>
\* A row that the run has flushed cannot go yet.  One that it has only loaded
\* can: it is mailed all the same, and its mark is what fails.
DeletesReport(r) ==
    /\ Edited /\ reports[r].there /\ r \notin reportRun.held
    /\ reports' = [reports EXCEPT ![r] = NoReport]
    /\ reportRun' = [reportRun EXCEPT !.gone = @ \cup ({r} \cap (reportRun.todo \cup DOMAIN reportRun.marks))]
    /\ UNCHANGED mailed
\* send_report_now
SendsNow(r) ==
    /\ Edited /\ reports[r].there /\ r \notin reportRun.held
    /\ reports' = [reports EXCEPT ![r].age = 0, ![r].result = "SUCCESS"]
    /\ UNCHANGED <<reportRun, mailed>>

-----------------------------------------------------------------------------
(* run_due_reports *)

IsDue(report) == report.age >= report.schedule
ReportRunBegins ==
    /\ ~reportRun.on
    /\ reportRun' = [NoReportRun EXCEPT !.on = TRUE, !.read = [r \in ReportIds |-> reports[r].schedule],
         !.todo = {r \in ReportIds : reports[r].there /\ reports[r].on /\ IsDue(reports[r])}]
    /\ UNCHANGED <<reports, mailed, edits>>

\* Generating reads the database, which writes the marks made so far: one of a
\* deleted row fails, and with it the transaction and all that follows.
Writable == ~reportRun.broken /\ DOMAIN reportRun.marks \cap reportRun.gone = {}
Marks(r, result) ==
    /\ r \in reportRun.todo
    /\ reportRun' = [reportRun EXCEPT !.todo = @ \ {r}, !.held = IF Writable THEN DOMAIN reportRun.marks ELSE {},
         !.marks = [x \in DOMAIN @ \cup {r} |-> IF x = r THEN result ELSE @[x]],
         !.sent = @ \/ result = "SUCCESS"]
    /\ UNCHANGED <<reports, edits>>
\* The answer of the mail server does not matter: the report is sent.
SendsMail(r) ==
    /\ Writable /\ Marks(r, "SUCCESS")
    /\ mailed' = [mailed EXCEPT ![r] = [age |-> 0, unmarked |-> FALSE]]
MailIsRefused(r) == Writable /\ Marks(r, "SUCCESS") /\ UNCHANGED mailed
GenerationFails(r) == Marks(r, "FAILED") /\ UNCHANGED mailed
\* An error of the database: nothing later in this run succeeds.
TransactionBreaks ==
    /\ reportRun.todo # {} /\ ~reportRun.broken
    /\ reportRun' = [reportRun EXCEPT !.broken = TRUE, !.held = {}]
    /\ UNCHANGED <<reports, mailed, edits>>

MarkedKeepingDate ==
    [r \in ReportIds |->
      IF r \notin DOMAIN reportRun.marks THEN reports[r]
      ELSE [reports[r] EXCEPT !.result = reportRun.marks[r], !.age = IF @ = Forever THEN 0 ELSE @]]
Marked ==
    [r \in ReportIds |->
      IF r \notin DOMAIN reportRun.marks THEN reports[r]
      ELSE [reports[r] EXCEPT !.result = reportRun.marks[r], !.age = 0]]
ReportRunCommits ==
    /\ reportRun.on /\ reportRun.todo = {} /\ reportRun.sent /\ Writable
    /\ reports' = Marked
    /\ reportRun' = NoReportRun
    /\ UNCHANGED <<mailed, edits>>
\* None was sent, an error, or a restart: the marks are gone, the mails are not.
ReportRunIsLost ==
    /\ reportRun.on
    /\ mailed' = [r \in ReportIds |->
         IF r \in DOMAIN reportRun.marks /\ reportRun.marks[r] = "SUCCESS"
         THEN [mailed[r] EXCEPT !.unmarked = TRUE] ELSE mailed[r]]
    /\ reportRun' = NoReportRun
    /\ UNCHANGED <<reports, edits>>

Older(age, stops) == IF age < stops THEN age + 1 ELSE age
ReportsAge ==
    /\ ~reportRun.on
    /\ reports' = [r \in ReportIds |-> [reports[r] EXCEPT !.age = Older(@, Longest)]]
    /\ mailed' = [r \in ReportIds |-> [mailed[r] EXCEPT !.age = Older(@, Longest)]]
    /\ UNCHANGED <<reportRun, edits>>

ReportsNext ==
    \/ \E r \in ReportIds :
         \/ \E every \in Periods : CreatesReport(r, every) \/ \E on \in BOOLEAN : UpdatesReport(r, every, on)
         \/ DeletesReport(r) \/ SendsNow(r)
         \/ SendsMail(r) \/ MailIsRefused(r) \/ GenerationFails(r)
    \/ ReportRunBegins \/ TransactionBreaks \/ ReportRunCommits \/ ReportRunIsLost \/ ReportsAge

-----------------------------------------------------------------------------
(* The scheduler does not mail a report again before its period is over,      *)
(* whatever failed, was edited or sent by hand meanwhile, unless the mark of  *)
(* the last mail was lost with its run.  The period is that of the schedule   *)
(* the run has read: an edit or a deletion after that comes too late for it.  *)
MailSpacing ==
    [][\A r \in ReportIds :
         SendsMail(r) => mailed[r].age >= reportRun.read[r] \/ mailed[r].unmarked]_reportVars

(* A report that shows a failure was not mailed by the run that failed, nor   *)
(* since, unless that mail's mark is not committed yet or was lost.           *)
MailUnmarked(r) ==
    mailed[r].unmarked \/ (r \in DOMAIN reportRun.marks /\ reportRun.marks[r] = "SUCCESS")
FailureIsTold ==
    \A r \in ReportIds : reports[r].there /\ reports[r].result = "FAILED" =>
        mailed[r].age > reports[r].age \/ reports[r].age = Longest \/ MailUnmarked(r)

(* Reports are mailed once a period, and what they show of themselves is so.  *)
ReportsSound == [](ReportsTypeOK /\ FailureIsTold) /\ MailSpacing
=============================================================================
