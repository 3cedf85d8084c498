-------------------------------- MODULE Alerts --------------------------------
(* The periodic alerts (notifications/alerts.py): what each check finds,      *)
(* which notification already stands for it, the mail, and the single commit  *)
(* for all tenants at the end of the run.  A behaviour follows one of the     *)
(* checks; time is in hours.                                                  *)
EXTENDS Integers, FiniteSets, FiniteSetsExt

CONSTANTS
    Subjects,   \* what a check looks at: findings or connectors
    KeyOf,      \* resource_id of the notification: the CVE of a finding
    Lookback,   \* hours in which a notification of a check stands
    MaxHour

Topics == {"new_critical_vuln", "sla_breach", "sync_failure"}
ASSUME AlertBounds == Lookback \in [Topics -> Nat \ {0}] /\ MaxHour \in Nat /\ DOMAIN KeyOf = Subjects

VARIABLES
    topic,      \* the check this behaviour follows
    subject,    \* detected, due or failing; and since when the check can see it
    notes,      \* the committed notifications
    told,       \* those ever committed
    alertRun,   \* the run in progress
    said,       \* the last announcement of each key, mailed or not yet committed
    hour,
    ran,        \* how the last run of this hour ended
    missed      \* the hours in which no run was committed

alertVars == <<topic, subject, notes, told, alertRun, said, hour, ran, missed>>

Unknown == -9
Keys == {KeyOf[s] : s \in Subjects}
NoRun == [on |-> FALSE, todo |-> {}, new |-> {}]
Silent == [at |-> Unknown, undone |-> FALSE, turn |-> FALSE]
Hours == 0 .. MaxHour

AlertsTypeOK ==
    /\ topic \in Topics
    /\ \A s \in Subjects :
         /\ subject[s].there \in BOOLEAN /\ subject[s].at \in Hours \cup {Unknown}
         /\ subject[s].there => subject[s].visible \in 0 .. hour
    /\ notes \subseteq told /\ told \subseteq Keys \X (0 .. hour)
    /\ alertRun.todo \subseteq Subjects /\ alertRun.new \subseteq Keys
    /\ \A k \in Keys : said[k].at \in (0 .. hour) \cup {Unknown}
    /\ ran \in {"not yet", "committed", "lost"} /\ missed \subseteq 0 .. hour - 1

AlertsInit ==
    /\ topic \in Topics
    /\ subject = [s \in Subjects |-> [at |-> Unknown, there |-> FALSE, visible |-> Unknown]]
    /\ notes = {} /\ told = {} /\ alertRun = NoRun
    /\ said = [k \in Keys |-> Silent]
    /\ hour = 0 /\ ran = "not yet" /\ missed = {}

-----------------------------------------------------------------------------
(* What the checks look at *)

Becomes(s, at, there) ==
    /\ subject' = [subject EXCEPT ![s] = [at |-> at, there |-> there, visible |-> IF there THEN hour ELSE Unknown]]
    /\ UNCHANGED <<topic, notes, told, alertRun, said, hour, ran, missed>>
\* A sync stamps first_detected_at when it meets the finding and commits later.
DetectsCritical(s) == topic = "new_critical_vuln" /\ subject[s].at = Unknown /\ Becomes(s, hour, FALSE)
CommitsCritical(s) ==
    topic = "new_critical_vuln" /\ subject[s].at # Unknown /\ ~subject[s].there /\ Becomes(s, subject[s].at, TRUE)
\* A finding gets a due date, or is closed.
GetsDue(s) == topic = "sla_breach" /\ subject[s].at = Unknown /\ \E due \in hour + 1 .. MaxHour : Becomes(s, due, TRUE)
ClosesDue(s) == topic = "sla_breach" /\ subject[s].there /\ Becomes(s, subject[s].at, FALSE)
\* The status of the last sync of an enabled connector.
SyncEnds(s) == topic = "sync_failure" /\ Becomes(s, Unknown, ~subject[s].there)

\* The query of the check.
Wanted(s) ==
    /\ subject[s].there
    /\ topic = "new_critical_vuln" => subject[s].at >= hour - Lookback[topic]
    /\ topic = "sla_breach" => hour < subject[s].at /\ subject[s].at <= hour + Lookback[topic]

-----------------------------------------------------------------------------
(* run_alert_checks *)

AlertRunBegins ==
    /\ ~alertRun.on /\ ran # "committed"
    /\ alertRun' = [on |-> TRUE, todo |-> {s \in Subjects : Wanted(s)}, new |-> {}]
    /\ UNCHANGED <<topic, subject, notes, told, said, hour, ran, missed>>

\* _notification_exists: among the committed ones and those of this run.
EverNoted(key) == key \in alertRun.new \/ \E n \in notes : n[1] = key
NotedBefore(key) == \E n \in notes : n[1] = key /\ n[2] >= hour - Lookback[topic]
NotificationExists(key) == key \in alertRun.new \/ \E n \in notes : n[1] = key /\ n[2] >= hour - Lookback[topic]
\* create_notification, and for a new critical the mails, before the commit.
AlertsOn(s) ==
    /\ s \in alertRun.todo
    /\ LET key == KeyOf[s] IN
       IF NotificationExists(key)
       THEN /\ alertRun' = [alertRun EXCEPT !.todo = @ \ {s}]
            /\ UNCHANGED said
       ELSE /\ alertRun' = [alertRun EXCEPT !.todo = @ \ {s}, !.new = @ \cup {key}]
            /\ said' = [said EXCEPT ![key] = [at |-> hour, undone |-> FALSE, turn |-> ~@.turn]]
    /\ UNCHANGED <<topic, subject, notes, told, hour, ran, missed>>
AlertRunCommits ==
    /\ alertRun.on /\ alertRun.todo = {}
    /\ notes' = notes \cup (alertRun.new \X {hour})
    /\ told' = told \cup (alertRun.new \X {hour})
    /\ alertRun' = NoRun /\ ran' = "committed"
    /\ UNCHANGED <<topic, subject, said, hour, missed>>
\* An error in any check of any tenant, or a restart: nothing is kept but the mails.
AlertRunLost ==
    /\ alertRun.on
    /\ said' = [k \in Keys |-> IF k \in alertRun.new THEN [said[k] EXCEPT !.undone = TRUE] ELSE said[k]]
    /\ alertRun' = NoRun /\ ran' = "lost"
    /\ UNCHANGED <<topic, subject, notes, told, hour, missed>>

\* delete_notification: of a broadcast, by any user.
DeletesNote(n) ==
    /\ notes' = notes \ {n}
    /\ said' = [said EXCEPT ![n[1]].undone = TRUE]
    /\ UNCHANGED <<topic, subject, told, alertRun, hour, ran, missed>>

\* Runs come every five minutes.
HourPasses ==
    /\ hour < MaxHour /\ ~alertRun.on /\ ran # "not yet"
    /\ hour' = hour + 1 /\ ran' = "not yet"
    /\ missed' = IF ran = "lost" THEN missed \cup {hour} ELSE missed
    /\ UNCHANGED <<topic, subject, notes, told, alertRun, said>>

AlertsNext ==
    \/ \E s \in Subjects :
         \/ DetectsCritical(s) \/ CommitsCritical(s) \/ GetsDue(s) \/ ClosesDue(s) \/ SyncEnds(s)
         \/ AlertsOn(s)
    \/ AlertRunBegins \/ AlertRunCommits \/ AlertRunLost \/ HourPasses
    \/ \E n \in notes : DeletesNote(n)

-----------------------------------------------------------------------------
ToldSince(s, at) == \E n \in told : n[1] = KeyOf[s] /\ n[2] >= at

(* Every critical finding is announced, by a notification of its CVE no older *)
(* than the lookback when it was detected, every finding whose due date comes *)
(* near is, before that date, and a connector that goes on failing is again   *)
(* and again: if the sync that found it commits within the lookback, and one  *)
(* of the runs that could see it was not lost.                                *)
AlertsComeInTime ==
    \A s \in Subjects : subject[s].there =>
        LET from == subject[s].visible + 1  at == subject[s].at  back == Lookback[topic] IN
        /\ topic = "new_critical_vuln" /\ hour > at + back /\ ~(from .. at + back \subseteq missed)
             => ToldSince(s, at - back)
        /\ topic = "sla_breach" /\ hour >= at /\ ~({h \in from .. at - 1 : h >= at - back} \subseteq missed)
             => ToldSince(s, at - 2 * back)
        /\ topic = "sync_failure" /\ ~(from .. hour - 1 \subseteq missed)
             => ToldSince(s, Max((from .. hour - 1) \ missed) - back)

(* A key is not announced twice within the lookback, by one run or by two,    *)
(* unless a run was lost after its mails or a user deleted the notification.  *)
NoRepeatedAlert ==
    [][\A k \in Keys : said'[k].turn # said[k].turn /\ said[k].at # Unknown =>
         said[k].undone \/ said'[k].at > said[k].at + Lookback[topic]]_alertVars

(* No alert is missed, in well-formed states.                                *)
AlertsSound == AlertsTypeOK /\ AlertsComeInTime
=============================================================================
