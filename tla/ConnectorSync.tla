--------------------------- MODULE ConnectorSync ---------------------------
(* One connector of a tenant, the scheduler and the buttons that start its  *)
(* syncs, and the sync itself from the task's first await to the removal of *)
(* its entry from the registry (connectors/scheduler.py, sync.py, router.py,*)
(* service.py, jamf_sync.py, humaans_sync.py, directory_sync.py,            *)
(* okta_sync.py, intune_sync.py).  What the vendor hands over, and how its  *)
(* loop copes with a vendor that fails, is VendorFeeds.                     *)
EXTENDS VendorFeeds

CONSTANTS
    Kinds,        \* the connector types of the instance
    MaxSyncs,     \* syncs started
    MaxEdits,     \* times an administrator edits, deletes or creates the row
    MaxCrashes    \* restarts of the process

ASSUME SyncBounds == MaxSyncs \in Nat /\ MaxEdits \in Nat /\ MaxCrashes \in Nat

VARIABLES
    kind,       \* the connector's type
    row,        \* connector_configs, as committed
    logs,       \* the sync_logs rows committed, counted by status
    sync,       \* the running task and what its session will commit
    running,    \* _running_syncs holds an unfinished task
    overlap,    \* a second task was started beside a first
    tick,       \* the scheduler's pass: what its SELECT returned
    count       \* syncs started, edits and crashes so far

syncVars == <<kind, row, logs, sync, running, overlap, tick, count>>
vars == <<syncVars, feedVars>>

Scanners == {"crowdstrike", "defender", "rapid7", "wiz", "qualys", "qualysxml", "nessus"}
Delegated == {"jamf", "humaans", "azure", "google"}
Miswritten == {"okta", "intune"}       \* their sync raises before it reads anything
Ticketing == {"asana"}                 \* ASANA, JIRA, GITHUB
Unknown == {"anthropic"}               \* a type run_sync has no class for

\* Their loops and upserts pass over records that lack what identifies them: a
\* CVE, a QID, a host or person id, an e-mail address (guests of Azure have
\* none of the tenant's), or, for a person of Humaans, an asset to enrich.
Choosy == {"defender", "rapid7", "qualys", "qualysxml", "nessus", "humaans", "azure", "google"}

Status == {"none", "RUNNING", "SUCCESS", "FAILED"}
NewRow == [exists |-> TRUE, enabled |-> TRUE, synced |-> FALSE, due |-> TRUE, status |-> "none",
           failures |-> 0, error |-> FALSE]
NoSync == [stage |-> "idle", row |-> NewRow, stamps |-> FALSE, outer |-> "none", inner |-> "none",
           keeps |-> {}, skipped |-> {}]
NoTick == [stage |-> "asleep", listed |-> FALSE, due |-> FALSE, overtaken |-> FALSE]

TypeOK ==
    /\ kind \in Kinds
    /\ row \in [exists : BOOLEAN, enabled : BOOLEAN,
                synced : BOOLEAN,         \* last_sync_at is set
                due : BOOLEAN,            \* never synced, or sync_interval_minutes ago
                status : Status \ {"RUNNING"}, failures : 0 .. MaxSyncs, error : BOOLEAN]
    /\ logs \in [Status \ {"none"} -> 0 .. MaxSyncs]
    /\ sync.stage \in {"idle", "starting", "opened", "fetching", "storing", "committing",
                       "aborted", "ended"}
    /\ sync.outer \in Status /\ sync.inner \in Status
    /\ sync.stamps \in BOOLEAN            \* the session set last_sync_at
    /\ sync.keeps \in SUBSET Items        \* what it upserted
    /\ sync.skipped \in SUBSET Items      \* what it read and passed over
    /\ running \in BOOLEAN /\ overlap \in BOOLEAN
    /\ tick \in [stage : {"asleep", "read"}, listed : BOOLEAN, due : BOOLEAN, overtaken : BOOLEAN]
    /\ count \in [syncs : 0 .. MaxSyncs, edits : 0 .. MaxEdits, crashes : 0 .. MaxCrashes]
    /\ fetch \in FetchType
    /\ removed \in SUBSET Items

Init ==
    /\ kind \in Kinds
    /\ \E added \in BOOLEAN : row = [NewRow EXCEPT !.exists = added]
    /\ logs = [s \in Status \ {"none"} |-> 0]
    /\ sync = NoSync
    /\ running = FALSE /\ overlap = FALSE
    /\ tick = NoTick
    /\ count = [syncs |-> 0, edits |-> 0, crashes |-> 0]
    /\ fetch = NoFetch(IF kind \in DOMAIN ListsOf THEN kind ELSE "wiz")
    /\ removed = {}

-----------------------------------------------------------------------------
(* The scheduler, the router and the service *)

\* A task is created for the connector and entered in the registry.
StartTask ==
    /\ count.syncs < MaxSyncs
    /\ count' = [count EXCEPT !.syncs = @ + 1]
    /\ running' = TRUE
    /\ IF sync.stage = "idle" THEN sync' = [NoSync EXCEPT !.stage = "starting"] /\ UNCHANGED overlap
                              ELSE overlap' = TRUE /\ UNCHANGED sync

\* trigger_background_sync: FALSE, and no task, while one is unfinished.
Trigger(due) ==
    IF due /\ ~running THEN StartTask ELSE UNCHANGED <<count, running, overlap, sync>>

\* The pass reads the enabled connectors; the rows stay as the SELECT saw them.
TickReadsAllAsDue ==
    /\ tick.stage = "asleep"
    /\ tick' = [stage |-> "read", listed |-> row.exists /\ row.enabled, due |-> TRUE,
                overtaken |-> FALSE]
    /\ UNCHANGED <<kind, row, logs, sync, running, overlap, count, feedVars>>
TickReadsHealthy ==
    /\ tick.stage = "asleep"
    /\ tick' = [stage |-> "read", listed |-> row.exists /\ row.enabled /\ row.status # "FAILED",
                due |-> row.due, overtaken |-> FALSE]
    /\ UNCHANGED <<kind, row, logs, sync, running, overlap, count, feedVars>>
TickReads ==
    /\ tick.stage = "asleep"
    /\ tick' = [stage |-> "read", listed |-> row.exists /\ row.enabled, due |-> row.due,
                overtaken |-> FALSE]
    /\ UNCHANGED <<kind, row, logs, sync, running, overlap, count, feedVars>>

\* Without another await it decides on them.
TickStarts ==
    /\ tick.stage = "read"
    /\ tick' = NoTick
    /\ Trigger(tick.listed /\ tick.due)
    /\ UNCHANGED <<kind, row, logs, feedVars>>

\* POST /{connector_id}/sync triggers whatever the interval.
ClickStarts ==
    /\ row.exists /\ count.syncs < MaxSyncs
    /\ Trigger(TRUE)
    /\ UNCHANGED <<kind, row, logs, tick, feedVars>>

Edit ==
    /\ count.edits < MaxEdits
    /\ count' = [count EXCEPT !.edits = @ + 1]
    /\ UNCHANGED <<kind, logs, sync, running, overlap, feedVars>>

\* A pass that has read the row decides on what it was.
Overtaken(now) == [tick EXCEPT !.overtaken = @ \/ (tick.stage = "read" /\ now)]

\* update_connector, which may change what decides that a sync is due;
\* create_connector for a type the tenant has no row of; delete_connector,
\* which waits for the sync whose log already refers to it.
UpdateConnector ==
    /\ Edit /\ row.exists
    /\ \E enabled, due \in BOOLEAN :
         /\ due # row.due => row.synced          \* another sync_interval_minutes
         /\ row' = [row EXCEPT !.enabled = enabled, !.due = due]
         /\ tick' = Overtaken(due # row.due)
CreateConnector == Edit /\ ~row.exists /\ row' = NewRow /\ UNCHANGED tick
DeleteConnector ==
    /\ Edit /\ row.exists
    /\ sync.stage \in {"idle", "starting", "aborted", "ended"}
    /\ row' = [NewRow EXCEPT !.exists = FALSE]
    /\ UNCHANGED tick

\* sync_interval_minutes have passed since last_sync_at.
IntervalPasses ==
    /\ row.exists /\ ~row.due
    /\ row' = [row EXCEPT !.due = TRUE]
    /\ UNCHANGED <<kind, logs, sync, running, overlap, tick, count, feedVars>>

-----------------------------------------------------------------------------
(* run_sync, in the session of _run_single_sync *)

Rest == <<kind, row, logs, running, overlap, tick, count>>

\* The health columns of one row, in another.
Healed(r, by) == [r EXCEPT !.status = by.status, !.failures = by.failures, !.error = by.error]

\* The task loads the row, and its RUNNING log with it; the row may be gone.
SyncLoads ==
    /\ sync.stage = "starting"
    /\ sync' = IF row.exists
                 THEN [NoSync EXCEPT !.stage = "opened", !.row = Healed(NewRow, row), !.outer = "RUNNING",
                                     !.inner = IF kind \in Delegated THEN "RUNNING" ELSE "none"]
                 ELSE [NoSync EXCEPT !.stage = "ended"]
    /\ UNCHANGED <<Rest, feedVars>>

\* Scanners write their outcome to the log run_sync opened, delegated syncs to
\* the one they opened themselves.
LogEnd(s, status) ==
    IF kind \in Delegated THEN [s EXCEPT !.inner = status] ELSE [s EXCEPT !.outer = status]

\* The exception path, and the scanners' failed authentication.
Failed(s) ==
    [LogEnd(s, "FAILED") EXCEPT
        !.stage = "committing",
        !.row.status = "FAILED",
        !.row.failures = IF kind \in Scanners THEN @ + 1 ELSE @,
        !.row.error = IF kind \in Scanners THEN TRUE ELSE @]
\* A delegated sync that fails to authenticate only ends its log.
Refused(s) == [LogEnd(s, "FAILED") EXCEPT !.stage = "committing"]

SucceededKeepsCount(s) ==
    [LogEnd(s, "SUCCESS") EXCEPT
        !.stage = "committing", !.stamps = TRUE, !.row.status = "SUCCESS",
        !.row.error = IF kind \in Scanners THEN FALSE ELSE @]
Succeeded(s) ==
    [LogEnd(s, "SUCCESS") EXCEPT
        !.stage = "committing", !.stamps = TRUE, !.row.status = "SUCCESS",
        !.row.failures = IF kind \in Scanners THEN 0 ELSE @,
        !.row.error = IF kind \in Scanners THEN FALSE ELSE @]

TicketingSync ==
    /\ sync.stage = "opened" /\ kind \in Ticketing
    /\ sync' = [sync EXCEPT !.stage = "committing", !.outer = "SUCCESS"]
    /\ UNCHANGED <<Rest, feedVars>>
UnknownSync ==
    /\ sync.stage = "opened" /\ kind \in Unknown
    /\ sync' = [sync EXCEPT !.stage = "committing", !.outer = "FAILED"]
    /\ UNCHANGED <<Rest, feedVars>>
\* SyncLog(connector_config_id=...) names no column: a TypeError leaves run_sync.
MiswrittenSync ==
    /\ sync.stage = "opened" /\ kind \in Miswritten
    /\ sync' = [sync EXCEPT !.stage = "aborted"]
    /\ UNCHANGED <<Rest, feedVars>>

Authenticates ==
    /\ sync.stage = "opened" /\ kind \in Scanners \cup Delegated
    /\ sync' = [sync EXCEPT !.stage = "fetching"]
    /\ fetch' = [NoFetch(kind) EXCEPT !.state = "paging"]
    /\ removed' = {}
    /\ UNCHANGED Rest
AuthFails ==
    /\ sync.stage = "opened" /\ kind \in Scanners \cup Delegated
    /\ sync' = IF kind \in Scanners THEN Failed(sync) ELSE Refused(sync)
    /\ UNCHANGED <<Rest, feedVars>>

Fetches == sync.stage = "fetching" /\ FetchStep /\ UNCHANGED syncVars
FetchReturned ==
    /\ sync.stage = "fetching" /\ fetch.state = "returned"
    /\ sync' = [sync EXCEPT !.stage = "storing"]
    /\ UNCHANGED <<Rest, feedVars>>
\* What may be passed over of the records read.
Skippable(found) == IF kind \in Choosy THEN SUBSET found ELSE {{}}
Stores(read, skipped) == [sync EXCEPT !.keeps = read \ skipped, !.skipped = skipped]

\* A scanner's findings are stored before its misconfigurations are read.
FetchRaised ==
    /\ sync.stage = "fetching" /\ fetch.state = "raised"
    /\ LET read == IF kind \in Scanners THEN fetch.found ELSE {} IN
       \E skipped \in Skippable(read) : sync' = Failed(Stores(read, skipped))
    /\ UNCHANGED <<Rest, feedVars>>

\* The upserts write what the first list returned, the records passed over apart.
StoreAll ==
    /\ sync.stage = "storing"
    /\ \E skipped \in Skippable(fetch.found) : sync' = Succeeded(Stores(fetch.found, skipped))
    /\ UNCHANGED <<Rest, feedVars>>
\* An exception between two upserts: what came before it is committed.
StoreRaises ==
    /\ sync.stage = "storing"
    /\ \E last \in fetch.found :
         LET read == {i \in fetch.found : i < last} IN
         \E skipped \in Skippable(read) : sync' = Failed(Stores(read, skipped))
    /\ UNCHANGED <<Rest, feedVars>>
\* The database refuses a row - another connector inserted the same asset, a
\* value is too long: the session cannot commit anything any more.
StoreConflicts ==
    /\ sync.stage = "storing"
    /\ sync' = [sync EXCEPT !.stage = "aborted"]
    /\ UNCHANGED <<Rest, feedVars>>

\* The commit writes the columns the session changed; is_enabled and
\* sync_interval_minutes are none of them.
Commit ==
    /\ sync.stage = "committing"
    /\ row' = [Healed(row, sync.row) EXCEPT !.due = @ /\ ~sync.stamps, !.synced = @ \/ sync.stamps]
    /\ logs' = [s \in DOMAIN logs |-> logs[s] + (IF sync.outer = s THEN 1 ELSE 0)
                                              + (IF sync.inner = s THEN 1 ELSE 0)]
    /\ tick' = Overtaken(sync.stamps)
    /\ sync' = [sync EXCEPT !.stage = "ended"]
    /\ UNCHANGED <<kind, running, overlap, count, feedVars>>

\* `finally` removes the entry, whatever became of the session.
Pop ==
    /\ sync.stage \in {"aborted", "ended"}
    /\ sync' = NoSync
    /\ running' = FALSE
    /\ fetch' = NoFetch(fetch.kind) /\ removed' = {}
    /\ UNCHANGED <<kind, row, logs, overlap, tick, count>>

\* The process restarts: tasks, registry and requests are gone.
Crash ==
    /\ count.crashes < MaxCrashes
    /\ count' = [count EXCEPT !.crashes = @ + 1]
    /\ sync' = NoSync /\ running' = FALSE /\ tick' = NoTick
    /\ fetch' = NoFetch(fetch.kind) /\ removed' = {}
    /\ UNCHANGED <<kind, row, logs, overlap>>

SyncStep ==
    \/ SyncLoads \/ TicketingSync \/ UnknownSync \/ MiswrittenSync
    \/ Authenticates \/ AuthFails \/ Fetches \/ FetchReturned \/ FetchRaised
    \/ StoreAll \/ StoreRaises \/ StoreConflicts \/ Commit \/ Pop

Next ==
    \/ TickReads \/ TickStarts \/ ClickStarts
    \/ UpdateConnector \/ CreateConnector \/ DeleteConnector \/ IntervalPasses
    \/ SyncStep \/ Crash

Spec == Init /\ [][Next]_vars

\* The loop passes every minute and a task runs on: every request has a timeout,
\* so each answer or its absence arrives.
FairSpec ==
    /\ Spec
    /\ WF_vars(TickReads) /\ WF_vars(TickStarts) /\ WF_vars(SyncStep)

-----------------------------------------------------------------------------
(* The registry keeps a connector to one task per process, whoever starts   *)
(* it and whenever its entry is removed ("prevents concurrent syncs").      *)
SingleFlight == ~overlap

(* A scanner's health columns tell one story: the last outcome is FAILED    *)
(* exactly when the failure count is above zero and an error is shown,      *)
(* across retries, edits and restarts.                                      *)
ScannerHealth ==
    kind \in Scanners =>
        /\ row.status = "FAILED" <=> row.failures > 0
        /\ row.error <=> row.failures > 0

(* Only the syncs that open a log of their own leave the RUNNING one of     *)
(* run_sync behind, one for each log they end.                              *)
LogsEnd ==
    logs["RUNNING"] = IF kind \in Delegated THEN logs["SUCCESS"] + logs["FAILED"] ELSE 0

(* What a sync that reports SUCCESS leaves unstored it has read and passed  *)
(* over, for lack of an identity, or it never read it, and that is          *)
(* explained: a failure its loop swallowed, the page cap, or - where pages  *)
(* are addressed by offset - at most as many items as the vendor dropped    *)
(* meanwhile.  Only the choosy kinds pass anything over.                    *)
UnstoredExplained ==
    LET unread == Live \ (sync.keeps \cup sync.skipped) IN
    sync.stage = "ended" /\ fetch.state = "returned" /\ row.status = "SUCCESS" =>
        /\ sync.skipped # {} => kind \in Choosy
        /\ unread # {} =>
             \/ fetch.swallowed \/ fetch.capped
             \/ Policy.walk = "offset" /\ Cardinality(unread) <= Cardinality(removed)

(* The scheduler starts a sync inside the interval of the last one only     *)
(* when, between the pass's SELECT and its decision, a sync that reports    *)
(* SUCCESS committed or an administrator changed the interval.              *)
EarlyOnlyWhenOvertaken ==
    [][TickStarts /\ running' # running /\ row.exists /\ ~row.due => tick.overtaken]_vars

(* A connector that is enabled and due is synced again, after failures and  *)
(* restarts alike, unless it is switched off or given a longer interval     *)
(* first.                                                                   *)
DueIsSynced ==
    (row.exists /\ row.enabled /\ row.due)
        ~> (running \/ ~row.exists \/ ~row.enabled \/ ~row.due \/ count.syncs = MaxSyncs)

(* Every sync ends, whatever the vendor answers, except over XML pages.     *)
SyncEnds == (running /\ kind # "qualysxml") ~> ~running

(* One task, one story of its outcome in the health columns and the logs.    *)
ConnectorSound == TypeOK /\ SingleFlight /\ ScannerHealth /\ LogsEnd

(* Syncs end, and due connectors are synced again.                          *)
SyncsGoOn == DueIsSynced /\ SyncEnds
=============================================================================
