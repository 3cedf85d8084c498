# GetVul: a TLA+ model of the vulnerability-management backend

GetVul is a multi-tenant FastAPI service (`src/backend/app`) with a Next.js
front end. It pulls findings from vulnerability scanners, scores them, opens
tickets for them, explains them with an LLM, and keeps all of this going from a
scheduler that runs inside every API process. State lives in PostgreSQL (READ
COMMITTED) and Redis. This directory holds TLA+ modules of its concurrent parts,
TLC runs over small instances, and TLAPS proofs for every instance.

Paths below are relative to `src/backend/app`.

## 1. Inventory

| Component | State | Operations | Hard behaviour | What makes it correct |
|---|---|---|---|---|
| Risk backfill `vulnerabilities/risk_backfill_service.py` | `risk_exposure_backfill_jobs` row (status, cursor, count), finding scores | enqueue, claim + chunk, complete, fail | overlapping ticks and replicas, crashes, rows appearing behind the cursor | exclusive claim, exact count, "completed" owes nothing, the job ends |
| Risk scoring `vulnerabilities/risk_exposure_service.py` | score, breakdown, model version per finding; asset rollup | full-tenant recompute after a sync | races with the backfill; capped weights, KEV floor | bounds and monotonicity; no open finding stays unscored |
| Cutover gate `vulnerabilities/risk_cutover_service.py` | acknowledgment (time, diff hash) and flag on the tenant | diff, acknowledge, enable | check-then-act over three reads without locks | the flag is set only for a completed job and the diff an admin saw |
| Scanner sync `connectors/sync.py` | findings, assets, sync log, failure counters | upsert, correlate, score | failure after partial upserts, which are committed; row locks taken in the vendor's order | failed syncs are visible, findings agree with feeds and correlations |
| Vendor adapters `connectors/crowdstrike.py` and nine more | none | page through a list, retry, give up | each its own loop, its own caps, its own swallowed errors | what is not stored is explained |
| Scheduler `connectors/scheduler.py` | `_running_syncs`, 24-hour gates, refresh lock; all in memory | tick, trigger, dispatchers | restarts and replicas forget the gates; detached tasks overlap | one sync per connector, a due job eventually runs |
| Status endpoints `vulnerabilities/router.py`, `service.py` | finding status, snooze, ignore, suppression | status, snooze, ignore, suppress and their inverses | the same rows and the same score written by overlapping requests | a human decision is not undone in bulk |
| SLA `vulnerabilities/sla_service.py` | due date, breached flag, the tenant's days | assign, check, recalculate | recalculation against the check and against tickets | breached when past due, metrics that add up |
| Correlation `vulnerabilities/correlation_service.py` | one row per CVE and asset seen by two sources | group, upsert, prune | a full recompute per sync, of what it can see | exactly the groups with two sources |
| Asset rows `connectors/*_sync.py`, `assets/classification.py` | hostname, serial, user, owner, sources | match a record to a row | names, serials and users that are missing or shared | a device's records meet in one row |
| Exposure context `assets/exposure.py`, `groups_*.py` | three fields with their source | infer, override, group override | precedence under membership changes | asset override beats group beats inference |
| AI explanations `ai/explain.py`, `cache.py`, `budget.py` | Redis cache and in-flight key, spend ledger | explain | lock without owner token, time-to-live, budget check-then-act | bounded overlap, spend near the budget |
| AI batch `ai/batch.py` | `ai_batch_jobs`, ledger, cache | prewarm, poll, expire | paid batch before its row is committed, overlapping polls | a completed batch has delivered all |
| Ticketing `ticketing/service.py`, `providers.py`, `dispatch.py` | tickets per finding, external tasks | create, link, sync status, list | external call before commit; duplicate creation; a ticket is a group of rows | bounded duplicates, one story per ticket |
| Ticket desk `ticketing/router.py` | blocked flag, comments, watchers | block, comment, watch, delete in bulk | long transactions that read, then write | verdicts survive deletions |
| Ticket rules `ticketing/rule_engine.py` | rule schedule and budget | run due rules | repeated runs, partial failure | budget respected |
| Daily ticket sync `ticketing/daily_sync.py` | ticket and finding status | comment, resolve, reopen | overwrites of decisions made meanwhile | remediated only for a completed task |
| Enrichment `connectors/enrichment_feeds.py` | EPSS and KEV reference tables | download, swap, re-propagate | a sync that read the old tables commits after the swap | findings say what the feeds say |
| Encryption `encryption.py` | encrypted columns, key | rotate, decrypt | a running process writes with the old key | every stored secret is readable |
| Password sessions `auth/*.py` | users, history, reset tokens (in memory), JWTs | sign up, log in, refresh, reset, change | stale claims in tokens, check-then-act over awaits | a reset token works once, who is locked out stays out |
| Tenants and users `tenants/router.py` | roles, settings | role, create, deactivate, delete, SSO | two settings that depend on each other, owners who demote each other | SSO is not enforced with LOCAL, a tenant has an owner until owners end it |
| Rate limiter `main.py`, `redis_client.py` | sorted set per client | request | refused requests count too; outage: fail open; the set may be lost | at most the limit in a window Redis answered |
| Alerts `notifications/alerts.py` | notifications | four checks, one commit | mail before commit | no alert missed, none repeated |
| Reports `reports.py` | schedule, last result | scan, send, mark | mail before commit, an error after some were sent | one mail a period |
| Snapshots `vulnerabilities/trends.py` | a row per asset and day | capture | creeping gate, restarts, two scoring models | no day skipped twice, no synthetic spike |
| Screens `vulnerabilities/service.py`, `dashboard.py`, `export.py` | none | list, facets, hosts, tiles, files | queries that must agree; ties in an order; pages by offset | no finding lost or shown twice |
| Audit, CSPM, search, certificates, e-mail, front end, infrastructure | rows and files | CRUD, rendering, I/O | little of their own | see `PROJECT.json` |

How they interact: the scheduler's loop triggers syncs (detached tasks), ticket
rules, the SLA check, ticket syncs, alerts, reports, AI batches, the backfill
and the enrichment refresh. A sync writes assets and findings, then correlates
and scores them in the same transaction. The backfill writes the same scores
from its own transactions. The cutover gate trusts the backfill's status.
Ticket syncs and people write the same status column. Apart from the per-process
sync table, the reset tokens and one `asyncio.Lock`, everything meets in
PostgreSQL or Redis.

## 2. Modules

| Modules | Of | Run | Section |
|---|---|---|---|
| `RiskBackfill`, `BackfillContract` | the migration of scores | `backfill_safety`, `backfill_liveness` | 3 |
| `RiskCutover`, over `BackfillContract` | the gate of the new scores | `cutover_safety`, `enable_only_fresh` | 4 |
| `AiExplain`, `AiBatch` | explanations, nightly batches | `explain_streams`, `batch_jobs` | 5 |
| `Ticketing` | tickets and what keeps them in step with the tracker | `ticket_makers`, `ticket_sync` | 6 |
| `TicketDesk` | what people do with tickets | `findings` | 6 |
| `ConnectorSync`, extending `VendorFeeds` | syncs, from the schedule to the last page | `connector_sync` | 7 |
| `Sessions`, `AccountWrites`, `PasswordPolicy`, `KeyRotation`, `RateLimiter` | who gets in, what is kept secret | `access` | 8 |
| `Inventory`, extending `RiskScoring`; `AssetContext`, `AssetRecords` | what is stored of findings and assets | `inventory` | 9 |
| `SlaClock`, `Suppression`, `Alerts`, `Reports`, `DailySnapshots`, `FindingScreens` | what happens to findings afterwards | `findings` | 10 |

`MCxxx` modules hold the instances for TLC, eight `xxxProofs` modules the
theorems: `RiskExposureProofs` (sections 3 and 4), `AiExplainProofs` and
`AiBatchProofs` (5), `TicketingProofs` (6), `ConnectorProofs` (7), `AccessProofs`
(8), `InventoryProofs` (9), `FindingsProofs` (10 and the desk of 6). A theorem about
a component speaks of that component's specification (`SlaSpec`, `DeskSpec`,
`RecordsSpec` and so on: its Init, its Next, its variables).

Modules that do not write each other's state in the code share a run: the variable
`machine` of `MCAccess`, `MCInventory` and `MCFindings` says which of them a
behaviour follows, and the others rest in one initial state; within the bounds
every action of each of them is taken.
Properties named `...Sound` (and `BoundsHold`, `StreamsSettle`, `SyncsGoOn`,
`FindingsAgree`, `ContextStands`, `RecordsFollow`, `DueDatesFollow`) are
conjunctions of the module's type invariant and the named properties beside
which they stand, each with its own comment; a run checks the conjunction.

What is left to do, in order: the jobs of one round of the scheduler in one
module; the cache hits of `AiExplain`.

## 3. The backfill (`RiskBackfill`, `BackfillContract`)

### Model and code

`RiskBackfill` is one tenant's job. `job` is its row; `known`, `active`,
`inputs` and `score` are the findings (a score is the revision of the inputs it
was computed from, or `Unscored`). A worker is one call of
`process_backfill_chunk`: a scheduler tick in this process or in another
replica. Its program counter marks the points at which other transactions can
get in between:

| Action | Code (`risk_backfill_service.py`) |
|---|---|
| `Enqueue` | `enqueue_backfill_job`, 73-107 |
| `Claim` | the claiming UPDATE, 141-171 |
| `SelectChunk`, `SelectNothing` | the keyset query and the scoring, 173-229 |
| `CommitChunk` | bulk UPDATE, cursor, count, commit, 249-287 |
| `CommitCompleted` | the empty chunk, 190-198 |
| `ChunkError`, `MarkFailed` | the handler of `dispatch_backfill_chunks`, 331-340: rollback first, then a second transaction |
| `Crash` | the process dies; PostgreSQL rolls back |
| `SyncUpsert`, `SyncRead`, `SyncCommit`, `SyncFail`, `SyncAbort` | `run_sync` and `_run_single_sync`: a failed sync still commits its upserts |
| `Reopen`, `Close`, `ReviseInputs` | status endpoints, enrichment, asset edits |

The claim's heartbeat test is not a guard of the model: claim, work and the
reset to NULL share one transaction, so no committed state has a heartbeat. What
excludes the second tick is the row lock of the claiming UPDATE (`lock`).
`enqueued` and `counted` are history: the findings open at the enqueue and ever
since, and the findings of committed chunks.

`BackfillContract` is what the cutover gate relies on: a status and a shrinking
debt, where only a job without debt completes. `ImplementsContract` maps the
debt to the owed findings without a score.

### Runs

| Run | Bounds | Shows |
|---|---|---|
| `backfill_safety` | 3 findings, chunks of 2, 2 workers, 1 input revision | `MigrationSound` (`TypeOK`, `RowsMigratedExact`, `OwedMigrated`, `ClaimIsExclusive`), `ImplementsContract` |
| `backfill_liveness` | 2 findings, chunks of 1, 2 workers | `JobSettles`, `OpenFindingsScored` |

Three findings and chunks of two give a full, a partial and an empty chunk and
a row on either side of the cursor; two workers give every overlap of two
ticks, and a third would only wait for the same row lock. One revision is
enough for a score to be stale. `MaxRev` is the only artificial bound. Workers
are a symmetry set in the safety run only.

Fairness (`FairSpec`): the loop dispatches a tick every minute and a connector
falls due again and again, so `Claim` and `SyncUpsert` keep being tried; a tick
may crash and a sync may fail any number of times, but not every time, hence
strong fairness on the steps a failure can preempt. Nothing is assumed of
people, of failures or of crashes.

### Proofs (`RiskExposureProofs`)

For any number of findings, any chunk size and any set of workers, from
`BackfillAssumption` alone: `MigrationIsSound`, made of `TypeCorrect`,
`CountIsExact`, `CompletedOwesNothing` and `ClaimExcludes`, and `Refinement`,
that the job implements `BackfillContract`. None of the properties is inductive. `Inv` adds
`LockInv` (a transaction past its claim holds the row lock, works from the
committed cursor and sees a claimable job), `CursorInv` (what was counted lies
at or below the cursor, a chunk in flight above it), `OwedInv` (nothing owed is
left behind the cursor or below the end of a chunk in flight) and `NoJobInv`.
The count is exact because a chunk and the counted findings lie on different
sides of the cursor; the debt is paid because a chunk takes *every* selectable
row up to its last one. The refinement maps every step to a step of the contract
or to a stutter, with `Inv` to show that only a job without debt completes.

## 4. The cutover gate (`RiskCutover`)

A request is one call of acknowledge or enable in `risk_cutover_service.py`. It
reads the tenant, re-checks the job, lists the rules, lists the filters, and
counts each threshold with two queries, one statement at a time and without a
lock; every statement sees what is committed when it starts. Between any two of
them a rule or a filter is edited (an edit of a filter rewrites the rules linked
to it), a sync rewrites scores, or the job makes a step `BackfillContract`
allows. `disturbed` is history: the requests during which something committed.

| Run | Bounds | Shows |
|---|---|---|
| `cutover_safety` | 2 requests, 1 asset, 1 rule linked to 1 filter, scores 0..1, 2 writes | `CutoverSound` (`CutoverTypeOK`, `GateOwesNothing`), `UndisturbedEnableIsFresh` |
| `enable_only_fresh` | 1 request, 1 write | violated: an edit between the diff and the commit enables a cutover nobody has acknowledged |

Two writes tear a diff apart and can put it together again; a second asset or
rule only repeats what one does, since each is counted by statements of its own.

`RiskExposureProofs` proves, for any sets of requests, assets, rules and filters:
`CutoverIsSound`, which is `CutoverTypeCorrect` and `GateSound`, with `DebtInv` (a request that is under way, and
whatever it leaves behind, has found a job that owes nothing) and `IdleInv`; and
`EnableSound`, with `KnowsInv`: what an undisturbed request has listed, half
counted and counted are pieces of one snapshot (`Pieced`).

## 5. AI explanations (`AiExplain`) and batches (`AiBatch`)

A stream of `AiExplain` is one call of `_run_explain_stream`: budget, guard, at
most two provider calls, verdict, cache, audit row, replay, with every error
path and the abort of the client. The guard is a Redis key without an owner
that may expire under a call (`GuardExpires`); a stream may end without its
`finally` (`Vanish`). A call costs one unit.

A prewarm of `AiBatch` is one run of `run_batch_prewarm` for the tenant, a
poller one run of `poll_pending_batches`. Both are detached tasks, so they
overlap, and each may die between the provider and its commit. The provider
decides the outcome of each request and ends a batch.

| Run | Bounds | Shows |
|---|---|---|
| `explain_streams` | 2 streams, budget 2, 1 unit of prewarm, 2 expiries, 1 death | `BoundsHold` (`TypeOK`, `OvershootBounded`, `OverlapBounded`), `RowPerAttempt`, `StreamsSettle` (`StreamEnds`, `GuardFreed`) |
| `batch_jobs` | 2 findings of 2 revisions, 1 batch, 1 prewarm, 2 pollers, budget 3, 1 failure | `ResultsSound` (`TypeOK`, `CompletedDelivered`, `CacheFaithful`), `RepeatsBounded`, `JobCompletes` |

Two streams overlap in every pair of stages and two expiries let the late
release of one free the guard of the other. Two pollers and one failure repeat a
result by overlap and by resumption; a second batch shares no state with the
first but the cache, whose keys name the revision, and the spend.

Fairness: a stream's steps are taken (the event loop runs it, and the client's
time-out ends a call) and Redis expires the key. The scheduler starts a poller
every minute, a poller works on, and the provider ends a batch within its 24
hours. A poller fails a finite number of times. `JobCompletes` assumes, in its
statement, that the tenant keeps its key.

`AiExplainProofs` proves `OneRowPerAttempt` and `BoundsAreSound`, which is
`TypeCorrect`, `OverlapSound` and `OvershootSound`, for any streams and any
budget. The attempts and rows of a
stream are tied by `AttemptInv`; the two bounds are inductive with it, by
lemmas on what adding and removing one stream does to a cardinality.
`AiBatchProofs` proves `ResultsAreSound`, which is `TypeCorrect`, `CacheSound`
and `CompletedSound`, and `RepeatsSound` for any findings, batches, prewarms and pollers. `IdInv` says
which prewarm holds which batch, `JobInv` that a completed row has its results,
`PollInv` where a poller stands (what it has passed has a row and a cached
text), and `CountInv` that the rows of a result are at most the pollers past it
and the failures so far.

## 6. Tickets (`Ticketing`, `TicketDesk`)

In `Ticketing` a task is what the tracker holds, a row links a task to a
finding. A maker is a session that opens tasks: `POST /tickets`, `POST
/tickets/host` or a run of a rule. A sync is a session that reads tasks and
writes rows and findings: the daily job, `POST /tickets/sync-status`, or
`close_ticket`.

| Action | Code (`ticketing/`) |
|---|---|
| `Request`, `RunRule` | the endpoints (`router.py`, 268-329); `run_rule` with its budget (`rule_engine.py`, 145-242) |
| `Skip`, `RaiseInCheck`, `Create`, `CreateLost` | the duplicate checks up to `client.create` of the three functions in `service.py` |
| `Link`, `RaiseInLink` | the rows and statuses after it |
| `Commit`, `MakerFails` | the end of the session; the scheduler commits after an exception, a request rolls back |
| `ListTickets`, `ReadTask`, `ReadFails` | the first pass of a sync |
| `SecondPass`, `AutoClose` | the second pass |
| `CloseTicket` | `close_ticket` |
| `CommitSync`, `SyncFails` | the commit of a sync, which for the daily job depends on what could be read |
| `SetStatus`, `DeleteTicket`, `TaskClosed`, `TaskReopened` | people, here and in the tracker |

The duplicate check and the creation of a task are one action: what lies between
them touches nothing others see. The rows are another, since the call takes
seconds and other sessions commit meanwhile. A scheduler session that runs
several rules is one maker per rule. Which assets match a rule is any set.

`TicketDesk` is what people do with tickets that exist. A ticket is the group of
rows with one `external_ticket_url`; the list shows one of them per ticket, and
the page that opens, its comments and its watchers belong to that row.

| Action | Code (`ticketing/router.py` unless named) |
|---|---|
| `OpensTask`, `ClosesTask` | rows of a new task; a completed task settles its findings (`service.py`) |
| `SetsVerdict` | the status endpoints of `vulnerabilities/router.py` |
| `BulkBlocks`, `BlocksFromPage` | the blocked flag of all rows of a ticket, from the list or from a page |
| `OpensTicket`, `Notes`, `Unwatches` | the page opened from a filtered list, comments and watchers on it |
| `RemovalBegins`, `RemovalReads`, `RemovalCommits`, `RemovalFails` | bulk delete: rows, then each finding read and written, one transaction |
| `CountsAll`, `CountsOpen`, `StatsAreRead` | the two queries of `get_ticket_stats` |

A bulk deletion reads a finding before it writes it, and the row stays locked
until its commit; whatever others do in between is interleaved. `byHand` is
history: the findings whose status was last set by a person.

| Run | Bounds | Shows |
|---|---|---|
| `ticket_makers` | 1 finding, its host and its remediation, 2 makers, 1 request that syncs or closes, 3 tasks, 1 edit | `DuplicatesBounded` |
| `ticket_sync` | 2 findings on a host, 1 maker, 1 daily job, 2 tasks, 1 edit, 1 failure | `RemediesSound` (`TypeOK`, `RemediedForCause`), `DueTicketsResolve` |
| `findings` (section 10), in part | 2 tickets with a finding in common, 1 person, 2 deletions, 2 writes | `DeskSound` (`NotesStay`, `ListedAsOnPage`, `InProgressForCause`, `TallyForCause`), `SuppressedStay` |

Three tasks leave room for one row more than there are makers. An edit is a
status set by a person, a task reopened or a ticket deleted; one is enough to
make a session's reading stale. Two tickets that share a finding and two
deletions give every overlap of two removals; two writes are a task and whatever
is done to it next. `CHECK_DEADLOCK FALSE`: with the tasks used up and
every ticket settled nothing is left to do. Fairness is assumed of the daily
job only: the loop starts it every day and it runs to its end; failures are
finite in number. `DueTicketsResolve` is about the rows: a close that fails
silently in the tracker still resolves them.

`TicketingProofs` proves `RemediesAreSound` and `DuplicatesAreBounded`, for any
findings, makers, syncs and tasks, from one invariant (`TicketInv`). `RowsFit`
and `SyncsFit`: a task, once opened, is about one unit for good, every row and
everything a sync has read names a task that exists, and what a daily run is
about to remedy it read from a task that was closed. `MakersFit` and `Balanced`: a
session holds rows of one task per finding, and takes them only while the finding
has none but a remediation's, so the rows of a finding that are not a
remediation's and the sessions that hold or are about to take one are together no
more than the makers.

`FindingsProofs` proves of the desk `ListsAgree`, `DeletionsSpareSuppressed` and,
with them, `DeskIsSound`, for any tickets, people and deletions. `RowsInv` says that the
rows of a ticket agree on what is theirs in common, `RemovalsInv` what a deletion
under way has read, has written and therefore still finds when it commits.
`DeskInv` adds that the ids of rows are distinct and those of a finite set, so a
ticket has a first row (`LinesNumbered`), that a page opened from all the rows of
a ticket, and a remark made on one, belong to its first row (`PagesKept`,
`RemarksKept`), that a finding in progress nobody touched by hand has a row that
no open deletion takes without reopening it (`ProgressKept`), and that a first
count no one disturbed is still right (`TallyRight`).

## 7. Connectors (`ConnectorSync`, `VendorFeeds`)

`ConnectorSync` is one connector, of any type: `row` is its
`connector_configs` row, `logs` its sync logs, `running` its entry in
`_running_syncs`, and `sync` the task and what its session will commit. `tick`
is a pass of the scheduler, which decides on rows it has read before.

| Action | Code (`connectors/`) |
|---|---|
| `TickReads`, `TickStarts` | `_scheduler_loop` of `scheduler.py`: the SELECT, then the registry |
| `ClickStarts` | `trigger_sync` of `router.py` |
| `CreateConnector`, `UpdateConnector`, `DeleteConnector` | `router.py`, `service.py`; an update may switch the connector off or on and give it another interval, which may make it due or not |
| `SyncStep` | `_run_single_sync` and the sync it calls: log row, credentials, pages, upserts, health, commit, registry |
| `IntervalPasses`, `Crash` | time; the process restarts with an empty registry |

A connector is one of seven scanners, of the four directories and device managers
that are dispatched, of the two whose sync raises before it does anything (Okta
and Intune), a ticket tracker, or a type without a sync.

`VendorFeeds` is their loops. Each adapter writes its own; a record says how it
addresses the next page (one walk over an answer, a cursor, an offset, a keyset,
a call per item, or a page that never moves), whether it is capped, and what it
does with each bad answer: raise, retry, go to the next item, or end the list as
if it were complete. One machine walks them all while the vendor may drop an
item. Eight of the kinds are `Choosy`: they pass over records they did read, without a
trace in the outcome, because the record names no CVE, QID, host, person or e-mail
address, or the person has no asset. `UnstoredExplained` says that only they do, and
that what a sync reporting `SUCCESS` never read has a reason: a failure its loop
swallowed, the cap, or, where pages are addressed by offset, the removals that
shifted it, an item for each at most. `EarlyOnlyWhenOvertaken` says that a sync
starts inside the interval only when another one committed, or an administrator
changed the interval, between the pass's SELECT and its decision.

| Run | Bounds | Shows |
|---|---|---|
| `connector_sync` | every type; 3 items in pages of 2, caps of 2 pages, 2 attempts, 1 removal; a row or none, 2 syncs, 1 edit, 1 restart | `ConnectorSound` (`TypeOK`, `SingleFlight`, `ScannerHealth`, `LogsEnd`), `UnstoredExplained`, `EarlyOnlyWhenOvertaken`, `SyncsGoOn` (`DueIsSynced`, `SyncEnds`) |

Three items in pages of two give a full page, a short one and an offset that a
removal shifts; two attempts give a retry that succeeds and one that gives up.
Fairness: the scheduler passes every minute (`TickReads`, `TickStarts`), and
every request has a timeout, so a sync goes on (`SyncStep`). `SyncEnds` leaves
out the XML pages of Qualys: their loop finds no id in the upper-case tags, so
`id_min` stays at 1 and it reads the same full page without a cap.
`CHECK_DEADLOCK FALSE`: the syncs are used up.

`ConnectorProofs` proves `ConnectorIsSound`, `UnstoredIsExplained` and the action
property `EarlyIsOvertaken`, for any items, page sizes, caps, attempts, removals
and restarts. `ConnectorInv` counts every task that has not committed once among the
syncs started (`CountsInv`), says which logs a task has open (`TaskInv`) and that
a task reporting `SUCCESS` keeps what its fetch found, or is of a kind that may pass
it over (`KeepsInv`). `FeedOK` is
what a loop knows at its place in the vendor's list: behind it everything is
read, unless a failure was swallowed or the cap met. For an offset there is a third
reason, and it is arithmetic: an item the vendor drops before the offset moves at
most one other across it, so what is missed is no more than the removals. The lemmas on pages (`PageOf`, the least item of a set) rest on the
well-founded order of the subsets of a finite set. `TickInv` says that a pass
that still holds a connector for due, though it is not, has been overtaken.

## 8. Access (`Sessions`, `AccountWrites`, `PasswordPolicy`, `KeyRotation`, `RateLimiter`)

- `Sessions`: the users of a tenant and the tokens they hold. A request is
  judged by its access token alone (`auth/dependencies.py`), rows are read when
  a token is issued. `idle` and `lost` count the ticks since a row was last
  active and since it last had a role.
- `AccountWrites`: sign-up, change and reset of a password, and settings, each
  from its read to its commit (`auth/password.py`, `tenants/router.py`). `raced`
  is history: what another request wrote under an open one. A reset token is
  looked up, then rows are awaited, then it is taken out. The owners' requests
  (role, new user, overwritten password, deletion) and the directory's insertions
  are one step each: what they read decides nothing their commit would not.
  `ruled`, `granted` and `overruled` are history: who was an owner (tokens outlive
  roles), whose role an owner set, whether an owner lost the row or the role.
  Roles are of one tenant's users; the password is of one account that stays.
- `PasswordPolicy`: the merge of a tenant's policy with the floor of a forced
  rotation, as operators over any two policies and any candidate.
- `KeyRotation`: `python -m app.encryption rotate` against a backend that goes on
  with the old key until `.env` is edited and it restarts. One command runs at a
  time, with the key of the backend's container; one may come before the restart
  that the last is waiting for (`pending`), and then meets rows of a key it lacks.
- `RateLimiter`: the sorted set of one tenant as its members and their ages, the
  expiry of its key, outages of Redis, from which it returns with what it held or
  empty. `through`, `free`, `losses` and `dark` are history: the requests let
  through, those that passed in an outage, when the set was lost, when Redis did
  not answer.

| Run | Bounds | Shows |
|---|---|---|
| `access` | 2 users, 2 roles, tokens of 2 ticks, 2 at a time; 2 requests at a time of 3, 2 addresses, 2 passwords, a history of 1; 2 connectors, 3 entries, 2 rotations; 2 requests per window of 2 ticks, 5 in all; 2 kinds of characters, lengths up to 2 | `TokensSound` (`AuthorityRecent`, `GateHolds`), `LockedOut`; `AccountsSound` (`FirstUserOwns`, `TokenSpentOnce`, `OldPasswordsStayOut`, `SsoHasProvider`, `FloorNeverWeakens`); `KeysSound` (`CredentialsReadable`, `CredentialsKept`, `RefusedForCause`); `LimiterSound` (`AtMostLimit`, `LossStartsAnew`) |

Two users are an admin and someone the admin changes; two ticks tell a token
issued before a change from one that outlives it. Two requests give every race;
the third shows what the race left behind. Writes start without a user or with an
owner, so that three requests are enough to end the tenant's last owner. Two
rotations run into entries made under the first, or into its restart. Five
requests fill a window of two twice over, and see a loss between. Fairness: time passes (`Tick`), which is all `LockedOut` needs.
`CHECK_DEADLOCK FALSE`: the requests are used up.

`AccessProofs` proves the four invariants, each for any bounds:

- `TokensCarryRecentAuthority` (`SessionsInv`): an account that has a role now, or
  is active now, was so last now (`AgesFollow`). With it both promises about tokens
  are inductive, since a token is issued from the row and ages with the counters.
- `AccountsAreSound` (`WritesInv`): somebody owned the tenant before anybody else
  had a row, and whoever did still does until an owner ends it (`OwnersKnown`); a
  sign-up that found no user commits first (`OneFounder`), a token that was used is
  gone and no other request has it, a password a user replaced is in the history as
  far from its end as it is from the last one (`Remembered`), what a change read of
  the history stands, and an update of the settings is judged on settings that
  stand; each unless `raced` names what was written under the request.
- `RotationKeepsCredentials` (`KeysInv`): what the command has read is in the
  table, or was written after it was read, and is under the old key unless an
  earlier rotation missed it or waits for the restart.
- `WindowHolds` (`LimiterInv`): a request Redis counted and let through within the
  window is a member of the set, or was one when the set was lost, last time or
  earlier; and the key lives at least as long as it counts. Hence the set a request
  is judged by holds all those let through since the last loss, and what was lost
  with it is one window's worth.

## 9. Findings and assets as stored (`Inventory`, `RiskScoring`, `AssetContext`, `AssetRecords`)

- `Inventory`: the findings of one asset under syncs of two scanners, the
  nightly refresh of EPSS and KEV, and edits. A transaction (`tx`) has what it
  has written; a write waits for the row, a cycle of waiting transactions ends
  with one rolled back. A sync touches the asset, looks a CVE up in the feeds,
  upserts, correlates, scores and rolls up; `CommitsPartly` is a sync that fails
  and commits what it has. The refresh swaps the tables, then re-propagates.
- `RiskScoring`: `score_finding` in hundredths of points, for any two findings of
  which one differs from the other in a signal. CVSS and EPSS are any number the
  columns hold, or absent; the native score is any integer.
- `AssetContext`: the three tiers of exposure, as transactions that load, decide
  and commit the columns they changed. `contested` and `apart` are history.
- `AssetRecords`: to which row a vendor's record of a device goes. A fleet says
  what each vendor knows of each device; a step stores one record. Scanners
  match by hostname, Jamf by serial, user or name, Humaans by person.

| Run | Bounds | Shows |
|---|---|---|
| `inventory` | 2 scanners, 1 CVE, 2 syncs, 1 refresh, 1 edit; each signal absent, weak, strong, below and beyond its scale; 1 asset, 2 groups, 2 transactions at a time of 3; 2 devices, 4 fleets, 6 records | `FindingsAgree` (`FeedsReachFindings`, `CorrelationsTrue`), `AloneSettles`, `TransactionsEnd`; `ScoresSound` (`Bounded`, `Monotone`, `Floored`); `ContextStands` (`OverridesStand`, `GroupsReachAssets`); `RecordsFollow` (`StrayForCause`, `SerialKept`, `OwnerForCause`, `OneFinding`, `StopsForCause`) |

Two scanners, a refresh and an edit are one writer of each kind and two of the
kind that correlates; the asset's row, the findings and the correlation are the
rows over which they can deadlock. Two overrides of one asset's groups are
enough to have an order. Fairness: a transaction that can go on does, and
PostgreSQL finds deadlocks (`InventoryFairness`).

`InventoryProofs` proves:

- `ScoresAreSound`, and in it `ScoresBounded`, `ScoresMonotone` and `ScoresFloored`,
  for every input, a native score of any integer included. The range needs CVSS and
  EPSS on their scales, the order holds for all they can be but a CVSS added for a
  label worth more and an EPSS added below zero. `PartsBounded` and
  `PartsMonotone` bound and order the seven parts, `RoundedNear` and
  `RoundedMonotone` carry this over the rounding.
- `FindingsStayAgreed` and the action property `LoneSyncSettles`, for any
  scanners, CVEs and numbers of syncs, refreshes and edits. `InventoryInv` is a
  statement per transaction about what it sees, its own writes over the committed rows:
  a finding it has looked up says what the feeds say unless it looked before the
  swap (`LookInv`); the sources it has counted are those of the rows it sees
  unless a commit since changed them (`CountInv`); the scores it has read are
  those of its rows as long as it is alone (`ScoreInv`); a refresh has written
  what its new tables say (`FeedInv`). A commit carries this into the store.
- `ContextAlwaysStands`, for any assets, groups and transactions. `ContextInv`:
  a transaction nobody met while it was open holds the rows of the store and the
  decision it would take now; the override in force was there when a row was loaded; and an
  asset that joined a group behind such a transaction is in `apart`.
- `RecordsAlwaysFollow`, for any devices, fleets, people and records. `RecordsInv`
  is stronger than what is promised at one point: *each* device of a row of two can be
  taken for another (by a name, a user or the lack of one), because a row
  that loses a serial number to another device must excuse the loss then.
  One device of a row has its name, every other the name or a user of one before
  it; serial, login and owner come from a device of the row.

Two things TLC showed on the way. A correlation pass that overlaps another may
leave a row the other has made stale, until the next pass (which is why
`CorrelationsTrue` names `unseen`). And the names by which the script finds a
device must be those of the fleet, not those the rows happen to have at the time:
a later row with the short name would hide why an earlier one was met.

## 10. Findings afterwards (`SlaClock`, `Suppression`, `Alerts`, `Reports`, `DailySnapshots`, `FindingScreens`)

- `SlaClock`: due dates, flags and tickets under changes of the tenant's days.
  The scheduler's round and a recalculation are transactions of several UPDATEs:
  the configuration is read once, then the severities are stamped in turn, flags
  set, flags cleared, tickets followed, and all is committed or fails. What a job
  has written is an overlay, `writes`, which only it sees and which locks the rows;
  an UPDATE that waits is taken to read when its wait ends. The metrics are three
  counts, each of the rows then committed. `POST /sla/backfill` is the round's
  statements by hand and is not modelled again. `unchecked` and `arrived` are
  history: findings a round has passed before they were open, and `lagging`
  whether a ticket's date was read before a member's was moved.
- `Suppression`: the requests that close and open findings one by one, by CVE
  and by remediation, and the score of their asset (`ScoreOf`, any function of the
  open findings), which some of them compute.
- `Alerts`: a run finds, mails and at its end commits for all tenants. It may be
  lost before the commit. `said` is history: the last announcement of each key.
- `Reports`: a run reads the reports and their schedules, mails each that is due,
  marks it, and commits once. A report edited after that is mailed by the schedule
  that was read, a deleted one as well; the mark of the latter is what fails.
- `DailySnapshots`: the capture after a ticket sync, 24 hours after the last one;
  the alert that compares with yesterday's snapshot, by the model in force.
- `FindingScreens`: list, facets, hosts, tiles, dashboard, remediations and files
  as operators on one set of rows; a walk through the pages takes several
  requests.

| Run | Bounds | Shows |
|---|---|---|
| `findings` | 2 findings, 2 configurations, 3 days, 3 changes; 2 findings, 2 bundles, 2 requests at a time of 3; a lookback of an hour, 3 hours; 2 reports, due after 1 or 2 parts, 3 requests; days of 3 parts, rounds up to 2 parts apart, 3 days, 1 move; 4 findings on 2 hosts, pages and files of 2, 5 filters, 3 writes; the desk of section 6 | `DueDatesFollow` (`MetricsAddUp`, `FlaggedInTime`, `TicketDueFollows`, `ComplianceStands`); `SuppressionSound` (`ScoreFollows`, `VerdictsStand`); `AlertsSound` (`AlertsComeInTime`), `NoRepeatedAlert`; `ReportsSound` (`FailureIsTold`, `MailSpacing`); `SnapshotsSound` (`SnapshotsKeepUp`), `NoSyntheticSpike`; `ScreensSound` (`WalkSeesAll`, `FacetsLeadToLists`, `OwnSourceShown`, `ScreensAgree`, `ExportForCause`); the desk's |

Three days are a due date, its breach and a day after. In three hours an
alert is made, stands, and is made again. Rounds two parts apart in days of
three make the capture drift over a midnight. Pages of two of four findings have
a first, a last and an empty page. The identities of requests are a symmetry set.
`CHECK_DEADLOCK FALSE`: days, hours and changes are used up.

`FindingsProofs` proves the properties of all these, each for any bounds and with
an invariant of its own:

- `DueDatesAreFollowed` (`DuesInv`): an open finding the scheduler has seen is
  flagged or was due yesterday at the earliest (today, once it went round); what a
  job has written differs from the row in date and flag only, never of a finding
  that is closed, and what the round has passed has a date and a flag by its stage
  (`Covered`); the ticket, the one that is being made and the one a recalculation
  is to write have the earliest due date of their findings unless one was moved
  since; and what has been counted still holds of the rows not written since.
- `SuppressionIsSound` (`RequestsInv`): open requests have written different rows
  (the row locks), what one has written still has the status it was found by, and a sum
  nobody has overtaken is the score of the rows as its request sees them.
- `AlertsNotRepeated` and `AlertsAreSound` (`AlertsInv`, `ToldInv`): the last announcement
  of a key, unless it was undone, stands as a notification or lies in the run under
  way; a subject the run in this hour has passed is told, and one it has not is still to do.
- `ReportsAreSound` (`ReportsInv`): mail is as old as its mark unless the mark was
  lost, what a run has still to mail has waited the period it read, a failure is
  older than no mail but one not marked yet.
- `SpikesAreReal` and `SnapshotsAreSound` (`SnapshotsInv`, `KeepUpInv`): a snapshot taken
  after the last move holds both models' scores as they are now; a round is never
  later than its sleep allows, one that goes well has a snapshot of its day or of
  the day before, and a sync that was not lost one taken since, for any length of
  day.
- `ScreensAreSound` (`ScreensInv`): of a walk beside which nothing was written, the
  total is that of the list, and a finding that ties with no other was shown once
  when the pages read reach its place, and never before; a correlation has two
  sources or none. The rest holds of any rows: a list splits by host, severity and
  status, the open findings by asset, a remediation's by product. The theorem assumes
  a finite set of findings with known severities and filters of the form the code
  parses (`ScreenBounds`).

Sums, orders, minima and maxima over finite sets would need induction over data.
Here a sum is the number of members of a disjoint union, `SumOver`, and equals the
whole by a bijection (`SumOfParts`); a minimum or maximum is the value that no
other passes; that one exists, and that any findings have a sorted order
(`OrdersExist`), comes from the well-founded order of the subsets of a finite set
(`FS_StrictSubsetOrderingWellFounded`).

## 11. Disagreements met while modelling

`enable_only_fresh` is the one run TLC finds violated; its line is quoted in
`PROJECT.json` under `findings`. Others were met, and the models follow the code:

- A snooze of findings says "Snoozed … for 1h" (`microcopy.ts`, 73), and nothing
  opens them again (`vulnerabilities/router.py`, 457).
- A completed backfill may leave findings a sync has yet to roll up, so the diff
  counts their assets at no score.
- A rejected or blocked answer of the provider is paid for and books no cost.
- A batch whose prewarm dies before its commit is never polled.
- A host whose findings had a ticket before gets a further task from a rule.
- A sync that reports `SUCCESS` may have swallowed the failure of a page.
- Comments and watchers belong to whichever row was opened. The list opens the
  least id among the rows a filter leaves, while the docstrings
  (`ticketing/router.py`, 571, 611, 696) speak of a canonical first ticket.
- A bulk deletion says it reopens what "this ticket" changed
  (`ticketing/router.py`, 457); it reopens any remediated or started finding of it.
- The list of tickets counts the rows its filter leaves in `vuln_count` and all of
  them in `critical_count`; the tickets' statistics subtract two readings.
- The tiles and the navigation count findings in progress as open, the statistics
  do not; the assets by category include ignored ones.
- "Within SLA" subtracts three counts of three moments (`sla_service.py`, 126-164)
  and can fall below zero beside a commit.
- CVSS and EPSS are scored as sent, not clamped as the native score is
  (`risk_exposure_service.py`, 187-221): a CVSS above 10 leaves 0..100, and one that
  comes in for a label worth more lowers the score.
- An empty `idp_provider` does not pass the check of `tenants/router.py` (160), but
  leaves SSO enforced once it is (171). A password set by `POST /users` (326-327)
  replaces one that no history keeps. An owner may demote the last owner.
- A second `rotate` before the restart is refused for the rows of the first, though
  "the old key is still active" is what the command then prints (`encryption.py`, 359).
- A Redis that returns empty starts every window anew; while it is down nobody is
  counted (`main.py`, 227-234).
- `enrich_assets.py` (134) stores the sources of an asset as an object, and the
  next scanner sync of that row raises.
- The docstring of `assets/router.py` (735-736) says that the recompute skips
  assets with a `GROUP_OVERRIDE`; `exposure.py` (381-383) resolves them anew.

## 12. What is only model-checked, and what is not modelled

Liveness stays with TLC (`JobSettles`, `OpenFindingsScored`, `StreamsSettle`,
`JobCompletes`, `DueTicketsResolve`, `SyncsGoOn`, `TransactionsEnd`, `LockedOut`):
fairness is out of the prover's reach. Every invariant and action property a
passing run checks is a theorem about all values of the constants; the runs show
on small instances that the theorems are not empty, and with their mutants that a
slip in the code would break them.

Some hazards are in the text and in no property: a task is opened before its row
is committed, so a lost answer leaves a task nobody knows of; batches in flight
are not in the spend the budget sees; an abort between the provider's answer and
the commit of the audit row leaves neither row nor cost. A model of these says
only that they happen.

Not modelled: search, CSPM and its mappings, certificates and e-mail rendering
(queries and formatting over rows of their own); the prompt builder, grounding
and the AI endpoints around `explain` (text); the mapping of vendor fields to
columns (data; the identity of a record is in `AssetRecords`); the providers'
field mapping of tickets; the audit log (appended in the transaction of what it
records); OIDC against an identity provider; a change of a user's address; seed
data and its users, the application's wiring,
the front end and deployment. Arithmetic on asset scores and the text of comments
and prompts are abstract. `PROJECT.json` gives each component's status.
