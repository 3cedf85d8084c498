---------------------------- MODULE RiskBackfill ----------------------------
(***************************************************************************)
(* The historical risk-exposure backfill of ONE tenant                     *)
(* (vulnerabilities/risk_backfill_service.py), run against everything that *)
(* writes the same rows while it is under way: overlapping dispatch ticks  *)
(* or replicas (Workers), scanner syncs that insert and re-score findings, *)
(* endpoints that open and close findings, and edits of scoring inputs.    *)
(*                                                                         *)
(* The database runs at READ COMMITTED: a statement sees what is committed *)
(* when it starts, and a transaction that updates a row another one has    *)
(* updated waits for it, then re-evaluates its WHERE clause.  What a       *)
(* transaction wrote becomes visible in the action that commits it.        *)
(***************************************************************************)
EXTENDS Integers, FiniteSets

CONSTANTS
    NumFindings,   \* findings of the tenant, in the order of their ids
    ChunkSize,     \* RiskExposureBackfillJob.chunk_size
    Workers,       \* dispatch ticks that may overlap, in one process or several
    NoWorker,      \* nobody holds the row lock of the job
    MaxRev         \* bound: how often the scoring inputs of a finding change

ASSUME BackfillAssumption ==
    /\ NumFindings \in Nat
    /\ ChunkSize \in Nat \ {0}
    /\ NoWorker \notin Workers
    /\ MaxRev \in Nat

Ids == 1..NumFindings

\* risk_model_version IS DISTINCT FROM RISK_MODEL_VERSION: the finding carries
\* no score of the current model.
Unscored == -1

VARIABLES
    known,     \* committed findings
    active,    \* the known findings whose status is OPEN or IN_PROGRESS
    inputs,    \* id -> revision of its committed scoring inputs
    score,     \* id -> revision its committed score was computed from, or Unscored
    job,       \* the tenant's row of risk_exposure_backfill_jobs
    lock,      \* the worker whose open transaction has updated the job row
    worker,    \* worker -> its transaction: program counter and local variables
    sync,      \* the scanner sync's transaction
    enqueued,  \* history: findings open at the enqueue and ever since
    counted    \* history: findings of the committed chunks

dbVars == <<known, active, inputs, score>>
vars == <<known, active, inputs, score, job, lock, worker, sync, enqueued, counted>>

JobStatus == {"none", "pending", "in_progress", "completed", "failed"}
Claimable == {"pending", "in_progress"}

\* The inputs a transaction has read for the given rows.
ReadInputs(rows) == [f \in Ids |-> IF f \in rows THEN inputs[f] ELSE 0]

Idle == [pc |-> "idle", cursor |-> 0, chunk |-> {}, last |-> 0,
         seen |-> [f \in Ids |-> 0]]
NoSync == [pc |-> "idle", fresh |-> {}, rows |-> {}, seen |-> [f \in Ids |-> 0]]

Init ==
    /\ known \in SUBSET Ids
    /\ active \in SUBSET known
    /\ inputs = [f \in Ids |-> 0]
    /\ score = [f \in Ids |-> Unscored]
    /\ job = [status |-> "none", cursor |-> 0, migrated |-> 0]
    /\ lock = NoWorker
    /\ worker = [w \in Workers |-> Idle]
    /\ sync = NoSync
    /\ enqueued = {}
    /\ counted = {}

-----------------------------------------------------------------------------
(* The job row *)

\* enqueue_backfill: the first call inserts the row; every later one returns
\* the row it finds, whatever its status, and changes nothing.
Enqueue ==
    /\ job.status = "none"
    /\ job' = [job EXCEPT !.status = "pending"]
    /\ enqueued' = active
    /\ UNCHANGED <<dbVars, lock, worker, sync, counted>>

\* The claim: UPDATE ... WHERE status IN (pending, in_progress) RETURNING
\* cursor.  It waits while another transaction holds the row.  Claim, work and
\* the clearing of last_heartbeat_at share one transaction, so the committed
\* heartbeat is always NULL and the WHERE clause's staleness test always holds.
Claim(w) ==
    /\ worker[w].pc = "idle"
    /\ lock = NoWorker
    /\ job.status \in Claimable
    /\ lock' = w
    /\ worker' = [worker EXCEPT ![w] = [@ EXCEPT !.pc = "claimed", !.cursor = job.cursor]]
    /\ UNCHANGED <<dbVars, job, sync, enqueued, counted>>

\* The rows of the chunk query before ORDER BY and LIMIT.
Selectable(cursor) ==
    {f \in active : score[f] = Unscored /\ f > cursor}

\* ORDER BY id LIMIT ChunkSize: chunk holds the rows up to the one named last,
\* and is full unless it holds every selectable row.
IsChunk(chunk, last, rows) ==
    /\ last \in rows
    /\ chunk = {f \in rows : f <= last}
    /\ Cardinality(chunk) <= ChunkSize
    /\ Cardinality(chunk) = ChunkSize \/ chunk = rows

\* The chunk query returned rows; their inputs are read and scored in memory.
SelectChunk(w) ==
    /\ worker[w].pc = "claimed"
    /\ \E last \in Selectable(worker[w].cursor) :
         LET rows  == Selectable(worker[w].cursor)
             chunk == {f \in rows : f <= last}
         IN  /\ IsChunk(chunk, last, rows)
             /\ worker' = [worker EXCEPT ![w] =
                   [@ EXCEPT !.pc = "scored", !.chunk = chunk, !.last = last,
                             !.seen = ReadInputs(chunk)]]
    /\ UNCHANGED <<dbVars, job, lock, sync, enqueued, counted>>

\* Mutant: a short chunk is taken for an empty one.
SelectShort(w) ==
    /\ worker[w].pc = "claimed"
    /\ Cardinality(Selectable(worker[w].cursor)) < ChunkSize
    /\ worker' = [worker EXCEPT ![w] = [@ EXCEPT !.pc = "drained"]]
    /\ UNCHANGED <<dbVars, job, lock, sync, enqueued, counted>>

\* The chunk query returned nothing.
SelectNothing(w) ==
    /\ worker[w].pc = "claimed"
    /\ Selectable(worker[w].cursor) = {}
    /\ worker' = [worker EXCEPT ![w] = [@ EXCEPT !.pc = "drained"]]
    /\ UNCHANGED <<dbVars, job, lock, sync, enqueued, counted>>

\* What a chunk's bulk UPDATE does to the scores: it is keyed by id and tenant
\* alone, so it writes every row of the chunk whatever happened to it since.
ScoresAfter(chunk, seen) ==
    [f \in Ids |-> IF f \in chunk THEN seen[f] ELSE score[f]]

\* Mutant: rows_migrated grows by the LIMIT, not by the rows returned.
CommitFullChunk(w) ==
    /\ worker[w].pc = "scored"
    /\ score' = ScoresAfter(worker[w].chunk, worker[w].seen)
    /\ job' = [status   |-> "in_progress",
               cursor   |-> worker[w].last,
               migrated |-> job.migrated + ChunkSize]
    /\ counted' = counted \cup worker[w].chunk
    /\ lock' = NoWorker
    /\ worker' = [worker EXCEPT ![w] = Idle]
    /\ UNCHANGED <<known, active, inputs, sync, enqueued>>

\* The bulk UPDATE, the advance of the job row and their one commit.
CommitChunk(w) ==
    /\ worker[w].pc = "scored"
    /\ score' = ScoresAfter(worker[w].chunk, worker[w].seen)
    /\ job' = [status   |-> "in_progress",
               cursor   |-> worker[w].last,
               migrated |-> job.migrated + Cardinality(worker[w].chunk)]
    /\ counted' = counted \cup worker[w].chunk
    /\ lock' = NoWorker
    /\ worker' = [worker EXCEPT ![w] = Idle]
    /\ UNCHANGED <<known, active, inputs, sync, enqueued>>

CommitCompleted(w) ==
    /\ worker[w].pc = "drained"
    /\ job' = [job EXCEPT !.status = "completed"]
    /\ lock' = NoWorker
    /\ worker' = [worker EXCEPT ![w] = Idle]
    /\ UNCHANGED <<dbVars, sync, enqueued, counted>>

InTransaction(w) == worker[w].pc \in {"claimed", "scored", "drained"}

\* Mutant: the claim outlives the transaction that made it.
KeepClaim(w) == lock' = lock

\* Giving up the transaction also gives up the row lock.
Rollback(w) == lock' = IF InTransaction(w) THEN NoWorker ELSE lock

\* An exception while the tick works on the tenant (the claim, a deadlock with
\* a sync's row locks, a lost connection): dispatch_backfill_chunks rolls back
\* and goes on to mark the job.  A tick can also fail before it claims.
ChunkError(w) ==
    /\ \/ InTransaction(w)
       \/ worker[w].pc = "idle" /\ job.status \in Claimable
    /\ Rollback(w)
    /\ worker' = [worker EXCEPT ![w] = [Idle EXCEPT !.pc = "failing"]]
    /\ UNCHANGED <<dbVars, job, sync, enqueued, counted>>

\* The exception handler's own transaction: it re-reads the row and sets its
\* status without looking at the one it has.
MarkFailed(w) ==
    /\ worker[w].pc = "failing"
    /\ lock = NoWorker
    /\ job' = [job EXCEPT !.status = "failed"]
    /\ worker' = [worker EXCEPT ![w] = Idle]
    /\ UNCHANGED <<dbVars, lock, sync, enqueued, counted>>

\* The process dies; the database rolls its transaction back.
Crash(w) ==
    /\ worker[w].pc # "idle"
    /\ Rollback(w)
    /\ worker' = [worker EXCEPT ![w] = Idle]
    /\ UNCHANGED <<dbVars, job, sync, enqueued, counted>>

-----------------------------------------------------------------------------
(* What else writes findings *)

\* unsnooze, unignore, unsuppress and the status endpoints: a finding that was
\* not open becomes OPEN; nothing scores it until the next sync.
Reopen(f) ==
    /\ f \in known \ active
    /\ active' = active \cup {f}
    /\ UNCHANGED <<known, inputs, score, job, lock, worker, sync, enqueued, counted>>

\* snooze, ignore, suppress, the status endpoints and closed tickets.
Close(f) ==
    /\ f \in active
    /\ active' = active \ {f}
    /\ enqueued' = enqueued \ {f}
    /\ UNCHANGED <<known, inputs, score, job, lock, worker, sync, counted>>

\* Enrichment re-propagation, an edit of the asset's business context, or a sync
\* that fails after it updated the finding.
ReviseInputs(f) ==
    /\ f \in known
    /\ inputs[f] < MaxRev
    /\ inputs' = [inputs EXCEPT ![f] = @ + 1]
    /\ UNCHANGED <<known, active, score, job, lock, worker, sync, enqueued, counted>>

\* run_sync upserts what the scanner reported: findings it has not seen before
\* are inserted OPEN, uncommitted, under ids (random UUIDs) anywhere in the order.
SyncUpsert(fresh) ==
    /\ sync.pc = "idle"
    /\ fresh \cap known = {}
    /\ sync' = [sync EXCEPT !.pc = "upserted", !.fresh = fresh]
    /\ UNCHANGED <<dbVars, job, lock, worker, enqueued, counted>>

\* An exception after the upserts: run_sync records FAILED and returns, and
\* _run_single_sync commits what the session holds.
SyncFail ==
    /\ sync.pc = "upserted"
    /\ known' = known \cup sync.fresh
    /\ active' = active \cup sync.fresh
    /\ sync' = NoSync
    /\ UNCHANGED <<inputs, score, job, lock, worker, enqueued, counted>>

\* Mutant: a sync scores only the findings it inserted.
SyncReadFresh ==
    /\ sync.pc = "upserted"
    /\ sync' = [sync EXCEPT !.pc = "read", !.rows = sync.fresh,
                            !.seen = ReadInputs(sync.fresh)]
    /\ UNCHANGED <<dbVars, job, lock, worker, enqueued, counted>>

\* compute_finding_risk_scores reads every open finding of the tenant.
SyncRead ==
    /\ sync.pc = "upserted"
    /\ LET rows == active \cup sync.fresh
       IN  sync' = [sync EXCEPT !.pc = "read", !.rows = rows,
                                !.seen = ReadInputs(rows)]
    /\ UNCHANGED <<dbVars, job, lock, worker, enqueued, counted>>

\* The sync's scores, new findings and log commit together.
SyncCommit ==
    /\ sync.pc = "read"
    /\ known' = known \cup sync.fresh
    /\ active' = active \cup sync.fresh
    /\ score' = ScoresAfter(sync.rows, sync.seen)
    /\ sync' = NoSync
    /\ UNCHANGED <<inputs, job, lock, worker, enqueued, counted>>

\* The process dies or the commit fails: nothing of the sync is kept.
SyncAbort ==
    /\ sync.pc # "idle"
    /\ sync' = NoSync
    /\ UNCHANGED <<dbVars, job, lock, worker, enqueued, counted>>

-----------------------------------------------------------------------------

Tick(w) ==
    \/ Claim(w)
    \/ SelectChunk(w)
    \/ SelectNothing(w)
    \/ CommitChunk(w)
    \/ CommitCompleted(w)
    \/ ChunkError(w)
    \/ MarkFailed(w)
    \/ Crash(w)

Sync ==
    \/ \E fresh \in SUBSET Ids : SyncUpsert(fresh)
    \/ SyncFail
    \/ SyncRead
    \/ SyncCommit
    \/ SyncAbort

Next ==
    \/ Enqueue
    \/ \E w \in Workers : Tick(w)
    \/ \E f \in Ids : Reopen(f) \/ Close(f) \/ ReviseInputs(f)
    \/ Sync

Spec == Init /\ [][Next]_vars

\* The scheduler starts a tick every minute, a connector falls due again and
\* again, and neither every tick crashes nor every sync fails: what is reached
\* infinitely often eventually gets through (strong fairness).
Fairness ==
    /\ SF_vars(\E w \in Workers : Claim(w))
    /\ WF_vars(\E w \in Workers : MarkFailed(w))
    /\ SF_vars(\E w \in Workers : SelectChunk(w) \/ SelectNothing(w))
    /\ SF_vars(\E w \in Workers : CommitChunk(w) \/ CommitCompleted(w))
    /\ WF_vars(\E fresh \in SUBSET Ids : SyncUpsert(fresh))
    /\ SF_vars(SyncRead)
    /\ SF_vars(SyncCommit)

FairSpec == Spec /\ Fairness

-----------------------------------------------------------------------------
(* Properties *)

Revisions == 0..MaxRev

Transaction ==
    [pc : {"idle", "claimed", "scored", "drained", "failing"},
     cursor : Ids \cup {0}, chunk : SUBSET Ids, last : Ids \cup {0},
     seen : [Ids -> Revisions]]

SyncTransaction ==
    [pc : {"idle", "upserted", "read"}, fresh : SUBSET Ids, rows : SUBSET Ids,
     seen : [Ids -> Revisions]]

TypeOK ==
    /\ known \in SUBSET Ids
    /\ active \in SUBSET known
    /\ inputs \in [Ids -> Revisions]
    /\ score \in [Ids -> Revisions \cup {Unscored}]
    /\ job \in [status : JobStatus, cursor : Ids \cup {0}, migrated : Nat]
    /\ lock \in Workers \cup {NoWorker}
    /\ worker \in [Workers -> Transaction]
    /\ sync \in SyncTransaction
    /\ enqueued \in SUBSET active
    /\ counted \in SUBSET Ids

\* rows_migrated is exact: however ticks overlap, crash and are retried, it
\* counts every finding of a committed chunk once (risk_backfill_service.py:34).
RowsMigratedExact == job.migrated = Cardinality(counted)

\* A completed job has scored every finding that was open when the job was
\* enqueued and has stayed open, so the cutover gate that trusts "completed"
\* never misses one of them.
OwedMigrated == job.status = "completed" => \A f \in enqueued : score[f] # Unscored

\* While a transaction holds the claim no other tick moves the cursor, so what
\* it adds to the job row continues from the cursor it read.
ClaimIsExclusive ==
    \A w \in Workers : InTransaction(w) =>
        /\ worker[w].cursor = job.cursor
        /\ \A v \in Workers \ {w} : ~InTransaction(v)

\* The migration in one statement: overlapping ticks and crashes neither count a
\* row twice nor leave one behind.
MigrationSound == TypeOK /\ RowsMigratedExact /\ OwedMigrated /\ ClaimIsExclusive

\* A job that is enqueued is eventually completed or failed, although crashes
\* throw chunks away and syncs and users keep changing the findings.
JobSettles == job.status = "pending" ~> job.status \in {"completed", "failed"}

\* Whatever the backfill skips a later sync repairs: an open finding does not
\* stay without a score of the current model.
OpenFindingsScored ==
    \A f \in Ids : f \in active /\ score[f] = Unscored
                      ~> f \notin active \/ score[f] # Unscored

\* What the job owes: findings it still has to score.
Debt == {f \in enqueued : score[f] = Unscored}

\* The job implements the contract the cutover relies on.
Contract == INSTANCE BackfillContract WITH
    Findings <- Ids,
    status   <- job.status,
    owed     <- Debt

ImplementsContract == Contract!Spec

-----------------------------------------------------------------------------
(* The inductive invariant behind RowsMigratedExact, OwedMigrated and       *)
(* ClaimIsExclusive                                                        *)

\* The open transaction that has claimed the job is the holder of its row lock;
\* it works from the committed cursor of a job that is still claimable.
LockInv ==
    \A w \in Workers :
        /\ InTransaction(w) <=> lock = w
        /\ InTransaction(w) => /\ worker[w].cursor = job.cursor
                                /\ job.status \in Claimable

\* What was counted lies at or below the cursor; a chunk in flight lies above it
\* and ends where the cursor will be.
CursorInv ==
    /\ \A f \in counted : f <= job.cursor
    /\ \A w \in Workers : worker[w].pc = "scored" =>
           /\ job.cursor < worker[w].last
           /\ \A f \in worker[w].chunk : job.cursor < f /\ f <= worker[w].last

\* Nothing owed is left behind: not below the cursor, not below the end of a
\* chunk in flight, and nowhere once a tick has found nothing to select.
OwedInv ==
    /\ \A f \in enqueued : f <= job.cursor => score[f] # Unscored
    /\ \A w \in Workers : worker[w].pc = "scored" =>
           \A f \in enqueued : f <= worker[w].last =>
                score[f] # Unscored \/ f \in worker[w].chunk
    /\ \A w \in Workers : worker[w].pc = "drained" =>
           \A f \in enqueued : score[f] # Unscored

\* Before the enqueue there is no cursor and no tick has anything to do.
NoJobInv ==
    job.status = "none" =>
        /\ job.cursor = 0
        /\ \A w \in Workers : worker[w].pc = "idle"

Inv ==
    /\ TypeOK
    /\ LockInv
    /\ CursorInv
    /\ OwedInv
    /\ NoJobInv
    /\ RowsMigratedExact
    /\ OwedMigrated
=============================================================================
