------------------------- MODULE RiskExposureProofs -------------------------
(* Theorems about the backfill, for every number of findings, chunk size, set *)
(* of workers and bound on revisions, and about the cutover gate that relies  *)
(* on it, for any sets of requests, assets, rules and filters.                *)
EXTENDS RiskBackfill, RiskCutover, FiniteSetTheorems, TLAPS

-----------------------------------------------------------------------------
(* The backfill *)

LEMMA ReadInputsType ==
    ASSUME TypeOK, NEW rows
    PROVE  ReadInputs(rows) \in [Ids -> Revisions]
BY BackfillAssumption DEF TypeOK, ReadInputs, Revisions

LEMMA ScoresAfterType ==
    ASSUME TypeOK, NEW chunk, NEW seen \in [Ids -> Revisions]
    PROVE  ScoresAfter(chunk, seen) \in [Ids -> Revisions \cup {Unscored}]
BY DEF TypeOK, ScoresAfter

LEMMA IdleType == Idle \in Transaction
BY BackfillAssumption DEF Idle, Transaction, Revisions

LEMMA NoSyncType == NoSync \in SyncTransaction
BY BackfillAssumption DEF NoSync, SyncTransaction, Revisions

\* What SelectChunk makes of a tick's transaction.
Scored(t, chunk, last, seen) ==
    [t EXCEPT !.pc = "scored", !.chunk = chunk, !.last = last, !.seen = seen]

LEMMA ScoredTransaction ==
    ASSUME NEW t \in Transaction, NEW chunk \in SUBSET Ids, NEW last \in Ids,
           NEW seen \in [Ids -> Revisions]
    PROVE  /\ Scored(t, chunk, last, seen) \in Transaction
           /\ Scored(t, chunk, last, seen).pc = "scored"
           /\ Scored(t, chunk, last, seen).chunk = chunk
           /\ Scored(t, chunk, last, seen).last = last
           /\ Scored(t, chunk, last, seen).cursor = t.cursor
BY DEF Transaction, Scored

\* A chunk as SelectChunk picks it, for the proofs that follow.
LEMMA SelectChunkEffect ==
    ASSUME TypeOK, NEW w \in Workers, SelectChunk(w)
    PROVE  \E last \in Ids, chunk \in SUBSET Ids :
             /\ last \in Selectable(worker[w].cursor)
             /\ chunk = {f \in Selectable(worker[w].cursor) : f <= last}
             /\ worker' = [worker EXCEPT ![w] =
                             Scored(worker[w], chunk, last, ReadInputs(chunk))]
             /\ worker'[w].pc = "scored" /\ worker'[w].chunk = chunk
             /\ worker'[w].last = last /\ worker'[w].cursor = worker[w].cursor
             /\ \A v \in Workers \ {w} : worker'[v] = worker[v]
             /\ ReadInputs(chunk) \in [Ids -> Revisions]
<1>1. PICK last \in Selectable(worker[w].cursor) :
        LET chunk == {f \in Selectable(worker[w].cursor) : f <= last}
        IN  worker' = [worker EXCEPT ![w] =
              [@ EXCEPT !.pc = "scored", !.chunk = chunk, !.last = last,
                        !.seen = ReadInputs(chunk)]]
  BY DEF SelectChunk
<1> DEFINE chunk == {f \in Selectable(worker[w].cursor) : f <= last}
<1>2. worker' = [worker EXCEPT ![w] =
                   Scored(worker[w], chunk, last, ReadInputs(chunk))]
  BY <1>1, Zenon DEF Scored
<1>3. last \in Ids /\ chunk \in SUBSET Ids
  BY DEF Selectable, TypeOK
<1>4. ReadInputs(chunk) \in [Ids -> Revisions]
  BY ReadInputsType
<1> HIDE DEF chunk
<1>5. /\ worker'[w] = Scored(worker[w], chunk, last, ReadInputs(chunk))
      /\ worker[w] \in Transaction
      /\ \A v \in Workers \ {w} : worker'[v] = worker[v]
  BY <1>2 DEF TypeOK
<1>6. /\ worker'[w].pc = "scored" /\ worker'[w].chunk = chunk
      /\ worker'[w].last = last /\ worker'[w].cursor = worker[w].cursor
  BY <1>3, <1>4, <1>5, ScoredTransaction
<1> QED
  BY <1>2, <1>3, <1>4, <1>5, <1>6 DEF chunk

\* A set of findings is finite, so its cardinality is a number.
LEMMA FindingsFinite ==
    ASSUME NEW S \in SUBSET Ids
    PROVE  IsFiniteSet(S) /\ Cardinality(S) \in Nat
<1>1. IsFiniteSet(Ids)
  BY FS_Interval, BackfillAssumption DEF Ids
<1>2. IsFiniteSet(S)
  BY <1>1, FS_Subset
<1> QED
  BY <1>2, FS_CardinalityType

LEMMA TypeInit == Init => TypeOK
BY BackfillAssumption, IdleType, NoSyncType
   DEF Init, TypeOK, Revisions, JobStatus, Unscored

\* One step keeps the types.
LEMMA TypeStep == TypeOK /\ [Next]_vars => TypeOK'
<1> SUFFICES ASSUME TypeOK, [Next]_vars PROVE TypeOK'
  OBVIOUS
<1> USE DEF TypeOK
<1>1. CASE Enqueue
  BY <1>1 DEF Enqueue, JobStatus, dbVars
<1>2. ASSUME NEW w \in Workers, Tick(w) PROVE TypeOK'
  <2>1. CASE Claim(w)
    <3>1. [worker[w] EXCEPT !.pc = "claimed", !.cursor = job.cursor] \in Transaction
      BY DEF Transaction
    <3> QED
      BY <2>1, <3>1 DEF Claim, dbVars
  <2>2. CASE SelectChunk(w)
    <3>1. PICK last \in Ids, chunk \in SUBSET Ids :
            /\ worker' = [worker EXCEPT ![w] =
                            Scored(worker[w], chunk, last, ReadInputs(chunk))]
            /\ ReadInputs(chunk) \in [Ids -> Revisions]
      BY <2>2, SelectChunkEffect
    <3>2. worker' \in [Workers -> Transaction]
      BY <3>1, ScoredTransaction
    <3>3. UNCHANGED <<dbVars, job, lock, sync, enqueued, counted>>
      BY <2>2 DEF SelectChunk
    <3> QED
      BY <3>2, <3>3 DEF dbVars
  <2>3. CASE SelectNothing(w)
    <3>1. [worker[w] EXCEPT !.pc = "drained"] \in Transaction
      BY DEF Transaction
    <3> QED
      BY <2>3, <3>1 DEF SelectNothing, dbVars
  <2>4. CASE CommitChunk(w)
    BY <2>4, ScoresAfterType, IdleType, FindingsFinite
    DEF CommitChunk, Transaction, JobStatus
  <2>5. CASE CommitCompleted(w)
    BY <2>5, IdleType DEF CommitCompleted, JobStatus, dbVars
  <2>6. CASE ChunkError(w)
    <3>1. [Idle EXCEPT !.pc = "failing"] \in Transaction
      BY IdleType DEF Transaction
    <3> QED
      BY <2>6, <3>1 DEF ChunkError, Rollback, dbVars
  <2>7. CASE MarkFailed(w)
    BY <2>7, IdleType DEF MarkFailed, JobStatus, dbVars
  <2>8. CASE Crash(w)
    BY <2>8, IdleType DEF Crash, Rollback, dbVars
  <2> QED
    BY <1>2, <2>1, <2>2, <2>3, <2>4, <2>5, <2>6, <2>7, <2>8 DEF Tick
<1>3. ASSUME NEW f \in Ids, Reopen(f) \/ Close(f) \/ ReviseInputs(f) PROVE TypeOK'
  <2>1. CASE Reopen(f)
    BY <2>1 DEF Reopen
  <2>2. CASE Close(f)
    BY <2>2 DEF Close
  <2>3. CASE ReviseInputs(f)
    BY <2>3, BackfillAssumption DEF ReviseInputs, Revisions
  <2> QED
    BY <1>3, <2>1, <2>2, <2>3
<1>4. CASE Sync
  <2>1. ASSUME NEW fresh \in SUBSET Ids, SyncUpsert(fresh) PROVE TypeOK'
    BY <2>1 DEF SyncUpsert, SyncTransaction, dbVars
  <2>2. CASE SyncFail
    BY <2>2, NoSyncType DEF SyncFail, SyncTransaction
  <2>3. CASE SyncRead
    BY <2>3, ReadInputsType DEF SyncRead, SyncTransaction, dbVars
  <2>4. CASE SyncCommit
    BY <2>4, NoSyncType, ScoresAfterType DEF SyncCommit, SyncTransaction
  <2>5. CASE SyncAbort
    BY <2>5, NoSyncType DEF SyncAbort, dbVars
  <2> QED
    BY <1>4, <2>1, <2>2, <2>3, <2>4, <2>5 DEF Sync
<1>5. CASE UNCHANGED vars
  BY <1>5 DEF vars
<1> QED
  BY <1>1, <1>2, <1>3, <1>4, <1>5 DEF Next

\* Every reachable state is well typed: the job's counters, the ticks'
\* transactions and the sync's stay in their domains.
THEOREM TypeCorrect == Spec => []TypeOK
BY TypeInit, TypeStep, PTL DEF Spec

-----------------------------------------------------------------------------
(* The inductive invariant *)

LEMMA InvInit == Init => Inv
<1> SUFFICES ASSUME Init PROVE Inv
  OBVIOUS
<1>1. TypeOK
  BY TypeInit
<1>2. LockInv /\ CursorInv /\ OwedInv /\ NoJobInv /\ OwedMigrated
  BY BackfillAssumption
     DEF Init, LockInv, CursorInv, OwedInv, NoJobInv, OwedMigrated, InTransaction, Idle
<1>3. RowsMigratedExact
  BY FS_EmptySet DEF Init, RowsMigratedExact
<1> QED
  BY <1>1, <1>2, <1>3 DEF Inv

\* Every part but the types, which TypeStep has settled.
Parts == LockInv /\ CursorInv /\ OwedInv /\ NoJobInv /\ RowsMigratedExact /\ OwedMigrated

\* The first enqueue finds no tick under way and a job row without a cursor, so
\* what it makes the job owe lies above the cursor.
LEMMA EnqueueParts == Inv /\ TypeOK' /\ Enqueue => Parts'
<1> SUFFICES ASSUME Inv, TypeOK', Enqueue PROVE Parts'
  OBVIOUS
<1> USE DEF Inv, Enqueue, dbVars
<1>1. LockInv'
  BY DEF LockInv, InTransaction, Claimable
<1>2. CursorInv'
  BY DEF CursorInv
<1>3. OwedInv'
  <2>1. \A f \in enqueued' : ~(f <= job'.cursor)
    BY DEF NoJobInv, TypeOK, Ids
  <2>2. \A w \in Workers : worker'[w].pc = "idle"
    BY DEF NoJobInv
  <2> QED
    BY <2>1, <2>2 DEF OwedInv
<1>4. NoJobInv' /\ RowsMigratedExact' /\ OwedMigrated'
  BY DEF NoJobInv, RowsMigratedExact, OwedMigrated, TypeOK
<1> QED
  BY <1>1, <1>2, <1>3, <1>4 DEF Parts

LEMMA ClaimParts == \A w \in Workers : Inv /\ TypeOK' /\ Claim(w) => Parts'
<1> SUFFICES ASSUME NEW w \in Workers, Inv, TypeOK', Claim(w) PROVE Parts'
  OBVIOUS
<1> USE DEF Inv, Claim, dbVars
<1>0. /\ worker'[w].pc = "claimed" /\ worker'[w].cursor = job.cursor
      /\ \A v \in Workers \ {w} : worker'[v] = worker[v]
  BY DEF TypeOK, Transaction
<1>1. LockInv'
  BY <1>0, BackfillAssumption DEF LockInv, InTransaction, TypeOK
<1>2. CursorInv'
  BY <1>0 DEF CursorInv
<1>3. OwedInv'
  BY <1>0 DEF OwedInv
<1>4. NoJobInv' /\ RowsMigratedExact' /\ OwedMigrated'
  BY <1>0 DEF NoJobInv, RowsMigratedExact, OwedMigrated, Claimable
<1> QED
  BY <1>1, <1>2, <1>3, <1>4 DEF Parts

\* ORDER BY id: whatever the job owes up to the end of the chunk is scored or in
\* the chunk, because everything owed is open and thus selectable.
LEMMA SelectChunkParts == \A w \in Workers : Inv /\ TypeOK' /\ SelectChunk(w) => Parts'
<1> SUFFICES ASSUME NEW w \in Workers, Inv, TypeOK', SelectChunk(w) PROVE Parts'
  OBVIOUS
<1> USE DEF Inv
<1>1. PICK last \in Ids, chunk \in SUBSET Ids :
        /\ last \in Selectable(worker[w].cursor)
        /\ chunk = {f \in Selectable(worker[w].cursor) : f <= last}
        /\ worker'[w].pc = "scored" /\ worker'[w].chunk = chunk
        /\ worker'[w].last = last /\ worker'[w].cursor = worker[w].cursor
        /\ \A v \in Workers \ {w} : worker'[v] = worker[v]
  BY SelectChunkEffect
<1>3. UNCHANGED <<known, active, inputs, score, job, lock, sync, enqueued, counted>>
      /\ worker[w].pc = "claimed"
  BY DEF SelectChunk, dbVars
<1>4. LockInv'
  BY <1>1, <1>3 DEF LockInv, InTransaction
<1>5. worker[w].cursor = job.cursor
  BY <1>3 DEF LockInv, InTransaction
<1>6. CursorInv'
  BY <1>1, <1>3, <1>5 DEF CursorInv, Selectable
<1>7. \A f \in enqueued : f <= last => score[f] # Unscored \/ f \in chunk
  <2> SUFFICES ASSUME NEW f \in enqueued, f <= last, score[f] = Unscored PROVE f \in chunk
    OBVIOUS
  <2>1. ~(f <= job.cursor)
    BY DEF OwedInv
  <2>2. f \in active /\ f \in Nat /\ job.cursor \in Nat
    BY DEF TypeOK, Ids
  <2> QED
    BY <2>1, <2>2, <1>1, <1>5 DEF Selectable
<1>8. OwedInv'
  BY <1>1, <1>3, <1>7 DEF OwedInv
<1>9. NoJobInv' /\ RowsMigratedExact' /\ OwedMigrated'
  BY <1>1, <1>3 DEF NoJobInv, RowsMigratedExact, OwedMigrated
<1> QED
  BY <1>4, <1>6, <1>8, <1>9 DEF Parts

LEMMA SelectNothingParts ==
    \A w \in Workers : Inv /\ TypeOK' /\ SelectNothing(w) => Parts'
<1> SUFFICES ASSUME NEW w \in Workers, Inv, TypeOK', SelectNothing(w) PROVE Parts'
  OBVIOUS
<1> USE DEF Inv, SelectNothing, dbVars
<1>1. /\ worker'[w].pc = "drained" /\ worker'[w].cursor = worker[w].cursor
      /\ \A v \in Workers \ {w} : worker'[v] = worker[v]
  BY DEF TypeOK, Transaction
<1>2. LockInv'
  BY <1>1 DEF LockInv, InTransaction
<1>3. CursorInv'
  BY <1>1 DEF CursorInv
<1>4. \A f \in enqueued : score[f] # Unscored
  <2> SUFFICES ASSUME NEW f \in enqueued, score[f] = Unscored PROVE FALSE
    OBVIOUS
  <2>1. ~(f <= job.cursor)
    BY DEF OwedInv
  <2>2. f \in active /\ f \in Nat /\ job.cursor \in Nat
    BY DEF TypeOK, Ids
  <2>3. worker[w].cursor = job.cursor
    BY DEF LockInv, InTransaction
  <2> QED
    BY <2>1, <2>2, <2>3 DEF Selectable
<1>5. OwedInv'
  BY <1>1, <1>4 DEF OwedInv
<1>6. NoJobInv' /\ RowsMigratedExact' /\ OwedMigrated'
  BY <1>1 DEF NoJobInv, RowsMigratedExact, OwedMigrated
<1> QED
  BY <1>2, <1>3, <1>5, <1>6 DEF Parts

\* The committed chunk lies above everything counted so far, so the counter grows
\* by exactly the findings it adds; and with the chunk everything owed up to its
\* end is scored.
LEMMA CommitChunkParts == \A w \in Workers : Inv /\ TypeOK' /\ CommitChunk(w) => Parts'
<1> SUFFICES ASSUME NEW w \in Workers, Inv, TypeOK', CommitChunk(w) PROVE Parts'
  OBVIOUS
<1> USE DEF Inv
<1>1. /\ worker[w].pc = "scored" /\ worker[w] \in Transaction
      /\ InTransaction(w) /\ lock = w
      /\ worker'[w].pc = "idle"
      /\ \A v \in Workers \ {w} : worker'[v] = worker[v] /\ ~InTransaction(v)
  BY DEF CommitChunk, TypeOK, LockInv, InTransaction, Idle
<1>2. /\ job'.cursor = worker[w].last /\ job'.status = "in_progress"
      /\ counted' = counted \cup worker[w].chunk
      /\ enqueued' = enqueued /\ lock' = NoWorker
  BY DEF CommitChunk
<1>3. \A v \in Workers : ~InTransaction(v)'
  BY <1>1 DEF InTransaction
<1>4. LockInv'
  BY <1>2, <1>3, BackfillAssumption DEF LockInv
<1>5. /\ \A f \in worker[w].chunk : job.cursor < f /\ f <= worker[w].last
      /\ worker[w].chunk \in SUBSET Ids /\ counted \in SUBSET Ids
      /\ job.cursor \in Nat /\ worker[w].last \in Nat /\ Ids \subseteq Nat
      /\ job.cursor <= worker[w].last
  BY <1>1, BackfillAssumption DEF CursorInv, TypeOK, Transaction, Ids
<1>6. CursorInv'
  <2>1. ASSUME NEW f \in counted' PROVE f <= job'.cursor
    <3>1. CASE f \in worker[w].chunk
      BY <1>2, <1>5, <3>1
    <3>2. CASE f \in counted
      <4>1. f <= job.cursor /\ f \in Nat
        BY <1>5, <3>2 DEF CursorInv
      <4> QED
        BY <1>2, <1>5, <4>1
    <3> QED
      BY <1>2, <2>1, <3>1, <3>2
  <2> QED
    BY <1>3, <2>1 DEF CursorInv, InTransaction
<1>7. \A f \in Ids : /\ f \in worker[w].chunk => score'[f] # Unscored
                     /\ score[f] # Unscored => score'[f] # Unscored
  <2>1. score' = ScoresAfter(worker[w].chunk, worker[w].seen)
    BY DEF CommitChunk
  <2>2. worker[w].seen \in [Ids -> Revisions]
    BY <1>1 DEF Transaction
  <2> QED
    BY <2>1, <2>2, BackfillAssumption DEF ScoresAfter, Revisions, Unscored
<1>8. OwedInv'
  <2>1. enqueued \in SUBSET Ids
    BY DEF TypeOK
  <2>2. ASSUME NEW f \in enqueued, f <= job'.cursor PROVE score'[f] # Unscored
    <3>1. score[f] # Unscored \/ f \in worker[w].chunk
      BY <1>1, <1>2, <2>2 DEF OwedInv
    <3> QED
      BY <1>7, <2>1, <3>1
  <2> QED
    BY <1>2, <1>3, <2>2 DEF OwedInv, InTransaction
<1>9. RowsMigratedExact'
  <2>1. counted \cap worker[w].chunk = {}
    <3> SUFFICES ASSUME NEW f \in counted, f \in worker[w].chunk PROVE FALSE
      OBVIOUS
    <3>1. f <= job.cursor /\ job.cursor < f /\ f \in Nat
      BY <1>5 DEF CursorInv
    <3> QED
      BY <1>5, <3>1
  <2>2. Cardinality(counted \cup worker[w].chunk)
          = Cardinality(counted) + Cardinality(worker[w].chunk)
    <3>1. /\ IsFiniteSet(counted) /\ IsFiniteSet(worker[w].chunk)
          /\ Cardinality(counted) \in Nat /\ Cardinality(worker[w].chunk) \in Nat
      BY <1>5, FindingsFinite
    <3>2. Cardinality(counted \cup worker[w].chunk)
            = Cardinality(counted) + Cardinality(worker[w].chunk) - Cardinality({})
      BY <2>1, <3>1, FS_Union
    <3> QED
      BY <3>1, <3>2, FS_EmptySet
  <2>3. job'.migrated = job.migrated + Cardinality(worker[w].chunk)
    BY DEF CommitChunk
  <2> QED
    BY <1>2, <2>2, <2>3 DEF RowsMigratedExact
<1>10. NoJobInv' /\ OwedMigrated'
  BY <1>2 DEF NoJobInv, OwedMigrated
<1> QED
  BY <1>4, <1>6, <1>8, <1>9, <1>10 DEF Parts

\* Only a tick that found nothing selectable completes the job, and it still
\* holds the row lock: nothing has become owed since.
LEMMA CommitCompletedParts ==
    \A w \in Workers : Inv /\ TypeOK' /\ CommitCompleted(w) => Parts'
<1> SUFFICES ASSUME NEW w \in Workers, Inv, TypeOK', CommitCompleted(w) PROVE Parts'
  OBVIOUS
<1> USE DEF Inv, CommitCompleted, dbVars
<1>1. /\ worker'[w].pc = "idle" /\ InTransaction(w) /\ lock = w
      /\ \A v \in Workers \ {w} : worker'[v] = worker[v] /\ ~InTransaction(v)
  BY DEF TypeOK, Idle, LockInv, InTransaction
<1>2. \A v \in Workers : ~InTransaction(v)'
  BY <1>1 DEF InTransaction
<1>3. /\ job'.status = "completed" /\ job'.cursor = job.cursor
      /\ job'.migrated = job.migrated
  BY DEF TypeOK
<1>4. LockInv'
  BY <1>2, BackfillAssumption DEF LockInv
<1>5. CursorInv' /\ OwedInv'
  BY <1>2, <1>3 DEF CursorInv, OwedInv, InTransaction
<1>6. NoJobInv' /\ RowsMigratedExact'
  BY <1>3 DEF NoJobInv, RowsMigratedExact
<1>7. OwedMigrated'
  BY DEF OwedInv, OwedMigrated
<1> QED
  BY <1>4, <1>5, <1>6, <1>7 DEF Parts

\* A tick that gives up, by an exception or by a crash, leaves the committed
\* state alone and frees the row lock if it held it.
LEMMA GiveUpParts ==
    \A w \in Workers : Inv /\ TypeOK' /\ (ChunkError(w) \/ Crash(w)) => Parts'
<1> SUFFICES ASSUME NEW w \in Workers, Inv, TypeOK', ChunkError(w) \/ Crash(w)
             PROVE  Parts'
  OBVIOUS
<1> USE DEF Inv
<1>1. /\ UNCHANGED <<known, active, score, job, enqueued, counted>>
      /\ Rollback(w)
      /\ worker'[w].pc \in {"idle", "failing"}
      /\ \A v \in Workers \ {w} : worker'[v] = worker[v]
  BY DEF ChunkError, Crash, TypeOK, Idle, dbVars
<1>2. job.status # "none"
  BY DEF ChunkError, Crash, NoJobInv, LockInv, Claimable
<1>3. LockInv'
  <2>1. CASE InTransaction(w)
    BY <1>1, <2>1, BackfillAssumption DEF LockInv, InTransaction, Rollback
  <2>2. CASE ~InTransaction(w)
    BY <1>1, <2>2 DEF LockInv, InTransaction, Rollback
  <2> QED
    BY <2>1, <2>2
<1>4. CursorInv' /\ OwedInv'
  BY <1>1 DEF CursorInv, OwedInv
<1>5. NoJobInv' /\ RowsMigratedExact' /\ OwedMigrated'
  BY <1>1, <1>2 DEF NoJobInv, RowsMigratedExact, OwedMigrated
<1> QED
  BY <1>3, <1>4, <1>5 DEF Parts

LEMMA MarkFailedParts == \A w \in Workers : Inv /\ TypeOK' /\ MarkFailed(w) => Parts'
<1> SUFFICES ASSUME NEW w \in Workers, Inv, TypeOK', MarkFailed(w) PROVE Parts'
  OBVIOUS
<1> USE DEF Inv, MarkFailed, dbVars
<1>1. /\ worker'[w].pc = "idle"
      /\ \A v \in Workers \ {w} : worker'[v] = worker[v]
      /\ \A v \in Workers : ~InTransaction(v)
  BY BackfillAssumption DEF TypeOK, Idle, LockInv
<1>2. \A v \in Workers : ~InTransaction(v)'
  BY <1>1 DEF InTransaction
<1>3. /\ job'.status = "failed" /\ job'.cursor = job.cursor
      /\ job'.migrated = job.migrated
  BY DEF TypeOK
<1>4. LockInv'
  BY <1>2, BackfillAssumption DEF LockInv
<1>5. CursorInv' /\ OwedInv'
  BY <1>2, <1>3 DEF CursorInv, OwedInv, InTransaction
<1>6. NoJobInv' /\ RowsMigratedExact' /\ OwedMigrated'
  BY <1>3 DEF NoJobInv, RowsMigratedExact, OwedMigrated
<1> QED
  BY <1>4, <1>5, <1>6 DEF Parts

\* What users and syncs do to the findings keeps scores and owes no more.
LEMMA OtherParts ==
    ASSUME Inv, TypeOK', UNCHANGED <<job, lock, worker, counted>>,
           enqueued' \subseteq enqueued,
           \A f \in Ids : score[f] # Unscored => score'[f] # Unscored
    PROVE  Parts'
<1> USE DEF Inv
<1>1. enqueued \subseteq Ids
  BY DEF TypeOK
<1>2. LockInv' /\ CursorInv' /\ NoJobInv' /\ RowsMigratedExact'
  BY DEF LockInv, CursorInv, NoJobInv, RowsMigratedExact, InTransaction
<1>3. OwedInv' /\ OwedMigrated'
  BY <1>1 DEF OwedInv, OwedMigrated
<1> QED
  BY <1>2, <1>3 DEF Parts

LEMMA SyncCommitKeepsScores ==
    TypeOK /\ SyncCommit => \A f \in Ids : score[f] # Unscored => score'[f] # Unscored
BY BackfillAssumption
   DEF TypeOK, SyncTransaction, SyncCommit, ScoresAfter, Revisions, Unscored

LEMMA InvStep == Inv /\ [Next]_vars => Inv'
<1> SUFFICES ASSUME Inv, [Next]_vars PROVE Inv'
  OBVIOUS
<1>1. TypeOK /\ TypeOK'
  BY TypeStep DEF Inv
<1>2. CASE Enqueue
  BY <1>1, <1>2, EnqueueParts DEF Parts, Inv
<1>3. ASSUME NEW w \in Workers, Tick(w) PROVE Inv'
  <2>1. Parts'
    BY <1>1, <1>3, ClaimParts, SelectChunkParts, SelectNothingParts, CommitChunkParts,
       CommitCompletedParts, GiveUpParts, MarkFailedParts DEF Tick
  <2> QED
    BY <1>1, <2>1 DEF Parts, Inv
<1>4. ASSUME NEW f \in Ids, Reopen(f) \/ Close(f) \/ ReviseInputs(f) PROVE Inv'
  <2>1. UNCHANGED <<job, lock, worker, counted, score>> /\ enqueued' \subseteq enqueued
    BY <1>4 DEF Reopen, Close, ReviseInputs
  <2> QED
    BY <1>1, <2>1, OtherParts DEF Parts, Inv
<1>5. CASE Sync
  <2>1. UNCHANGED <<job, lock, worker, counted, enqueued>>
    BY <1>5 DEF Sync, SyncUpsert, SyncFail, SyncRead, SyncCommit, SyncAbort
  <2>2. \A f \in Ids : score[f] # Unscored => score'[f] # Unscored
    BY <1>1, <1>5, SyncCommitKeepsScores
       DEF Sync, SyncUpsert, SyncFail, SyncRead, SyncAbort, dbVars
  <2> QED
    BY <1>1, <2>1, <2>2, OtherParts DEF Parts, Inv
<1>6. CASE UNCHANGED vars
  BY <1>1, <1>6, OtherParts DEF Parts, Inv, vars
<1> QED
  BY <1>2, <1>3, <1>4, <1>5, <1>6 DEF Next

LEMMA InvCorrect == Spec => []Inv
BY InvInit, InvStep, PTL DEF Spec

\* However ticks overlap, crash and are retried, rows_migrated is the number of
\* findings in the committed chunks: no finding is counted twice.
THEOREM CountIsExact == Spec => []RowsMigratedExact
BY InvCorrect, PTL DEF Inv

\* The status the cutover gate reads can be trusted for every finding that was
\* open when the job was enqueued and has stayed open.
THEOREM CompletedOwesNothing == Spec => []OwedMigrated
BY InvCorrect, PTL DEF Inv

\* The claim excludes every other tick until it commits or rolls back.
THEOREM ClaimExcludes == Spec => []ClaimIsExclusive
<1>1. Inv => ClaimIsExclusive
  BY DEF Inv, LockInv, ClaimIsExclusive
<1> QED
  BY <1>1, InvCorrect, PTL

-----------------------------------------------------------------------------
(* The job implements its contract *)

\* Debt shrinks as long as nothing new is enqueued and no score is lost.
LEMMA DebtShrinks ==
    ASSUME TypeOK, enqueued' \subseteq enqueued,
           \A f \in Ids : score[f] # Unscored => score'[f] # Unscored
    PROVE  Debt' \subseteq Debt
BY DEF Debt, TypeOK

\* Every step of the job and of what surrounds it is a step of the contract.
LEMMA ContractStep ==
    ASSUME Inv, [Next]_vars
    PROVE  [Contract!Next]_(Contract!cvars)
<1> USE DEF Contract!cvars, Contract!Next
<1>1. TypeOK /\ TypeOK'
  BY TypeStep DEF Inv
<1>2. CASE Enqueue
  <2>1. job.status = "none" /\ job'.status = "pending"
    BY <1>1, <1>2 DEF Enqueue, TypeOK
  <2>2. Debt' \in SUBSET Ids
    BY <1>1 DEF Debt, TypeOK
  <2> QED BY <2>1, <2>2 DEF Contract!Enqueue
<1>3. ASSUME NEW w \in Workers, CommitChunk(w)
      PROVE  Contract!Next
  <2>1. job.status \in Claimable
    BY <1>3 DEF CommitChunk, Inv, LockInv, InTransaction
  <2>2. job'.status = "in_progress" /\ enqueued' = enqueued
    BY <1>3 DEF CommitChunk
  <2>3. worker[w].seen \in [Ids -> Revisions]
    BY <1>1 DEF TypeOK, Transaction
  <2>4. \A f \in Ids : score[f] # Unscored => score'[f] # Unscored
    BY <1>3, <2>3, BackfillAssumption DEF CommitChunk, ScoresAfter, Revisions, Unscored
  <2>5. Debt' \subseteq Debt
    BY <1>1, <2>2, <2>4, DebtShrinks
  <2> QED BY <2>1, <2>2, <2>5 DEF Contract!Migrate, Claimable
<1>4. ASSUME NEW w \in Workers, CommitCompleted(w)
      PROVE  Contract!Next
  <2>1. job.status \in Claimable
    BY <1>4 DEF CommitCompleted, Inv, LockInv, InTransaction
  <2>2. job'.status = "completed" /\ enqueued' = enqueued /\ score' = score
    BY <1>1, <1>4 DEF CommitCompleted, dbVars, TypeOK
  <2>3. Debt = {}
    BY <1>4 DEF CommitCompleted, Inv, OwedInv, Debt
  <2>4. Debt' = {}
    BY <2>2, <2>3 DEF Debt
  <2> QED BY <2>1, <2>2, <2>3, <2>4 DEF Contract!Complete, Claimable
<1>5. ASSUME NEW w \in Workers, MarkFailed(w)
      PROVE  Contract!Next
  <2>1. job.status # "none"
    BY <1>5 DEF MarkFailed, Inv, NoJobInv
  <2>2. job'.status = "failed" /\ Debt' = Debt
    BY <1>1, <1>5 DEF MarkFailed, dbVars, TypeOK, Debt
  <2> QED BY <2>1, <2>2 DEF Contract!Fail
<1>6. ASSUME NEW w \in Workers,
             Claim(w) \/ SelectChunk(w) \/ SelectNothing(w) \/ ChunkError(w) \/ Crash(w)
      PROVE  job' = job /\ Debt' = Debt
  BY <1>6 DEF Claim, SelectChunk, SelectNothing, ChunkError, Crash, dbVars, Debt
<1>7. ASSUME NEW f \in Ids, Reopen(f) \/ Close(f) \/ ReviseInputs(f)
      PROVE  Contract!Next
  <2>1. UNCHANGED <<job, score>> /\ enqueued' \subseteq enqueued
    BY <1>7 DEF Reopen, Close, ReviseInputs
  <2>2. Debt' \subseteq Debt
    BY <1>1, <2>1, DebtShrinks
  <2> QED BY <2>1, <2>2 DEF Contract!Relieve
<1>8. CASE Sync
  <2>1. UNCHANGED <<job, enqueued>>
    BY <1>8 DEF Sync, SyncUpsert, SyncFail, SyncRead, SyncCommit, SyncAbort
  <2>2. \A f \in Ids : score[f] # Unscored => score'[f] # Unscored
    BY <1>1, <1>8, SyncCommitKeepsScores
       DEF Sync, SyncUpsert, SyncFail, SyncRead, SyncAbort, dbVars
  <2>3. Debt' \subseteq Debt
    BY <1>1, <2>1, <2>2, DebtShrinks
  <2> QED BY <2>1, <2>3 DEF Contract!Relieve
<1>9. CASE UNCHANGED vars
  BY <1>9 DEF vars, Debt
<1> QED
  BY <1>2, <1>3, <1>4, <1>5, <1>6, <1>7, <1>8, <1>9 DEF Next, Tick

\* The job keeps the promise the cutover gate relies on: its debt only shrinks,
\* and only a job without debt completes.
THEOREM Refinement == Spec => ImplementsContract
<1>1. Init => Contract!Init
  BY DEF Init, Contract!Init, Debt
<1>2. Inv /\ [Next]_vars => [Contract!Next]_(Contract!cvars)
  BY ContractStep
<1> QED
  BY <1>1, <1>2, InvCorrect, PTL DEF Spec, ImplementsContract, Contract!Spec

\* Overlapping ticks and crashes neither count a row twice nor leave one behind
\* (risk_backfill_service.py, process_backfill_chunk).
THEOREM MigrationIsSound == Spec => []MigrationSound
BY TypeCorrect, CountIsExact, CompletedOwesNothing, ClaimExcludes, PTL DEF MigrationSound

-----------------------------------------------------------------------------
(* The cutover gate *)

\* A request moves within its type, and the others stay where they are.
LEMMA MovesType ==
    ASSUME NEW a \in Admins, NEW r \in Requests, CutoverTypeOK, Moves(a, r)
    PROVE  request' \in [Admins -> Requests]
  <1>1. request \in [Admins -> Requests]
    BY DEF CutoverTypeOK
  <1> QED BY <1>1 DEF Moves

LEMMA NoRequestType == NoRequest \in Requests
  BY DEF NoRequest, Requests

\* Ending a request is a type-correct move, and it disturbs nobody.
LEMMA EndsType ==
    ASSUME NEW a \in Admins, CutoverTypeOK, Ends(a)
    PROVE  /\ request' \in [Admins -> Requests]
           /\ disturbed' \in SUBSET Admins
  BY MovesType, NoRequestType DEF Ends, CutoverTypeOK

\* No threshold matches more assets than there are.
LEMMA CountsBounded ==
    ASSUME NEW bar
    PROVE  /\ OldCount(bar) \in 0..Cardinality(Assets)
           /\ NewCount(bar) \in 0..Cardinality(Assets)
  <1>1. \A S \in SUBSET Assets : Cardinality(S) \in 0..Cardinality(Assets)
    <2> TAKE S \in SUBSET Assets
    <2>1. IsFiniteSet(S) /\ Cardinality(S) <= Cardinality(Assets)
      BY FS_Subset, CutoverAssumption
    <2>2. Cardinality(S) \in Nat /\ Cardinality(Assets) \in Nat
      BY <2>1, FS_CardinalityType, CutoverAssumption
    <2> QED BY <2>1, <2>2
  <1> QED BY <1>1 DEF OldCount, NewCount

\* The items a list of rules or filters starts with.
LEMMA FreshItems ==
    ASSUME CutoverTypeOK, NEW S \in SUBSET Sources
    PROVE  Listed(Counted(S)) \in SUBSET Items
  <1>1. Cardinality(Assets) \in Nat
    BY FS_CardinalityType, CutoverAssumption
  <1> QED BY <1>1 DEF CutoverTypeOK, Listed, Item, Counted, Items

LEMMA InitType == CutoverInit => CutoverTypeOK
  <1> SUFFICES ASSUME CutoverInit PROVE CutoverTypeOK
    OBVIOUS
  <1>1. request \in [Admins -> Requests]
    BY NoRequestType DEF CutoverInit
  <1>2. status = "none" /\ owed = {}
    BY DEF CutoverInit, Backfill!Init
  <1>3. writes \in 0..MaxWrites
    BY CutoverAssumption DEF CutoverInit
  <1>4. rollup \in [Assets -> Scores \cup {None}]
    BY DEF CutoverInit
  <1> QED BY <1>1, <1>2, <1>3, <1>4 DEF CutoverInit, CutoverTypeOK

\* Every step of a request keeps the types.
LEMMA RequestType ==
    ASSUME CutoverTypeOK, NEW a \in Admins, Request(a)
    PROVE  CutoverTypeOK'
  <1> USE DEF jobVars, readVars, tenantVars
  <1>t. request[a] \in Requests
    BY DEF CutoverTypeOK
  <1>1. CASE BeginAck(a)
    <2>1. [NoRequest EXCEPT !.kind = "ack", !.pc = "rules"] \in Requests
      BY NoRequestType DEF Requests
    <2> QED BY <1>1, <2>1, MovesType DEF BeginAck, CutoverTypeOK
  <1>2. CASE BeginEnable(a)
    <2>1. [NoRequest EXCEPT !.kind = "enable", !.pc = "tenant"] \in Requests
      BY NoRequestType DEF Requests
    <2> QED BY <1>2, <2>1, MovesType DEF BeginEnable, CutoverTypeOK
  <1>3. CASE ReadTenant(a)
    <2>1. [request[a] EXCEPT !.pc = "recheck", !.acked = ack] \in Requests
      BY <1>t DEF Requests, CutoverTypeOK
    <2> QED BY <1>3, <2>1, MovesType, EndsType DEF ReadTenant, CutoverTypeOK
  <1>4. CASE Recheck(a)
    <2>1. [request[a] EXCEPT !.pc = "rules"] \in Requests
      BY <1>t DEF Requests
    <2> QED BY <1>4, <2>1, MovesType, EndsType DEF Recheck, CutoverTypeOK
  <1>5. ASSUME NEW S \in SUBSET Sources, NEW from, NEW to \in {"filters", "counted"},
               ReadSources(a, from, S, to)
        PROVE  CutoverTypeOK'
    <2> DEFINE todo == Listed(Counted(S))
    <2>1. todo \in SUBSET Items
      BY FreshItems
    <2> HIDE DEF todo
    <2>2. [request[a] EXCEPT !.pc = to, !.todo = todo] \in Requests
      BY <1>t, <2>1 DEF Requests
    <2>3. Moves(a, [request[a] EXCEPT !.pc = to, !.todo = todo])
      BY <1>5 DEF ReadSources, todo
    <2> QED BY <1>5, <2>2, <2>3, MovesType DEF ReadSources, CutoverTypeOK
  <1>6. CASE ReadRules(a)
    BY <1>5, <1>6 DEF ReadRules, Sources
  <1>7. CASE ReadFilters(a)
    BY <1>5, <1>7 DEF ReadFilters, Sources
  <1>8. CASE CountOld(a)
    <2>1. PICK i \in request[a].todo :
            Moves(a, [request[a] EXCEPT !.todo = @ \ {i},
                        !.open = {[i EXCEPT !.old = OldCount(i.threshold)]}])
      BY <1>8 DEF CountOld
    <2>2. i \in Items
      BY <1>t DEF Requests
    <2>3. [i EXCEPT !.old = OldCount(i.threshold)] \in Items
      BY <2>2, CountsBounded DEF Items
    <2>4. [request[a] EXCEPT !.todo = @ \ {i},
             !.open = {[i EXCEPT !.old = OldCount(i.threshold)]}] \in Requests
      BY <1>t, <2>3 DEF Requests
    <2> QED BY <1>8, <2>1, <2>4, MovesType DEF CountOld, CutoverTypeOK
  <1>9. CASE CountNew(a)
    <2>1. PICK i \in request[a].open :
            Moves(a, [request[a] EXCEPT !.open = {},
                        !.items = @ \cup {[i EXCEPT !.new = NewCount(i.threshold)]}])
      BY <1>9 DEF CountNew
    <2>2. i \in Items
      BY <1>t DEF Requests
    <2>3. [i EXCEPT !.new = NewCount(i.threshold)] \in Items
      BY <2>2, CountsBounded DEF Items
    <2>4. [request[a] EXCEPT !.open = {},
             !.items = @ \cup {[i EXCEPT !.new = NewCount(i.threshold)]}] \in Requests
      BY <1>t, <2>3 DEF Requests
    <2> QED BY <1>9, <2>1, <2>4, MovesType DEF CountNew, CutoverTypeOK
  <1>10. CASE CommitAck(a)
    <2>1. request[a].items \in SUBSET Items
      BY <1>t DEF Requests
    <2> QED BY <1>10, <2>1, MovesType, NoRequestType DEF CommitAck, CutoverTypeOK
  <1>11. CASE Compare(a)
    <2>1. [request[a] EXCEPT !.pc = "passed"] \in Requests
      BY <1>t DEF Requests
    <2> QED BY <1>11, <2>1, MovesType, EndsType DEF Compare, CutoverTypeOK
  <1>12. CASE CommitEnable(a)
    BY <1>12, EndsType DEF CommitEnable, CutoverTypeOK
  <1>13. CASE Abort(a)
    BY <1>13, EndsType DEF Abort, CutoverTypeOK
  <1> QED
    BY <1>1, <1>2, <1>3, <1>4, <1>6, <1>7, <1>8, <1>9, <1>10, <1>11, <1>12, <1>13
       DEF Request

\* Everything else that commits keeps them too.
LEMMA WriteType ==
    ASSUME CutoverTypeOK, CutoverNext, \A a \in Admins : ~Request(a)
    PROVE  CutoverTypeOK'
  <1> USE CutoverAssumption DEF jobVars, readVars, tenantVars
  <1>1. CASE BackfillEnqueue
    BY <1>1 DEF BackfillEnqueue, Backfill!Enqueue, CutoverTypeOK
  <1>2. CASE BackfillChunk
    BY <1>2 DEF BackfillChunk, Backfill!Migrate, CutoverTypeOK
  <1>3. CASE BackfillEnds
    BY <1>3 DEF BackfillEnds, Backfill!Complete, Backfill!Fail, Disturb, CutoverTypeOK
  <1>4. ASSUME NEW bar \in Scores, NEW r \in Rules, EditRule(r, bar)
        PROVE  CutoverTypeOK'
    BY <1>4 DEF EditRule, Write, Disturb, CutoverTypeOK, Sources
  <1>5. ASSUME NEW bar \in Scores, NEW f \in Filters, EditFilter(f, bar)
        PROVE  CutoverTypeOK'
    BY <1>5 DEF EditFilter, Write, Disturb, CutoverTypeOK, Sources
  <1>6. CASE SyncScores
    BY <1>6 DEF SyncScores, Backfill!Relieve, Write, Disturb, CutoverTypeOK
  <1> QED
    BY <1>1, <1>2, <1>3, <1>4, <1>5, <1>6 DEF CutoverNext

LEMMA NextType == CutoverTypeOK /\ [CutoverNext]_cutoverVars => CutoverTypeOK'
  <1> SUFFICES ASSUME CutoverTypeOK, [CutoverNext]_cutoverVars PROVE CutoverTypeOK'
    OBVIOUS
  <1>1. CASE UNCHANGED cutoverVars
    BY <1>1 DEF cutoverVars, CutoverTypeOK
  <1> QED
    BY <1>1, RequestType, WriteType

\* Every state the gate reaches is type correct.
THEOREM CutoverTypeCorrect == CutoverSpec => []CutoverTypeOK
  BY InitType, NextType, PTL DEF CutoverSpec

-----------------------------------------------------------------------------

\* A request that counts, or waits to count, is under way.
LEMMA RequestIdle ==
    ASSUME CutoverTypeOK, IdleInv, NEW a \in Admins, Request(a)
    PROVE  IdleInv'
  <1>1. request \in [Admins -> Requests]
    BY DEF CutoverTypeOK
  <1>2. \A b \in Admins \ {a} : request'[b] = request[b]
    BY <1>1 DEF Request, BeginAck, BeginEnable, ReadTenant, Recheck, ReadRules,
       ReadFilters, ReadSources, CountOld, CountNew, CommitAck, Compare,
       CommitEnable, Abort, Moves, Ends
  <1>3. request'[a].pc # "idle" \/ request'[a] = NoRequest
    <2> USE DEF Moves
    <2>1. request[a] \in Requests
      BY <1>1
    <2>2. CASE BeginAck(a)
      BY <1>1, <2>1, <2>2 DEF BeginAck, NoRequest
    <2>3. CASE BeginEnable(a)
      BY <1>1, <2>1, <2>3 DEF BeginEnable, NoRequest
    <2>4. CASE ReadTenant(a)
      BY <1>1, <2>1, <2>4 DEF ReadTenant, Ends, Requests
    <2>5. CASE Recheck(a)
      BY <1>1, <2>1, <2>5 DEF Recheck, Ends, Requests
    <2>6. CASE ReadRules(a)
      BY <1>1, <2>1, <2>6 DEF ReadRules, ReadSources, Requests
    <2>7. CASE ReadFilters(a)
      BY <1>1, <2>1, <2>7 DEF ReadFilters, ReadSources, Requests
    <2>8. CASE CountOld(a)
      <3>1. request[a].pc # "idle"
        BY <1>1, <2>1, <2>8 DEF CountOld, IdleInv, NoRequest
      <3> QED BY <1>1, <2>1, <2>8, <3>1 DEF CountOld, Requests
    <2>9. CASE CountNew(a)
      <3>1. request[a].pc # "idle"
        BY <1>1, <2>1, <2>9 DEF CountNew, IdleInv, NoRequest
      <3> QED BY <1>1, <2>1, <2>9, <3>1 DEF CountNew, Requests
    <2>10. CASE CommitAck(a)
      BY <1>1, <2>1, <2>10 DEF CommitAck
    <2>11. CASE Compare(a)
      BY <1>1, <2>1, <2>11 DEF Compare, Ends, Requests
    <2>12. CASE CommitEnable(a)
      BY <1>1, <2>1, <2>12 DEF CommitEnable, Ends
    <2>13. CASE Abort(a)
      BY <1>1, <2>1, <2>13 DEF Abort, Ends
    <2> QED
      BY <2>2, <2>3, <2>4, <2>5, <2>6, <2>7, <2>8, <2>9, <2>10, <2>11, <2>12, <2>13
         DEF Request
  <1> QED BY <1>2, <1>3 DEF IdleInv

\* A request starts only on a completed job, leaves the job alone, and records
\* an acknowledgment or enables the cutover only once it has started.
LEMMA RequestDebt ==
    ASSUME CutoverTypeOK, DebtInv, IdleInv, NEW a \in Admins, Request(a)
    PROVE  DebtInv'
  <1> USE DEF jobVars, readVars, tenantVars
  <1>1. status' = status /\ owed' = owed
    BY DEF Request, BeginAck, BeginEnable, ReadTenant, Recheck, ReadRules,
           ReadFilters, ReadSources, CountOld, CountNew, CommitAck, Compare,
           CommitEnable, Abort
  <1>2. request[a].pc # "idle" \/ Ready
    <2>1. request[a].pc = "idle" => request[a].todo = {} /\ request[a].open = {}
                                     /\ request[a].kind = "none"
      BY DEF IdleInv, NoRequest
    <2> QED
      BY <2>1 DEF Request, BeginAck, BeginEnable, ReadTenant, Recheck, ReadRules,
           ReadFilters, ReadSources, CountOld, CountNew, CommitAck, Compare,
           CommitEnable, Abort
  <1>3. status # "none" /\ owed = {}
    BY <1>2 DEF DebtInv, Ready
  <1> QED BY <1>1, <1>3 DEF DebtInv, Ready

\* Only an enqueue makes the job owe anything, and it comes before every request;
\* only a job that owes nothing completes.
LEMMA WriteDebt ==
    ASSUME CutoverTypeOK, DebtInv, IdleInv, CutoverNext, \A a \in Admins : ~Request(a)
    PROVE  DebtInv' /\ IdleInv'
  <1> USE DEF jobVars, readVars, tenantVars, DebtInv, IdleInv, Ready
  <1>1. CASE BackfillEnqueue
    BY <1>1 DEF BackfillEnqueue, Backfill!Enqueue
  <1>2. CASE BackfillChunk
    BY <1>2 DEF BackfillChunk, Backfill!Migrate
  <1>3. CASE BackfillEnds
    BY <1>3 DEF BackfillEnds, Backfill!Complete, Backfill!Fail
  <1>4. ASSUME NEW bar \in Scores, NEW r \in Rules, EditRule(r, bar)
        PROVE  DebtInv' /\ IdleInv'
    BY <1>4 DEF EditRule, Write
  <1>5. ASSUME NEW bar \in Scores, NEW f \in Filters, EditFilter(f, bar)
        PROVE  DebtInv' /\ IdleInv'
    BY <1>5 DEF EditFilter, Write
  <1>6. CASE SyncScores
    BY <1>6 DEF SyncScores, Backfill!Relieve, Write
  <1> QED
    BY <1>1, <1>2, <1>3, <1>4, <1>5, <1>6 DEF CutoverNext

LEMMA GateInvCorrect == CutoverSpec => []GateInv
  <1>1. CutoverInit => GateInv
    <2> SUFFICES ASSUME CutoverInit PROVE GateInv
      OBVIOUS
    <2>1. CutoverTypeOK
      BY InitType
    <2>2. DebtInv /\ IdleInv
      BY DEF CutoverInit, Backfill!Init, DebtInv, IdleInv, Ready, NoRequest
    <2> QED BY <2>1, <2>2 DEF GateInv
  <1>2. GateInv /\ [CutoverNext]_cutoverVars => GateInv'
    <2> SUFFICES ASSUME GateInv, [CutoverNext]_cutoverVars PROVE GateInv'
      OBVIOUS
    <2>1. CASE UNCHANGED cutoverVars
      BY <2>1 DEF cutoverVars, GateInv, CutoverTypeOK, DebtInv, IdleInv, Ready
    <2>2. CASE \E a \in Admins : Request(a)
      BY <2>2, NextType, RequestDebt, RequestIdle DEF GateInv
    <2>3. CASE CutoverNext /\ \A a \in Admins : ~Request(a)
      BY <2>3, NextType, WriteDebt DEF GateInv
    <2> QED BY <2>1, <2>2, <2>3
  <1> QED
    BY <1>1, <1>2, PTL DEF CutoverSpec

\* An acknowledgment, and the cutover itself, rest on a backfill that owes
\* nothing, whatever became of the job since.
THEOREM GateSound == CutoverSpec => []GateOwesNothing
  <1>1. GateInv => GateOwesNothing
    BY DEF GateInv, DebtInv, GateOwesNothing
  <1> QED
    BY <1>1, GateInvCorrect, PTL

-----------------------------------------------------------------------------

\* Committing something a request under way may have read disturbs the request.
LEMMA OthersDisturb ==
    ASSUME CutoverTypeOK, [CutoverNext]_cutoverVars, NEW a \in Admins, ~Request(a),
           a \notin disturbed', request[a].pc # "idle", KnowsInv(a)
    PROVE  /\ a \notin disturbed
           /\ request'[a] = request[a]
           /\ UNCHANGED <<status, threshold, oldScore, rollup, ack>>
  <1> USE DEF jobVars, readVars, tenantVars
  <1>t. request \in [Admins -> Requests]
    BY DEF CutoverTypeOK
  <1>1. ASSUME NEW b \in Admins \ {a}, Request(b)
        PROVE  /\ a \notin disturbed
               /\ request'[a] = request[a]
               /\ UNCHANGED <<status, threshold, oldScore, rollup, ack>>
    <2>1. CASE CommitAck(b)
      BY <1>t, <2>1 DEF CommitAck
    <2>2. CASE ~CommitAck(b)
      <3>1. request'[a] = request[a] /\ a \notin disturbed
        BY <1>t, <1>1, <2>2 DEF Request, BeginAck, BeginEnable, ReadTenant, Recheck,
           ReadRules, ReadFilters, ReadSources, CountOld, CountNew, Compare,
           CommitEnable, Abort, Moves, Ends
      <3>2. UNCHANGED <<status, threshold, oldScore, rollup, ack>>
        BY <1>1, <2>2 DEF Request, BeginAck, BeginEnable, ReadTenant, Recheck,
           ReadRules, ReadFilters, ReadSources, CountOld, CountNew, Compare,
           CommitEnable, Abort
      <3> QED BY <3>1, <3>2
    <2> QED BY <2>1, <2>2
  <1>2. CASE BackfillEnqueue
    BY <1>2 DEF BackfillEnqueue, Backfill!Enqueue, KnowsInv, Ready
  <1>3. CASE BackfillChunk
    BY <1>3 DEF BackfillChunk, Backfill!Migrate, KnowsInv, Ready
  <1>4. ASSUME Disturb PROVE FALSE
    BY <1>4 DEF Disturb
  <1>5. CASE UNCHANGED cutoverVars
    BY <1>5 DEF cutoverVars
  <1> QED
    BY <1>1, <1>2, <1>3, <1>4, <1>5
       DEF CutoverNext, BackfillEnds, EditRule, EditFilter, SyncScores, Write

\* What a diff is made of depends on the thresholds and the scores alone.
LEMMA ReadsFrame ==
    ASSUME UNCHANGED <<threshold, oldScore, rollup>>
    PROVE  /\ \A S : Listed(S)' = Listed(S)
           /\ \A S : HalfOf(S)' = HalfOf(S)
           /\ \A S : DiffOf(S)' = DiffOf(S)
           /\ \A S : Counted(S)' = Counted(S)
           /\ CurrentDiff' = CurrentDiff
           /\ \A r, S : Pieced(r, S)' = Pieced(r, S)
  <1>1. /\ \A bar : OldCount(bar)' = OldCount(bar)
        /\ \A bar : NewCount(bar)' = NewCount(bar)
    BY DEF OldCount, NewCount
  <1>2. /\ \A S : Counted(S)' = Counted(S)
        /\ \A s, x, y : Item(s, x, y)' = Item(s, x, y)
    BY DEF Counted, Item
  <1>3. /\ \A S : Listed(S)' = Listed(S)
        /\ \A S : HalfOf(S)' = HalfOf(S)
        /\ \A S : DiffOf(S)' = DiffOf(S)
    BY <1>1, <1>2 DEF Listed, HalfOf, DiffOf
  <1>4. CurrentDiff' = CurrentDiff
    BY <1>2, <1>3 DEF CurrentDiff
  <1>5. \A r, S : Pieced(r, S)' = Pieced(r, S)
    BY <1>2, <1>3 DEF Pieced
  <1> QED
    BY <1>2, <1>3, <1>4, <1>5

LEMMA KnowsFrame ==
    ASSUME NEW a \in Admins, KnowsInv(a), a \notin disturbed,
           request'[a] = request[a],
           UNCHANGED <<status, threshold, oldScore, rollup, ack>>
    PROVE  KnowsInv(a)'
  BY ReadsFrame DEF KnowsInv, Ready

\* Nothing is listed before the rules are.
LEMMA PiecedEmpty ==
    ASSUME NEW r, r.todo = {}, r.open = {}, r.items = {}
    PROVE  Pieced(r, {})
  <1>1. /\ Listed({}) = {} /\ HalfOf({}) = {} /\ DiffOf({}) = {}
        /\ Counted({}) = {}
    BY DEF Listed, HalfOf, DiffOf, Counted
  <1> QED BY <1>1 DEF Pieced

\* Once everything listed is counted the items are those of one snapshot.
LEMMA PiecedDone ==
    ASSUME NEW r, NEW S, Pieced(r, S), r.todo = {}, r.open = {}
    PROVE  r.items = DiffOf(Counted(S))
  <1>1. PICK T \in SUBSET Sources, O \in SUBSET Sources, D \in SUBSET Sources :
          /\ T \cup O \cup D = Counted(S)
          /\ r.todo = Listed(T) /\ r.open = HalfOf(O) /\ r.items = DiffOf(D)
    BY DEF Pieced
  <1>2. T = {} /\ O = {}
    BY <1>1 DEF Listed, HalfOf
  <1> QED BY <1>1, <1>2

\* The next list is added to what is counted.
LEMMA PiecedList ==
    ASSUME NEW r, NEW q, NEW S \in SUBSET Sources, NEW N \in SUBSET Sources,
           Pieced(r, S), r.todo = {}, r.open = {},
           q.todo = Listed(Counted(N)), q.open = r.open, q.items = r.items
    PROVE  Pieced(q, S \cup N)
  <1>1. q.items = DiffOf(Counted(S))
    BY PiecedDone
  <1>2. Counted(N) \cup {} \cup Counted(S) = Counted(S \cup N)
    BY DEF Counted
  <1>3. Counted(N) \in SUBSET Sources /\ Counted(S) \in SUBSET Sources
    BY DEF Counted
  <1>4. q.open = HalfOf({})
    BY DEF HalfOf
  <1> QED BY <1>1, <1>2, <1>3, <1>4 DEF Pieced

\* Counting the old matches of one item.
LEMMA PiecedOld ==
    ASSUME NEW r, NEW q, NEW S, Pieced(r, S), r.open = {},
           NEW i \in r.todo, q.todo = r.todo \ {i}, q.items = r.items,
           q.open = {[i EXCEPT !.old = OldCount(i.threshold)]}
    PROVE  Pieced(q, S)
  <1>1. PICK T \in SUBSET Sources, O \in SUBSET Sources, D \in SUBSET Sources :
          /\ T \cup O \cup D = Counted(S)
          /\ r.todo = Listed(T) /\ r.open = HalfOf(O) /\ r.items = DiffOf(D)
    BY DEF Pieced
  <1>2. O = {}
    BY <1>1 DEF HalfOf
  <1>3. PICK s \in T : i = Item(s, 0, 0)
    BY <1>1 DEF Listed
  <1>4. q.todo = Listed(T \ {s})
    BY <1>1, <1>3 DEF Listed, Item
  <1>5. q.open = HalfOf({s})
    BY <1>3 DEF HalfOf, Item
  <1>6. (T \ {s}) \cup {s} \cup D = Counted(S)
    BY <1>1, <1>2, <1>3
  <1>7. T \ {s} \in SUBSET Sources /\ {s} \in SUBSET Sources
    BY <1>3
  <1> QED BY <1>1, <1>4, <1>5, <1>6, <1>7 DEF Pieced

\* Counting its new matches.
LEMMA PiecedNew ==
    ASSUME NEW r, NEW q, NEW S, Pieced(r, S),
           NEW i \in r.open, q.todo = r.todo, q.open = {},
           q.items = r.items \cup {[i EXCEPT !.new = NewCount(i.threshold)]}
    PROVE  Pieced(q, S)
  <1>1. PICK T \in SUBSET Sources, O \in SUBSET Sources, D \in SUBSET Sources :
          /\ T \cup O \cup D = Counted(S)
          /\ \A x, y \in O : x = y
          /\ r.todo = Listed(T) /\ r.open = HalfOf(O) /\ r.items = DiffOf(D)
    BY DEF Pieced
  <1>2. PICK s \in O : i = Item(s, OldCount(threshold[s]), 0)
    BY <1>1 DEF HalfOf
  <1>3. O = {s}
    BY <1>1, <1>2
  <1>4. [i EXCEPT !.new = NewCount(i.threshold)]
          = Item(s, OldCount(threshold[s]), NewCount(threshold[s]))
    BY <1>2 DEF Item
  <1>5. q.items = DiffOf(D \cup {s})
    BY <1>1, <1>4 DEF DiffOf
  <1>6. q.open = HalfOf({})
    BY DEF HalfOf
  <1>7. T \cup {} \cup (D \cup {s}) = Counted(S)
    BY <1>1, <1>3
  <1>8. D \cup {s} \in SUBSET Sources
    BY <1>2
  <1> QED BY <1>1, <1>5, <1>6, <1>7, <1>8 DEF Pieced

\* A step of an undisturbed request adds to what it knows and forgets nothing.
LEMMA KnowsOwn ==
    ASSUME CutoverTypeOK, IdleInv, NEW a \in Admins, Request(a), KnowsInv(a)
    PROVE  KnowsInv(a)'
  <1> USE DEF jobVars, readVars, tenantVars, Ready
  <1> SUFFICES ASSUME a \notin disturbed', request'[a].pc # "idle"
               PROVE  KnowsInv(a)'
    BY DEF KnowsInv
  <1> DEFINE r == request[a]
             q == request'[a]
  <1>t. request \in [Admins -> Requests] /\ r \in Requests
    BY DEF CutoverTypeOK
  <1>m. \A x : Moves(a, x) => q = x
    BY <1>t DEF Moves
  <1>n. NoRequest.pc = "idle" /\ NoRequest.todo = {} /\ NoRequest.open = {}
        /\ NoRequest.items = {}
    BY DEF NoRequest
  <1>e. ~Ends(a)
    BY <1>m, <1>n DEF Ends
  <1>c. ~CommitAck(a) /\ ~CommitEnable(a) /\ ~Abort(a)
    BY <1>m, <1>n, <1>e DEF CommitAck, CommitEnable, Abort
  <1>f. UNCHANGED <<status, threshold, oldScore, rollup, ack>> /\ disturbed' = disturbed
    BY <1>c, <1>e DEF Request, BeginAck, BeginEnable, ReadTenant, Recheck,
       ReadRules, ReadFilters, ReadSources, CountOld, CountNew, Compare
  <1>u. /\ CurrentDiff' = CurrentDiff
        /\ \A x, S : Pieced(x, S)' = Pieced(x, S)
    BY <1>f, ReadsFrame
  <1>p. r.pc = "idle" => r = NoRequest
    BY DEF IdleInv
  <1>k. SUFFICES
          /\ Ready
          /\ q.kind \in {"ack", "enable"}
          /\ q.kind = "enable" /\ q.pc # "tenant" => q.acked = ack
          /\ q.pc \in {"tenant", "recheck", "rules"} => Pieced(q, {})
          /\ q.pc = "filters" => Pieced(q, Rules)
          /\ q.pc = "counted" => Pieced(q, Sources)
          /\ q.pc = "passed" => /\ q.kind = "enable" /\ q.acked = CurrentDiff
                                 /\ q.todo = {} /\ q.open = {}
    BY <1>f, <1>u DEF KnowsInv
  <1>1. CASE BeginAck(a)
    <2>1. q = [NoRequest EXCEPT !.kind = "ack", !.pc = "rules"]
      BY <1>1, <1>m DEF BeginAck
    <2>2. Pieced(q, {})
      BY <2>1, PiecedEmpty DEF NoRequest
    <2> QED BY <1>1, <2>1, <2>2 DEF BeginAck, NoRequest
  <1>2. CASE BeginEnable(a)
    <2>1. q = [NoRequest EXCEPT !.kind = "enable", !.pc = "tenant"]
      BY <1>2, <1>m DEF BeginEnable
    <2>2. Pieced(q, {})
      BY <2>1, PiecedEmpty DEF NoRequest
    <2> QED BY <1>2, <2>1, <2>2 DEF BeginEnable, NoRequest
  <1>3. CASE ReadTenant(a)
    <2>1. r.pc = "tenant" /\ q = [r EXCEPT !.pc = "recheck", !.acked = ack]
      BY <1>3, <1>m, <1>e DEF ReadTenant
    <2>2. Pieced(q, {})
      BY <1>t, <1>f, <2>1 DEF KnowsInv, Pieced, Requests
    <2> QED BY <1>t, <1>f, <2>1, <2>2 DEF KnowsInv, Requests
  <1>4. CASE Recheck(a)
    <2>1. r.pc = "recheck" /\ q = [r EXCEPT !.pc = "rules"]
      BY <1>4, <1>m, <1>e DEF Recheck
    <2>2. Pieced(q, {})
      BY <1>t, <1>f, <2>1 DEF KnowsInv, Pieced, Requests
    <2> QED BY <1>t, <1>f, <2>1, <2>2 DEF KnowsInv, Requests
  <1>5. CASE ReadRules(a)
    <2>1. /\ r.pc = "rules" /\ r.todo = {} /\ r.open = {}
          /\ q = [r EXCEPT !.pc = "filters", !.todo = Listed(Counted(Rules))]
      BY <1>5, <1>m DEF ReadRules, ReadSources
    <2>2. Pieced(r, {})
      BY <1>f, <2>1 DEF KnowsInv
    <2>3. /\ q.todo = Listed(Counted(Rules)) /\ q.open = r.open
          /\ q.items = r.items /\ q.kind = r.kind /\ q.acked = r.acked
          /\ q.pc = "filters"
      BY <1>t, <2>1 DEF Requests
    <2>4. Pieced(q, {} \cup Rules)
      BY <2>1, <2>2, <2>3, PiecedList DEF Sources
    <2> QED BY <1>f, <2>1, <2>3, <2>4 DEF KnowsInv
  <1>6. CASE ReadFilters(a)
    <2>1. /\ r.pc = "filters" /\ r.todo = {} /\ r.open = {}
          /\ q = [r EXCEPT !.pc = "counted", !.todo = Listed(Counted(Filters))]
      BY <1>6, <1>m DEF ReadFilters, ReadSources
    <2>2. Pieced(r, Rules)
      BY <1>f, <2>1 DEF KnowsInv
    <2>3. /\ q.todo = Listed(Counted(Filters)) /\ q.open = r.open
          /\ q.items = r.items /\ q.kind = r.kind /\ q.acked = r.acked
          /\ q.pc = "counted"
      BY <1>t, <2>1 DEF Requests
    <2>4. Pieced(q, Rules \cup Filters)
      BY <2>1, <2>2, <2>3, PiecedList DEF Sources
    <2> QED BY <1>f, <2>1, <2>3, <2>4 DEF KnowsInv, Sources
  <1>7. CASE CountOld(a)
    <2>1. PICK i \in r.todo :
            q = [r EXCEPT !.todo = @ \ {i},
                          !.open = {[i EXCEPT !.old = OldCount(i.threshold)]}]
      BY <1>7, <1>m DEF CountOld
    <2>2. /\ q.todo = r.todo \ {i} /\ q.items = r.items
          /\ q.open = {[i EXCEPT !.old = OldCount(i.threshold)]}
          /\ q.kind = r.kind /\ q.acked = r.acked /\ q.pc = r.pc
      BY <1>t, <2>1 DEF Requests
    <2>3. r.open = {} /\ r.pc # "idle"
      BY <1>7, <1>p, <1>n DEF CountOld
    <2>4. \A S : Pieced(r, S) => Pieced(q, S)
      BY <2>2, <2>3, PiecedOld
    <2> QED BY <1>f, <2>2, <2>3, <2>4 DEF KnowsInv
  <1>8. CASE CountNew(a)
    <2>1. PICK i \in r.open :
            q = [r EXCEPT !.open = {},
                          !.items = @ \cup {[i EXCEPT !.new = NewCount(i.threshold)]}]
      BY <1>8, <1>m DEF CountNew
    <2>2. /\ q.todo = r.todo /\ q.open = {}
          /\ q.items = r.items \cup {[i EXCEPT !.new = NewCount(i.threshold)]}
          /\ q.kind = r.kind /\ q.acked = r.acked /\ q.pc = r.pc
      BY <1>t, <2>1 DEF Requests
    <2>3. r.pc # "idle"
      BY <1>8, <1>p, <1>n DEF CountNew
    <2>4. \A S : Pieced(r, S) => Pieced(q, S)
      BY <2>2, PiecedNew
    <2> QED BY <1>f, <2>2, <2>3, <2>4 DEF KnowsInv
  <1>9. CASE Compare(a)
    <2>1. /\ r.pc = "counted" /\ r.todo = {} /\ r.open = {}
          /\ r.kind = "enable" /\ r.items = r.acked
          /\ q = [r EXCEPT !.pc = "passed"]
      BY <1>9, <1>m, <1>e DEF Compare, DiffDone
    <2>2. r.items = CurrentDiff
      BY <1>f, <2>1, PiecedDone DEF KnowsInv, CurrentDiff
    <2> QED BY <1>t, <1>f, <2>1, <2>2 DEF KnowsInv, Requests
  <1> QED
    BY <1>1, <1>2, <1>3, <1>4, <1>5, <1>6, <1>7, <1>8, <1>9, <1>c DEF Request

LEMMA KnowsNext ==
    ASSUME CutoverTypeOK, IdleInv, SnapshotInv, [CutoverNext]_cutoverVars
    PROVE  SnapshotInv'
  <1> SUFFICES ASSUME NEW a \in Admins PROVE KnowsInv(a)'
    BY DEF SnapshotInv
  <1>1. KnowsInv(a)
    BY DEF SnapshotInv
  <1>2. CASE Request(a)
    BY <1>1, <1>2, KnowsOwn
  <1>3. CASE ~Request(a) /\ request[a].pc # "idle" /\ a \notin disturbed'
    BY <1>1, <1>3, OthersDisturb, KnowsFrame
  <1>4. CASE ~Request(a) /\ request[a].pc = "idle"
    <2>1. request'[a] = request[a]
      <3>1. ASSUME NEW b \in Admins \ {a}, Request(b)
            PROVE  request'[a] = request[a]
        BY <3>1 DEF CutoverTypeOK, Request, BeginAck, BeginEnable, ReadTenant, Recheck,
           ReadRules, ReadFilters, ReadSources, CountOld, CountNew, CommitAck,
           Compare, CommitEnable, Abort, Moves, Ends
      <3>2. CASE \A b \in Admins : ~Request(b)
        BY <3>2 DEF CutoverNext, cutoverVars, BackfillEnqueue, BackfillChunk, BackfillEnds,
           EditRule, EditFilter, SyncScores, Write
      <3> QED BY <1>4, <3>1, <3>2
    <2> QED BY <1>4, <2>1 DEF KnowsInv
  <1>5. CASE a \in disturbed'
    BY <1>5 DEF KnowsInv
  <1> QED
    BY <1>2, <1>3, <1>4, <1>5

\* However many statements a diff is pieced together from, a request that nobody
\* disturbs enables the cutover only on a completed job and an acknowledgment of
\* the diff as it is.
THEOREM EnableSound == CutoverSpec => []UndisturbedEnableIsFresh
  <1>1. CutoverInit => SnapshotInv
    BY DEF CutoverInit, SnapshotInv, KnowsInv, NoRequest
  <1>2. GateInv /\ SnapshotInv /\ [CutoverNext]_cutoverVars => SnapshotInv'
    BY KnowsNext DEF GateInv
  <1>3. SnapshotInv => UndisturbedEnableIsFresh
    BY DEF SnapshotInv, KnowsInv, UndisturbedEnableIsFresh
  <1> QED
    BY <1>1, <1>2, <1>3, GateInvCorrect, PTL DEF CutoverSpec

\* The gates of acknowledge and enable (risk_cutover_service.py:107, 236).
THEOREM CutoverIsSound == CutoverSpec => []CutoverSound
BY CutoverTypeCorrect, GateSound, PTL DEF CutoverSound
=============================================================================
