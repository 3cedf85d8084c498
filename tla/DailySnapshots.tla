---------------------------- MODULE DailySnapshots ----------------------------
(* The daily snapshots (vulnerabilities/trends.py), which the scheduler takes *)
(* after the ticket sync, 24 hours after the last one (connectors/            *)
(* scheduler.py), and the alert that compares an asset's risk with            *)
(* yesterday's snapshot (notifications/alerts.py), by the model the tenant    *)
(* has turned on.                                                             *)
EXTENDS Integers

CONSTANTS
    DayLength,   \* the parts of a day
    MaxTick,     \* how many parts may pass between two rounds of the scheduler
    MaxClock,
    Spike,       \* the rise that is announced
    Levels,      \* scores of the asset
    MaxMoves     \* changes of its scores and of the tenant's model

ASSUME SnapshotBounds ==
    /\ DayLength \in Nat \ {0} /\ MaxTick \in 1 .. DayLength /\ MaxClock \in Nat
    /\ Spike \in Nat \ {0} /\ Levels \subseteq Nat /\ MaxMoves \in Nat

VARIABLES
    clock,
    rounds,      \* when the scheduler last went round, and the round in progress
    gate,        \* _last_ticket_sync
    snaps,       \* per day, the asset's scores of both models
    scores,      \* the asset's scores
    model,       \* cutover_risk_exposure_scoring
    moved,       \* when the scores last changed
    spiked,      \* the day of the last alert
    moves,
    failed       \* a ticket sync or a capture failed

snapshotVars == <<clock, rounds, gate, snaps, scores, model, moved, spiked, moves, failed>>

NotRun == -1
Models == {"risk_score", "risk_exposure_score"}
ScoreRows == [Models -> Levels]
DayOf(t) == t \div DayLength
SnapshotDays == 0 .. DayOf(MaxClock + MaxTick)
NoSnapshot == [taken |-> NotRun, of |-> <<>>]

SnapshotsTypeOK ==
    /\ clock \in 0 .. MaxClock /\ gate \in {NotRun} \cup 0 .. clock
    /\ rounds.stage \in {"asleep", "synced"} /\ rounds.at \in {NotRun} \cup 0 .. clock
    /\ \A d \in SnapshotDays :
         snaps[d] # NoSnapshot => snaps[d].taken \in 0 .. clock /\ DayOf(snaps[d].taken) = d /\ snaps[d].of \in ScoreRows
    /\ scores \in ScoreRows /\ model \in Models /\ spiked \in SnapshotDays \cup {NotRun}
    /\ moves \in 0 .. MaxMoves /\ failed \in BOOLEAN

SnapshotsInit ==
    /\ clock = 0 /\ rounds = [stage |-> "asleep", at |-> NotRun] /\ gate = NotRun
    /\ snaps = [d \in SnapshotDays |-> NoSnapshot]
    /\ scores \in ScoreRows /\ model \in Models
    /\ moved = 0 /\ spiked = NotRun /\ moves = 0 /\ failed = FALSE

TimePasses ==
    /\ clock < MaxClock /\ clock - rounds.at < MaxTick
    /\ clock' = clock + 1
    /\ UNCHANGED <<rounds, gate, snaps, scores, model, moved, spiked, moves, failed>>

\* A round: the ticket sync runs when a day has passed since the last one.
SyncIsDueAtMidnight == gate = NotRun \/ (clock % DayLength = 0 /\ clock # gate)
SyncIsDue == gate = NotRun \/ clock - gate >= DayLength
GoesRound ==
    /\ rounds.stage = "asleep" /\ clock # rounds.at /\ ~SyncIsDue
    /\ rounds' = [rounds EXCEPT !.at = clock]
    /\ UNCHANGED <<clock, gate, snaps, scores, model, moved, spiked, moves, failed>>
TicketSyncEnds ==
    /\ rounds.stage = "asleep" /\ clock # rounds.at /\ SyncIsDue
    /\ rounds' = [stage |-> "synced", at |-> rounds.at]
    /\ gate' = clock
    /\ UNCHANGED <<clock, snaps, scores, model, moved, spiked, moves, failed>>
\* The gate stays, and the next round tries again.
TicketSyncFails ==
    /\ rounds.stage = "asleep" /\ clock # rounds.at /\ SyncIsDue
    /\ rounds' = [rounds EXCEPT !.at = clock] /\ failed' = TRUE
    /\ UNCHANGED <<clock, gate, snaps, scores, model, moved, spiked, moves>>
\* capture_daily_snapshot: of both models, unless today has one.
CapturesSnapshot ==
    /\ rounds.stage = "synced"
    /\ snaps' = IF snaps[DayOf(clock)] # NoSnapshot THEN snaps
                ELSE [snaps EXCEPT ![DayOf(clock)] = [taken |-> clock, of |-> scores]]
    /\ rounds' = [stage |-> "asleep", at |-> clock]
    /\ UNCHANGED <<clock, gate, scores, model, moved, spiked, moves, failed>>
\* Until tomorrow.
CaptureFails ==
    /\ rounds.stage = "synced"
    /\ rounds' = [stage |-> "asleep", at |-> clock] /\ failed' = TRUE
    /\ UNCHANGED <<clock, gate, snaps, scores, model, moved, spiked, moves>>
SchedulerRestarts ==
    /\ rounds' = [stage |-> "asleep", at |-> rounds.at] /\ gate' = NotRun
    /\ UNCHANGED <<clock, snaps, scores, model, moved, spiked, moves, failed>>

Moves == moves < MaxMoves /\ moves' = moves + 1
ScoreMoves(of, level) ==
    /\ Moves /\ scores[of] # level
    /\ scores' = [scores EXCEPT ![of] = level] /\ moved' = clock
    /\ UNCHANGED <<clock, rounds, gate, snaps, model, spiked, failed>>
ModelFlips ==
    /\ Moves
    /\ model' \in Models \ {model}
    /\ UNCHANGED <<clock, rounds, gate, snaps, scores, moved, spiked, failed>>

\* _check_risk_score_changes
RiseAcrossModels(snapshot) == scores[model] - snapshot.of["risk_score"]
Rise(snapshot) == scores[model] - snapshot.of[model]
ComparesScores ==
    LET yesterday == DayOf(clock) - 1 IN
    /\ yesterday \in SnapshotDays /\ snaps[yesterday] # NoSnapshot
    /\ Rise(snaps[yesterday]) >= Spike
    /\ spiked' = DayOf(clock)
    /\ UNCHANGED <<clock, rounds, gate, snaps, scores, model, moved, moves, failed>>

SnapshotsNext ==
    \/ TimePasses \/ GoesRound \/ TicketSyncEnds \/ TicketSyncFails \/ CapturesSnapshot \/ CaptureFails
    \/ SchedulerRestarts \/ ModelFlips \/ ComparesScores
    \/ \E of \in Models, level \in Levels : ScoreMoves(of, level)

-----------------------------------------------------------------------------
(* A day may pass without a snapshot, since the time of the capture creeps    *)
(* forward and a restart moves it, but not two in a row, unless the ticket    *)
(* sync or a capture failed.                                                  *)
SnapshotsKeepUp ==
    ~failed =>
        \A d \in SnapshotDays : d + 1 < DayOf(clock) => snaps[d] # NoSnapshot \/ snaps[d + 1] # NoSnapshot

(* Turning the new model on or off announces no asset: an alert follows a     *)
(* change of its scores since yesterday's snapshot was taken.                 *)
NoSyntheticSpike ==
    [][spiked' # spiked => moved >= snaps[DayOf(clock) - 1].taken]_snapshotVars

(* Snapshots are taken, in well-formed states.                               *)
SnapshotsSound == SnapshotsTypeOK /\ SnapshotsKeepUp
=============================================================================
