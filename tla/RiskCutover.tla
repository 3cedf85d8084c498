---------------------------- MODULE RiskCutover ----------------------------
(***************************************************************************)
(* The gate in front of the cutover to risk-exposure scoring of ONE tenant *)
(* (vulnerabilities/risk_cutover_service.py).  Automation rules and saved  *)
(* filters store thresholds against the old asset score; the diff report   *)
(* counts the assets each threshold matches under the old and the new one. *)
(* Admins acknowledge a diff and enable the cutover, in transactions that  *)
(* take no lock: every statement sees what is committed when it starts.    *)
(* The backfill behind the gate is any that obeys BackfillContract.        *)
(*                                                                         *)
(* An asset stands for its one open finding; the sha256 of a diff is the   *)
(* diff itself.                                                            *)
(***************************************************************************)
EXTENDS Integers, FiniteSets

CONSTANTS
    Admins,        \* requests of administrators that may overlap
    Assets,
    Rules,         \* ticket rules
    Filters,       \* saved filters
    Linked,        \* rules created from a saved filter -> that filter
    MaxScore,      \* bound: scores and thresholds lie in 0..MaxScore
    MaxWrites,     \* bound: edits and syncs
    None           \* a threshold, rollup or acknowledgment that is absent

ASSUME CutoverAssumption ==
    /\ IsFiniteSet(Assets)
    /\ MaxScore \in Nat
    /\ MaxWrites \in Nat
    /\ Rules \cap Filters = {}
    /\ Linked \in [DOMAIN Linked -> Filters] /\ DOMAIN Linked \subseteq Rules

Scores == 0..MaxScore
Sources == Rules \cup Filters

VARIABLES
    status,      \* status of the backfill job
    owed,        \* assets whose finding the backfill still has to migrate
    migrated,    \* assets whose finding carries a score of the new model
    threshold,   \* rule or filter -> its stored min_risk_score
    oldScore,    \* asset -> risk_score
    rollup,      \* asset -> risk_exposure_score
    ack,         \* tenant: the acknowledged diff
    flag,        \* tenant: cutover_risk_exposure_scoring
    request,     \* admin -> the transaction of the request under way
    disturbed,   \* history: requests during which something they read changed
    writes       \* how many edits and syncs there have been

jobVars == <<status, owed>>
readVars == <<migrated, threshold, oldScore, rollup>>
tenantVars == <<ack, flag>>
cutoverVars ==
    <<status, owed, migrated, threshold, oldScore, rollup, ack, flag,
      request, disturbed, writes>>

Backfill == INSTANCE BackfillContract WITH Findings <- Assets

\* Mutant: any job that was ever enqueued passes the gates.
ReadyOnceEnqueued == status # "none"

\* What both gates ask of _backfill_status.
Ready == status = "completed"

\* One item of the diff report.
Item(source, old, new) ==
    [source |-> source, threshold |-> threshold[source], old |-> old, new |-> new]

\* COUNT(*) ... WHERE risk_score >= threshold, and the same of the rollup, which
\* is NULL and matches nothing until a sync has computed it.
OldCount(bar) == Cardinality({a \in Assets : oldScore[a] >= bar})
NewCount(bar) == Cardinality({a \in Assets : rollup[a] # None /\ rollup[a] >= bar})

\* Thresholds of zero and missing ones are skipped.
Counted(sources) == {s \in sources : threshold[s] > 0}

\* Items that wait to be counted, and counted ones.
Listed(sources) == {Item(s, 0, 0) : s \in sources}
DiffOf(sources) == {Item(s, OldCount(threshold[s]), NewCount(threshold[s]))
                      : s \in sources}

\* The diff a single snapshot of the database would give.
CurrentDiff == DiffOf(Counted(Sources))

NoRequest == [kind |-> "none", pc |-> "idle", acked |-> None, todo |-> {},
              open |-> {}, items |-> {}]

CutoverInit ==
    /\ Backfill!Init
    /\ migrated = {}
    /\ threshold \in [Sources -> Scores]
    /\ \A r \in DOMAIN Linked : threshold[r] = threshold[Linked[r]]
    /\ oldScore \in [Assets -> Scores]
    /\ rollup = [a \in Assets |-> None]
    /\ ack = None
    /\ flag = FALSE
    /\ request = [a \in Admins |-> NoRequest]
    /\ disturbed = {}
    /\ writes = 0

-----------------------------------------------------------------------------
(* Requests of administrators *)

Moves(a, r) == request' = [request EXCEPT ![a] = r]
Ends(a) == /\ Moves(a, NoRequest)
           /\ disturbed' = disturbed \ {a}

\* The requests under way whose reads a commit may have made stale.
Disturb == disturbed' = {a \in Admins : request[a].pc # "idle"}

\* record_threshold_ack and enable_cutover both start by reading the job's
\* status; a job that is not completed is answered 409 and nothing changes.
BeginAck(a) ==
    /\ request[a].pc = "idle"
    /\ Ready
    /\ Moves(a, [NoRequest EXCEPT !.kind = "ack", !.pc = "rules"])
    /\ UNCHANGED <<jobVars, readVars, tenantVars, disturbed, writes>>

BeginEnable(a) ==
    /\ request[a].pc = "idle"
    /\ Ready
    /\ Moves(a, [NoRequest EXCEPT !.kind = "enable", !.pc = "tenant"])
    /\ UNCHANGED <<jobVars, readVars, tenantVars, disturbed, writes>>

\* enable_cutover loads the tenant, acknowledgment and all; none recorded: 409.
ReadTenant(a) ==
    /\ request[a].pc = "tenant"
    /\ IF ack = None
         THEN Ends(a)
         ELSE /\ Moves(a, [request[a] EXCEPT !.pc = "recheck", !.acked = ack])
              /\ UNCHANGED disturbed
    /\ UNCHANGED <<jobVars, readVars, tenantVars, writes>>

\* compute_threshold_diff reads the status again; not ready: 409.
Recheck(a) ==
    /\ request[a].pc = "recheck"
    /\ IF Ready
         THEN /\ Moves(a, [request[a] EXCEPT !.pc = "rules"])
              /\ UNCHANGED disturbed
         ELSE Ends(a)
    /\ UNCHANGED <<jobVars, readVars, tenantVars, writes>>

\* The rules, then, when their counts are in, the saved filters: each list is
\* one statement.
ReadSources(a, from, sources, to) ==
    /\ request[a].pc = from
    /\ request[a].todo = {} /\ request[a].open = {}
    /\ Moves(a, [request[a] EXCEPT !.pc = to,
                   !.todo = Listed(Counted(sources))])
    /\ UNCHANGED <<jobVars, readVars, tenantVars, disturbed, writes>>

ReadRules(a) == ReadSources(a, "rules", Rules, "filters")
ReadFilters(a) == ReadSources(a, "filters", Filters, "counted")

\* _threshold_item counts the old matches, then, in a statement of its own, the
\* new ones.
CountOld(a) ==
    /\ request[a].open = {}
    /\ \E i \in request[a].todo :
         Moves(a, [request[a] EXCEPT !.todo = @ \ {i},
                     !.open = {[i EXCEPT !.old = OldCount(i.threshold)]}])
    /\ UNCHANGED <<jobVars, readVars, tenantVars, disturbed, writes>>

CountNew(a) ==
    /\ \E i \in request[a].open :
         Moves(a, [request[a] EXCEPT !.open = {},
                     !.items = @ \cup {[i EXCEPT !.new = NewCount(i.threshold)]}])
    /\ UNCHANGED <<jobVars, readVars, tenantVars, disturbed, writes>>

DiffDone(a) ==
    request[a].pc = "counted" /\ request[a].todo = {} /\ request[a].open = {}

\* The acknowledgment, its audit row and the commit.
CommitAck(a) ==
    /\ request[a].kind = "ack" /\ DiffDone(a)
    /\ ack' = request[a].items
    /\ Moves(a, NoRequest)
    /\ disturbed' = {b \in Admins \ {a} : request[b].pc # "idle"}
    /\ UNCHANGED <<jobVars, readVars, flag, writes>>

\* Mutant: the hash covers the thresholds and not what they match.
CompareThresholds(a) ==
    /\ request[a].kind = "enable" /\ DiffDone(a)
    /\ IF {<<i.source, i.threshold>> : i \in request[a].items}
              = {<<i.source, i.threshold>> : i \in request[a].acked}
         THEN /\ Moves(a, [request[a] EXCEPT !.pc = "passed"])
              /\ UNCHANGED disturbed
         ELSE Ends(a)
    /\ UNCHANGED <<jobVars, readVars, tenantVars, writes>>

\* The stored hash is compared with that of the diff just computed: 409 unless
\* they agree.
Compare(a) ==
    /\ request[a].kind = "enable" /\ DiffDone(a)
    /\ IF request[a].items = request[a].acked
         THEN /\ Moves(a, [request[a] EXCEPT !.pc = "passed"])
              /\ UNCHANGED disturbed
         ELSE Ends(a)
    /\ UNCHANGED <<jobVars, readVars, tenantVars, writes>>

\* The flag, its audit row and the commit.
CommitEnable(a) ==
    /\ request[a].pc = "passed"
    /\ flag' = TRUE
    /\ Ends(a)
    /\ UNCHANGED <<jobVars, readVars, ack, writes>>

\* The connection breaks, the audit row cannot be written, the process dies.
Abort(a) ==
    /\ request[a].pc # "idle"
    /\ Ends(a)
    /\ UNCHANGED <<jobVars, readVars, tenantVars, writes>>

-----------------------------------------------------------------------------
(* What else commits *)

\* The backfill: enqueue, chunks, completion, and failure, which can follow
\* completion.  A chunk scores findings and leaves the assets alone.
BackfillEnqueue ==
    /\ Backfill!Enqueue
    /\ owed' \cap migrated = {}
    /\ UNCHANGED <<readVars, tenantVars, request, disturbed, writes>>

BackfillChunk ==
    /\ Backfill!Migrate
    /\ migrated' = migrated \cup (owed \ owed')
    /\ UNCHANGED <<threshold, oldScore, rollup, tenantVars, request, disturbed, writes>>

BackfillEnds ==
    /\ Backfill!Complete \/ Backfill!Fail
    /\ Disturb
    /\ UNCHANGED <<readVars, tenantVars, request, writes>>

Write ==
    /\ writes < MaxWrites
    /\ writes' = writes + 1
    /\ Disturb
    /\ UNCHANGED <<tenantVars, request>>

\* A ticket rule is edited.
EditRule(r, bar) ==
    /\ threshold' = [threshold EXCEPT ![r] = bar]
    /\ Write
    /\ UNCHANGED <<jobVars, migrated, oldScore, rollup>>

\* update_saved_filter: the rules created from the filter follow it.
EditFilter(f, bar) ==
    /\ threshold' = [s \in Sources |->
           IF s = f \/ (s \in DOMAIN Linked /\ Linked[s] = f) THEN bar ELSE threshold[s]]
    /\ Write
    /\ UNCHANGED <<jobVars, migrated, oldScore, rollup>>

\* A scanner sync: both scores of every asset are recomputed, and the finding
\* is scored whether or not the backfill got to it.
SyncScores ==
    /\ oldScore' \in [Assets -> Scores]
    /\ rollup' \in [Assets -> Scores]
    /\ Backfill!Relieve /\ owed' = {}
    /\ migrated' = Assets
    /\ Write
    /\ UNCHANGED threshold

-----------------------------------------------------------------------------

Request(a) ==
    \/ BeginAck(a)
    \/ BeginEnable(a)
    \/ ReadTenant(a)
    \/ Recheck(a)
    \/ ReadRules(a)
    \/ ReadFilters(a)
    \/ CountOld(a)
    \/ CountNew(a)
    \/ CommitAck(a)
    \/ Compare(a)
    \/ CommitEnable(a)
    \/ Abort(a)

CutoverNext ==
    \/ \E a \in Admins : Request(a)
    \/ BackfillEnqueue
    \/ BackfillChunk
    \/ BackfillEnds
    \/ \E bar \in Scores : \/ \E r \in Rules : EditRule(r, bar)
                           \/ \E f \in Filters : EditFilter(f, bar)
    \/ SyncScores

CutoverSpec == CutoverInit /\ [][CutoverNext]_cutoverVars

-----------------------------------------------------------------------------
(* Properties *)

Items == [source : Sources, threshold : Scores,
          old : 0..Cardinality(Assets), new : 0..Cardinality(Assets)]

Requests ==
    [kind : {"none", "ack", "enable"},
     pc : {"idle", "tenant", "recheck", "rules", "filters", "counted", "passed"},
     acked : (SUBSET Items) \cup {None}, todo : SUBSET Items, open : SUBSET Items,
     items : SUBSET Items]

CutoverTypeOK ==
    /\ status \in {"none", "pending", "in_progress", "completed", "failed"}
    /\ owed \in SUBSET Assets
    /\ migrated \in SUBSET Assets
    /\ threshold \in [Sources -> Scores]
    /\ oldScore \in [Assets -> Scores]
    /\ rollup \in [Assets -> Scores \cup {None}]
    /\ ack \in (SUBSET Items) \cup {None}
    /\ flag \in BOOLEAN
    /\ request \in [Admins -> Requests]
    /\ disturbed \in SUBSET Admins
    /\ writes \in 0..MaxWrites

\* Whatever happens to the job afterwards, an acknowledgment and the cutover
\* rest on a backfill that has migrated everything it owed: the gates read a
\* status another transaction may be changing (risk_cutover_service.py:107).
GateOwesNothing == ack # None \/ flag => owed = {}

\* The gates in one statement.
CutoverSound == CutoverTypeOK /\ GateOwesNothing

\* A request that nobody disturbs enables only what the gates promise, although
\* it pieces the diff together from many statements: the job is completed and
\* the stored acknowledgment is of the diff as it is now.
UndisturbedEnableIsFresh ==
    \A a \in Admins \ disturbed :
        request[a].pc = "passed" => Ready /\ ack = CurrentDiff

\* risk_cutover_service.py:9: the service is "structurally unable" to enable the
\* cutover unless the stored acknowledgment "matches the CURRENT diff's hash".
EnableOnlyFresh ==
    [][flag' # flag => ack = CurrentDiff]_cutoverVars

-----------------------------------------------------------------------------
(* The inductive invariant behind GateOwesNothing                          *)

\* A job that completed owes nothing, and neither does one whose status a
\* request has found completed, or on which an acknowledgment rests; that a job
\* exists by then keeps a later enqueue from owing anything again.
DebtInv ==
    /\ Ready => owed = {}
    /\ \A a \in Admins : request[a].pc # "idle" => status # "none" /\ owed = {}
    /\ ack # None \/ flag => status # "none" /\ owed = {}

\* A request that is not under way has nothing to count.
IdleInv == \A a \in Admins : request[a].pc = "idle" => request[a] = NoRequest

GateInv == CutoverTypeOK /\ DebtInv /\ IdleInv

-----------------------------------------------------------------------------
(* The inductive invariant behind UndisturbedEnableIsFresh                 *)

\* The request has listed the given sources: those still to count, at most one
\* that is half counted and those it has counted are, together, all that have a
\* threshold, and every count made is the one a single snapshot would give.
HalfOf(sources) == {Item(s, OldCount(threshold[s]), 0) : s \in sources}

Pieced(r, sources) ==
    \E T, O, D \in SUBSET Sources :
        /\ T \cup O \cup D = Counted(sources)
        /\ \A x, y \in O : x = y
        /\ r.todo = Listed(T) /\ r.open = HalfOf(O) /\ r.items = DiffOf(D)

\* What an undisturbed request knows is what is committed.
KnowsInv(a) ==
    LET r == request[a]
    IN  a \notin disturbed /\ r.pc # "idle" =>
          /\ Ready
          /\ r.kind \in {"ack", "enable"}
          /\ r.kind = "enable" /\ r.pc # "tenant" => r.acked = ack
          /\ r.pc \in {"tenant", "recheck", "rules"} => Pieced(r, {})
          /\ r.pc = "filters" => Pieced(r, Rules)
          /\ r.pc = "counted" => Pieced(r, Sources)
          /\ r.pc = "passed" => /\ r.kind = "enable" /\ r.acked = CurrentDiff
                                 /\ r.todo = {} /\ r.open = {}

SnapshotInv == \A a \in Admins : KnowsInv(a)
=============================================================================
