------------------------------- MODULE AiBatch -------------------------------
(***************************************************************************)
(* One tenant's nightly Message Batches: ai/batch.py.                      *)
(*                                                                         *)
(* A prewarm is one run of run_batch_prewarm for the tenant: pick findings *)
(* that are not cached, check the budget against the estimate, create the  *)
(* batch at the provider, commit its row.  A poller is one run of          *)
(* poll_pending_batches: it lists the rows in progress and walks through   *)
(* the results of every ended batch, one audit row and commit per result.  *)
(* Both are detached tasks of any process, so they overlap and die at will.*)
(* Every request costs one unit; one calendar month.                       *)
(***************************************************************************)
EXTENDS Naturals, FiniteSets

CONSTANTS
    Findings,       \* the tenant's open findings
    Batches,        \* the provider's batch ids
    Prewarms,       \* concurrent runs of run_batch_prewarm
    Pollers,        \* concurrent runs of poll_pending_batches
    Cap,            \* monthly_budget_usd, in requests
    MaxRev,         \* bound: revisions of a finding's grounding record
    MaxFailures,    \* bound: crashes and errors of the pollers
    None

ASSUME BatchAssumption ==
    /\ IsFiniteSet(Findings) /\ IsFiniteSet(Pollers)
    /\ Cap \in Nat /\ MaxRev \in Nat /\ MaxFailures \in Nat
    /\ None \notin 0..MaxRev /\ None \notin Batches
    /\ None \notin {"in_progress", "completed"}

VARIABLES
    rev,        \* revision of each finding's grounding record (its hash)
    cache,      \* cache[f][r]: the revision the text under the key of r is about
    batch,      \* what the provider holds
    job,        \* the status of each batch's ai_batch_jobs row, or None
    keyed,      \* the tenant has an Anthropic key
    prewarm,    \* the progress of each prewarm
    poll,       \* the progress of each poller
    spent,      \* the month's booked cost
    rows,       \* history: audit rows per result
    failures    \* history: crashes and errors of the pollers
vars == <<rev, cache, batch, job, keyed, prewarm, poll, spent, rows, failures>>

Revs == 0..MaxRev
\* "rejected" answers are billed but fail validation; "void" covers errored,
\* canceled and expired requests, which are not billed.
Outcomes == {"ok", "rejected", "void"}

Nothing == [f \in Findings |-> None]
NoBatch == [state |-> "none", sent |-> Nothing, outcome |-> Nothing]
NoPoll == [list |-> {}, at |-> None, todo |-> {}]
Resting == [stage |-> "idle", picks |-> Nothing, id |-> None]

Init ==
    /\ rev = [f \in Findings |-> 0]
    /\ cache = [f \in Findings |-> [r \in Revs |-> None]]
    /\ batch = [b \in Batches |-> NoBatch]
    /\ job = [b \in Batches |-> None]
    /\ keyed = TRUE
    /\ prewarm = [p \in Prewarms |-> Resting]
    /\ poll = [p \in Pollers |-> NoPoll]
    /\ spent = 0
    /\ rows = [b \in Batches |-> [f \in Findings |-> 0]]
    /\ failures = 0

Items(picks) == {f \in Findings : picks[f] # None}

-----------------------------------------------------------------------------
(* run_batch_prewarm *)

\* Any top findings: those whose current key is cached are not paid for again.
\* Bound: a prewarm begins only while a batch id is left.
Select(p) ==
    /\ prewarm[p].stage = "idle"
    /\ \E b \in Batches : batch[b].state = "none"
    /\ keyed
    /\ \E top \in SUBSET Findings :
          LET fresh == {f \in top : cache[f][rev[f]] # None}
              picks == [f \in Findings |-> IF f \in top \ fresh THEN rev[f] ELSE None]
          IN  /\ top \ fresh # {}
              /\ prewarm' = [prewarm EXCEPT
                     ![p] = [Resting EXCEPT !.stage = "selected", !.picks = picks]]
    /\ UNCHANGED <<rev, cache, batch, job, keyed, poll, spent, rows, failures>>

\* would_exceed_budget_for_batch, with the estimate the number of requests.
Estimate(p) ==
    /\ prewarm[p].stage = "selected"
    /\ LET breach == spent + Cardinality(Items(prewarm[p].picks)) >= Cap
       IN  prewarm' = [prewarm EXCEPT
               ![p] = IF breach THEN Resting ELSE [@ EXCEPT !.stage = "affordable"]]
    /\ UNCHANGED <<rev, cache, batch, job, keyed, poll, spent, rows, failures>>

\* batches.create; when it fails after the provider has accepted the batch,
\* PrewarmFails follows.
Create(p) ==
    /\ prewarm[p].stage = "affordable"
    /\ \E b \in Batches :
          /\ batch[b].state = "none"
          /\ batch' = [batch EXCEPT
                 ![b] = [NoBatch EXCEPT !.state = "processing", !.sent = prewarm[p].picks]]
          /\ prewarm' = [prewarm EXCEPT
                 ![p] = [stage |-> "created", picks |-> prewarm[p].picks, id |-> b]]
    /\ UNCHANGED <<rev, cache, job, keyed, poll, spent, rows, failures>>

CommitRow(p) ==
    /\ prewarm[p].stage = "created"
    /\ job' = [job EXCEPT ![prewarm[p].id] = "in_progress"]
    /\ prewarm' = [prewarm EXCEPT ![p] = Resting]
    /\ UNCHANGED <<rev, cache, batch, keyed, poll, spent, rows, failures>>

\* A crash at any await, or the except block.
PrewarmFails(p) ==
    /\ prewarm[p].stage # "idle"
    /\ prewarm' = [prewarm EXCEPT ![p] = Resting]
    /\ UNCHANGED <<rev, cache, batch, job, keyed, poll, spent, rows, failures>>

-----------------------------------------------------------------------------
(* poll_pending_batches *)

ListJobs(p) ==
    /\ poll[p] = NoPoll
    /\ poll' = [poll EXCEPT ![p].list = {b \in Batches : job[b] = "in_progress"}]
    /\ UNCHANGED <<rev, cache, batch, job, keyed, prewarm, spent, rows, failures>>

Entering(p, b) == [list |-> poll[p].list, at |-> b, todo |-> Items(batch[b].sent)]
Leaving(p, b) == [list |-> poll[p].list \ {b}, at |-> None, todo |-> {}]

\* Mutant: only a batch without errored, canceled or expired requests is taken.
TakeSucceeded(p) ==
    /\ poll[p].at = None
    /\ \E b \in poll[p].list :
          IF keyed /\ batch[b].state = "ended"
             /\ \A f \in Items(batch[b].sent) : batch[b].outcome[f] # "void"
          THEN poll' = [poll EXCEPT ![p] = Entering(p, b)]
          ELSE poll' = [poll EXCEPT ![p] = Leaving(p, b)]
    /\ UNCHANGED <<rev, cache, batch, job, keyed, prewarm, spent, rows, failures>>

\* The row is read again by its id, but not its status.
Take(p) ==
    /\ poll[p].at = None
    /\ \E b \in poll[p].list :
          IF keyed /\ batch[b].state = "ended"
          THEN poll' = [poll EXCEPT ![p] = Entering(p, b)]
          ELSE poll' = [poll EXCEPT ![p] = Leaving(p, b)]
    /\ UNCHANGED <<rev, cache, batch, job, keyed, prewarm, spent, rows, failures>>

\* The key is built from the row's hash, not from the finding as it is now.
Cached(b, f) == [cache EXCEPT ![f][batch[b].sent[f]] = batch[b].sent[f]]

\* validate_and_cache_batch_result or _audit_non_succeeded_batch_result.
Result(p) ==
    /\ poll[p].at # None
    /\ LET b == poll[p].at IN
       \E f \in poll[p].todo :
          /\ poll' = [poll EXCEPT ![p].todo = @ \ {f}]
          /\ rows' = [rows EXCEPT ![b][f] = @ + 1]
          /\ IF batch[b].outcome[f] = "ok"
             THEN cache' = Cached(b, f) /\ spent' = spent + 1
             ELSE UNCHANGED <<cache, spent>>
    /\ UNCHANGED <<rev, batch, job, keyed, prewarm, failures>>

\* Mutant: the row is left as it is.
CompleteForgotten(p) ==
    /\ poll[p].at # None
    /\ poll[p].todo = {}
    /\ poll' = [poll EXCEPT ![p] = Leaving(p, poll[p].at)]
    /\ UNCHANGED <<rev, cache, batch, job, keyed, prewarm, spent, rows, failures>>

Complete(p) ==
    /\ poll[p].at # None
    /\ poll[p].todo = {}
    /\ job' = [job EXCEPT ![poll[p].at] = "completed"]
    /\ poll' = [poll EXCEPT ![p] = Leaving(p, poll[p].at)]
    /\ UNCHANGED <<rev, cache, batch, keyed, prewarm, spent, rows, failures>>

\* Mutant: an error in the results still completes the job.
PollFailsDone(p) ==
    /\ poll[p].at # None
    /\ failures < MaxFailures
    /\ failures' = failures + 1
    /\ job' = [job EXCEPT ![poll[p].at] = "completed"]
    /\ poll' = [poll EXCEPT ![p] = NoPoll]
    /\ UNCHANGED <<rev, cache, batch, keyed, prewarm, spent, rows>>

\* A crash, or an error that sends the poller to its next job; what was committed
\* for earlier results stays, and a result may be cached without its row.
PollFails(p) ==
    /\ poll[p].at # None
    /\ failures < MaxFailures
    /\ failures' = failures + 1
    /\ \/ poll' = [poll EXCEPT ![p] = NoPoll]
       \/ poll' = [poll EXCEPT ![p] = Leaving(p, poll[p].at)]
    /\ \/ cache' = cache
       \/ \E f \in poll[p].todo :
             /\ batch[poll[p].at].outcome[f] = "ok"
             /\ cache' = Cached(poll[p].at, f)
    /\ UNCHANGED <<rev, batch, job, keyed, prewarm, spent, rows>>

-----------------------------------------------------------------------------
(* The provider, the tenant, and explain_prioritization. *)

ProviderEnds(b) ==
    /\ batch[b].state = "processing"
    /\ \E o \in [Items(batch[b].sent) -> Outcomes] :
          batch' = [batch EXCEPT ![b] = [@ EXCEPT !.state = "ended", !.outcome =
              [f \in Findings |-> IF f \in DOMAIN o THEN o[f] ELSE None]]]
    /\ UNCHANGED <<rev, cache, job, keyed, prewarm, poll, spent, rows, failures>>

Revise(f) ==
    /\ rev[f] < MaxRev
    /\ rev' = [rev EXCEPT ![f] = @ + 1]
    /\ UNCHANGED <<cache, batch, job, keyed, prewarm, poll, spent, rows, failures>>

\* The connector is removed or its key replaced by one that does not decrypt.
ToggleKey ==
    /\ keyed' = ~keyed
    /\ UNCHANGED <<rev, cache, batch, job, prewarm, poll, spent, rows, failures>>

\* An analyst asks for a finding that is not cached (see AiExplain).
ExplainNow(f) ==
    /\ keyed
    /\ spent < Cap
    /\ cache[f][rev[f]] = None
    /\ cache' = [cache EXCEPT ![f][rev[f]] = rev[f]]
    /\ spent' = spent + 1
    /\ UNCHANGED <<rev, batch, job, keyed, prewarm, poll, rows, failures>>

Prewarm(p) == Select(p) \/ Estimate(p) \/ Create(p) \/ CommitRow(p) \/ PrewarmFails(p)
Work(p) == Take(p) \/ Result(p) \/ Complete(p)
Poll(p) == ListJobs(p) \/ Work(p) \/ PollFails(p)

Next ==
    \/ \E p \in Prewarms : Prewarm(p)
    \/ \E p \in Pollers : Poll(p)
    \/ \E b \in Batches : ProviderEnds(b)
    \/ \E f \in Findings : Revise(f) \/ ExplainNow(f)
    \/ ToggleKey

Spec == Init /\ [][Next]_vars

(***************************************************************************)
(* The loop starts a poller every minute and the provider ends a batch     *)
(* within a day.  Failures are finite in number (MaxFailures); nothing is  *)
(* assumed of prewarms, analysts or the tenant's key.                      *)
(***************************************************************************)
Fairness ==
    /\ \A p \in Pollers : WF_vars(ListJobs(p)) /\ WF_vars(Work(p))
    /\ \A b \in Batches : WF_vars(ProviderEnds(b))

FairSpec == Spec /\ Fairness

-----------------------------------------------------------------------------
(* Properties. *)

TypeOK ==
    /\ rev \in [Findings -> Revs]
    /\ cache \in [Findings -> [Revs -> Revs \cup {None}]]
    /\ batch \in [Batches -> [state : {"none", "processing", "ended"},
                              sent : [Findings -> Revs \cup {None}],
                              outcome : [Findings -> Outcomes \cup {None}]]]
    /\ job \in [Batches -> {None, "in_progress", "completed"}]
    /\ keyed \in BOOLEAN
    /\ prewarm \in [Prewarms -> [stage : {"idle", "selected", "affordable", "created"},
                                 picks : [Findings -> Revs \cup {None}],
                                 id : Batches \cup {None}]]
    /\ poll \in [Pollers -> [list : SUBSET Batches, at : Batches \cup {None},
                             todo : SUBSET Findings]]
    /\ spent \in Nat
    /\ rows \in [Batches -> [Findings -> Nat]]
    /\ failures \in Nat

\* A completed job has given everything it was paid for: each result has a row, each
\* good one is in the cache under the key it was submitted with, whichever pollers
\* overlapped, failed or resumed.
CompletedDelivered ==
    \A b \in Batches : job[b] = "completed" =>
        \A f \in Items(batch[b].sent) :
            /\ rows[b][f] > 0
            /\ batch[b].outcome[f] = "ok" => cache[f][batch[b].sent[f]] # None

\* A cached text is about the very revision its key names, although the finding may
\* have been revised between the submission and the result.
CacheFaithful ==
    \A f \in Findings, r \in Revs : cache[f][r] \in {None, r}

\* What a batch leaves behind: a row per result, and texts under their own keys.
ResultsSound == TypeOK /\ CompletedDelivered /\ CacheFaithful

\* A result is booked again only by a poller that overlaps another or repeats one
\* that failed: never more often than there are pollers and failures.
RepeatsBounded ==
    \A b \in Batches, f \in Findings :
        rows[b][f] =< Cardinality(Pollers) + failures

\* While the tenant keeps its key, a batch with a row is completed.
JobCompletes ==
    \A b \in Batches : <>[]keyed => (job[b] = "in_progress" ~> job[b] = "completed")

=============================================================================
