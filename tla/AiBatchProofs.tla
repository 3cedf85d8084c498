---------------------------- MODULE AiBatchProofs ----------------------------
(***************************************************************************)
(* Safety of AiBatch for any findings, batches, prewarms and pollers.      *)
(*                                                                         *)
(* Delivery: a poller's place in a batch is a promise about what it has    *)
(* left behind.  It survives the other pollers because rows are only added *)
(* and a cached text is never taken away.  Repetition: a result is due     *)
(* once to every poller that has listed its batch and not passed it.       *)
(***************************************************************************)
EXTENDS AiBatch, FiniteSetTheorems, TLAPS

Entry == [state : {"none", "processing", "ended"},
          sent : [Findings -> Revs \cup {None}],
          outcome : [Findings -> Outcomes \cup {None}]]
Warming == [stage : {"idle", "selected", "affordable", "created"},
            picks : [Findings -> Revs \cup {None}], id : Batches \cup {None}]
Polling == [list : SUBSET Batches, at : Batches \cup {None}, todo : SUBSET Findings]

\* What a result leaves behind.
Got(b, f) ==
    /\ rows[b][f] > 0
    /\ batch[b].outcome[f] = "ok" => cache[f][batch[b].sent[f]] # None

\* A batch that waits for its row waits for exactly one.
IdInv ==
    \A p \in Prewarms : prewarm[p].stage = "created" =>
        /\ prewarm[p].id \in Batches
        /\ batch[prewarm[p].id].state # "none"
        /\ job[prewarm[p].id] = None
        /\ \A q \in Prewarms \ {p} :
              prewarm[q].stage = "created" => prewarm[q].id # prewarm[p].id

JobInv ==
    \A b \in Batches :
        /\ job[b] # None => batch[b].state # "none"
        /\ job[b] = "completed" =>
              batch[b].state = "ended" /\ \A f \in Items(batch[b].sent) : Got(b, f)

\* A poller lists batches with a row, and has left every result that is not to do.
Place(p) ==
    /\ \A b \in poll[p].list : job[b] # None
    /\ poll[p].at # None =>
          /\ poll[p].at \in poll[p].list
          /\ batch[poll[p].at].state = "ended"
          /\ poll[p].todo \subseteq Items(batch[poll[p].at].sent)
          /\ \A f \in Items(batch[poll[p].at].sent) \ poll[p].todo : Got(poll[p].at, f)

PollInv == \A p \in Pollers : Place(p)

\* The pollers that have passed a result, and those it is still due to.
Past(b, f) == {p \in Pollers : poll[p].at = b /\ f \notin poll[p].todo}
Due(b, f) == {p \in Pollers : b \in poll[p].list} \ Past(b, f)

CountInv ==
    \A b \in Batches, f \in Findings :
        /\ job[b] # "completed" => rows[b][f] =< Cardinality(Past(b, f)) + failures
        /\ job[b] = "completed" =>
              rows[b][f] + Cardinality(Due(b, f)) =< Cardinality(Pollers) + failures

Inv == TypeOK /\ CacheFaithful /\ IdInv /\ JobInv /\ PollInv /\ CountInv

USE BatchAssumption DEF BatchAssumption

-----------------------------------------------------------------------------
(* The initial states. *)

LEMMA Subsets == \A S \in SUBSET Pollers : IsFiniteSet(S) /\ Cardinality(S) \in Nat
BY FS_Subset, FS_CardinalityType

LEMMA Sizes ==
    \A b, f : /\ IsFiniteSet(Past(b, f)) /\ Cardinality(Past(b, f)) \in Nat
              /\ IsFiniteSet(Due(b, f)) /\ Cardinality(Due(b, f)) \in Nat
              /\ IsFiniteSet(Past(b, f)') /\ Cardinality(Past(b, f)') \in Nat
              /\ IsFiniteSet(Due(b, f)') /\ Cardinality(Due(b, f)') \in Nat
<1> TAKE b, f
<1>1. Past(b, f) \in SUBSET Pollers /\ Due(b, f) \in SUBSET Pollers BY DEF Past, Due
<1>2. Past(b, f)' \in SUBSET Pollers /\ Due(b, f)' \in SUBSET Pollers BY DEF Past, Due
<1> QED BY <1>1, <1>2, Subsets

LEMMA InitInv == Init => Inv
<1> SUFFICES ASSUME Init PROVE Inv OBVIOUS
<1> USE DEF Init
<1>1. TypeOK
  <2>1. Nothing \in [Findings -> Revs \cup {None}] /\ Nothing \in [Findings -> Outcomes \cup {None}]
    BY DEF Nothing
  <2>2. NoBatch \in Entry /\ Resting \in Warming /\ NoPoll \in Polling
    BY <2>1 DEF NoBatch, Resting, NoPoll, Entry, Warming, Polling
  <2>3. batch \in [Batches -> Entry] BY <2>2
  <2>4. prewarm \in [Prewarms -> Warming] BY <2>2
  <2>5. poll \in [Pollers -> Polling] BY <2>2
  <2> QED BY <2>3, <2>4, <2>5 DEF TypeOK, Entry, Warming, Polling, Revs
<1>2. CacheFaithful BY DEF CacheFaithful
<1>3. IdInv BY DEF IdInv, Resting
<1>4. JobInv BY DEF JobInv
<1>5. PollInv BY DEF PollInv, Place, NoPoll
<1>6. CountInv
  <2> SUFFICES ASSUME NEW b \in Batches, NEW f \in Findings
               PROVE rows[b][f] =< Cardinality(Past(b, f)) + failures /\ job[b] # "completed"
    BY DEF CountInv
  <2>1. job[b] # "completed" OBVIOUS
  <2> QED BY <2>1, Sizes
<1> QED BY <1>1, <1>2, <1>3, <1>4, <1>5, <1>6 DEF Inv

-----------------------------------------------------------------------------
(* Type correctness. *)

LEMMA NextType == TypeOK /\ PollInv /\ IdInv /\ [Next]_vars => TypeOK'
<1> SUFFICES ASSUME TypeOK, PollInv, IdInv, [Next]_vars PROVE TypeOK' OBVIOUS
<1> USE DEF TypeOK
<1>0. /\ batch \in [Batches -> Entry] /\ prewarm \in [Prewarms -> Warming]
      /\ poll \in [Pollers -> Polling]
  BY DEF Entry, Warming, Polling
<1>a. ASSUME rev' \in [Findings -> Revs], cache' \in [Findings -> [Revs -> Revs \cup {None}]],
             batch' \in [Batches -> Entry], prewarm' \in [Prewarms -> Warming],
             poll' \in [Pollers -> Polling], keyed' \in BOOLEAN,
             job' \in [Batches -> {None, "in_progress", "completed"}],
             spent' \in Nat, rows' \in [Batches -> [Findings -> Nat]], failures' \in Nat
      PROVE  TypeOK'
  BY <1>a DEF Entry, Warming, Polling
<1>b. Resting \in Warming /\ NoPoll \in Polling
  BY DEF Resting, Warming, NoPoll, Polling, Nothing
<1>1. ASSUME NEW p \in Prewarms, Prewarm(p) PROVE TypeOK'
  <2>1. CASE Select(p)
    <3>1. PICK top \in SUBSET Findings :
             LET fresh == {f \in top : cache[f][rev[f]] # None}
                 picks == [f \in Findings |-> IF f \in top \ fresh THEN rev[f] ELSE None]
             IN prewarm' = [prewarm EXCEPT
                     ![p] = [Resting EXCEPT !.stage = "selected", !.picks = picks]]
      BY <2>1 DEF Select
    <3> DEFINE fresh == {f \in top : cache[f][rev[f]] # None}
               picks == [f \in Findings |-> IF f \in top \ fresh THEN rev[f] ELSE None]
    <3>2. picks \in [Findings -> Revs \cup {None}] OBVIOUS
    <3> HIDE DEF picks
    <3>3. [Resting EXCEPT !.stage = "selected", !.picks = picks] \in Warming
      BY <3>2, <1>b DEF Warming
    <3>4. prewarm' \in [Prewarms -> Warming] BY <1>0, <3>1, <3>3 DEF picks
    <3> QED BY <1>0, <1>a, <2>1, <3>4 DEF Select
  <2>2. CASE Estimate(p)
    <3>0. prewarm[p] \in Warming BY <1>0
    <3>1. [prewarm[p] EXCEPT !.stage = "affordable"] \in Warming BY <3>0 DEF Warming
    <3>2. prewarm' \in [Prewarms -> Warming] BY <1>0, <1>b, <2>2, <3>1 DEF Estimate
    <3> QED BY <1>0, <1>a, <2>2, <3>2 DEF Estimate
  <2>3. CASE Create(p)
    <3>0. prewarm[p].picks \in [Findings -> Revs \cup {None}] BY <1>0 DEF Warming
    <3>1. \A b \in Batches :
             /\ [NoBatch EXCEPT !.state = "processing", !.sent = prewarm[p].picks] \in Entry
             /\ [stage |-> "created", picks |-> prewarm[p].picks, id |-> b] \in Warming
      <4>1. Nothing \in [Findings -> Outcomes \cup {None}] BY DEF Nothing
      <4>2. prewarm[p] \in Warming BY <1>0
      <4> QED BY <3>0, <4>1, <4>2 DEF Entry, Warming, NoBatch
    <3>2. batch' \in [Batches -> Entry] /\ prewarm' \in [Prewarms -> Warming]
      BY <1>0, <2>3, <3>1 DEF Create
    <3> QED BY <1>0, <1>a, <2>3, <3>2 DEF Create
  <2>4. CASE CommitRow(p) BY <1>0, <1>a, <1>b, <2>4 DEF CommitRow
  <2>5. CASE PrewarmFails(p) BY <1>0, <1>a, <1>b, <2>5 DEF PrewarmFails
  <2> QED BY <1>1, <2>1, <2>2, <2>3, <2>4, <2>5 DEF Prewarm
<1>2. ASSUME NEW p \in Pollers, Poll(p) PROVE TypeOK'
  <2>0. poll[p] \in Polling BY <1>0
  <2>a. ASSUME NEW b \in Batches, NEW f \in Items(batch[b].sent)
        PROVE  Cached(b, f) \in [Findings -> [Revs -> Revs \cup {None}]]
    BY DEF Cached, Items
  <2>1. CASE ListJobs(p)
    <3>0. [poll[p] EXCEPT !.list = {b \in Batches : job[b] = "in_progress"}] \in Polling
      BY <2>0 DEF Polling
    <3>1. poll' \in [Pollers -> Polling] BY <1>0, <2>1, <3>0 DEF ListJobs
    <3> QED BY <1>0, <1>a, <2>1, <3>1 DEF ListJobs
  <2>2. CASE Take(p)
    <3>1. \A b \in Batches : Items(batch[b].sent) \subseteq Findings BY DEF Items
    <3>2. \A b \in Batches :
             /\ Entering(p, b) \in Polling
             /\ Leaving(p, b) \in Polling
      BY <2>0, <3>1 DEF Polling, Entering, Leaving
    <3>3. poll[p].list \subseteq Batches BY <2>0 DEF Polling
    <3>5. PICK b \in Batches : poll' = [poll EXCEPT ![p] = Entering(p, b)]
                              \/ poll' = [poll EXCEPT ![p] = Leaving(p, b)]
      BY <2>2, <3>3 DEF Take
    <3>4. poll' \in [Pollers -> Polling] BY <1>0, <3>2, <3>5
    <3> QED BY <1>0, <1>a, <2>2, <3>4 DEF Take
  <2>3. CASE Result(p)
    <3>1. poll[p].at \in Batches /\ poll[p].todo \subseteq Items(batch[poll[p].at].sent)
      BY <2>0, <2>3 DEF Result, PollInv, Place, Polling
    <3>2. PICK f \in poll[p].todo :
            /\ poll' = [poll EXCEPT ![p].todo = @ \ {f}]
            /\ rows' = [rows EXCEPT ![poll[p].at][f] = @ + 1]
            /\ IF batch[poll[p].at].outcome[f] = "ok"
               THEN cache' = Cached(poll[p].at, f) /\ spent' = spent + 1
               ELSE UNCHANGED <<cache, spent>>
      BY <2>3 DEF Result
    <3>0. [poll[p] EXCEPT !.todo = @ \ {f}] \in Polling BY <2>0 DEF Polling
    <3>3. poll' \in [Pollers -> Polling] BY <1>0, <3>0, <3>2
    <3>4. cache' \in [Findings -> [Revs -> Revs \cup {None}]] BY <2>a, <3>1, <3>2
    <3>5. rows' \in [Batches -> [Findings -> Nat]] BY <3>1, <3>2
    <3>6. spent' \in Nat BY <3>2
    <3> QED BY <1>0, <1>a, <2>3, <3>3, <3>4, <3>5, <3>6 DEF Result
  <2>4. CASE Complete(p)
    <3>0. Leaving(p, poll[p].at) \in Polling BY <2>0 DEF Polling, Leaving
    <3>1. poll' \in [Pollers -> Polling] BY <1>0, <2>4, <3>0 DEF Complete
    <3> QED BY <1>0, <1>a, <2>4, <3>1 DEF Complete
  <2>5. CASE PollFails(p)
    <3>1. poll[p].at \in Batches /\ poll[p].todo \subseteq Items(batch[poll[p].at].sent)
      BY <2>0, <2>5 DEF PollFails, PollInv, Place, Polling
    <3>0. Leaving(p, poll[p].at) \in Polling BY <2>0 DEF Polling, Leaving
    <3>2. poll' \in [Pollers -> Polling] BY <1>0, <1>b, <2>5, <3>0 DEF PollFails
    <3>3. cache' \in [Findings -> [Revs -> Revs \cup {None}]] BY <2>a, <2>5, <3>1 DEF PollFails
    <3> QED BY <1>0, <1>a, <2>5, <3>2, <3>3 DEF PollFails
  <2> QED BY <1>2, <2>1, <2>2, <2>3, <2>4, <2>5 DEF Poll, Work
<1>3. ASSUME NEW b \in Batches, ProviderEnds(b) PROVE TypeOK'
  <2>1. PICK o \in [Items(batch[b].sent) -> Outcomes] :
          batch' = [batch EXCEPT ![b] = [@ EXCEPT !.state = "ended",
              !.outcome = [f \in Findings |-> IF f \in DOMAIN o THEN o[f] ELSE None]]]
    BY <1>3 DEF ProviderEnds
  <2> DEFINE out == [f \in Findings |-> IF f \in DOMAIN o THEN o[f] ELSE None]
  <2>2. out \in [Findings -> Outcomes \cup {None}] OBVIOUS
  <2> HIDE DEF out
  <2>3. batch[b] \in Entry BY <1>0
  <2>5. [batch[b] EXCEPT !.state = "ended", !.outcome = out] \in Entry
    BY <2>2, <2>3 DEF Entry
  <2>4. batch' \in [Batches -> Entry] BY <1>0, <2>1, <2>5 DEF out
  <2> QED BY <1>0, <1>a, <1>3, <2>4 DEF ProviderEnds
<1>4. ASSUME NEW f \in Findings, Revise(f) PROVE TypeOK'
  BY <1>0, <1>a, <1>4 DEF Revise, Revs
<1>5. ASSUME NEW f \in Findings, ExplainNow(f) PROVE TypeOK'
  BY <1>0, <1>a, <1>5 DEF ExplainNow
<1>6. CASE ToggleKey BY <1>0, <1>a, <1>6 DEF ToggleKey
<1>7. CASE UNCHANGED vars BY <1>7 DEF vars
<1> QED BY <1>1, <1>2, <1>3, <1>4, <1>5, <1>6, <1>7 DEF Next

-----------------------------------------------------------------------------
(* The cache. *)

LEMMA CachedFaithful ==
    ASSUME TypeOK, CacheFaithful, NEW b \in Batches, NEW f \in Items(batch[b].sent),
           cache' = Cached(b, f)
    PROVE  /\ CacheFaithful'
           /\ cache'[f][batch[b].sent[f]] # None
           /\ \A g \in Findings, r \in Revs : cache[g][r] # None => cache'[g][r] # None
<1>1. f \in Findings /\ batch[b].sent[f] \in Revs BY DEF TypeOK, Items
<1>2. batch[b].sent[f] # None BY <1>1 DEF Revs
<1> QED BY <1>1, <1>2 DEF CacheFaithful, Cached, TypeOK

\* Every step keeps the cache faithful and takes no text out of it.
LEMMA CacheStep ==
    ASSUME Inv, [Next]_vars
    PROVE  /\ CacheFaithful'
           /\ \A g \in Findings, r \in Revs : cache[g][r] # None => cache'[g][r] # None
<1> USE DEF Inv
<1>1. ASSUME cache' = cache PROVE CacheFaithful' BY <1>1 DEF CacheFaithful
<1>2. ASSUME NEW p \in Pollers, Result(p) \/ PollFails(p)
      PROVE  \/ cache' = cache
             \/ \E b \in Batches : \E f \in Items(batch[b].sent) : cache' = Cached(b, f)
  <2>1. poll[p].at \in Batches /\ poll[p].todo \subseteq Items(batch[poll[p].at].sent)
    BY <1>2 DEF TypeOK, PollInv, Place, Result, PollFails
  <2> QED BY <1>2, <2>1 DEF Result, PollFails
<1>3. ASSUME NEW f \in Findings, ExplainNow(f)
      PROVE  /\ CacheFaithful'
             /\ \A g \in Findings, r \in Revs : cache[g][r] # None => cache'[g][r] # None
  <2>1. rev[f] \in Revs /\ rev[f] # None BY DEF TypeOK, Revs
  <2> QED BY <1>3, <2>1 DEF CacheFaithful, ExplainNow, TypeOK
<1>4. ASSUME NEW p \in Prewarms, Prewarm(p) PROVE cache' = cache
  BY <1>4 DEF Prewarm, Select, Estimate, Create, CommitRow, PrewarmFails
<1>5. ASSUME NEW p \in Pollers, ListJobs(p) \/ Take(p) \/ Complete(p) PROVE cache' = cache
  BY <1>5 DEF ListJobs, Take, Complete
<1>6. ASSUME NEW b \in Batches, ProviderEnds(b) PROVE cache' = cache BY <1>6 DEF ProviderEnds
<1>7. ASSUME NEW f \in Findings, Revise(f) PROVE cache' = cache BY <1>7 DEF Revise
<1>8. CASE ToggleKey BY <1>1, <1>8 DEF ToggleKey
<1>9. CASE UNCHANGED vars BY <1>1, <1>9 DEF vars
<1> QED BY <1>1, <1>2, <1>3, <1>4, <1>5, <1>6, <1>7, <1>8, <1>9, CachedFaithful DEF Next, Poll, Work

-----------------------------------------------------------------------------
(* What a step may do to the batches and their rows. *)

\* What has been submitted stays, what has ended is frozen, rows are only added.
LEMMA BatchStep ==
    ASSUME Inv, [Next]_vars
    PROVE  /\ \A b \in Batches : batch[b].state # "none" =>
                  batch'[b].state # "none" /\ batch'[b].sent = batch[b].sent
           /\ \A b \in Batches : batch[b].state = "ended" => batch'[b] = batch[b]
           /\ \A b \in Batches, f \in Findings : rows'[b][f] >= rows[b][f]
<1> USE DEF Inv, TypeOK
<1>1. ASSUME NEW p \in Prewarms, Create(p)
      PROVE  rows' = rows /\ \E b \in Batches : /\ batch[b].state = "none"
                                                /\ batch'[b].state = "processing"
                                                /\ \A c \in Batches \ {b} : batch'[c] = batch[c]
  <2>1. PICK b \in Batches :
          /\ batch[b].state = "none"
          /\ batch' = [batch EXCEPT
                 ![b] = [NoBatch EXCEPT !.state = "processing", !.sent = prewarm[p].picks]]
    BY <1>1 DEF Create
  <2>2. [NoBatch EXCEPT !.state = "processing", !.sent = prewarm[p].picks].state = "processing"
    BY DEF NoBatch
  <2> QED BY <1>1, <2>1, <2>2 DEF Create
<1>2. ASSUME NEW b \in Batches, ProviderEnds(b)
      PROVE  /\ rows' = rows /\ batch[b].state = "processing"
             /\ batch'[b].state = "ended" /\ batch'[b].sent = batch[b].sent
             /\ \A c \in Batches \ {b} : batch'[c] = batch[c]
  BY <1>2 DEF ProviderEnds
<1>3. ASSUME NEW p \in Pollers, Result(p)
      PROVE  batch' = batch /\ \A b \in Batches, f \in Findings : rows'[b][f] >= rows[b][f]
  <2>1. PICK f \in poll[p].todo : rows' = [rows EXCEPT ![poll[p].at][f] = @ + 1]
    BY <1>3 DEF Result
  <2> QED BY <1>3, <2>1 DEF Result
<1>4. ASSUME NEW p \in Prewarms, Select(p) \/ Estimate(p) \/ CommitRow(p) \/ PrewarmFails(p)
      PROVE  batch' = batch /\ rows' = rows
  BY <1>4 DEF Select, Estimate, CommitRow, PrewarmFails
<1>5. ASSUME NEW p \in Pollers, ListJobs(p) \/ Take(p) \/ Complete(p) \/ PollFails(p)
      PROVE  batch' = batch /\ rows' = rows
  BY <1>5 DEF ListJobs, Take, Complete, PollFails
<1>6. ASSUME NEW f \in Findings, Revise(f) \/ ExplainNow(f) PROVE batch' = batch /\ rows' = rows
  BY <1>6 DEF Revise, ExplainNow
<1>7. ASSUME ToggleKey \/ UNCHANGED vars PROVE batch' = batch /\ rows' = rows
  BY <1>7 DEF ToggleKey, vars
<1>0. \A b \in Batches, f \in Findings : rows[b][f] >= rows[b][f]
  <2>1. \A n \in Nat : n >= n OBVIOUS
  <2>2. rows \in [Batches -> [Findings -> Nat]] OBVIOUS
  <2> QED BY ONLY <2>1, <2>2
<1>8. ASSUME batch' = batch, rows' = rows
      PROVE  /\ \A b \in Batches : batch'[b].sent = batch[b].sent
             /\ \A b \in Batches, f \in Findings : rows'[b][f] >= rows[b][f]
  BY <1>0, <1>8
<1>9. CASE \E p \in Prewarms : Prewarm(p)
  <2>1. PICK p \in Prewarms : Prewarm(p) BY <1>9
  <2>2. CASE Create(p)
    <3>1. PICK b \in Batches : /\ batch[b].state = "none"
                               /\ batch'[b].state = "processing"
                               /\ \A c \in Batches \ {b} : batch'[c] = batch[c]
      BY <1>1, <2>2
    <3>2. rows' = rows BY <1>1, <2>2
    <3> QED BY <1>0, <3>1, <3>2
  <2>3. CASE Select(p) \/ Estimate(p) \/ CommitRow(p) \/ PrewarmFails(p)
    BY <1>4, <1>8, <2>3
  <2> QED BY <2>1, <2>2, <2>3 DEF Prewarm
<1>10. CASE \E p \in Pollers : Poll(p) BY <1>10, <1>3, <1>5, <1>8 DEF Poll, Work
<1>11. CASE \E b \in Batches : ProviderEnds(b)
  <2>1. PICK b \in Batches : ProviderEnds(b) BY <1>11
  <2> QED BY <1>2, <2>1
<1>12. CASE \E f \in Findings : Revise(f) \/ ExplainNow(f) BY <1>12, <1>6, <1>8
<1> QED BY <1>7, <1>8, <1>9, <1>10, <1>11, <1>12 DEF Next

LEMMA GotStays ==
    ASSUME Inv, [Next]_vars, NEW b \in Batches, batch[b].state = "ended",
           NEW f \in Items(batch[b].sent), Got(b, f)
    PROVE  Got(b, f)'
<1>1. batch'[b] = batch[b] BY BatchStep
<1>2. f \in Findings /\ batch[b].sent[f] \in Revs BY DEF Inv, TypeOK, Items
<1>3. rows'[b][f] >= rows[b][f] BY <1>2, BatchStep
<1>4. rows[b][f] \in Nat /\ rows'[b][f] \in Nat BY <1>2, NextType DEF Inv, TypeOK
<1>5. cache[f][batch[b].sent[f]] # None => cache'[f][batch[b].sent[f]] # None
  BY <1>2, CacheStep
<1> QED BY <1>1, <1>3, <1>4, <1>5 DEF Got

-----------------------------------------------------------------------------
(* Delivery. *)

\* The rows of the jobs never go back, and a job changes by one commit at a time.
LEMMA JobStep ==
    ASSUME Inv, [Next]_vars
    PROVE  \/ job' = job
           \/ \E p \in Prewarms : CommitRow(p)
           \/ \E p \in Pollers : Complete(p)
<1>1. ASSUME NEW p \in Prewarms, Prewarm(p) PROVE job' = job \/ CommitRow(p)
  BY <1>1 DEF Prewarm, Select, Estimate, Create, PrewarmFails
<1>2. ASSUME NEW p \in Pollers, Poll(p) PROVE job' = job \/ Complete(p)
  BY <1>2 DEF Poll, Work, ListJobs, Take, Result, PollFails
<1>3. ASSUME NEW b \in Batches, ProviderEnds(b) PROVE job' = job BY <1>3 DEF ProviderEnds
<1>4. ASSUME NEW f \in Findings, Revise(f) \/ ExplainNow(f) PROVE job' = job
  BY <1>4 DEF Revise, ExplainNow
<1>5. ASSUME ToggleKey \/ UNCHANGED vars PROVE job' = job BY <1>5 DEF ToggleKey, vars
<1> QED BY <1>1, <1>2, <1>3, <1>4, <1>5 DEF Next

LEMMA JobNext == Inv /\ [Next]_vars => JobInv'
<1> SUFFICES ASSUME Inv, [Next]_vars PROVE JobInv' OBVIOUS
<1>0. \A b \in Batches : job[b] = "completed" =>
         batch'[b].state = "ended" /\ \A f \in Items(batch[b].sent)' : Got(b, f)'
  <2> SUFFICES ASSUME NEW b \in Batches, job[b] = "completed"
               PROVE  batch'[b].state = "ended" /\ \A f \in Items(batch[b].sent)' : Got(b, f)'
    OBVIOUS
  <2>1. batch[b].state = "ended" /\ \A f \in Items(batch[b].sent) : Got(b, f) BY DEF Inv, JobInv
  <2>2. batch'[b] = batch[b] BY <2>1, BatchStep
  <2>3. Items(batch[b].sent)' = Items(batch[b].sent) BY <2>2 DEF Items
  <2> QED BY <2>1, <2>2, <2>3, GotStays
<1>1. CASE job' = job BY <1>0, <1>1, BatchStep DEF Inv, JobInv
<1>2. ASSUME NEW p \in Prewarms, CommitRow(p) PROVE JobInv'
  <2>1. /\ prewarm[p].id \in Batches /\ batch[prewarm[p].id].state # "none"
        /\ job' = [job EXCEPT ![prewarm[p].id] = "in_progress"]
    BY <1>2 DEF Inv, IdInv, CommitRow
  <2>2. \A b \in Batches : job'[b] = "completed" => job[b] = "completed"
    BY <2>1 DEF Inv, TypeOK
  <2>3. \A b \in Batches : job'[b] # None => batch[b].state # "none"
    BY <2>1 DEF Inv, TypeOK, JobInv
  <2> QED BY <1>0, <2>2, <2>3, BatchStep DEF JobInv
<1>3. ASSUME NEW p \in Pollers, Complete(p) PROVE JobInv'
  <2>0. PICK a \in Batches : a = poll[p].at BY <1>3 DEF Inv, TypeOK, Complete
  <2>1. /\ job' = [job EXCEPT ![a] = "completed"]
        /\ batch[a].state = "ended" /\ \A f \in Items(batch[a].sent) : Got(a, f)
    BY <1>3, <2>0 DEF Inv, TypeOK, PollInv, Place, Complete
  <2>2. \A b \in Batches : batch'[b] = batch[b] /\ Items(batch[b].sent)' = Items(batch[b].sent)
    BY <1>3 DEF Complete, Items
  <2>4. \A f \in Items(batch[a].sent) : Got(a, f)' BY <1>3, <2>1 DEF Complete, Got
  <2>5. \A b \in Batches \ {a} : job'[b] = job[b] BY <2>1 DEF Inv, TypeOK
  <2>7. \A b \in Batches \ {a} : (job[b] # None => batch[b].state # "none")' BY <2>2, <2>5 DEF Inv, JobInv
  <2>8. ASSUME NEW b \in Batches PROVE
          (/\ job[b] # None => batch[b].state # "none"
           /\ job[b] = "completed" =>
                 batch[b].state = "ended" /\ \A f \in Items(batch[b].sent) : Got(b, f))'
    <3>1. CASE b = a BY <2>1, <2>2, <2>4, <3>1
    <3>2. CASE b # a BY <1>0, <2>5, <2>7, <3>2
    <3> QED BY <3>1, <3>2
  <2> QED BY <2>8 DEF JobInv
<1> QED BY <1>1, <1>2, <1>3, JobStep

LEMMA IdNext == Inv /\ [Next]_vars => IdInv'
<1> SUFFICES ASSUME Inv, [Next]_vars PROVE IdInv' OBVIOUS
<1>a. \A p \in Prewarms : prewarm[p] \in Warming BY DEF Inv, TypeOK, Warming
<1>1. ASSUME prewarm' = prewarm, job' = job PROVE IdInv'
  BY <1>1, BatchStep DEF Inv, IdInv
<1>2. ASSUME NEW p \in Prewarms, job' = job, prewarm'[p].stage # "created",
             \A q \in Prewarms \ {p} : prewarm'[q] = prewarm[q]
      PROVE  IdInv'
  BY <1>2, BatchStep DEF Inv, IdInv
<1>3. ASSUME NEW p \in Prewarms, Select(p) \/ Estimate(p) \/ PrewarmFails(p) PROVE IdInv'
  <2>1. job' = job /\ \A q \in Prewarms \ {p} : prewarm'[q] = prewarm[q]
    BY <1>3 DEF Select, Estimate, PrewarmFails, Inv, TypeOK
  <2>2. prewarm'[p].stage # "created"
    <3>1. CASE Select(p) BY <3>1 DEF Select, Inv, TypeOK, Resting
    <3>2. CASE PrewarmFails(p) BY <3>2 DEF PrewarmFails, Inv, TypeOK, Resting
    <3>3. CASE Estimate(p)
      <4>1. \/ prewarm'[p] = Resting
            \/ prewarm'[p] = [prewarm[p] EXCEPT !.stage = "affordable"]
        BY <3>3 DEF Estimate, Inv, TypeOK
      <4>2. prewarm[p] \in Warming BY <1>a
      <4> QED BY ONLY <4>1, <4>2 DEF Resting, Warming
    <3> QED BY <1>3, <3>1, <3>2, <3>3
  <2> QED BY <1>2, <2>1, <2>2
<1>4. ASSUME NEW p \in Prewarms, Create(p) PROVE IdInv'
  <2>1. PICK b \in Batches :
          /\ batch[b].state = "none"
          /\ batch'[b] = [NoBatch EXCEPT !.state = "processing", !.sent = prewarm[p].picks]
          /\ prewarm' = [prewarm EXCEPT
                 ![p] = [stage |-> "created", picks |-> prewarm[p].picks, id |-> b]]
    BY <1>4 DEF Create, Inv, TypeOK
  <2>7. batch'[b].state # "none" BY <2>1 DEF NoBatch
  <2>2. job[b] = None BY <2>1 DEF Inv, JobInv
  <2>3. \A q \in Prewarms : prewarm[q].stage = "created" => prewarm[q].id # b
    BY <2>1 DEF Inv, IdInv
  <2>4. job' = job /\ prewarm[p].stage # "created" BY <1>4 DEF Create
  <2>5. prewarm'[p].stage = "created" /\ prewarm'[p].id = b BY <2>1 DEF Inv, TypeOK
  <2>6. \A q \in Prewarms \ {p} : prewarm'[q] = prewarm[q] BY <2>1 DEF Inv, TypeOK
  <2> SUFFICES ASSUME NEW q \in Prewarms, (prewarm[q].stage = "created")'
               PROVE  /\ prewarm'[q].id \in Batches
                      /\ batch'[prewarm'[q].id].state # "none"
                      /\ job'[prewarm'[q].id] = None
                      /\ \A r \in Prewarms \ {q} :
                            prewarm'[r].stage = "created" => prewarm'[r].id # prewarm'[q].id
    BY DEF IdInv
  <2>8. CASE q = p
    <3>1. \A r \in Prewarms \ {q} : prewarm'[r].stage = "created" => prewarm'[r].id # b
      BY <2>3, <2>6, <2>8
    <3> QED BY <2>2, <2>4, <2>5, <2>7, <2>8, <3>1
  <2>9. CASE q # p
    <3>1. /\ prewarm[q].id \in Batches /\ prewarm[q].id # b
          /\ batch[prewarm[q].id].state # "none" /\ job[prewarm[q].id] = None
          /\ \A r \in Prewarms \ {q} :
                prewarm[r].stage = "created" => prewarm[r].id # prewarm[q].id
      BY <2>3, <2>6, <2>9 DEF Inv, IdInv
    <3> QED BY <2>4, <2>5, <2>6, <2>9, <3>1, BatchStep
  <2> QED BY <2>8, <2>9
<1>5. ASSUME NEW p \in Prewarms, CommitRow(p) PROVE IdInv'
  <2>1. /\ job' = [job EXCEPT ![prewarm[p].id] = "in_progress"] /\ prewarm[p].stage = "created"
        /\ prewarm'[p].stage # "created"
        /\ \A q \in Prewarms \ {p} : prewarm'[q] = prewarm[q]
    BY <1>5 DEF CommitRow, Resting, Inv, TypeOK
  <2>2. \A q \in Prewarms \ {p} :
           prewarm[q].stage = "created" => job'[prewarm[q].id] = job[prewarm[q].id]
    BY <2>1 DEF Inv, IdInv, TypeOK
  <2> QED BY <2>1, <2>2, BatchStep DEF Inv, IdInv
<1>6. ASSUME NEW p \in Pollers, Complete(p) PROVE IdInv'
  <2>1. /\ poll[p].at \in Batches /\ job' = [job EXCEPT ![poll[p].at] = "completed"]
        /\ prewarm' = prewarm /\ job[poll[p].at] # None
    BY <1>6 DEF Complete, Inv, PollInv, Place, TypeOK
  <2>2. \A q \in Prewarms :
           prewarm[q].stage = "created" => job'[prewarm[q].id] = job[prewarm[q].id]
    BY <2>1 DEF Inv, IdInv, TypeOK
  <2> QED BY <2>1, <2>2, BatchStep DEF Inv, IdInv
<1>7. ASSUME NEW p \in Pollers, Poll(p), ~Complete(p) PROVE IdInv'
  BY <1>1, <1>7 DEF Poll, Work, ListJobs, Take, Result, PollFails
<1>8. ASSUME NEW b \in Batches, ProviderEnds(b) PROVE IdInv' BY <1>1, <1>8 DEF ProviderEnds
<1>9. ASSUME NEW f \in Findings, Revise(f) \/ ExplainNow(f) PROVE IdInv'
  BY <1>1, <1>9 DEF Revise, ExplainNow
<1>10. CASE ToggleKey \/ UNCHANGED vars BY <1>1, <1>10 DEF ToggleKey, vars
<1> QED BY <1>3, <1>4, <1>5, <1>6, <1>7, <1>8, <1>9, <1>10 DEF Next, Prewarm

-----------------------------------------------------------------------------
(* The pollers. *)

LEMMA JobStays ==
    ASSUME Inv, [Next]_vars, NEW b \in Batches
    PROVE  /\ job[b] # None => job'[b] # None
           /\ job[b] = "completed" => job'[b] = "completed"
<1>1. ASSUME NEW p \in Prewarms, CommitRow(p) PROVE job[b] # None => job'[b] = job[b]
  BY <1>1 DEF Inv, IdInv, TypeOK, CommitRow
<1>2. ASSUME NEW p \in Pollers, Complete(p) PROVE job'[b] \in {job[b], "completed"}
  BY <1>2 DEF Inv, TypeOK, Complete
<1> QED BY <1>1, <1>2, JobStep

LEMMA PlaceStays ==
    ASSUME Inv, [Next]_vars, NEW p \in Pollers, poll'[p] = poll[p]
    PROVE  Place(p)'
<1>1. Place(p) /\ poll[p] \in Polling BY DEF Inv, PollInv, TypeOK, Polling
<1>2. \A b \in poll[p].list : job'[b] # None BY <1>1, JobStays DEF Place, Polling
<1>3. CASE poll[p].at = None BY <1>2, <1>3 DEF Place
<1>4. CASE poll[p].at # None
  <2>1. PICK a \in Batches : a = poll[p].at BY <1>1, <1>4 DEF Polling
  <2>2. batch[a].state = "ended" /\ batch'[a] = batch[a]
    BY <1>1, <1>4, <2>1, BatchStep DEF Place
  <2>3. Items(batch[a].sent)' = Items(batch[a].sent) BY <2>2 DEF Items
  <2>4. \A f \in Items(batch[a].sent) \ poll[p].todo : Got(a, f)'
    BY <1>1, <1>4, <2>1, <2>2, GotStays DEF Place
  <2>5. poll'[p].at = a BY <2>1
  <2>6. Items(batch[poll[p].at].sent)' = Items(batch[a].sent) BY <2>2, <2>5 DEF Items
  <2>7. \A f \in Items(batch[a].sent) \ poll[p].todo : Got(poll[p].at, f)'
    BY <2>4, <2>5 DEF Got
  <2> QED BY <1>1, <1>2, <1>4, <2>1, <2>2, <2>5, <2>6, <2>7 DEF Place
<1> QED BY <1>3, <1>4

\* A step moves at most one poller.
LEMMA PollStep ==
    ASSUME Inv, [Next]_vars
    PROVE  \/ poll' = poll
           \/ \E p \in Pollers : /\ Poll(p)
                                 /\ \A q \in Pollers \ {p} : poll'[q] = poll[q]
<1>1. ASSUME NEW p \in Pollers, Poll(p) PROVE \A q \in Pollers \ {p} : poll'[q] = poll[q]
  <2>1. \E new : poll' = [poll EXCEPT ![p] = new]
    <3>1. CASE ListJobs(p) BY <3>1 DEF ListJobs
    <3>2. CASE Take(p) BY <3>2 DEF Take
    <3>3. CASE Result(p) BY <3>3 DEF Result
    <3>4. CASE Complete(p) BY <3>4 DEF Complete
    <3>5. CASE PollFails(p) BY <3>5 DEF PollFails
    <3> QED BY <1>1, <3>1, <3>2, <3>3, <3>4, <3>5 DEF Poll, Work
  <2> QED BY <2>1 DEF Inv, TypeOK
<1>2. ASSUME NEW p \in Prewarms, Prewarm(p) PROVE poll' = poll
  BY <1>2 DEF Prewarm, Select, Estimate, Create, CommitRow, PrewarmFails
<1>3. ASSUME NEW b \in Batches, ProviderEnds(b) PROVE poll' = poll BY <1>3 DEF ProviderEnds
<1>4. ASSUME NEW f \in Findings, Revise(f) \/ ExplainNow(f) PROVE poll' = poll
  BY <1>4 DEF Revise, ExplainNow
<1>5. ASSUME ToggleKey \/ UNCHANGED vars PROVE poll' = poll BY <1>5 DEF ToggleKey, vars
<1> QED BY <1>1, <1>2, <1>3, <1>4, <1>5 DEF Next

LEMMA PollNext == Inv /\ [Next]_vars => PollInv'
<1> SUFFICES ASSUME Inv, [Next]_vars PROVE PollInv' OBVIOUS
<1>1. CASE poll' = poll BY <1>1, PlaceStays DEF PollInv
<1>2. ASSUME NEW p \in Pollers, Poll(p), \A q \in Pollers \ {p} : poll'[q] = poll[q]
      PROVE  PollInv'
  <2> SUFFICES Place(p)' BY <1>2, PlaceStays DEF PollInv
  <2>0. Place(p) /\ poll[p] \in Polling /\ poll \in [Pollers -> Polling]
    BY DEF Inv, PollInv, TypeOK, Polling
  <2>1. CASE ListJobs(p)
    <3>1. poll'[p].list = {b \in Batches : job[b] = "in_progress"} /\ poll'[p].at = None
      BY <2>0, <2>1 DEF ListJobs, NoPoll
    <3> QED BY <2>1, <3>1 DEF Place, ListJobs
  <2>2. CASE Take(p)
    <3>1. PICK b \in poll[p].list :
            IF keyed /\ batch[b].state = "ended"
            THEN poll' = [poll EXCEPT ![p] = Entering(p, b)]
            ELSE poll' = [poll EXCEPT ![p] = Leaving(p, b)]
      BY <2>2 DEF Take
    <3>2. \A c \in poll[p].list : job'[c] # None BY <2>0, <2>2 DEF Take, Place
    <3>3. CASE batch[b].state = "ended" /\ poll'[p] = Entering(p, b)
      <4>1. poll'[p].list = poll[p].list /\ poll'[p].at = b /\ poll'[p].todo = Items(batch[b].sent)
        BY <3>3 DEF Entering
      <4>2. Items(batch[poll[p].at].sent)' = Items(batch[b].sent)
        BY <2>2, <4>1 DEF Take, Items
      <4> QED BY <2>2, <3>1, <3>2, <3>3, <4>1, <4>2 DEF Place, Take
    <3>4. CASE poll'[p] = Leaving(p, b) BY <3>2, <3>4 DEF Place, Leaving
    <3> QED BY <2>0, <3>1, <3>3, <3>4
  <2>3. CASE Result(p)
    <3>1. PICK a \in Batches : a = poll[p].at BY <2>0, <2>3 DEF Result, Polling
    <3>2. PICK f \in poll[p].todo :
            /\ poll' = [poll EXCEPT ![p].todo = @ \ {f}]
            /\ rows' = [rows EXCEPT ![a][f] = @ + 1]
            /\ IF batch[a].outcome[f] = "ok" THEN cache' = Cached(a, f) ELSE cache' = cache
      BY <2>3, <3>1 DEF Result
    <3>3. poll'[p].list = poll[p].list /\ poll'[p].at = a /\ poll'[p].todo = poll[p].todo \ {f}
      BY <2>0, <3>1, <3>2 DEF Polling
    <3>4. /\ f \in Items(batch[a].sent) /\ batch[a].state = "ended" /\ batch' = batch
          /\ poll[p].todo \subseteq Items(batch[a].sent)
          /\ \A g \in Items(batch[a].sent) \ poll[p].todo : Got(a, g)
          /\ a \in poll[p].list
      BY <2>0, <2>3, <3>1 DEF Place, Result
    <3>5. Got(a, f)'
      <4>1. f \in Findings /\ rows[a][f] \in Nat /\ rows'[a][f] = rows[a][f] + 1
        BY <3>2, <3>4 DEF Inv, TypeOK, Items
      <4>2. batch[a].outcome[f] = "ok" => cache'[f][batch[a].sent[f]] # None
        BY <3>2, <3>4, CachedFaithful DEF Inv
      <4> QED BY <3>4, <4>1, <4>2 DEF Got
    <3>6. \A g \in Items(batch[a].sent) \ poll'[p].todo : Got(a, g)'
      BY <3>3, <3>4, <3>5, GotStays
    <3>7. Items(batch[poll[p].at].sent)' = Items(batch[a].sent) BY <3>3, <3>4 DEF Items
    <3>8. \A g \in Items(batch[a].sent) \ poll'[p].todo : Got(poll[p].at, g)'
      BY <3>3, <3>6 DEF Got
    <3>9. \A b \in poll[p].list : job'[b] # None BY <2>0, <2>3 DEF Result, Place
    <3> QED BY <3>3, <3>4, <3>7, <3>8, <3>9 DEF Place
  <2>4. ASSUME \/ poll'[p] = NoPoll
               \/ poll'[p] = Leaving(p, poll[p].at)
        PROVE  Place(p)'
    <3>1. \A b \in poll[p].list : b \in Batches /\ job'[b] # None
      BY <2>0, JobStays DEF Place, Polling
    <3>2. poll'[p].at = None /\ poll'[p].list \subseteq poll[p].list BY <2>4 DEF NoPoll, Leaving
    <3> QED BY <3>1, <3>2 DEF Place
  <2>5. CASE Complete(p) BY <2>0, <2>4, <2>5 DEF Complete
  <2>6. CASE PollFails(p) BY <2>0, <2>4, <2>6 DEF PollFails
  <2> QED BY <1>2, <2>1, <2>2, <2>3, <2>5, <2>6 DEF Poll, Work
<1> QED BY <1>1, <1>2, PollStep

-----------------------------------------------------------------------------
(* Repetition. *)

\* A bound that covers both halves: a job's completion turns the first into the second.
LEMMA Shares ==
    ASSUME NEW b, NEW f
    PROVE  Cardinality(Past(b, f)) + Cardinality(Due(b, f)) =< Cardinality(Pollers)
<1>1. Past(b, f) \cup Due(b, f) \subseteq Pollers /\ Past(b, f) \cap Due(b, f) = {}
  BY DEF Past, Due
<1>2. Cardinality(Past(b, f) \cup Due(b, f)) =< Cardinality(Pollers) BY <1>1, FS_Subset
<1>3. Cardinality(Past(b, f) \cap Due(b, f)) = 0 BY <1>1, FS_EmptySet
<1>4. IsFiniteSet(Past(b, f)) /\ IsFiniteSet(Due(b, f)) BY Sizes
<1>5. Cardinality(Past(b, f) \cup Due(b, f))
        = Cardinality(Past(b, f)) + Cardinality(Due(b, f)) - Cardinality(Past(b, f) \cap Due(b, f))
  BY <1>4, FS_Union
<1> QED BY <1>2, <1>3, <1>5, Sizes, FS_CardinalityType

\* Nothing is added, the failures do not shrink and the shares change as the job allows.
LEMMA CountFrame ==
    ASSUME Inv, [Next]_vars, NEW b \in Batches, NEW f \in Findings,
           rows'[b][f] = rows[b][f], failures' >= failures,
           job'[b] # "completed" => Past(b, f) \subseteq Past(b, f)',
           job'[b] = "completed" =>
               job[b] = "completed" /\ Due(b, f)' \subseteq Due(b, f)
    PROVE  /\ job'[b] # "completed" =>
                  rows'[b][f] =< Cardinality(Past(b, f)') + failures'
           /\ job'[b] = "completed" =>
                  rows'[b][f] + Cardinality(Due(b, f)') =< Cardinality(Pollers) + failures'
<1>1. /\ rows[b][f] \in Nat /\ failures \in Nat /\ failures' \in Nat
      /\ Cardinality(Pollers) \in Nat
  BY NextType, FS_CardinalityType DEF Inv, TypeOK
<1>2. CASE job'[b] # "completed"
  <2>1. rows[b][f] =< Cardinality(Past(b, f)) + failures
    BY <1>2, JobStays DEF Inv, CountInv
  <2>2. IsFiniteSet(Past(b, f)') /\ Cardinality(Past(b, f)') \in Nat BY Sizes
  <2>3. Cardinality(Past(b, f)) =< Cardinality(Past(b, f)') BY <1>2, <2>2, FS_Subset
  <2>4. Cardinality(Past(b, f)) \in Nat BY Sizes
  <2> QED BY <1>1, <1>2, <2>1, <2>2, <2>3, <2>4
<1>3. CASE job'[b] = "completed"
  <2>1. rows[b][f] + Cardinality(Due(b, f)) =< Cardinality(Pollers) + failures
    BY <1>3 DEF Inv, CountInv
  <2>2. Cardinality(Due(b, f)') \in Nat BY Sizes
  <2>3. Cardinality(Due(b, f)') =< Cardinality(Due(b, f)) BY <1>3, Sizes, FS_Subset
  <2>4. Cardinality(Due(b, f)) \in Nat BY Sizes
  <2> QED BY <1>1, <1>3, <2>1, <2>2, <2>3, <2>4
<1> QED BY <1>2, <1>3

\* Only Result adds a row, and only to the result it takes off the list.
LEMMA CountNext == Inv /\ [Next]_vars => CountInv'
<1> SUFFICES ASSUME Inv, [Next]_vars, NEW b \in Batches, NEW f \in Findings
             PROVE  /\ job'[b] # "completed" =>
                           rows'[b][f] =< Cardinality(Past(b, f)') + failures'
                    /\ job'[b] = "completed" =>
                           rows'[b][f] + Cardinality(Due(b, f)') =< Cardinality(Pollers) + failures'
  BY DEF CountInv
<1>0. /\ rows[b][f] \in Nat /\ failures \in Nat /\ Cardinality(Pollers) \in Nat
      /\ poll \in [Pollers -> Polling] /\ rows \in [Batches -> [Findings -> Nat]]
      /\ failures >= failures
  BY FS_CardinalityType DEF Inv, TypeOK, Polling
<1>1. ASSUME poll' = poll, rows' = rows, failures' = failures, job'[b] = job[b] \/ job'[b] # "completed"
      PROVE  /\ job'[b] # "completed" =>
                    rows'[b][f] =< Cardinality(Past(b, f)') + failures'
             /\ job'[b] = "completed" =>
                    rows'[b][f] + Cardinality(Due(b, f)') =< Cardinality(Pollers) + failures'
  BY <1>0, <1>1, CountFrame DEF Past, Due
<1>2. ASSUME NEW p \in Prewarms, Prewarm(p)
      PROVE  poll' = poll /\ rows' = rows /\ failures' = failures
             /\ (job'[b] = job[b] \/ job'[b] # "completed")
  BY <1>2 DEF Prewarm, Select, Estimate, Create, CommitRow, PrewarmFails, Inv, TypeOK
<1>3. ASSUME NEW c \in Batches, ProviderEnds(c)
      PROVE  poll' = poll /\ rows' = rows /\ failures' = failures /\ job'[b] = job[b]
  BY <1>3 DEF ProviderEnds
<1>4. ASSUME NEW g \in Findings, Revise(g) \/ ExplainNow(g)
      PROVE  poll' = poll /\ rows' = rows /\ failures' = failures /\ job'[b] = job[b]
  BY <1>4 DEF Revise, ExplainNow
<1>5. ASSUME ToggleKey \/ UNCHANGED vars
      PROVE  poll' = poll /\ rows' = rows /\ failures' = failures /\ job'[b] = job[b]
  BY <1>5 DEF ToggleKey, vars
<1>6. ASSUME NEW p \in Pollers, Poll(p)
      PROVE  /\ job'[b] # "completed" =>
                    rows'[b][f] =< Cardinality(Past(b, f)') + failures'
             /\ job'[b] = "completed" =>
                    rows'[b][f] + Cardinality(Due(b, f)') =< Cardinality(Pollers) + failures'
  <2>0. Place(p) /\ poll[p] \in Polling BY <1>0 DEF Inv, PollInv
  <2>1. CASE ListJobs(p)
    <3>1. /\ \A q \in Pollers \ {p} : poll'[q] = poll[q]
          /\ poll[p] = NoPoll /\ poll'[p].at = None /\ poll'[p].todo = {}
          /\ poll'[p].list = {c \in Batches : job[c] = "in_progress"}
      BY <1>0, <2>1 DEF ListJobs, NoPoll
    <3>2. Past(b, f)' = Past(b, f) BY <3>1 DEF Past, NoPoll
    <3>3. job[b] = "completed" => Due(b, f)' \subseteq Due(b, f)
      BY <3>1, <3>2 DEF Due
    <3>4. rows' = rows /\ failures' = failures /\ job' = job BY <2>1 DEF ListJobs
    <3> QED BY <1>0, <3>2, <3>3, <3>4, CountFrame
  <2>2. CASE Take(p)
    <3>1. PICK c \in poll[p].list :
            IF keyed /\ batch[c].state = "ended"
            THEN poll' = [poll EXCEPT ![p] = Entering(p, c)]
            ELSE poll' = [poll EXCEPT ![p] = Leaving(p, c)]
      BY <2>2 DEF Take
    <3>2. poll'[p] = Entering(p, c) \/ poll'[p] = Leaving(p, c) BY <1>0, <3>1
    <3>3. poll'[p].list \subseteq poll[p].list BY <3>2 DEF Entering, Leaving
    <3>4. \A q \in Pollers \ {p} : poll'[q] = poll[q] BY <1>0, <3>1
    <3>5. poll[p].at = None BY <2>2 DEF Take
    <3>6. Past(b, f) \subseteq Past(b, f)' BY <3>4, <3>5 DEF Past
    <3>7. Due(b, f)' \subseteq Due(b, f) BY <3>3, <3>4, <3>6 DEF Due
    <3>8. rows' = rows /\ failures' = failures /\ job' = job BY <2>2 DEF Take
    <3> QED BY <1>0, <3>6, <3>7, <3>8, CountFrame
  <2>3. CASE Result(p)
    <3>1. PICK a \in Batches : a = poll[p].at BY <2>0, <2>3 DEF Result, Polling
    <3>2. PICK g \in poll[p].todo :
            /\ poll' = [poll EXCEPT ![p].todo = @ \ {g}]
            /\ rows' = [rows EXCEPT ![a][g] = @ + 1]
      BY <2>3, <3>1 DEF Result
    <3>3. /\ poll'[p].list = poll[p].list /\ poll'[p].at = a /\ poll'[p].todo = poll[p].todo \ {g}
          /\ \A q \in Pollers \ {p} : poll'[q] = poll[q]
      BY <1>0, <2>0, <3>1, <3>2 DEF Polling
    <3>4. g \in Findings /\ a \in poll[p].list BY <2>0, <2>3, <3>1 DEF Polling, Place, Result
    <3>5. job' = job /\ failures' = failures BY <2>3 DEF Result
    <3>6. CASE b = a /\ f = g
      <4>1. rows'[b][f] = rows[b][f] + 1 BY <1>0, <3>2, <3>4, <3>6
      <4>2. Past(b, f)' = Past(b, f) \cup {p} /\ p \notin Past(b, f)
        BY <3>1, <3>2, <3>3, <3>6 DEF Past
      <4>3. Due(b, f)' = Due(b, f) \ {p} /\ p \in Due(b, f)
        BY <3>3, <3>4, <3>6, <4>2 DEF Due
      <4>4. Cardinality(Past(b, f)') = Cardinality(Past(b, f)) + 1 BY <4>2, Sizes, FS_AddElement
      <4>5. Cardinality(Due(b, f)') = Cardinality(Due(b, f)) - 1 BY <4>3, Sizes, FS_RemoveElement
      <4>6. /\ job[b] # "completed" => rows[b][f] =< Cardinality(Past(b, f)) + failures
            /\ job[b] = "completed" =>
                  rows[b][f] + Cardinality(Due(b, f)) =< Cardinality(Pollers) + failures
        BY DEF Inv, CountInv
      <4> QED BY <1>0, <3>5, <4>1, <4>4, <4>5, <4>6, Sizes
    <3>7. CASE ~(b = a /\ f = g)
      <4>1. rows'[b][f] = rows[b][f] BY <1>0, <3>2, <3>4, <3>7
      <4>2. Past(b, f)' = Past(b, f) BY <3>1, <3>3, <3>7 DEF Past
      <4>3. Due(b, f)' = Due(b, f) BY <3>3, <4>2 DEF Due
      <4> QED BY <1>0, <3>5, <4>1, <4>2, <4>3, CountFrame
    <3> QED BY <3>6, <3>7
  <2>4. CASE Complete(p)
    <3>1. PICK a \in Batches : a = poll[p].at BY <2>0, <2>4 DEF Complete, Polling
    <3>2. /\ poll[p].todo = {} /\ job' = [job EXCEPT ![a] = "completed"]
          /\ rows' = rows /\ failures' = failures
      BY <2>4, <3>1 DEF Complete
    <3>3. /\ poll'[p].list = poll[p].list \ {a} /\ poll'[p].at = None
          /\ \A q \in Pollers \ {p} : poll'[q] = poll[q]
      BY <1>0, <2>4, <3>1 DEF Complete, Leaving
    <3>4. Due(b, f)' \subseteq Due(b, f) BY <3>1, <3>2, <3>3 DEF Due, Past
    <3>5. CASE b # a
      <4>1. Past(b, f)' = Past(b, f) BY <3>1, <3>3, <3>5 DEF Past
      <4>2. job'[b] = job[b] BY <3>2, <3>5 DEF Inv, TypeOK
      <4> QED BY <1>0, <3>2, <3>4, <4>1, <4>2, CountFrame
    <3>6. CASE b = a /\ job[b] = "completed"
      <4>1. job'[b] = "completed" BY <3>2, <3>6 DEF Inv, TypeOK
      <4> QED BY <1>0, <3>2, <3>4, <3>6, <4>1, CountFrame
    <3>7. CASE b = a /\ job[b] # "completed"
      <4>1. job'[b] = "completed" BY <3>2, <3>7 DEF Inv, TypeOK
      <4>2. rows[b][f] =< Cardinality(Past(b, f)) + failures BY <3>7 DEF Inv, CountInv
      <4>3. Cardinality(Due(b, f)') =< Cardinality(Due(b, f)) BY <3>4, Sizes, FS_Subset
      <4> QED BY <1>0, <3>2, <4>1, <4>2, <4>3, Shares, Sizes
    <3> QED BY <3>5, <3>6, <3>7
  <2>5. CASE PollFails(p)
    <3>1. poll'[p] = NoPoll \/ poll'[p] = Leaving(p, poll[p].at)
      BY <1>0, <2>5 DEF PollFails
    <3>2. poll'[p].list \subseteq poll[p].list /\ poll'[p].at = None /\ poll[p].at # None
          /\ poll'[p].list \subseteq poll[p].list \ {poll[p].at}
      BY <2>5, <3>1 DEF NoPoll, Leaving, PollFails
    <3>3. \A q \in Pollers \ {p} : poll'[q] = poll[q] BY <1>0, <2>5 DEF PollFails
    <3>4. rows' = rows /\ failures' = failures + 1 /\ job' = job BY <2>5 DEF PollFails
    <3>5. Past(b, f) \ {p} \subseteq Past(b, f)' BY <3>3 DEF Past
    <3>6. Due(b, f)' \subseteq Due(b, f) BY <3>2, <3>3 DEF Due, Past
    <3>7. Cardinality(Past(b, f) \ {p}) =< Cardinality(Past(b, f)')
      BY <3>5, Sizes, FS_Subset
    <3>8. Cardinality(Past(b, f)) =< Cardinality(Past(b, f)') + 1
      <4>1. Cardinality(Past(b, f) \ {p}) >= Cardinality(Past(b, f)) - 1
        <5>1. Cardinality(Past(b, f)) \in Nat BY Sizes
        <5>2. Cardinality(Past(b, f) \ {p}) =
                IF p \in Past(b, f) THEN Cardinality(Past(b, f)) - 1 ELSE Cardinality(Past(b, f))
          BY Sizes, FS_RemoveElement
        <5> QED BY ONLY <5>1, <5>2
      <4>2. Cardinality(Past(b, f) \ {p}) \in Nat BY Sizes, FS_RemoveElement, FS_CardinalityType
      <4> QED BY <3>7, <4>1, <4>2, Sizes
    <3>9. Cardinality(Due(b, f)') =< Cardinality(Due(b, f)) BY <3>6, Sizes, FS_Subset
    <3> QED BY <1>0, <3>4, <3>8, <3>9, Sizes DEF Inv, CountInv
  <2> QED BY <1>6, <2>1, <2>2, <2>3, <2>4, <2>5 DEF Poll, Work
<1> QED BY <1>1, <1>2, <1>3, <1>4, <1>5, <1>6 DEF Next

-----------------------------------------------------------------------------
(* The theorems. *)

THEOREM InvCorrect == Spec => []Inv
<1>1. Inv /\ [Next]_vars => Inv'
  BY NextType, CacheStep, IdNext, JobNext, PollNext, CountNext DEF Inv
<1> QED BY InitInv, <1>1, PTL DEF Spec

\* Every reachable state is type correct.
THEOREM TypeCorrect == Spec => []TypeOK
BY InvCorrect, PTL DEF Inv

\* The text under a key is about the revision the key names (ai/batch.py:403-413), for
\* any number of overlapping prewarms, pollers and revisions.
THEOREM CacheSound == Spec => []CacheFaithful
BY InvCorrect, PTL DEF Inv

\* A completed job's results are all audited and its good answers all cached
\* (ai/batch.py:415-453), whichever pollers overlapped, failed or resumed.
THEOREM CompletedSound == Spec => []CompletedDelivered
<1>1. Inv => CompletedDelivered BY DEF Inv, JobInv, CompletedDelivered, Got
<1> QED BY InvCorrect, <1>1, PTL

\* No result is booked more often than there are pollers and failures
\* (ai/batch.py:377-453).
THEOREM RepeatsSound == Spec => []RepeatsBounded
<1>1. ASSUME Inv PROVE RepeatsBounded
  <2> SUFFICES ASSUME NEW b \in Batches, NEW f \in Findings
               PROVE  rows[b][f] =< Cardinality(Pollers) + failures
    BY DEF RepeatsBounded
  <2>1. rows[b][f] \in Nat /\ failures \in Nat /\ Cardinality(Pollers) \in Nat
    BY <1>1, FS_CardinalityType DEF Inv, TypeOK
  <2>2. /\ job[b] # "completed" => rows[b][f] =< Cardinality(Past(b, f)) + failures
        /\ job[b] = "completed" =>
              rows[b][f] + Cardinality(Due(b, f)) =< Cardinality(Pollers) + failures
    BY <1>1 DEF Inv, CountInv
  <2>3. Cardinality(Past(b, f)) =< Cardinality(Pollers) BY Shares, Sizes, <2>1
  <2> QED BY <2>1, <2>2, <2>3, Sizes
<1> QED BY InvCorrect, <1>1, PTL

\* What a batch leaves behind is complete and under its own keys
\* (ai/batch.py:403-453).
THEOREM ResultsAreSound == Spec => []ResultsSound
BY TypeCorrect, CompletedSound, CacheSound, PTL DEF ResultsSound
=============================================================================
