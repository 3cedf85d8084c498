------------------------------ MODULE Inventory ------------------------------
(* The findings of one asset under everything that writes them at the same   *)
(* time: scanner syncs (connectors/sync.py), each with its correlation and    *)
(* scoring passes (correlation_service.py, assets/risk_score.py,              *)
(* risk_exposure_service.py), the nightly refresh of the EPSS and KEV feeds   *)
(* (enrichment_feeds.py, scheduler.py) and edits of users.  PostgreSQL reads  *)
(* what is committed and the transaction's own writes, makes writers of one   *)
(* row wait, and ends a cycle of waiting writers by rolling one back.         *)
EXTENDS RiskScoring, FiniteSets, FiniteSetsExt

CONSTANTS
    Scanners,     \* the sources of findings
    Cves,
    MaxSyncs,     \* syncs begun
    MaxRefreshes, \* refreshes begun
    MaxEdits      \* edits of users

ASSUME InventoryBounds ==
    /\ MaxSyncs \in Nat /\ MaxRefreshes \in Nat /\ MaxEdits \in Nat
    /\ IsFiniteSet(Scanners) /\ {"correlation", "asset", "feeds"} \cap Scanners = {}

VARIABLES
    db,       \* the committed rows
    feed,     \* epss_scores and cisa_kev, as committed
    tx,       \* the open transactions: what each does next and has written
    raced,    \* findings looked up before a refresh and unknown to it, as they committed later
    unseen,   \* CVEs whose findings changed since a correlation pass read them, or
              \* whose row a pass left that another had yet to write
    begun     \* syncs, refreshes and edits so far

inventoryVars == <<db, feed, tx, raced, unseen, begun>>

Feeds == "feeds"
Parties == Scanners \cup {Feeds}
Findings == Scanners \X Cves
CorrelationOf(c) == <<"correlation", c>>
Asset == <<"asset", "asset">>
Keys == Findings \cup {CorrelationOf(c) : c \in Cves} \cup {Asset}
Entries == [kev : BOOLEAN, epss : {NoSignal, 50}]
Idle == [stage |-> "idle", todo |-> {}, aim |-> Asset, look |-> [kev |-> FALSE, epss |-> NoSignal],
         plan |-> <<>>, mine |-> <<>>, looked |-> {}, early |-> {}, unseen |-> {}, alone |-> FALSE]
Stages == {"idle", "items", "looked", "correlate", "correlating", "score", "scoring", "done", "repropagating"}

InventoryTypeOK ==
    /\ \A k \in Findings :
         /\ db[k].there \in BOOLEAN /\ db[k].open \in BOOLEAN
         /\ db[k].kev \in BOOLEAN /\ db[k].epss \in {NoSignal, 50} /\ db[k].score \in 0 .. 100 \cup {NoSignal}
    /\ \A c \in Cves : db[CorrelationOf(c)] \in {0} \cup 2 .. Cardinality(Scanners)
    /\ db[Asset].criticality \in Criticalities /\ db[Asset].rollup \in 0 .. 100 \cup {NoSignal}
    /\ feed \in [Cves -> Entries]
    /\ \A t \in Parties : tx[t].stage \in Stages /\ DOMAIN tx[t].mine \subseteq DOMAIN db
    /\ raced \in SUBSET Findings /\ unseen \in SUBSET Cves
    /\ begun \in [syncs : 0 .. MaxSyncs, refreshes : 0 .. MaxRefreshes, edits : 0 .. MaxEdits]

OpenIn(view, c) == {s \in Scanners : view[<<s, c>>].there /\ view[<<s, c>>].open}
ScoreIn(view, s, c) ==
    LET f == view[<<s, c>>] IN
    FinalScore([severity |-> "HIGH", cvss |-> NoSignal, epss |-> f.epss, native |-> 0,
                criticality |-> view[Asset].criticality, facing |-> FALSE, sensitivity |-> "INTERNAL",
                sources |-> IF view[CorrelationOf(c)] = 0 THEN 1 ELSE view[CorrelationOf(c)],
                kev |-> f.kev])
OpenFindings(view) == {k \in Findings : view[k].there /\ view[k].open}
Highest(view) == IF OpenFindings(view) = {} THEN NoSignal ELSE Max({view[k].score : k \in OpenFindings(view)})

NoFinding == [there |-> FALSE, open |-> FALSE, kev |-> FALSE, epss |-> NoSignal, score |-> NoSignal]
\* The rows of a tenant whose syncs so far met nothing: the known findings are
\* open, as the feeds and the passes have them.
Rows(known, entries, score) ==
    [k \in Keys |->
      IF k \in known
      THEN [there |-> TRUE, open |-> TRUE, kev |-> entries[k[2]].kev, epss |-> entries[k[2]].epss, score |-> score[k]]
      ELSE IF k \in Findings THEN NoFinding
      ELSE IF k = Asset
      THEN [criticality |-> "MEDIUM", rollup |-> IF known = {} THEN NoSignal ELSE Max({score[f] : f \in known})]
      ELSE LET n == Cardinality({s \in Scanners : <<s, k[2]>> \in known}) IN IF n >= 2 THEN n ELSE 0]
InventoryInit ==
    /\ feed \in [Cves -> Entries]
    /\ \E known \in {{}, Findings} :
         LET unscored == Rows(known, feed, [k \in Findings |-> 0]) IN
         db = Rows(known, feed, [k \in Findings |-> ScoreIn(unscored, k[1], k[2])])
    /\ tx = [t \in Parties |-> Idle]
    /\ raced = {} /\ unseen = {}
    /\ begun = [syncs |-> 0, refreshes |-> 0, edits |-> 0]

\* What t reads: its own writes over what is committed.
Over(mine, rows) == [k \in DOMAIN rows |-> IF k \in DOMAIN mine THEN mine[k] ELSE rows[k]]
View(t) == Over(tx[t].mine, db)
Free(t, k) == \A u \in Parties \ {t} : k \notin DOMAIN tx[u].mine
WithRow(mine, k, v) == [x \in DOMAIN mine \cup {k} |-> IF x = k THEN v ELSE mine[x]]
\* t writes row k, or waits for whoever has written it.
Write(t, k, v, values) ==
    /\ Free(t, k)
    /\ tx' = [tx EXCEPT ![t] = [values EXCEPT !.mine = WithRow(@, k, v)]]
    /\ UNCHANGED <<db, feed, raced, unseen, begun>>
Go(t, values) == tx' = [tx EXCEPT ![t] = values] /\ UNCHANGED <<db, feed, raced, unseen, begun>>

-----------------------------------------------------------------------------
(* A sync: one item after another, then the passes over the tenant *)

Begin(s) ==
    /\ tx[s].stage = "idle" /\ begun.syncs < MaxSyncs
    /\ begun' = [begun EXCEPT !.syncs = @ + 1]
    /\ \E reported \in SUBSET Cves :
         tx' = [t \in Parties |->
           IF t = s THEN [Idle EXCEPT !.stage = "items", !.todo = reported,
                                      !.alone = \A u \in Parties : tx[u].stage = "idle"]
           ELSE [tx[t] EXCEPT !.alone = FALSE]]
    /\ UNCHANGED <<db, feed, raced, unseen>>

\* _upsert_asset: the row is written when the vendor sends something new.
TouchAsset(s) ==
    /\ tx[s].stage = "items" /\ tx[s].todo # {} /\ Asset \notin DOMAIN tx[s].mine
    /\ Write(s, Asset, View(s)[Asset], tx[s])
\* _lookup_enrichment
LookUp(s) ==
    /\ tx[s].stage = "items"
    /\ \E c \in tx[s].todo :
         Go(s, [tx[s] EXCEPT !.stage = "looked", !.aim = <<s, c>>, !.look = feed[c],
                              !.todo = @ \ {c}, !.looked = @ \cup {<<s, c>>}])
\* _upsert_vulnerability: a known finding keeps its status.
Upsert(s) ==
    /\ tx[s].stage = "looked"
    /\ LET old == View(s)[tx[s].aim] IN
       Write(s, tx[s].aim,
             [there |-> TRUE, open |-> IF old.there THEN old.open ELSE TRUE,
              kev |-> tx[s].look.kev, epss |-> tx[s].look.epss, score |-> old.score],
             [tx[s] EXCEPT !.stage = "items"])
ItemsDone(s) ==
    /\ tx[s].stage = "items" /\ tx[s].todo = {}
    /\ Go(s, [tx[s] EXCEPT !.stage = "correlate"])

\* run_correlations: the groups are read at once, their rows written in turn.
CorrelationReads(s) ==
    /\ tx[s].stage = "correlate"
    /\ LET counts == [c \in Cves |-> Cardinality(OpenIn(View(s), c))] IN
       Go(s, [tx[s] EXCEPT !.stage = "correlating", !.plan = counts, !.unseen = {},
                !.todo = {c \in Cves : counts[c] >= 2 \/ View(s)[CorrelationOf(c)] # 0}])
Correlates(s) ==
    /\ tx[s].stage = "correlating"
    /\ \E c \in tx[s].todo :
         Write(s, CorrelationOf(c), IF tx[s].plan[c] >= 2 THEN tx[s].plan[c] ELSE 0,
               [tx[s] EXCEPT !.todo = @ \ {c}])
\* compute_risk_scores writes every asset.
AssetsScored(s) ==
    /\ tx[s].stage = "correlating" /\ tx[s].todo = {}
    /\ Write(s, Asset, View(s)[Asset], [tx[s] EXCEPT !.stage = "score"])

\* compute_finding_risk_scores: everything is read, then written row by row.
ScoresRead(s) ==
    /\ tx[s].stage = "score"
    /\ LET open == OpenFindings(View(s)) IN
       Go(s, [tx[s] EXCEPT !.stage = "scoring", !.todo = open,
                           !.plan = [k \in open |-> ScoreIn(View(s), k[1], k[2])]])
ScoreWrittenAgain(s) ==
    /\ tx[s].stage = "scoring"
    /\ \E k \in tx[s].todo :
         Write(s, k, [View(s)[k] EXCEPT !.score = tx[s].plan[k]], tx[s])
ScoreWritten(s) ==
    /\ tx[s].stage = "scoring"
    /\ \E k \in tx[s].todo :
         Write(s, k, [View(s)[k] EXCEPT !.score = tx[s].plan[k]], [tx[s] EXCEPT !.todo = @ \ {k}])
RolledUpBefore(s) ==
    /\ tx[s].stage = "scoring" /\ tx[s].todo = {}
    /\ Write(s, Asset, [View(s)[Asset] EXCEPT !.rollup = Highest(db)], [tx[s] EXCEPT !.stage = "done"])
RolledUp(s) ==
    /\ tx[s].stage = "scoring" /\ tx[s].todo = {}
    /\ Write(s, Asset, [View(s)[Asset] EXCEPT !.rollup = Highest(View(s))], [tx[s] EXCEPT !.stage = "done"])

\* CVEs whose set of open findings a commit of t changes.
Changes(t) == {c \in Cves : OpenIn(View(t), c) # OpenIn(db, c)}
\* CVEs whose correlation a commit of t changes while u's own pass leaves it.
Overrules(t, u) ==
    {c \in Cves : /\ View(t)[CorrelationOf(c)] # db[CorrelationOf(c)]
                  /\ ~(tx[u].stage = "correlating" /\ c \in tx[u].todo)}
Releases(t, full) ==
    /\ db' = View(t)
    /\ raced' = (raced \ tx[t].looked) \cup tx[t].early
    /\ unseen' = IF full THEN tx[t].unseen ELSE unseen \cup Changes(t)
    /\ tx' = [u \in Parties |-> IF u = t THEN Idle
                                ELSE [tx[u] EXCEPT !.unseen = @ \cup Changes(t) \cup Overrules(t, u), !.alone = FALSE]]
    /\ UNCHANGED <<feed, begun>>
Commits(s) == tx[s].stage = "done" /\ Releases(s, TRUE)
\* fetch_misconfigurations raises: run_sync writes FAILED, the session commits
\* the findings, and neither pass has run.
CommitsPartly(s) == tx[s].stage = "correlate" /\ Releases(s, FALSE)

-----------------------------------------------------------------------------
(* The nightly refresh *)

\* Both feeds are fetched whole before the tables are replaced.
Swap ==
    /\ tx[Feeds].stage = "idle" /\ begun.refreshes < MaxRefreshes
    /\ begun' = [begun EXCEPT !.refreshes = @ + 1]
    /\ \E new \in [Cves -> Entries] :
         tx' = [t \in Parties |->
           IF t = Feeds THEN [Idle EXCEPT !.stage = "repropagating", !.plan = new,
                                          !.todo = {k \in Findings : db[k].there}]
           ELSE [tx[t] EXCEPT !.alone = FALSE]]
    /\ UNCHANGED <<db, feed, raced, unseen>>
\* repropagate_enrichment: an EPSS score that is no longer published stays.
RepropagateUpOnly ==
    /\ tx[Feeds].stage = "repropagating"
    /\ \E k \in tx[Feeds].todo :
         LET new == tx[Feeds].plan[k[2]]  old == View(Feeds)[k] IN
         Write(Feeds, k, [old EXCEPT !.kev = @ \/ new.kev, !.epss = IF new.epss = NoSignal THEN @ ELSE new.epss],
               [tx[Feeds] EXCEPT !.todo = @ \ {k}])
Repropagate ==
    /\ tx[Feeds].stage = "repropagating"
    /\ \E k \in tx[Feeds].todo :
         LET new == tx[Feeds].plan[k[2]]  old == View(Feeds)[k] IN
         Write(Feeds, k, [old EXCEPT !.kev = new.kev, !.epss = IF new.epss = NoSignal THEN @ ELSE new.epss],
               [tx[Feeds] EXCEPT !.todo = @ \ {k}])
\* What syncs have looked up by now is older than the feeds.
FeedsCommit ==
    /\ tx[Feeds].stage = "repropagating" /\ tx[Feeds].todo = {}
    /\ feed' = tx[Feeds].plan
    /\ db' = View(Feeds)
    /\ raced' = {k \in Findings : db[k].there /\ k \notin DOMAIN tx[Feeds].mine}
    /\ tx' = [t \in Parties |-> IF t = Feeds THEN Idle
                                ELSE [tx[t] EXCEPT !.early = tx[t].looked, !.alone = FALSE]]
    /\ UNCHANGED <<unseen, begun>>

-----------------------------------------------------------------------------
(* Edits of users, and what ends a transaction before its time *)

Edit(k, v) ==
    /\ begun.edits < MaxEdits
    /\ begun' = [begun EXCEPT !.edits = @ + 1]
    /\ \A t \in Parties : k \notin DOMAIN tx[t].mine
    /\ db' = [db EXCEPT ![k] = v]
    /\ UNCHANGED <<feed, raced>>
\* update_vulnerability: closed or opened again.
SetStatus(s, c) ==
    /\ db[<<s, c>>].there
    /\ Edit(<<s, c>>, [db[<<s, c>>] EXCEPT !.open = ~@])
    /\ unseen' = unseen \cup {c}
    /\ tx' = [t \in Parties |-> [tx[t] EXCEPT !.unseen = @ \cup {c}, !.alone = FALSE]]
\* update_asset_exposure_context
SetCriticality(criticality) ==
    /\ Edit(Asset, [db[Asset] EXCEPT !.criticality = criticality])
    /\ tx' = [t \in Parties |-> [tx[t] EXCEPT !.alone = FALSE]]
    /\ UNCHANGED unseen

\* The row t writes next, when it is held.
Wants(t) ==
    CASE tx[t].stage = "looked" -> {tx[t].aim}
      [] tx[t].stage = "correlating" /\ tx[t].todo # {} -> {CorrelationOf(c) : c \in tx[t].todo}
      [] tx[t].stage = "correlating" -> {Asset}
      [] tx[t].stage \in {"scoring", "repropagating"} -> tx[t].todo
      [] OTHER -> {}
\* Whatever row it tries, t waits for one of these.
WaitsFor(t) == {u \in Parties \ {t} : Wants(t) \cap DOMAIN tx[u].mine # {}}
Stuck(t) == Wants(t) # {} /\ \A k \in Wants(t) : ~Free(t, k)
InDeadlock(t) ==
    Stuck(t) /\ \E u \in WaitsFor(t) :
        Stuck(u) /\ (t \in WaitsFor(u) \/ \E v \in WaitsFor(u) : Stuck(v) /\ t \in WaitsFor(v))
\* The connection, the process or PostgreSQL ends the transaction.
RollsBack(t) ==
    /\ tx[t].stage # "idle"
    /\ tx' = [tx EXCEPT ![t] = Idle]
    /\ UNCHANGED <<db, feed, raced, unseen, begun>>

SyncStep(s) ==
    \/ TouchAsset(s) \/ LookUp(s) \/ Upsert(s) \/ ItemsDone(s) \/ CorrelationReads(s)
    \/ Correlates(s) \/ AssetsScored(s) \/ ScoresRead(s) \/ ScoreWritten(s) \/ RolledUp(s)
    \/ Commits(s)
InventoryNext ==
    \/ \E s \in Scanners : Begin(s) \/ SyncStep(s) \/ CommitsPartly(s)
    \/ Swap \/ Repropagate \/ FeedsCommit
    \/ \E s \in Scanners, c \in Cves : SetStatus(s, c)
    \/ \E criticality \in {"CRITICAL", "MEDIUM"} : SetCriticality(criticality)
    \/ \E t \in Parties : RollsBack(t)

\* While a transaction is open and can go on, or PostgreSQL finds a deadlock,
\* something happens.
InventoryFairness ==
    WF_inventoryVars(
        \/ \E s \in Scanners : SyncStep(s)
        \/ Repropagate \/ FeedsCommit
        \/ \E t \in Parties : InDeadlock(t) /\ RollsBack(t))

InventorySpec == InventoryInit /\ [][InventoryNext]_inventoryVars /\ InventoryFairness

-----------------------------------------------------------------------------
(* A finding says of its CVE what the feeds say, whichever transactions      *)
(* overlapped, unless its sync looked it up before a refresh that committed  *)
(* first; an EPSS score no longer published may stay until the next sync.    *)
FeedsReachFindings ==
    \A k \in Findings : db[k].there /\ k \notin raced =>
        /\ db[k].kev = feed[k[2]].kev
        /\ feed[k[2]].epss # NoSignal => db[k].epss = feed[k[2]].epss

(* A correlation counts the open findings of its CVE, and there is none for  *)
(* fewer than two, unless they changed after the last pass read them, as the *)
(* findings of two syncs that overlap do, or an older pass wrote the row     *)
(* after the last one had left it.                                           *)
CorrelationsTrue ==
    \A c \in Cves \ unseen :
        LET n == Cardinality(OpenIn(db, c)) IN
        db[CorrelationOf(c)] = IF n >= 2 THEN n ELSE 0

Settled ==
    /\ \A k \in OpenFindings(db) : db[k].score = ScoreIn(db, k[1], k[2])
    /\ db[Asset].rollup = Highest(db)
(* Findings, feeds and correlations agree, whichever transactions overlap.   *)
FindingsAgree == InventoryTypeOK /\ FeedsReachFindings /\ CorrelationsTrue

(* A sync that nothing overlapped leaves every open finding of the tenant,   *)
(* of other scanners too, with the score of what is stored of it, and every  *)
(* asset with the highest of them.                                           *)
AloneSettles ==
    [][\A s \in Scanners : tx[s].alone /\ tx[s].stage = "done" /\ tx'[s].stage = "idle" /\ db' # db
         => Settled']_inventoryVars

(* Whatever waits for whatever, transactions commit or are rolled back: once   *)
(* no more begin, none stays open.                                           *)
TransactionsEnd == <>[](\A t \in Parties : tx[t].stage = "idle")
=============================================================================
