----------------------------- MODULE Suppression -----------------------------
(* Closing and opening findings one by one, by CVE and by remediation         *)
(* (vulnerabilities/router.py, vulnerabilities/service.py), and the risk      *)
(* score of their asset (assets/risk_score.py), which some of these requests  *)
(* compute again and some leave for the next sync.  Each request is a         *)
(* transaction of its own: it changes statuses under row locks, reads the     *)
(* open findings, writes the score and commits.                               *)
EXTENDS Integers

CONSTANTS
    Items,      \* the findings of one asset
    Bundles,    \* sets of findings with one CVE, or one remediation
    ScoreOf,    \* the score of an asset with a set of open findings
    Calls,      \* identities of requests
    MaxCalls    \* requests begun

ASSUME SuppressionBounds ==
    Bundles \subseteq SUBSET Items /\ ScoreOf \in [SUBSET Items -> Nat] /\ MaxCalls \in Nat

VARIABLES
    status,   \* of each finding, as committed
    score,    \* risk_score of the asset, as committed
    calls,    \* the open transactions
    owed,     \* the score waits for the next pass
    begunCalls

suppressionVars == <<status, score, calls, owed, begunCalls>>

ItemStatuses == {"OPEN", "REMEDIATED", "SUPPRESSED", "FALSE_POSITIVE"}
NoScore == -1
Closed == [stage |-> "closed", kind |-> "none", aim |-> {}, to |-> "OPEN", writes |-> <<>>, sum |-> NoScore, stale |-> FALSE]

SuppressionTypeOK ==
    /\ status \in [Items -> ItemStatuses] /\ score \in Nat
    /\ \A r \in Calls :
         /\ calls[r].stage \in {"closed", "begun", "changed", "read", "scored"}
         /\ DOMAIN calls[r].writes \subseteq Items
    /\ owed \in BOOLEAN /\ begunCalls \in 0 .. MaxCalls

Seen(r) == [i \in Items |-> IF i \in DOMAIN calls[r].writes THEN calls[r].writes[i] ELSE status[i]]
OpenItems(view) == {i \in Items : view[i] = "OPEN"}
ScoreFor(view) == ScoreOf[OpenItems(view)]

SuppressionInit ==
    /\ status \in [Items -> ItemStatuses]
    /\ score = ScoreFor(status)
    /\ calls = [r \in Calls |-> Closed] /\ owed = FALSE /\ begunCalls = 0

-----------------------------------------------------------------------------
Request(r, kind, aim, to) ==
    /\ calls[r].stage = "closed" /\ begunCalls < MaxCalls
    /\ begunCalls' = begunCalls + 1
    /\ calls' = [calls EXCEPT ![r] = [Closed EXCEPT !.stage = "begun", !.kind = kind, !.aim = aim, !.to = to]]
    /\ UNCHANGED <<status, score, owed>>
Begins(r) ==
    \/ \E i \in Items, to \in ItemStatuses : Request(r, "status", {i}, to)
    \/ \E some \in (SUBSET Items) \ {{}}, to \in ItemStatuses : Request(r, "bulk", some, to)
    \/ \E i \in Items : Request(r, "snooze", {i}, "SUPPRESSED") \/ Request(r, "unsnooze", {i}, "OPEN")
    \/ \E b \in Bundles : Request(r, "ignore", b, "SUPPRESSED") \/ Request(r, "restore", b, "OPEN")
    \/ Request(r, "sync", {}, "OPEN")

\* The findings the UPDATE matches: whatever is named, or by status.
Matches(q, view) ==
    CASE q.kind = "ignore" -> {i \in q.aim : view[i] = "OPEN"}
      [] q.kind = "restore" -> {i \in q.aim : view[i] = "SUPPRESSED"}
      [] OTHER -> q.aim
\* The UPDATE waits for the rows another transaction has written.
ChangesStatus(r) ==
    /\ calls[r].stage = "begun"
    /\ LET q == calls[r] IN
       /\ \A u \in Calls \ {r} : q.aim \cap DOMAIN calls[u].writes = {}
       /\ calls' = [calls EXCEPT ![r].stage = "changed", ![r].writes = [i \in Matches(q, status) |-> q.to]]
    /\ UNCHANGED <<status, score, owed, begunCalls>>

\* Which requests call compute_risk_scores.
Rescores(q) ==
    q.kind \in {"ignore", "restore", "sync"} \/ (q.kind = "bulk" /\ q.to \in {"SUPPRESSED", "OPEN"})
ReadsCommitted(r) ==
    /\ calls[r].stage = "changed" /\ Rescores(calls[r])
    /\ calls' = [calls EXCEPT ![r].stage = "read", ![r].sum = ScoreFor(status), ![r].stale = FALSE]
    /\ UNCHANGED <<status, score, owed, begunCalls>>
ReadsOpen(r) ==
    /\ calls[r].stage = "changed" /\ Rescores(calls[r])
    /\ calls' = [calls EXCEPT ![r].stage = "read", ![r].sum = ScoreFor(Seen(r)), ![r].stale = FALSE]
    /\ UNCHANGED <<status, score, owed, begunCalls>>
\* The row of the asset is free.
WritesScore(r) ==
    /\ calls[r].stage = "read"
    /\ \A u \in Calls \ {r} : calls[u].stage # "scored"
    /\ calls' = [calls EXCEPT ![r].stage = "scored"]
    /\ UNCHANGED <<status, score, owed, begunCalls>>
Finishes(r) ==
    /\ calls[r].stage = IF Rescores(calls[r]) THEN "scored" ELSE "changed"
    /\ LET q == calls[r]  moved == OpenItems(Seen(r)) # OpenItems(status) IN
       /\ status' = Seen(r)
       /\ score' = IF Rescores(q) THEN q.sum ELSE score
       /\ owed' = IF Rescores(q) THEN q.stale ELSE owed \/ moved
       /\ calls' = [u \in Calls |->
            IF u = r THEN Closed ELSE [calls[u] EXCEPT !.stale = @ \/ moved]]
    /\ UNCHANGED begunCalls
GivesUp(r) ==
    /\ calls[r].stage # "closed"
    /\ calls' = [calls EXCEPT ![r] = Closed]
    /\ UNCHANGED <<status, score, owed, begunCalls>>

SuppressionNext ==
    \E r \in Calls : Begins(r) \/ ChangesStatus(r) \/ ReadsOpen(r) \/ WritesScore(r) \/ Finishes(r) \/ GivesUp(r)

-----------------------------------------------------------------------------
(* The asset's score is that of its open findings once a request that         *)
(* computes it has committed, unless a later one did not compute it or        *)
(* another committed between its reading and its writing.                     *)
ScoreFollows == ~owed => score = ScoreFor(status)

(* What was marked remediated or a false positive is opened, or suppressed,   *)
(* only by a request that names the finding: no ignoring or restoring of its  *)
(* CVE or remediation does, whatever it overlapped.                           *)
VerdictsStand ==
    [][\A i \in Items :
         status[i] \in {"REMEDIATED", "FALSE_POSITIVE"} /\ status'[i] # status[i]
         => \E r \in Calls : calls[r].kind \in {"status", "bulk", "snooze", "unsnooze"} /\ i \in calls[r].aim
                             /\ calls'[r].stage = "closed"]_suppressionVars

(* Bulk requests keep the verdicts of others and leave the score of what is  *)
(* open.                                                                    *)
SuppressionSound == [](SuppressionTypeOK /\ ScoreFollows) /\ VerdictsStand
=============================================================================
