------------------------------ MODULE AiExplain ------------------------------
(***************************************************************************)
(* One tenant's streamed AI explanations: ai/explain.py with the in-flight *)
(* guard of ai/cache.py and the spend check of ai/budget.py.               *)
(*                                                                         *)
(* A stream is one call of _run_explain_stream: budget check, in-flight    *)
(* guard, at most two provider calls, validation, cache, audit row,        *)
(* replay.  The guard is a Redis key with a time-to-live and no owner; the *)
(* spend is the month's sum over the audit rows that carry a cost.         *)
(* A provider call costs one unit.  Time is the freedom of GuardExpires    *)
(* and NextMonth to happen whenever they may.                              *)
(***************************************************************************)
EXTENDS Naturals, FiniteSets

CONSTANTS
    Streams,        \* concurrent calls of _run_explain_stream
    Cap,            \* monthly_budget_usd, in units
    MaxPrewarm,     \* bound: units the batch poller books per month
    MaxExpiries,    \* bound: expiries under a call in flight
    MaxVanish       \* bound: streams that end without their finally block

ASSUME ExplainAssumption ==
    /\ IsFiniteSet(Streams) /\ Streams # {}
    /\ Cap \in Nat \ {0}
    /\ MaxPrewarm \in Nat /\ MaxExpiries \in Nat /\ MaxVanish \in Nat

VARIABLES
    stream,     \* the progress of each stream
    guard,      \* TRUE while ai:inflight:{tenant} exists
    spent,      \* this month's cost, as booked by streams
    prewarm,    \* this month's cost, as booked by the batch poller
    expired,    \* history: times the guard's key expired under a call in flight
    vanished    \* history: streams that ended without their finally block
vars == <<stream, guard, spent, prewarm, expired, vanished>>

Stages == {"idle", "admitted", "calling", "answered", "cached", "replaying",
           "failed", "ending"}
\* "rejected" covers invalid and ungrounded answers, "blocked" the leak marker
\* and the denylist of dangerous commands.
Verdicts == {"valid", "rejected", "blocked"}

(***************************************************************************)
(* rows, billed and booked are the audit rows, the provider's answers and  *)
(* the cost rows of the current stream; fate says if it was interrupted.    *)
(***************************************************************************)
Idle == [stage |-> "idle", attempt |-> 1, verdict |-> "valid",
         rows |-> 0, billed |-> 0, booked |-> 0, fate |-> "whole"]

Init ==
    /\ stream = [s \in Streams |-> Idle]
    /\ guard = FALSE
    /\ spent = 0 /\ prewarm = 0
    /\ expired = 0 /\ vanished = 0

-----------------------------------------------------------------------------
At(s, stages) == stream[s].stage \in stages

\* Every await between the acquired guard and the end of the try block.
Guarded == {"calling", "answered", "cached", "replaying", "failed"}
InFlight == {s \in Streams : At(s, Guarded \cup {"ending"})}

Go(s, stage) == stream' = [stream EXCEPT ![s].stage = stage]
Log(s, stage) == stream' = [stream EXCEPT ![s].stage = stage, ![s].rows = @ + 1]

\* check_tenant_budget: below the cap, or the stream ends with a cost-free row.
UnderBudget == spent + prewarm < Cap

Begin(s) ==
    /\ At(s, {"idle"})
    /\ UnderBudget
    /\ stream' = [stream EXCEPT ![s] = [Idle EXCEPT !.stage = "admitted"]]
    /\ UNCHANGED <<guard, spent, prewarm, expired, vanished>>

Refuse(s) ==
    /\ At(s, {"idle"})
    /\ ~UnderBudget
    /\ stream' = [stream EXCEPT ![s] = [Idle EXCEPT !.rows = 1]]
    /\ UNCHANGED <<guard, spent, prewarm, expired, vanished>>

\* Mutant: the key is read, then set.
AcquireUnguarded(s) ==
    /\ At(s, {"admitted"})
    /\ guard' = TRUE
    /\ Go(s, "calling")
    /\ UNCHANGED <<spent, prewarm, expired, vanished>>

\* acquire_inflight: SET NX EX.
Acquire(s) ==
    /\ At(s, {"admitted"})
    /\ ~guard
    /\ guard' = TRUE
    /\ Go(s, "calling")
    /\ UNCHANGED <<spent, prewarm, expired, vanished>>

Busy(s) ==
    /\ At(s, {"admitted"})
    /\ guard
    /\ Go(s, "idle")
    /\ UNCHANGED <<guard, spent, prewarm, expired, vanished>>

\* The stream ends in the SET, before the try block: Redis fails or the client goes
\* away, and the key may have been set all the same.
AcquireLost(s) ==
    /\ At(s, {"admitted"})
    /\ guard' \in {guard, TRUE}
    /\ stream' = [stream EXCEPT ![s].stage = "idle", ![s].fate = "cut"]
    /\ UNCHANGED <<spent, prewarm, expired, vanished>>

\* RateLimitError or APIStatusError once the SDK has given up: no answer, no cost.
ProviderRefuses(s) ==
    /\ At(s, {"calling"})
    /\ Log(s, "ending")
    /\ UNCHANGED <<guard, spent, prewarm, expired, vanished>>

ProviderAnswers(s) ==
    /\ At(s, {"calling"})
    /\ \E v \in Verdicts :
          stream' = [stream EXCEPT ![s].stage = "answered", ![s].verdict = v,
                                   ![s].billed = @ + 1]
    /\ UNCHANGED <<guard, spent, prewarm, expired, vanished>>

\* Audited without a cost; the first rejected answer earns a corrective call.
Reject(s) ==
    /\ At(s, {"answered"})
    /\ stream[s].verdict = "rejected"
    /\ IF stream[s].attempt = 2
       THEN Log(s, "ending")
       ELSE stream' = [stream EXCEPT ![s].stage = "calling", ![s].attempt = 2,
                                     ![s].rows = @ + 1]
    /\ UNCHANGED <<guard, spent, prewarm, expired, vanished>>

\* Audited without a cost, no retry.
Block(s) ==
    /\ At(s, {"answered"})
    /\ stream[s].verdict = "blocked"
    /\ Log(s, "ending")
    /\ UNCHANGED <<guard, spent, prewarm, expired, vanished>>

SetCached(s) ==
    /\ At(s, {"answered"})
    /\ stream[s].verdict = "valid"
    /\ Go(s, "cached")
    /\ UNCHANGED <<guard, spent, prewarm, expired, vanished>>

\* The "ok" row, the only one that carries a cost.
Book(s) ==
    /\ At(s, {"cached"})
    /\ stream' = [stream EXCEPT ![s].stage = "replaying", ![s].rows = @ + 1,
                                ![s].booked = @ + 1]
    /\ spent' = spent + 1
    /\ UNCHANGED <<guard, prewarm, expired, vanished>>

Replayed(s) ==
    /\ At(s, {"replaying"})
    /\ Go(s, "ending")
    /\ UNCHANGED <<guard, spent, prewarm, expired, vanished>>

\* Mutant: the catch-all also covers the replay.
UnexpectedInReplay(s) ==
    /\ At(s, {"calling", "answered", "cached", "replaying"})
    /\ Go(s, "failed")
    /\ UNCHANGED <<guard, spent, prewarm, expired, vanished>>

\* Any other exception of the try block: the provider's connection, Redis, the
\* database.
Unexpected(s) ==
    /\ At(s, {"calling", "answered", "cached"})
    /\ Go(s, "failed")
    /\ UNCHANGED <<guard, spent, prewarm, expired, vanished>>

\* The catch-all's own row; the stream raises when that fails, too.
AuditUnknown(s) ==
    /\ At(s, {"failed"})
    /\ \/ Log(s, "ending")
       \/ stream' = [stream EXCEPT ![s].stage = "ending", ![s].fate = "cut"]
    /\ UNCHANGED <<guard, spent, prewarm, expired, vanished>>

\* The client goes away: GeneratorExit or CancelledError pass the handlers by.
Abort(s) ==
    /\ At(s, Guarded)
    /\ stream' = [stream EXCEPT ![s].stage = "ending", ![s].fate = "cut"]
    /\ UNCHANGED <<guard, spent, prewarm, expired, vanished>>

\* release_inflight: DEL, whoever set the key.
Release(s) ==
    /\ At(s, {"ending"})
    /\ guard' = FALSE
    /\ Go(s, "idle")
    /\ UNCHANGED <<spent, prewarm, expired, vanished>>

\* The process dies, or Redis fails in the finally block.
Vanish(s) ==
    /\ At(s, Guarded \cup {"ending"})
    /\ vanished < MaxVanish
    /\ vanished' = vanished + 1
    /\ stream' = [stream EXCEPT ![s].stage = "idle", ![s].fate = "cut"]
    /\ UNCHANGED <<guard, spent, prewarm, expired>>

\* Mutant: SET NX without EX.
NeverExpires == FALSE /\ UNCHANGED vars

\* 120 seconds after SET; a call may take longer (retries, a second attempt).
\* Only a key that expires under a call in flight is counted.
GuardExpires ==
    /\ guard
    /\ InFlight = {} \/ expired < MaxExpiries
    /\ guard' = FALSE
    /\ expired' = IF InFlight = {} THEN expired ELSE expired + 1
    /\ UNCHANGED <<stream, spent, prewarm, vanished>>

\* poll_pending_batches books a result of the nightly batch.
BatchBooks ==
    /\ prewarm < MaxPrewarm
    /\ prewarm' = prewarm + 1
    /\ UNCHANGED <<stream, guard, spent, expired, vanished>>

\* get_month_to_date_spend starts again at zero.
NextMonth ==
    /\ spent' = 0
    /\ prewarm' = 0
    /\ UNCHANGED <<stream, guard, expired, vanished>>

Engine(s) ==
    \/ Acquire(s) \/ Busy(s)
    \/ ProviderRefuses(s) \/ ProviderAnswers(s)
    \/ Reject(s) \/ Block(s) \/ SetCached(s) \/ Book(s)
    \/ Replayed(s) \/ AuditUnknown(s) \/ Release(s)

Next ==
    \/ \E s \in Streams :
          \/ Begin(s) \/ Refuse(s) \/ Engine(s)
          \/ AcquireLost(s) \/ Unexpected(s) \/ Abort(s) \/ Vanish(s)
    \/ GuardExpires \/ BatchBooks \/ NextMonth

Spec == Init /\ [][Next]_vars

(***************************************************************************)
(* A stream's own steps are taken: the SDK's timeouts end every call, and  *)
(* Redis drops the key.  Nothing is assumed of clients, errors or months.  *)
(***************************************************************************)
Fairness ==
    /\ \A s \in Streams : WF_vars(Engine(s))
    /\ WF_vars(GuardExpires)

FairSpec == Spec /\ Fairness

-----------------------------------------------------------------------------
(* Properties. *)

TypeOK ==
    /\ stream \in [Streams -> [stage : Stages, attempt : 1..2, verdict : Verdicts,
                               rows : 0..2, billed : 0..2, booked : 0..1,
                               fate : {"whole", "cut"}]]
    /\ guard \in BOOLEAN
    /\ spent \in Nat /\ prewarm \in Nat /\ expired \in Nat /\ vanished \in Nat

\* Streams that may still book the cost they were admitted for.
MayBook == {s \in Streams : At(s, {"admitted", "calling", "answered", "cached"})}

\* The budget is checked before the guard is taken, so streams admitted together
\* overshoot the cap, but by no more than one unit each: the spend of a month
\* stays below the cap plus the number of streams, whatever expires or crashes.
OvershootBounded == spent + Cardinality(MayBook) =< Cap - 1 + Cardinality(Streams)

\* The ownerless guard lets streams overlap only after an expiry, and each
\* expiry adds one to the calls in flight at most, although the late release of
\* an expired holder frees the key of its successor.
OverlapBounded == Cardinality(InFlight) =< expired + (IF guard THEN 1 ELSE 0)

\* What the missing locks cost, calls and money, stays bounded.
BoundsHold == TypeOK /\ OvershootBounded /\ OverlapBounded

\* A stream that was not cut short leaves one audit row per attempt, whichever of
\* its error paths it took.
RowPerAttempt ==
    \A s \in Streams :
        At(s, {"ending"}) /\ stream[s].fate = "whole" => stream[s].rows = stream[s].attempt

\* Every admitted stream ends.
StreamEnds == \A s \in Streams : At(s, {"admitted"}) ~> At(s, {"idle"})

\* A tenant is not locked out for good, not even by a stream that died with the
\* guard.
GuardFreed == guard ~> ~guard

\* Streams end and so does what they lock.
StreamsSettle == StreamEnds /\ GuardFreed
=============================================================================
