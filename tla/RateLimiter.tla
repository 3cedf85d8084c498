---------------------------- MODULE RateLimiter ----------------------------
(* The sliding window over one tenant's requests (main.py,                  *)
(* TenantRateLimitMiddleware): while Redis answers, every request, let       *)
(* through or not, is entered in a sorted set under a member of its own, and  *)
(* the ones inside the window are counted.                                    *)
EXTENDS Integers, FiniteSets, Functions

CONSTANTS
    Limit,      \* RATE_LIMIT_REQUESTS
    Window,     \* RATE_LIMIT_WINDOW, in ticks
    MaxAsked    \* requests of a run

ASSUME LimiterBounds == Limit \in Nat /\ Window \in Nat \ {0} /\ MaxAsked \in Nat

VARIABLES
    entries,    \* the sorted set: the age of each member, a request's number
    expiry,     \* ticks until the key expires
    through,    \* the ages of the requests let through
    free,       \* those let through because Redis did not answer
    losses,     \* when the set was last lost and the time before, and the
                \* requests let through that were entered in it then
    dark,       \* ticks since Redis did not answer
    asked,      \* requests so far
    up          \* Redis answers

limiterVars == <<entries, expiry, through, free, losses, dark, asked, up>>

Asked == 1 .. MaxAsked
LimiterTypeOK ==
    /\ DOMAIN entries \subseteq Asked /\ \A q \in DOMAIN entries : entries[q] \in 0 .. Window - 1
    /\ expiry \in 0 .. Window
    /\ DOMAIN through \subseteq Asked /\ \A q \in DOMAIN through : through[q] \in 0 .. Window
    /\ free \subseteq Asked
    /\ losses.last \in 0 .. Window /\ losses.before \in 0 .. Window /\ losses.requests \subseteq Asked
    /\ dark \in 0 .. Window
    /\ asked \in 0 .. MaxAsked
    /\ up \in BOOLEAN

\* What was a window ago or longer is at Window.
LimiterInit ==
    /\ entries = <<>> /\ expiry = 0
    /\ through = <<>> /\ free = {}
    /\ losses = [last |-> Window, before |-> Window, requests |-> {}] /\ dark = Window
    /\ asked = 0 /\ up = TRUE

Inside(ages) == {q \in DOMAIN ages : ages[q] < Window}
Recent(ages) == Restrict(ages, Inside(ages))
With(ages, new) == [q \in DOMAIN ages \cup {new} |-> IF q = new THEN 0 ELSE ages[q]]
\* A tick later, as far as ages below a bound are of interest.
Older(ages, bound) == [q \in {p \in DOMAIN ages : ages[p] + 1 < bound} |-> ages[q] + 1]
Later(ticks) == IF ticks < Window THEN ticks + 1 ELSE Window

\* One pipeline: drop what left the window, add this request, count, renew the
\* expiry.  The request itself counts, and so do those that were refused.
RequestCountedFirst ==
    /\ asked < MaxAsked /\ up
    /\ asked' = asked + 1
    /\ entries' = With(Recent(entries), asked')
    /\ through' = IF Cardinality(Inside(entries)) > Limit THEN through ELSE With(through, asked')
    /\ expiry' = Window
    /\ UNCHANGED <<free, losses, dark, up>>
RequestArrives ==
    /\ asked < MaxAsked /\ up
    /\ asked' = asked + 1
    /\ entries' = With(Recent(entries), asked')
    /\ through' = IF Cardinality(DOMAIN entries') > Limit THEN through ELSE With(through, asked')
    /\ expiry' = Window
    /\ UNCHANGED <<free, losses, dark, up>>
\* RedisError: the request passes and is not entered.
RequestPasses ==
    /\ asked < MaxAsked /\ ~up
    /\ asked' = asked + 1
    /\ through' = With(through, asked')
    /\ free' = free \cup {asked'}
    /\ UNCHANGED <<entries, expiry, losses, dark, up>>

RedisFails ==
    /\ up /\ up' = FALSE /\ dark' = 0
    /\ UNCHANGED <<entries, expiry, through, free, losses, asked>>
\* Redis comes back with what it held, or empty.
RedisReturns ==
    /\ ~up /\ up' = TRUE
    /\ \/ UNCHANGED <<entries, expiry, losses>>
       \/ /\ entries' = <<>> /\ expiry' = 0
          /\ losses' = [last |-> 0, before |-> losses.last,
                      requests |-> DOMAIN entries \cap DOMAIN through]
    /\ UNCHANGED <<through, free, dark, asked>>

\* The key expires a window after the last request; ages beyond the window do
\* not matter any more.
TimePasses ==
    /\ expiry' = IF expiry = 0 THEN 0 ELSE expiry - 1
    /\ entries' = IF expiry' = 0 THEN <<>> ELSE Older(entries, Window)
    /\ through' = Older(through, Window + 1)
    /\ losses' = [last |-> Later(losses.last), before |-> Later(losses.before), requests |-> losses.requests]
    /\ dark' = IF up THEN Later(dark) ELSE 0
    /\ UNCHANGED <<free, asked, up>>

LimiterNext == RequestArrives \/ RequestPasses \/ RedisFails \/ RedisReturns \/ TimePasses

-----------------------------------------------------------------------------
(* However requests, refusals and expiries fall, the limiter lets through    *)
(* at most Limit requests of any window in which Redis answered throughout.   *)
AtMostLimit == dark = Window => Cardinality(Inside(through)) <= Limit

(* Of the requests that Redis counted, a window that saw an outage but no    *)
(* loss of the set lets through at most Limit still, and one in which the set *)
(* was lost once at most twice as many: each loss starts the count anew.      *)
LossStartsAnew ==
    /\ losses.last = Window => Cardinality(Inside(through) \ free) <= Limit
    /\ losses.before = Window => Cardinality(Inside(through) \ free) <= 2 * Limit

(* The window in one statement.                                             *)
LimiterSound == LimiterTypeOK /\ AtMostLimit /\ LossStartsAnew
=============================================================================
