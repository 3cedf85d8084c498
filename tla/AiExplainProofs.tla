--------------------------- MODULE AiExplainProofs ---------------------------
(***************************************************************************)
(* Safety of AiExplain for any streams, cap and bounds.  Every property    *)
(* counts a set of streams; a step moves one stream, so each lemma first   *)
(* says which streams enter or leave the set and then counts.              *)
(***************************************************************************)
EXTENDS AiExplain, FiniteSetTheorems, TLAPS

\* No step ever lets two audit rows stand for one attempt: rows and billed stay
\* at most the attempts begun, and the attempt still running has no row yet.
Running == {"calling", "answered", "cached", "failed"}
AttemptInv ==
    \A s \in Streams :
        /\ At(s, Running) => stream[s].rows = stream[s].attempt - 1
        /\ At(s, {"calling"}) => stream[s].billed = stream[s].attempt - 1
        /\ At(s, {"calling", "answered", "cached"}) => stream[s].booked = 0
        /\ At(s, {"replaying"}) => stream[s].rows = stream[s].attempt
        /\ At(s, {"ending"}) /\ stream[s].fate = "whole" => stream[s].rows = stream[s].attempt
        /\ At(s, {"admitted"}) =>
              /\ stream[s].attempt = 1 /\ stream[s].rows = 0
              /\ stream[s].billed = 0 /\ stream[s].booked = 0

Inv == TypeOK /\ AttemptInv

Stream == [stage : Stages, attempt : 1..2, verdict : Verdicts, rows : 0..2,
           billed : 0..2, booked : 0..1, fate : {"whole", "cut"}]

USE DEF Stages, Verdicts, Guarded

LEMMA IdleType == Idle \in Stream /\ [Idle EXCEPT !.stage = "admitted"] \in Stream
BY DEF Idle, Stream

LEMMA StageType ==
    ASSUME NEW r \in Stream, NEW stage \in Stages
    PROVE  [r EXCEPT !.stage = stage] \in Stream
BY DEF Stream

LEMMA FateType ==
    ASSUME NEW r \in Stream
    PROVE  [r EXCEPT !.fate = "cut"] \in Stream
BY DEF Stream

\* What an interruption makes of one stream among all.
LEMMA CutType ==
    ASSUME NEW x \in [Streams -> Stream], NEW s \in Streams, NEW stage \in Stages
    PROVE  [x EXCEPT ![s].stage = stage, ![s].fate = "cut"] \in [Streams -> Stream]
<1> DEFINE staged == [x EXCEPT ![s].stage = stage]
<1>1. staged \in [Streams -> Stream] BY StageType
<1>2. [staged EXCEPT ![s].fate = "cut"] \in [Streams -> Stream]
    <2> HIDE DEF staged
    <2>1. [staged[s] EXCEPT !.fate = "cut"] \in Stream BY <1>1, FateType
    <2> QED BY <1>1, <2>1
<1> QED BY <1>2

LEMMA GoType ==
    ASSUME NEW x \in [Streams -> Stream], NEW s \in Streams, NEW stage \in Stages
    PROVE  [x EXCEPT ![s].stage = stage] \in [Streams -> Stream]
BY SMTT(30) DEF Stream

-----------------------------------------------------------------------------
(* Type correctness and the row per attempt. *)

LEMMA InitInv == Init => Inv
<1> SUFFICES ASSUME Init PROVE Inv OBVIOUS
<1>1. \A s \in Streams : stream[s] = Idle BY DEF Init
<1>2. TypeOK BY IdleType DEF Init, TypeOK, Stream
<1>3. AttemptInv BY <1>1 DEF AttemptInv, Idle, At, Running
<1> QED BY <1>2, <1>3 DEF Inv

\* A step of one stream leaves the others as they are.
LEMMA EngineInv ==
    ASSUME Inv, NEW s \in Streams, Engine(s)
    PROVE  Inv'
<1> USE DEF Inv, TypeOK, AttemptInv, At, Running
<1>1. CASE Acquire(s) BY <1>1 DEF Acquire, Go
<1>2. CASE Busy(s) BY <1>2 DEF Busy, Go
<1>3. CASE ProviderRefuses(s) BY <1>3 DEF ProviderRefuses, Log
<1>4. CASE ProviderAnswers(s) BY <1>4 DEF ProviderAnswers
<1>5. CASE Reject(s) BY <1>5 DEF Reject, Log
<1>6. CASE Block(s) BY <1>6 DEF Block, Log
<1>7. CASE SetCached(s) BY <1>7 DEF SetCached, Go
<1>8. CASE Book(s) BY <1>8 DEF Book
<1>9. CASE Replayed(s) BY <1>9 DEF Replayed, Go
<1>10. CASE AuditUnknown(s) BY <1>10 DEF AuditUnknown, Log
<1>11. CASE Release(s)
    <2>1. stream' \in [Streams -> Stream] BY <1>11, GoType DEF Release, Go, Stream
    <2>2. TypeOK' BY <1>11, <2>1 DEF Release, Stream
    <2>3. AttemptInv' BY <1>11 DEF Release, Go
    <2> QED BY <2>2, <2>3
<1> QED BY <1>1, <1>2, <1>3, <1>4, <1>5, <1>6, <1>7, <1>8, <1>9, <1>10, <1>11 DEF Engine

LEMMA NextInv == Inv /\ [Next]_vars => Inv'
<1> SUFFICES ASSUME Inv, [Next]_vars PROVE Inv' OBVIOUS
<1>1. ASSUME NEW s \in Streams, Begin(s) PROVE Inv'
    <2>1. stream' = [stream EXCEPT ![s] = [Idle EXCEPT !.stage = "admitted"]]
        BY <1>1 DEF Begin
    <2>2. TypeOK' BY <1>1, <2>1, IdleType DEF Inv, TypeOK, Begin, Stream
    <2>3. AttemptInv' BY <2>1 DEF Inv, TypeOK, AttemptInv, At, Running, Idle
    <2> QED BY <2>2, <2>3 DEF Inv
<1>2. ASSUME NEW s \in Streams, Refuse(s) PROVE Inv'
    BY <1>2 DEF Inv, TypeOK, AttemptInv, At, Running, Refuse, Idle
<1>3. ASSUME NEW s \in Streams, Engine(s) PROVE Inv'
    BY <1>3, EngineInv
<1>4. ASSUME NEW s \in Streams, Unexpected(s) PROVE Inv'
    BY <1>4 DEF Inv, TypeOK, AttemptInv, At, Running, Unexpected, Go
<1>5. ASSUME NEW s \in Streams, Abort(s) PROVE Inv'
    <2>1. TypeOK'
        <3>1. stream' \in [Streams -> Stream] BY <1>5, CutType DEF Inv, TypeOK, Abort, Stream
        <3> QED BY <1>5, <3>1 DEF Inv, TypeOK, Abort, Stream
    <2>2. AttemptInv' BY <1>5 DEF Inv, TypeOK, AttemptInv, At, Running, Abort
    <2> QED BY <2>1, <2>2 DEF Inv
<1>6. ASSUME NEW s \in Streams, Vanish(s) PROVE Inv'
    <2>1. TypeOK'
        <3>1. vanished' = vanished + 1 BY <1>6 DEF Vanish
        <3>2. stream' \in [Streams -> Stream] BY <1>6, CutType DEF Inv, TypeOK, Vanish, Stream
        <3> QED BY <1>6, <3>1, <3>2 DEF Inv, TypeOK, Vanish, Stream
    <2>2. AttemptInv' BY <1>6 DEF Inv, TypeOK, AttemptInv, At, Running, Vanish
    <2> QED BY <2>1, <2>2 DEF Inv
<1>7. CASE GuardExpires \/ BatchBooks \/ NextMonth
    <2>1. TypeOK'
        <3>1. CASE GuardExpires
            <4>1. expired' \in Nat BY <3>1 DEF Inv, TypeOK, GuardExpires
            <4> QED BY <3>1, <4>1 DEF Inv, TypeOK, GuardExpires
        <3>2. CASE BatchBooks BY <3>2 DEF Inv, TypeOK, BatchBooks
        <3>3. CASE NextMonth BY <3>3 DEF Inv, TypeOK, NextMonth
        <3> QED BY <1>7, <3>1, <3>2, <3>3
    <2>2. stream' = stream BY <1>7 DEF GuardExpires, BatchBooks, NextMonth
    <2> QED BY <2>1, <2>2 DEF Inv, AttemptInv, At
<1>8. CASE UNCHANGED vars
    BY <1>8 DEF Inv, TypeOK, AttemptInv, At, Running, vars
<1>9. ASSUME NEW s \in Streams, AcquireLost(s) PROVE Inv'
    <2>1. TypeOK'
        <3>1. stream' \in [Streams -> Stream] BY <1>9, CutType DEF Inv, TypeOK, AcquireLost, Stream
        <3>2. guard' \in BOOLEAN BY <1>9 DEF Inv, TypeOK, AcquireLost
        <3> QED BY <1>9, <3>1, <3>2 DEF Inv, TypeOK, AcquireLost, Stream
    <2>2. AttemptInv' BY <1>9 DEF Inv, TypeOK, AttemptInv, At, Running, AcquireLost
    <2> QED BY <2>1, <2>2 DEF Inv
<1> QED BY <1>1, <1>2, <1>3, <1>4, <1>5, <1>6, <1>7, <1>8, <1>9 DEF Next

THEOREM InvCorrect == Spec => []Inv
BY InitInv, NextInv, PTL DEF Spec

\* Every reachable state is type correct: no stream makes a third call, books
\* twice or leaves a third row.
THEOREM TypeCorrect == Spec => []TypeOK
BY InvCorrect, PTL DEF Inv

\* One audit row per attempt of a stream that was not cut short.
THEOREM OneRowPerAttempt == Spec => []RowPerAttempt
<1>1. Inv => RowPerAttempt BY DEF Inv, AttemptInv, RowPerAttempt
<1> QED BY <1>1, InvCorrect, PTL

-----------------------------------------------------------------------------
(* Counting: a step of stream s can only bring s into a set or take s out. *)

LEMMA Finite ==
    \A S \in SUBSET Streams : IsFiniteSet(S) /\ Cardinality(S) \in Nat
BY ExplainAssumption, FS_Subset, FS_CardinalityType

LEMMA Added ==
    ASSUME NEW S \in SUBSET Streams, NEW s \in Streams
    PROVE  Cardinality(S \cup {s}) =< Cardinality(S) + 1
BY Finite, FS_AddElement

LEMMA Removed ==
    ASSUME NEW S \in SUBSET Streams, NEW s \in S
    PROVE  Cardinality(S \ {s}) = Cardinality(S) - 1
BY Finite, FS_RemoveElement

-----------------------------------------------------------------------------
(* The overlap: the calls in flight are at most the expiries under a call,  *)
(* and one more while the key exists.  Whoever releases the key takes one   *)
(* call out of flight with it.                                              *)

LEMMA SameFlight ==
    ASSUME OverlapBounded, InFlight' = InFlight, guard' = guard, expired' = expired
    PROVE  OverlapBounded'
BY DEF OverlapBounded

LEMMA NextOverlap == Inv /\ OverlapBounded /\ [Next]_vars => OverlapBounded'
<1> SUFFICES ASSUME Inv, OverlapBounded, [Next]_vars PROVE OverlapBounded' OBVIOUS
<1>0. /\ InFlight \in SUBSET Streams /\ InFlight' \in SUBSET Streams
      /\ Cardinality(InFlight) \in Nat /\ expired \in Nat /\ guard \in BOOLEAN
    BY Finite DEF InFlight, Inv, TypeOK
<1>1. ASSUME NEW s \in Streams, Acquire(s) PROVE OverlapBounded'
    <2>1. InFlight' = InFlight \cup {s}
        BY <1>1 DEF Acquire, Go, InFlight, At, Inv, TypeOK
    <2>2. ~guard /\ guard' /\ expired' = expired BY <1>1 DEF Acquire
    <2>3. Cardinality(InFlight) =< expired
        <3>1. (IF guard THEN 1 ELSE 0) = 0 BY <2>2
        <3>2. Cardinality(InFlight) =< expired + 0 BY <3>1 DEF OverlapBounded
        <3> QED BY <1>0, <3>2
    <2>4. Cardinality(InFlight') =< expired' + 1
        <3>1. Cardinality(InFlight \cup {s}) =< Cardinality(InFlight) + 1
            BY <1>0, <1>1, Added
        <3>2. Cardinality(InFlight') \in Nat BY <1>0, Finite
        <3> QED BY <1>0, <2>1, <2>2, <2>3, <3>1, <3>2
    <2>5. (IF guard' THEN 1 ELSE 0) = 1 BY <2>2
    <2> QED BY <2>4, <2>5 DEF OverlapBounded
<1>2. ASSUME NEW s \in Streams, s \in InFlight, InFlight' = InFlight \ {s},
             expired' = expired, (guard' = guard) \/ ~guard'
      PROVE  OverlapBounded'
    BY <1>0, <1>2, Removed DEF OverlapBounded
<1>3. ASSUME NEW s \in Streams, Release(s) PROVE OverlapBounded'
    <2>1. s \in InFlight /\ InFlight' = InFlight \ {s}
        BY <1>3 DEF Release, Go, InFlight, At, Inv, TypeOK
    <2> QED BY <1>2, <1>3, <2>1 DEF Release
<1>4. ASSUME NEW s \in Streams, Vanish(s) PROVE OverlapBounded'
    <2>1. s \in InFlight /\ InFlight' = InFlight \ {s}
        BY <1>4 DEF Vanish, InFlight, At, Inv, TypeOK
    <2> QED BY <1>2, <1>4, <2>1 DEF Vanish
<1>5. CASE GuardExpires
    <2>1. guard /\ ~guard' BY <1>5 DEF GuardExpires
    <2>2. InFlight' = InFlight BY <1>5 DEF GuardExpires, InFlight, At
    <2>3. CASE InFlight = {}
        <3>1. Cardinality(InFlight) = 0 BY <2>3, FS_EmptySet
        <3>2. expired' = expired BY <1>5, <2>3 DEF GuardExpires
        <3> QED BY <1>0, <2>1, <2>2, <3>1, <3>2 DEF OverlapBounded
    <2>4. CASE InFlight # {}
        <3>1. expired' = expired + 1 BY <1>5, <2>4 DEF GuardExpires
        <3> QED BY <1>0, <2>1, <2>2, <3>1 DEF OverlapBounded
    <2> QED BY <2>3, <2>4
<1>6. ASSUME NEW s \in Streams,
             \/ Begin(s) \/ Refuse(s) \/ Busy(s)
             \/ ProviderRefuses(s) \/ ProviderAnswers(s) \/ Reject(s) \/ Block(s)
             \/ SetCached(s) \/ Book(s) \/ Replayed(s) \/ AuditUnknown(s)
             \/ Unexpected(s) \/ Abort(s)
      PROVE  OverlapBounded'
    <2>1. guard' = guard /\ expired' = expired
        BY <1>6 DEF Begin, Refuse, Busy, ProviderRefuses, ProviderAnswers, Reject,
                    Block, SetCached, Book, Replayed, AuditUnknown, Unexpected, Abort
    <2>2. InFlight' = InFlight
        <3>1. CASE Begin(s) BY <3>1 DEF Begin, Idle, InFlight, At, Inv, TypeOK
        <3>2. CASE Refuse(s) BY <3>2 DEF Refuse, Idle, InFlight, At, Inv, TypeOK
        <3>3. CASE Busy(s) BY <3>3 DEF Busy, Go, InFlight, At, Inv, TypeOK
        <3>4. CASE ProviderRefuses(s)
            BY <3>4 DEF ProviderRefuses, Log, InFlight, At, Inv, TypeOK
        <3>5. CASE ProviderAnswers(s)
            BY <3>5 DEF ProviderAnswers, InFlight, At, Inv, TypeOK
        <3>6. CASE Reject(s) BY <3>6 DEF Reject, Log, InFlight, At, Inv, TypeOK
        <3>7. CASE Block(s) BY <3>7 DEF Block, Log, InFlight, At, Inv, TypeOK
        <3>8. CASE SetCached(s) BY <3>8 DEF SetCached, Go, InFlight, At, Inv, TypeOK
        <3>9. CASE Book(s) BY <3>9 DEF Book, InFlight, At, Inv, TypeOK
        <3>10. CASE Replayed(s) BY <3>10 DEF Replayed, Go, InFlight, At, Inv, TypeOK
        <3>11. CASE AuditUnknown(s)
            BY <3>11 DEF AuditUnknown, Log, InFlight, At, Inv, TypeOK
        <3>12. CASE Unexpected(s) BY <3>12 DEF Unexpected, Go, InFlight, At, Inv, TypeOK
        <3>13. CASE Abort(s) BY <3>13 DEF Abort, InFlight, At, Inv, TypeOK
        <3> QED BY <1>6, <3>1, <3>2, <3>3, <3>4, <3>5, <3>6, <3>7, <3>8, <3>9, <3>10,
                   <3>11, <3>12, <3>13
    <2> QED BY <2>1, <2>2, SameFlight
<1>7. CASE BatchBooks \/ NextMonth \/ UNCHANGED vars
    <2>1. guard' = guard /\ expired' = expired /\ stream' = stream
        BY <1>7 DEF BatchBooks, NextMonth, vars
    <2>2. InFlight' = InFlight BY <2>1 DEF InFlight, At
    <2> QED BY <2>1, <2>2, SameFlight
<1>8. ASSUME NEW s \in Streams, AcquireLost(s) PROVE OverlapBounded'
    <2>1. InFlight' = InFlight BY <1>8 DEF AcquireLost, InFlight, At, Inv, TypeOK
    <2>2. expired' = expired /\ guard' \in {guard, TRUE} BY <1>8 DEF AcquireLost
    <2>3. (IF guard THEN 1 ELSE 0) =< (IF guard' THEN 1 ELSE 0)
        <3>1. CASE guard' = guard BY <3>1, <1>0
        <3>2. CASE guard' = TRUE BY <3>2, <1>0
        <3> QED BY <2>2, <3>1, <3>2
    <2> QED BY <1>0, <2>1, <2>2, <2>3 DEF OverlapBounded
<1> QED BY <1>1, <1>3, <1>4, <1>5, <1>6, <1>7, <1>8 DEF Next, Engine

\* Calls in flight never outnumber the expiries under a call by more than the one
\* the key stands for.
THEOREM OverlapSound == Spec => []OverlapBounded
<1>1. Init => OverlapBounded
    <2> SUFFICES ASSUME Init PROVE OverlapBounded OBVIOUS
    <2>1. InFlight = {} BY DEF Init, InFlight, At, Idle
    <2> QED BY <2>1, FS_EmptySet DEF Init, OverlapBounded
<1> QED BY <1>1, InvCorrect, NextOverlap, PTL DEF Spec

-----------------------------------------------------------------------------
(* The overshoot: an admission leaves the spend below the cap and adds one  *)
(* stream that may book; a booking trades that stream for one unit.         *)

LEMMA NextOvershoot == Inv /\ OvershootBounded /\ [Next]_vars => OvershootBounded'
<1> SUFFICES ASSUME Inv, OvershootBounded, [Next]_vars PROVE OvershootBounded' OBVIOUS
<1>0. /\ MayBook \in SUBSET Streams /\ MayBook' \in SUBSET Streams
      /\ Cardinality(MayBook) \in Nat /\ Cardinality(MayBook') \in Nat
      /\ spent \in Nat /\ prewarm \in Nat /\ Cap \in Nat \ {0}
      /\ IsFiniteSet(Streams) /\ Cardinality(Streams) \in Nat
    BY Finite, ExplainAssumption, FS_CardinalityType DEF MayBook, Inv, TypeOK
<1>1. ASSUME NEW s \in Streams, Begin(s) PROVE OvershootBounded'
    <2>1. spent + prewarm < Cap /\ spent' = spent BY <1>1 DEF Begin, UnderBudget
    <2>2. Cardinality(MayBook') =< Cardinality(Streams) BY <1>0, FS_Subset
    <2> QED BY <1>0, <2>1, <2>2 DEF OvershootBounded
<1>2. ASSUME NEW s \in Streams, Book(s) PROVE OvershootBounded'
    <2>1. s \in MayBook /\ MayBook' = MayBook \ {s}
        BY <1>2 DEF Book, MayBook, At, Inv, TypeOK
    <2>2. spent' = spent + 1 BY <1>2 DEF Book
    <2> QED BY <1>0, <2>1, <2>2, Removed DEF OvershootBounded
<1>3. ASSUME MayBook' \subseteq MayBook, spent' = spent PROVE OvershootBounded'
    <2>1. Cardinality(MayBook') =< Cardinality(MayBook) BY <1>3, <1>0, Finite, FS_Subset
    <2> QED BY <1>0, <1>3, <2>1 DEF OvershootBounded
<1>4. ASSUME NEW s \in Streams,
             \/ Refuse(s) \/ Acquire(s) \/ Busy(s)
             \/ ProviderRefuses(s) \/ ProviderAnswers(s) \/ Reject(s) \/ Block(s)
             \/ SetCached(s) \/ Replayed(s) \/ AuditUnknown(s) \/ Release(s)
             \/ Unexpected(s) \/ Abort(s) \/ Vanish(s) \/ AcquireLost(s)
      PROVE  OvershootBounded'
    <2>1. spent' = spent
        BY <1>4 DEF Refuse, Acquire, Busy, ProviderRefuses, ProviderAnswers, Reject,
                    Block, SetCached, Replayed, AuditUnknown, Release, Unexpected,
                    Abort, Vanish, AcquireLost
    <2>2. MayBook' \subseteq MayBook
        <3>1. CASE Refuse(s) BY <3>1 DEF Refuse, Idle, MayBook, At, Inv, TypeOK
        <3>2. CASE Acquire(s) BY <3>2 DEF Acquire, Go, MayBook, At, Inv, TypeOK
        <3>3. CASE Busy(s) BY <3>3 DEF Busy, Go, MayBook, At, Inv, TypeOK
        <3>4. CASE ProviderRefuses(s)
            BY <3>4 DEF ProviderRefuses, Log, MayBook, At, Inv, TypeOK
        <3>5. CASE ProviderAnswers(s)
            BY <3>5 DEF ProviderAnswers, MayBook, At, Inv, TypeOK
        <3>6. CASE Reject(s) BY <3>6 DEF Reject, Log, MayBook, At, Inv, TypeOK
        <3>7. CASE Block(s) BY <3>7 DEF Block, Log, MayBook, At, Inv, TypeOK
        <3>8. CASE SetCached(s) BY <3>8 DEF SetCached, Go, MayBook, At, Inv, TypeOK
        <3>9. CASE Replayed(s) BY <3>9 DEF Replayed, Go, MayBook, At, Inv, TypeOK
        <3>10. CASE AuditUnknown(s)
            BY <3>10 DEF AuditUnknown, Log, MayBook, At, Inv, TypeOK
        <3>11. CASE Release(s) BY <3>11 DEF Release, Go, MayBook, At, Inv, TypeOK
        <3>12. CASE Unexpected(s) BY <3>12 DEF Unexpected, Go, MayBook, At, Inv, TypeOK
        <3>13. CASE Abort(s) BY <3>13 DEF Abort, MayBook, At, Inv, TypeOK
        <3>14. CASE Vanish(s) BY <3>14 DEF Vanish, MayBook, At, Inv, TypeOK
        <3>15. CASE AcquireLost(s) BY <3>15 DEF AcquireLost, MayBook, At, Inv, TypeOK
        <3> QED BY <1>4, <3>1, <3>2, <3>3, <3>4, <3>5, <3>6, <3>7, <3>8, <3>9, <3>10,
                   <3>11, <3>12, <3>13, <3>14, <3>15
    <2> QED BY <1>3, <2>1, <2>2
<1>5. CASE GuardExpires \/ BatchBooks \/ UNCHANGED vars
    <2>1. spent' = spent /\ stream' = stream
        BY <1>5 DEF GuardExpires, BatchBooks, vars
    <2> QED BY <1>3, <2>1 DEF MayBook, At
<1>6. CASE NextMonth
    <2>1. spent' = 0 /\ stream' = stream BY <1>6 DEF NextMonth
    <2>2. MayBook' = MayBook BY <2>1 DEF MayBook, At
    <2>3. Cardinality(MayBook) =< Cardinality(Streams) BY <1>0, FS_Subset
    <2> QED BY <1>0, <2>1, <2>2, <2>3 DEF OvershootBounded
<1> QED BY <1>1, <1>2, <1>4, <1>5, <1>6 DEF Next, Engine

\* A month's spend stays below the cap plus the number of concurrent streams.
THEOREM OvershootSound == Spec => []OvershootBounded
<1>1. Init => OvershootBounded
    <2> SUFFICES ASSUME Init PROVE OvershootBounded OBVIOUS
    <2>1. MayBook = {} BY DEF Init, MayBook, At, Idle
    <2>2. Cardinality(Streams) \in Nat BY ExplainAssumption, FS_CardinalityType
    <2> QED BY <2>1, <2>2, ExplainAssumption, FS_EmptySet DEF Init, OvershootBounded
<1> QED BY <1>1, InvCorrect, NextOvershoot, PTL DEF Spec

\* What the ownerless guard and the early budget check cost is bounded
\* (ai/cache.py:118, ai/explain.py:308).
THEOREM BoundsAreSound == Spec => []BoundsHold
BY TypeCorrect, OverlapSound, OvershootSound, PTL DEF BoundsHold
=============================================================================
