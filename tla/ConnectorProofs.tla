-------------------------- MODULE ConnectorProofs --------------------------
(* Theorems about ConnectorSync and the paging loops of VendorFeeds, for any  *)
(* connector types, list and page sizes, caps, and numbers of syncs, edits,   *)
(* removals and restarts.                                                     *)
EXTENDS ConnectorSync, FiniteSetTheorems, WellFoundedInduction, TLAPS

-----------------------------------------------------------------------------
(* Lists and pages: L is what the vendor still lists, A the part of it beyond *)
(* the place a request asks for, and a page the first items of A.             *)

LEMMA LeastOf ==
    ASSUME NEW S \in SUBSET Int, S # {}, IsFiniteSet(S)
    PROVE  \E m \in S : \A x \in S : m <= x
<1> DEFINE Below(x) == {y \in S : y < x}
           T == {Below(x) : x \in S}
<1>0. ASSUME NEW x \in S PROVE Below(x) \in FiniteSubsetsOf(S)
  BY FS_Subset DEF FiniteSubsetsOf
<1>1. T \subseteq FiniteSubsetsOf(S) /\ T # {}
  BY <1>0
<1>2. PICK least \in T : \A U \in T : ~ (<<U, least>> \in StrictSubsetOrdering(S))
  <2> DEFINE R == StrictSubsetOrdering(S)
             F == FiniteSubsetsOf(S)
  <2>1. IsWellFoundedOn(R, F)
    BY FS_StrictSubsetOrderingWellFounded
  <2> HIDE DEF T, R, F
  <2>2. \E U \in T : \A V \in T : ~ (<<V, U>> \in R)
    BY <1>1, <2>1, WFMin DEF F
  <2> QED BY <2>2 DEF R
<1>3. PICK m \in S : least = Below(m)
  OBVIOUS
<1>4. ASSUME NEW x \in S, ~ (m <= x) PROVE FALSE
  <2>1. x < m /\ x \in Below(m) /\ x \notin Below(x)
    BY <1>4
  <2>2. Below(x) \subseteq Below(m)
    <3>1. ASSUME NEW y \in S, y < x PROVE y < m
      <4>1. y \in Int /\ x \in Int /\ m \in Int
        OBVIOUS
      <4> QED BY <2>1, <3>1, <4>1
    <3> QED BY <3>1
  <2>3. <<Below(x), Below(m)>> \in StrictSubsetOrdering(S)
    <3>1. Below(x) \in SUBSET S /\ Below(m) \in SUBSET S /\ Below(x) # Below(m)
      BY <2>1
    <3> HIDE DEF Below
    <3> QED BY <2>2, <3>1 DEF StrictSubsetOrdering
  <2> QED BY <1>2, <1>3, <2>3
<1> QED BY <1>4

LEMMA GreatestOf ==
    ASSUME NEW n \in Nat, NEW S \in SUBSET (1 .. n), S # {}
    PROVE  \E m \in S : \A x \in S : x <= m
<1> DEFINE T == {n - x : x \in S}
<1>1. T # {} /\ \A t \in T : t \in 0 .. n /\ t \in Int
  <2>1. ASSUME NEW x \in S PROVE n - x \in 0 .. n /\ n - x \in Int
    <3>1. x \in 1 .. n
      OBVIOUS
    <3> QED BY <3>1
  <2>2. T # {}
    OBVIOUS
  <2> QED BY <2>1, <2>2
<1> HIDE DEF T
<1>0. T \in SUBSET Int /\ IsFiniteSet(T)
  <2>1. IsFiniteSet(0 .. n) /\ T \subseteq 0 .. n
    BY <1>1, FS_Interval
  <2>2. IsFiniteSet(T)
    BY <2>1, FS_Subset
  <2> QED BY <1>1, <2>2
<1>2. PICK m \in T : \A x \in T : m <= x
  BY <1>0, <1>1, LeastOf
<1> USE DEF T
<1>3. PICK g \in S : m = n - g
  OBVIOUS
<1>4. ASSUME NEW x \in S PROVE x <= g
  <2>1. n - x \in T
    OBVIOUS
  <2>2. m <= n - x /\ x \in Int /\ g \in Int
    BY <1>2, <2>1
  <2> QED BY <1>3, <2>2
<1> QED BY <1>4

PositionIn(L, i) == Cardinality({j \in L : j <= i})
PageOf(A, size) == {i \in A : PositionIn(A, i) <= size}

LEMMA ItemsAreFinite ==
    ASSUME NEW L \in SUBSET Items
    PROVE  IsFiniteSet(L) /\ Cardinality(L) \in 0 .. MaxItems
<1>1. IsFiniteSet(Items) /\ Cardinality(Items) = MaxItems
  BY FeedBounds, FS_Interval DEF Items
<1> QED BY <1>1, FS_Subset, FS_CardinalityType, FeedBounds

LEMMA PositionType ==
    ASSUME NEW L \in SUBSET Items, NEW i
    PROVE  PositionIn(L, i) \in 0 .. MaxItems
BY ItemsAreFinite DEF PositionIn

\* Positions grow along the list, by one from an item to the next.
LEMMA PositionsGrow ==
    ASSUME NEW L \in SUBSET Items, NEW i \in Items, NEW j \in L, i < j
    PROVE  PositionIn(L, i) < PositionIn(L, j)
<1> DEFINE I == {x \in L : x <= i}
           J == {x \in L : x <= j}
<1>0. i \in Int /\ \A x \in L : x \in Int
  BY FeedBounds DEF Items
<1>1. I \subseteq J /\ j \in J /\ j \notin I
  <2>1. \A x \in L : x <= i => x <= j
    BY <1>0
  <2>2. j <= j /\ ~ (j <= i)
    BY <1>0
  <2> QED BY <2>1, <2>2
<1>2. I \in SUBSET Items /\ J \in SUBSET Items
  OBVIOUS
<1> HIDE DEF I, J
<1>3. IsFiniteSet(J) /\ Cardinality(I) <= Cardinality(J) /\ Cardinality(I) # Cardinality(J)
  BY <1>1, <1>2, ItemsAreFinite, FS_Subset
<1>4. Cardinality(I) \in Nat /\ Cardinality(J) \in Nat
  BY <1>2, ItemsAreFinite
<1> QED BY <1>3, <1>4 DEF PositionIn, I, J

\* A page holds the first item beyond the place it is asked for ...
LEMMA PageHasFirst ==
    ASSUME NEW A \in SUBSET Items, A # {}, NEW size \in Nat \ {0}
    PROVE  PageOf(A, size) # {}
<1>1. PICK m \in A : \A x \in A : m <= x
  <2>1. A \in SUBSET Int /\ IsFiniteSet(A)
    BY ItemsAreFinite DEF Items
  <2> QED BY <2>1, LeastOf
<1>0. \A x \in A : x \in Int
  BY FeedBounds DEF Items
<1>2. {j \in A : j <= m} = {m}
  BY <1>0, <1>1
<1>3. PositionIn(A, m) = 1
  BY <1>2, FS_Singleton DEF PositionIn
<1> QED BY <1>3 DEF PageOf

\* ... and with an item all those before it ...
LEMMA PageIsPrefix ==
    ASSUME NEW A \in SUBSET Items, NEW size \in Nat, NEW i \in PageOf(A, size), NEW j \in A, j <= i
    PROVE  j \in PageOf(A, size)
<1>1. i \in A /\ PositionIn(A, i) <= size
  BY DEF PageOf
<1>2. CASE j = i
  BY <1>2
<1>3. CASE j # i
  <2>1. j < i /\ j \in Items
    BY <1>1, <1>3 DEF Items
  <2>2. PositionIn(A, j) < PositionIn(A, i)
    BY <1>1, <2>1, PositionsGrow
  <2> QED BY <1>1, <2>2, PositionType, FeedBounds DEF PageOf
<1> QED BY <1>2, <1>3

\* ... and it is full unless nothing lies beyond it.
LEMMA PageIsFull ==
    ASSUME NEW A \in SUBSET Items, NEW size \in Nat, ~ (A \subseteq PageOf(A, size))
    PROVE  Cardinality(PageOf(A, size)) >= size
<1> DEFINE P == PageOf(A, size)
<1>i. \A x \in A : x \in Int
  BY FeedBounds DEF Items
<1>1. A \ P \in SUBSET Int /\ A \ P # {} /\ P \in SUBSET Items /\ P \subseteq A
  BY <1>i DEF PageOf
<1>0. IsFiniteSet(A \ P)
  BY ItemsAreFinite
<1>2. PICK m \in A \ P : \A x \in A \ P : m <= x
  <2> HIDE DEF P
  <2> QED BY <1>0, <1>1, LeastOf
<1>3. PositionIn(A, m) > size
  BY <1>2, PositionType, FeedBounds DEF PageOf
<1>4. {j \in A : j <= m} \subseteq P \cup {m}
  <2> HIDE DEF P
  <2> QED BY <1>i, <1>2
<1> HIDE DEF P
<1>5. IsFiniteSet(P) /\ Cardinality(P) \in Nat
  BY <1>1, ItemsAreFinite
<1>6. IsFiniteSet(P \cup {m}) /\ Cardinality(P \cup {m}) = Cardinality(P) + 1
  BY <1>2, <1>5, FS_AddElement
<1>7. PositionIn(A, m) <= Cardinality(P) + 1
  BY <1>4, <1>6, FS_Subset DEF PositionIn
<1>8. PositionIn(A, m) \in Nat
  BY PositionType
<1>9. Cardinality(P) >= size
  BY <1>3, <1>5, <1>7, <1>8
<1> QED BY <1>9 DEF P
-----------------------------------------------------------------------------
(* What a fetch knows *)

PolicyOf(f) == ListsOf[f.kind][f.list]
LiveIn(R) == Items \ R
\* The live items before the place the next request asks for.
BehindIn(walk, at, L) ==
    CASE walk = "offset" -> {i \in L : PositionIn(L, i) <= at}
      [] walk = "stuck" -> {}
      [] OTHER -> {i \in L : i <= at}
\* Items left out have a reason.
Explained(f, R, S) ==
    \/ f.swallowed \/ f.capped \/ S = {}
    \/ PolicyOf(f).walk = "offset" /\ Cardinality(S) <= Cardinality(R)

\* Behind the place a loop has reached it has read everything, and of the
\* first list everything when it reads the second, but for what it has a
\* reason to leave out; so does the fetch that returned.
FeedOK(f, R) ==
    /\ f \in FetchType /\ R \in SUBSET Items
    /\ f.list \in 1 .. Len(ListsOf[f.kind])
    /\ f.state = "paging" =>
         /\ PolicyOf(f).capped => f.page < MaxPages
         /\ f.list = 2 => f.swallowed \/ f.capped \/ LiveIn(R) \subseteq f.found
         /\ Explained(f, R, BehindIn(PolicyOf(f).walk, f.at, LiveIn(R)) \ f.got)
    /\ f.state = "returned" => Explained(f, R, LiveIn(R) \ f.found)

-----------------------------------------------------------------------------
(* The inductive invariant *)

Health(r) ==
    /\ r.status = "FAILED" <=> r.failures > 0
    /\ r.error <=> r.failures > 0
RowType ==
    [exists : BOOLEAN, enabled : BOOLEAN, synced : BOOLEAN, due : BOOLEAN,
     status : Status \ {"RUNNING"}, failures : Nat, error : BOOLEAN]
SyncType ==
    [stage : {"idle", "starting", "opened", "fetching", "storing", "committing", "aborted", "ended"},
     row : RowType, stamps : BOOLEAN, outer : Status, inner : Status,
     keeps : SUBSET Items, skipped : SUBSET Items]
Undecided == {"opened", "fetching", "storing"}

\* Every task that has not committed is counted once among the syncs started,
\* and has not reached the rows it will write.
CountsInv ==
    LET owes == IF sync.stage \in Undecided \cup {"starting", "committing"} THEN 1 ELSE 0 IN
    /\ row.failures + owes <= count.syncs
    /\ \A s \in DOMAIN logs : logs[s] + owes <= count.syncs
    /\ sync.stage \in Undecided => sync.row.failures + 1 <= count.syncs
    /\ sync.stage = "committing" => sync.row.failures <= count.syncs

\* The logs a task has open, and the ones it ended.
TaskInv ==
    /\ running <=> sync.stage # "idle"
    /\ sync.stage \in Undecided =>
         sync.outer = "RUNNING" /\ sync.inner = IF kind \in Delegated THEN "RUNNING" ELSE "none"
    /\ sync.stage = "committing" =>
         IF kind \in Delegated THEN sync.outer = "RUNNING" /\ sync.inner \in {"SUCCESS", "FAILED"}
                               ELSE sync.outer \in {"SUCCESS", "FAILED"} /\ sync.inner = "none"
    /\ sync.stage \in {"fetching", "storing"} => kind \in Scanners \cup Delegated
    /\ sync.stage \in Undecided \cup {"committing"} /\ kind \in Scanners => Health(sync.row)

\* A sync that reports SUCCESS keeps what the fetch found, but for what a choosy
\* kind passes over.
Kept(s) ==
    /\ s.keeps \cup s.skipped = fetch.found
    /\ s.skipped # {} => kind \in Choosy
KeepsInv ==
    /\ sync.stage \in {"idle", "starting", "opened"} => fetch.state = "idle"
    /\ sync.stage = "committing" /\ fetch.state = "returned" /\ sync.row.status = "SUCCESS" => Kept(sync)
    /\ sync.stage = "ended" /\ fetch.state = "returned" /\ row.status = "SUCCESS" => Kept(sync)
    /\ sync.stage = "storing" => fetch.state = "returned"

Basics ==
    /\ kind \in Kinds /\ row \in RowType /\ logs \in [Status \ {"none"} -> Nat] /\ sync \in SyncType
    /\ running \in BOOLEAN /\ overlap \in BOOLEAN
    /\ tick \in [stage : {"asleep", "read"}, listed : BOOLEAN, due : BOOLEAN, overtaken : BOOLEAN]
    /\ count \in [syncs : 0 .. MaxSyncs, edits : 0 .. MaxEdits, crashes : 0 .. MaxCrashes]

ConnectorInv ==
    /\ Basics /\ FeedOK(fetch, removed)
    /\ SingleFlight /\ ScannerHealth
    /\ LogsEnd /\ CountsInv /\ TaskInv /\ KeepsInv

-----------------------------------------------------------------------------
(* The loops *)

Reactions == {"stop", "drop", "raise", "retry", "spend", "skip", "restart"}
\* What every loop's record says: only loops that count pages spend one, only
\* loops over items skip one, only cursors restart.
Loop(p) ==
    /\ p.walk \in {"cursor", "offset", "keyset", "stuck", "each"}
    /\ p.capped \in BOOLEAN
    /\ p.exhausted \in {"stop", "raise"}
    /\ p.capped => p.walk = "cursor"
    /\ \A a \in Answers :
         /\ p.on[a] \in Reactions
         /\ p.on[a] = "spend" => p.capped
         /\ p.on[a] = "skip" => p.walk = "each"
         /\ p.on[a] = "restart" => p.walk = "cursor"

LEMMA LoopsOfCursors ==
    /\ Loop(CrowdStrike) /\ CrowdStrike.walk = "cursor"
    /\ Loop(CrowdStrikeAssessments) /\ CrowdStrikeAssessments.walk = "cursor"
    /\ Loop(Defender) /\ Defender.walk = "cursor"
    /\ Loop(WizConfiguration) /\ WizConfiguration.walk = "cursor"
    /\ Loop(WizFindings) /\ WizFindings.walk = "cursor"
    /\ Loop(AzureEntra) /\ AzureEntra.walk = "cursor"
    /\ Loop(GoogleWorkspace) /\ GoogleWorkspace.walk = "cursor"
<1> USE DEF Loop, Always, Answers, Reactions
<1>1. Loop(CrowdStrike) /\ CrowdStrike.walk = "cursor"
  BY DEF CrowdStrike
<1>2. Loop(CrowdStrikeAssessments) /\ CrowdStrikeAssessments.walk = "cursor"
  BY DEF CrowdStrikeAssessments
<1>3. Loop(Defender) /\ Defender.walk = "cursor"
  BY DEF Defender
<1>4. Loop(WizConfiguration) /\ WizConfiguration.walk = "cursor"
  BY DEF WizConfiguration
<1>5. Loop(WizFindings) /\ WizFindings.walk = "cursor"
  BY DEF WizConfiguration, WizFindings
<1>6. Loop(AzureEntra) /\ AzureEntra.walk = "cursor"
  BY DEF AzureEntra, Jamf
<1>7. Loop(GoogleWorkspace) /\ GoogleWorkspace.walk = "cursor"
  BY DEF GoogleWorkspace, Jamf
<1> QED BY <1>1, <1>2, <1>3, <1>4, <1>5, <1>6, <1>7

LEMMA LoopsOfOthers ==
    Loop(Rapid7) /\ Loop(Qualys) /\ Loop(QualysXml) /\ Loop(Nessus) /\ Loop(Jamf) /\ Loop(Humaans)
<1> USE DEF Loop, Always, Answers, Reactions
<1>1. Loop(Rapid7)
  BY DEF Rapid7
<1>2. Loop(Qualys)
  BY DEF Qualys
<1>3. Loop(QualysXml)
  BY DEF Qualys, QualysXml
<1>4. Loop(Nessus)
  BY DEF Nessus
<1>5. Loop(Jamf)
  BY DEF Jamf
<1>6. Loop(Humaans)
  BY DEF Humaans
<1> QED BY <1>1, <1>2, <1>3, <1>4, <1>5, <1>6

\* A kind has one list, or two that are read by a cursor.
LEMMA ListsKnown ==
    ASSUME NEW k \in DOMAIN ListsOf
    PROVE  /\ Len(ListsOf[k]) \in 1 .. 2
           /\ \A l \in 1 .. Len(ListsOf[k]) : Loop(ListsOf[k][l])
           /\ Len(ListsOf[k]) = 2 => ListsOf[k][1].walk = "cursor" /\ ListsOf[k][2].walk = "cursor"
<1> DEFINE Known(s) ==
             /\ Len(s) \in 1 .. 2
             /\ \A l \in 1 .. Len(s) : Loop(s[l])
             /\ Len(s) = 2 => s[1].walk = "cursor" /\ s[2].walk = "cursor"
<1>1. ASSUME NEW p, Loop(p) PROVE Known(<<p>>)
  BY <1>1
<1>2. ASSUME NEW p, NEW q, Loop(p), Loop(q), p.walk = "cursor", q.walk = "cursor" PROVE Known(<<p, q>>)
  BY <1>2
<1>3. /\ Known(<<CrowdStrike, CrowdStrikeAssessments>>) /\ Known(<<WizFindings, WizConfiguration>>)
      /\ Known(<<AzureEntra, AzureEntra>>) /\ Known(<<GoogleWorkspace, GoogleWorkspace>>)
  BY <1>2, LoopsOfCursors
<1>4. /\ Known(<<Defender>>) /\ Known(<<Rapid7>>) /\ Known(<<Qualys>>) /\ Known(<<QualysXml>>)
      /\ Known(<<Nessus>>) /\ Known(<<Jamf>>) /\ Known(<<Humaans>>)
  BY <1>1, LoopsOfCursors, LoopsOfOthers
<1> HIDE DEF Known
<1>5. Known(ListsOf[k])
  BY <1>3, <1>4 DEF ListsOf
<1> QED BY <1>5 DEF Known

\* The record of a fetch.
LEMMA FetchFields ==
    ASSUME NEW f \in FetchType
    PROVE  /\ f.kind \in DOMAIN ListsOf /\ f.list \in 1 .. 2
           /\ f.state \in {"idle", "paging", "returned", "raised"}
           /\ f.at \in 0 .. MaxItems + PageSize /\ f.page \in 0 .. MaxPages /\ f.try \in 0 .. MaxTries
           /\ f.base \in BOOLEAN /\ f.listed \in BOOLEAN
           /\ f.got \in SUBSET Items /\ f.found \in SUBSET Items
           /\ f.swallowed \in BOOLEAN /\ f.capped \in BOOLEAN
BY DEF FetchType

LEMMA LessIsExplained ==
    ASSUME NEW f, NEW g, NEW R \in SUBSET Items, NEW S \in SUBSET Items, NEW T \in SUBSET S,
           Explained(f, R, S), PolicyOf(g).walk = PolicyOf(f).walk,
           f.swallowed => g.swallowed, f.capped => g.capped
    PROVE  Explained(g, R, T)
<1>1. Cardinality(T) <= Cardinality(S) /\ S \in SUBSET Items /\ T \in SUBSET Items
  BY ItemsAreFinite, FS_Subset
<1>2. Cardinality(T) \in Nat /\ Cardinality(S) \in Nat /\ Cardinality(R) \in Nat
  BY <1>1, ItemsAreFinite
<1>3. S = {} => T = {}
  OBVIOUS
<1> QED BY <1>1, <1>2, <1>3 DEF Explained

\* A list that has been read, but for what there is a reason to leave out, ends.
LEMMA EndOfList ==
    ASSUME NEW f \in FetchType, NEW R \in SUBSET Items, f.state = "paging",
           f.list \in 1 .. Len(ListsOf[f.kind]),
           f.list = 2 => f.swallowed \/ f.capped \/ LiveIn(R) \subseteq f.found,
           Explained(f, R, LiveIn(R) \ f.got)
    PROVE  FeedOK(EndList(f), R)
<1> DEFINE n == Len(ListsOf[f.kind])
           found == IF f.list = 1 THEN f.got ELSE f.found
<1>1. n \in 1 .. 2 /\ (n = 2 => ListsOf[f.kind][1].walk = "cursor" /\ ListsOf[f.kind][2].walk = "cursor")
  BY FetchFields, ListsKnown
<1>2. f.got \in SUBSET Items /\ found \in SUBSET Items
  <2>1. f.got \in SUBSET Items /\ f.found \in SUBSET Items
    BY FetchFields
  <2> QED BY <2>1
<1>0. f.list \in 1 .. n
  OBVIOUS
<1> HIDE DEF n, found
<1>3. CASE f.list < n
  <2> DEFINE g == [f EXCEPT !.list = 2, !.at = 0, !.page = 0, !.try = 0, !.got = {}, !.found = found]
  <2>1. f.list = 1 /\ n = 2
    BY <1>0, <1>1, <1>3
  <2>2. EndList(f) = g
    BY <1>3 DEF EndList, n, found
  <2>3. /\ g \in FetchType /\ g.kind = f.kind /\ g.list = 2 /\ g.at = 0 /\ g.page = 0 /\ g.got = {}
        /\ g.found = found /\ g.state = "paging" /\ g.swallowed = f.swallowed /\ g.capped = f.capped
    <3>1. 2 \in 1 .. 2 /\ 0 \in 0 .. MaxItems + PageSize /\ 0 \in 0 .. MaxPages /\ 0 \in 0 .. MaxTries
      BY FeedBounds
    <3> QED BY <1>2, <3>1 DEF FetchType
  <2> HIDE DEF g
  <2>4. f.swallowed \/ f.capped \/ LiveIn(R) \subseteq f.got
    BY <1>1, <2>1 DEF Explained, PolicyOf, n
  <2>5. PolicyOf(g).walk = "cursor"
    BY <1>1, <2>1, <2>3 DEF PolicyOf, n
  <2>6. BehindIn("cursor", 0, LiveIn(R)) = {}
    BY FeedBounds DEF BehindIn, LiveIn, Items
  <2>7. Explained(g, R, BehindIn(PolicyOf(g).walk, g.at, LiveIn(R)) \ g.got)
    BY <2>3, <2>5, <2>6 DEF Explained
  <2>8. g.swallowed \/ g.capped \/ LiveIn(R) \subseteq g.found
    BY <2>1, <2>3, <2>4 DEF found
  <2>9. g.list \in 1 .. Len(ListsOf[g.kind]) /\ g.page < MaxPages
    <3>1. Len(ListsOf[g.kind]) = 2
      BY <2>1, <2>3 DEF n
    <3> QED BY <2>3, <3>1, FeedBounds
  <2> QED BY <2>2, <2>3, <2>7, <2>8, <2>9 DEF FeedOK
<1>4. CASE ~ (f.list < n)
  <2> DEFINE g == [f EXCEPT !.state = "returned", !.found = found]
  <2>2. EndList(f) = g
    BY <1>4 DEF EndList, n, found
  <2>3. /\ g \in FetchType /\ g.kind = f.kind /\ g.list = f.list /\ g.found = found
        /\ g.state = "returned" /\ g.swallowed = f.swallowed /\ g.capped = f.capped
    BY <1>2 DEF FetchType
  <2> HIDE DEF g
  <2>4. PolicyOf(g) = PolicyOf(f)
    BY <2>3 DEF PolicyOf
  <2>5. Explained(f, R, LiveIn(R) \ found)
    <3>1. CASE f.list = 1
      BY <3>1 DEF found
    <3>2. CASE f.list # 1
      <4>1. f.list = 2
        BY <1>0, <1>1, <3>2
      <4>2. found = f.found
        BY <4>1 DEF found
      <4> QED BY <4>1, <4>2 DEF Explained
    <3> QED BY <3>1, <3>2
  <2>6. Explained(g, R, LiveIn(R) \ g.found)
    BY <2>3, <2>4, <2>5 DEF Explained
  <2>7. g.list \in 1 .. Len(ListsOf[g.kind])
    BY <2>3
  <2> QED BY <2>2, <2>3, <2>6, <2>7 DEF FeedOK
<1> QED BY <1>3, <1>4

\* What a request asks for is what lies beyond the place it starts from.
LEMMA AheadIsRest ==
    ASSUME FeedOK(fetch, removed)
    PROVE  /\ Live = LiveIn(removed) /\ Live \in SUBSET Items
           /\ Ahead = Live \ BehindIn(Policy.walk, fetch.at, Live)
           /\ Page = PageOf(Ahead, IF Policy.walk = "each" THEN 1 ELSE PageSize)
           /\ Policy = PolicyOf(fetch) /\ Loop(Policy)
<1>1. Live = LiveIn(removed) /\ Live \in SUBSET Items
  BY DEF Live, LiveIn
<1>2. Policy = PolicyOf(fetch) /\ Loop(Policy)
  BY FetchFields, ListsKnown DEF FeedOK, Policy, PolicyOf
<1>3. Ahead = Live \ BehindIn(Policy.walk, fetch.at, Live)
  <2>1. \A i \in Live : Position(i) = PositionIn(Live, i) /\ Position(i) \in Int /\ i \in Int
    BY <1>1, PositionType, FeedBounds DEF Position, PositionIn, Items
  <2>2. fetch.at \in Int
    BY FetchFields, FeedBounds DEF FeedOK
  <2>3. \A i \in Live : (Position(i) > fetch.at <=> ~ (PositionIn(Live, i) <= fetch.at)) /\ (i > fetch.at <=> ~ (i <= fetch.at))
    BY <2>1, <2>2
  <2>4. CASE Policy.walk = "offset"
    BY <2>3, <2>4 DEF Ahead, BehindIn
  <2>5. CASE Policy.walk = "stuck"
    BY <2>5 DEF Ahead, BehindIn
  <2>6. CASE Policy.walk \notin {"offset", "stuck"}
    BY <2>3, <2>6 DEF Ahead, BehindIn
  <2> QED BY <2>4, <2>5, <2>6
<1>4. Page = PageOf(Ahead, IF Policy.walk = "each" THEN 1 ELSE PageSize)
  BY DEF Page, PageOf, PositionIn
<1> QED BY <1>1, <1>2, <1>3, <1>4

\* Where pages are addressed by offset, a page covers the positions up to the
\* next offset, because as many items as the offset says lie before the first
\* one beyond it ...
LEMMA OffsetPage ==
    ASSUME NEW L \in SUBSET Items, NEW at \in Nat, NEW size \in Nat,
           NEW i \in L, PositionIn(L, i) > at, PositionIn(L, i) <= at + size
    PROVE  i \in PageOf(L \ BehindIn("offset", at, L), size)
<1> DEFINE B == BehindIn("offset", at, L)
           A == L \ B
<1>1. B = {j \in L : PositionIn(L, j) <= at}
  BY DEF BehindIn
<1>2. i \in A
  BY <1>1, PositionType, FeedBounds
<1>3. A \in SUBSET Items /\ A # {}
  BY <1>2
<1>4. PICK m \in A : \A x \in A : m <= x
  <2>1. A \in SUBSET Int /\ IsFiniteSet(A)
    BY <1>3, ItemsAreFinite, FeedBounds DEF Items
  <2> HIDE DEF A
  <2> QED BY <1>3, <2>1, LeastOf
<1>i. m \in Int /\ i \in Int /\ \A j \in L : j \in Int
  BY <1>3, <1>4, FeedBounds DEF Items
<1>5. m <= i
  BY <1>2, <1>4
<1>6. PositionIn(L, m) > at
  BY <1>1, <1>4, PositionType, FeedBounds
<1> DEFINE M == {j \in L : j <= m}
           I == {j \in L : j <= i}
           P == {j \in A : j <= i}
           N == M \ {m}
<1>7. M \in SUBSET Items /\ I \in SUBSET Items /\ P \in SUBSET I /\ N \in SUBSET I /\ m \in M
  <2>1. \A j \in L : j <= m => j <= i
    BY <1>5, <1>i
  <2> QED BY <1>4, <1>i, <2>1
<1>8. N \cap P = {}
  <2> SUFFICES ASSUME NEW j \in N, j \in P PROVE FALSE
    OBVIOUS
  <2>1. m <= j
    BY <1>4
  <2>2. j <= m /\ j # m /\ j \in Int
    BY <1>i
  <2> QED BY <1>i, <2>1, <2>2
<1> HIDE DEF M, I, P, N, A, B
<1>9. IsFiniteSet(M) /\ IsFiniteSet(I) /\ Cardinality(M) \in Nat /\ Cardinality(I) \in Nat
  BY <1>7, ItemsAreFinite
<1>10. IsFiniteSet(N) /\ Cardinality(N) = Cardinality(M) - 1
  BY <1>7, <1>9, FS_RemoveElement DEF N
<1>11. IsFiniteSet(P) /\ Cardinality(P) \in Nat
  BY <1>7, <1>9, FS_Subset, FS_CardinalityType
<1>12. Cardinality(N \cup P) = Cardinality(N) + Cardinality(P)
  <2>1. Cardinality(N \cup P) = Cardinality(N) + Cardinality(P) - Cardinality(N \cap P)
    BY <1>10, <1>11, FS_Union
  <2>2. Cardinality(N \cap P) = 0
    BY <1>8, FS_EmptySet
  <2>3. Cardinality(N) \in Int
    BY <1>9, <1>10
  <2> QED BY <1>11, <2>1, <2>2, <2>3
<1>13. Cardinality(N \cup P) <= Cardinality(I)
  BY <1>7, <1>9, FS_Subset
<1>14. Cardinality(M) > at /\ Cardinality(I) <= at + size
  BY <1>6 DEF PositionIn, M, I
<1>15. Cardinality(P) <= size
  BY <1>9, <1>10, <1>11, <1>12, <1>13, <1>14
<1> QED BY <1>2, <1>15 DEF PageOf, PositionIn, P, A, B

\* ... and an item that is dropped moves at most one other before the offset.
LEMMA RemovalShifts ==
    ASSUME NEW L \in SUBSET Items, NEW x \in L, NEW at \in Nat
    PROVE  \E y : BehindIn("offset", at, L \ {x}) \subseteq BehindIn("offset", at, L) \cup {y}
<1> DEFINE K == L \ {x}
           B == {i \in L : PositionIn(L, i) <= at}
           C == {i \in K : PositionIn(K, i) <= at}
<1>1. ASSUME NEW i \in K PROVE PositionIn(L, i) <= PositionIn(K, i) + 1
  <2> DEFINE S == {j \in L : j <= i}
             T == {j \in K : j <= i}
  <2>1. S \subseteq T \cup {x} /\ S \in SUBSET Items /\ T \in SUBSET Items
    <3>1. \A j \in L : j # x => j \in K
      OBVIOUS
    <3>2. \A j \in K : j \in L
      OBVIOUS
    <3>3. S \in SUBSET L /\ T \in SUBSET K
      OBVIOUS
    <3>4. ASSUME NEW j \in S PROVE j \in T \cup {x}
      BY <3>1
    <3> HIDE DEF K, S, T
    <3> QED BY <3>2, <3>3, <3>4
  <2> HIDE DEF S, T
  <2>2. IsFiniteSet(T) /\ Cardinality(T) \in Nat /\ Cardinality(S) \in Nat
    BY <2>1, ItemsAreFinite
  <2>3. IsFiniteSet(T \cup {x}) /\ Cardinality(T \cup {x}) <= Cardinality(T) + 1
    <3>1. /\ IsFiniteSet(T \cup {x})
          /\ Cardinality(T \cup {x}) = IF x \in T THEN Cardinality(T) ELSE Cardinality(T) + 1
      BY <2>2, FS_AddElement
    <3> QED BY <2>2, <3>1
  <2>4. Cardinality(S) <= Cardinality(T \cup {x}) /\ Cardinality(T \cup {x}) \in Nat
    BY <2>1, <2>3, FS_Subset, FS_CardinalityType
  <2>5. Cardinality(S) <= Cardinality(T) + 1
    BY <2>2, <2>3, <2>4
  <2> QED BY <2>5 DEF PositionIn, S, T
<1>2. ASSUME NEW i \in C \ B PROVE PositionIn(L, i) = at + 1
  <2>1. PositionIn(L, i) \in Nat /\ PositionIn(K, i) \in Nat
    BY PositionType
  <2> QED BY <1>1, <2>1
<1>3. ASSUME NEW i \in C \ B, NEW j \in C \ B PROVE i = j
  <2>1. i \in Items /\ j \in Items /\ i \in L /\ j \in L /\ i \in Int /\ j \in Int
    BY FeedBounds DEF Items
  <2>2. PositionIn(L, i) = PositionIn(L, j) /\ PositionIn(L, i) \in Nat
    BY <1>2, PositionType
  <2>3. ~ (i < j) /\ ~ (j < i)
    BY <2>1, <2>2, PositionsGrow
  <2> QED BY <2>1, <2>3
<1>4. BehindIn("offset", at, K) = C /\ BehindIn("offset", at, L) = B
  BY DEF BehindIn
<1> HIDE DEF K, B, C
<1>5. \E y : C \subseteq B \cup {y}
  <2>1. CASE C \subseteq B
    BY <2>1
  <2>2. CASE ~ (C \subseteq B)
    <3>1. PICK y \in C : y \notin B
      BY <2>2
    <3>2. C \subseteq B \cup {y}
      BY <1>3, <3>1
    <3> QED BY <3>2
  <2> QED BY <2>1, <2>2
<1> QED BY <1>4, <1>5 DEF K

-----------------------------------------------------------------------------
(* The steps of a fetch *)

\* The last page of a list leaves only what was left behind before.
LEMMA LastPageLeaves ==
    ASSUME FeedOK(fetch, removed), LastPage(Page)
    PROVE  Live \ (fetch.got \cup Page) \subseteq BehindIn(Policy.walk, fetch.at, Live) \ fetch.got
<1>1. Ahead \in SUBSET Items /\ Ahead = Live \ BehindIn(Policy.walk, fetch.at, Live)
  BY AheadIsRest
<1>2. Ahead \subseteq Page
  <2>1. CASE Policy.walk \in {"keyset", "stuck"}
    <3>1. Page = PageOf(Ahead, PageSize) /\ Cardinality(Page) < PageSize
      BY <2>1, AheadIsRest DEF LastPage
    <3>2. PageOf(Ahead, PageSize) \in SUBSET Items
      BY <1>1 DEF PageOf
    <3>3. Cardinality(Page) \in Nat /\ PageSize \in Nat
      BY <3>1, <3>2, ItemsAreFinite, FeedBounds
    <3>4. ~ (Cardinality(Page) >= PageSize)
      BY <3>1, <3>3
    <3> QED BY <1>1, <3>1, <3>3, <3>4, PageIsFull
  <2>2. CASE Policy.walk \notin {"keyset", "stuck"}
    BY <2>2 DEF LastPage
  <2> QED BY <2>1, <2>2
<1> QED BY <1>1, <1>2

\* Where the next request begins, nothing new is left behind.
LEMMA NextPlace ==
    ASSUME FeedOK(fetch, removed), ~ LastPage(Page), Policy.walk # "stuck"
    PROVE  /\ After(Page) \in 0 .. MaxItems + PageSize
           /\ BehindIn(Policy.walk, After(Page), Live) \subseteq BehindIn(Policy.walk, fetch.at, Live) \cup Page
<1> DEFINE size == IF Policy.walk = "each" THEN 1 ELSE PageSize
           B == BehindIn(Policy.walk, fetch.at, Live)
<1>1. /\ Live \in SUBSET Items /\ Ahead = Live \ B /\ Page = PageOf(Ahead, size)
      /\ size \in Nat \ {0}
  BY AheadIsRest, FeedBounds
<1>2. Ahead \in SUBSET Items /\ Page \in SUBSET Ahead
  BY <1>1 DEF PageOf
<1>3. fetch.at \in Nat /\ fetch.at \in 0 .. MaxItems + PageSize
  BY FetchFields, FeedBounds DEF FeedOK
<1>i. \A i \in Live : i \in 1 .. MaxItems /\ i \in Int
  BY <1>1, FeedBounds DEF Items
<1> HIDE DEF size, B
<1>4. CASE Policy.walk = "offset"
  <2>1. After(Page) = fetch.at + PageSize
    BY <1>4 DEF After
  <2>2. PICK i \in Ahead : i \notin Page
    BY <1>4 DEF LastPage
  <2>3. B = {j \in Live : PositionIn(Live, j) <= fetch.at}
    BY <1>4 DEF B, BehindIn
  <2>4. PositionIn(Live, i) > fetch.at /\ PositionIn(Live, i) \in 0 .. MaxItems
    BY <1>1, <1>3, <2>2, <2>3, PositionType, FeedBounds
  <2>5. After(Page) \in 0 .. MaxItems + PageSize
    BY <1>3, <2>1, <2>4, FeedBounds
  <2>6. ASSUME NEW j \in BehindIn("offset", fetch.at + PageSize, Live), j \notin B PROVE j \in Page
    <3>1. j \in Live /\ PositionIn(Live, j) <= fetch.at + PageSize
      BY <2>6 DEF BehindIn
    <3>2. PositionIn(Live, j) > fetch.at
      BY <1>1, <1>3, <2>3, <2>6, <3>1, PositionType, FeedBounds
    <3>3. j \in PageOf(Live \ BehindIn("offset", fetch.at, Live), PageSize)
      BY <1>1, <1>3, <3>1, <3>2, OffsetPage, FeedBounds
    <3> QED BY <1>1, <1>4, <3>3 DEF B, size
  <2> QED BY <1>4, <2>1, <2>5, <2>6 DEF B
<1>5. CASE Policy.walk # "offset"
  <2>1. Page # {}
    <3>1. CASE Policy.walk = "keyset"
      <4>1. ~ (Cardinality(Page) < PageSize)
        BY <3>1 DEF LastPage
      <4> QED BY <4>1, FS_EmptySet, FeedBounds
    <3>2. CASE Policy.walk # "keyset"
      <4>1. Ahead # {}
        BY <3>2 DEF LastPage
      <4> QED BY <1>1, <1>2, <4>1, PageHasFirst
    <3> QED BY <3>1, <3>2
  <2>2. Page \in SUBSET (1 .. MaxItems)
    BY <1>2, <1>1, <1>i
  <2>3. \E m \in Page : \A x \in Page : x <= m
    BY <2>1, <2>2, GreatestOf, FeedBounds
  <2>4. After(Page) \in Page /\ \A x \in Page : x <= After(Page)
    BY <1>5, <2>3 DEF After
  <2>5. After(Page) \in 0 .. MaxItems + PageSize
    <3>1. After(Page) \in 1 .. MaxItems /\ MaxItems \in Nat /\ PageSize \in Nat
      BY <2>2, <2>4, FeedBounds
    <3> QED BY <3>1
  <2>6. \A a : BehindIn(Policy.walk, a, Live) = {j \in Live : j <= a}
    BY <1>5 DEF BehindIn
  <2>7. ASSUME NEW j \in Live, j <= After(Page), j \notin B PROVE j \in Page
    <3>1. j \in Ahead
      BY <1>1, <2>7
    <3> QED BY <1>1, <1>2, <2>4, <2>7, <3>1, PageIsPrefix
  <2> QED BY <2>5, <2>6, <2>7 DEF B
<1> QED BY <1>4, <1>5

\* A loop goes on, or stops at its cap.
LEMMA LoopAdvances ==
    ASSUME FeedOK(fetch, removed), fetch.state = "paging", ~ LastPage(Page), Policy.walk # "stuck",
           NEW f \in FetchType, f.kind = fetch.kind, f.list = fetch.list, f.state = "paging",
           f.found = fetch.found, f.page = fetch.page, f.capped = fetch.capped,
           \/ f.got = fetch.got \cup Page /\ f.swallowed = fetch.swallowed
           \/ f.swallowed
    PROVE  FeedOK(Advance(f, Page), removed)
<1>1. /\ Policy = PolicyOf(f) /\ Policy = PolicyOf(fetch) /\ f.list \in 1 .. Len(ListsOf[f.kind])
      /\ removed \in SUBSET Items /\ Live = LiveIn(removed) /\ Live \in SUBSET Items
  BY AheadIsRest DEF FeedOK, PolicyOf
<1>2. Policy.capped => f.page < MaxPages
  BY <1>1 DEF FeedOK
<1>3. f.page \in 0 .. MaxPages /\ Policy.capped \in BOOLEAN
  BY <1>1, FetchFields, AheadIsRest DEF Loop
<1>4. CASE Policy.capped /\ f.page + 1 = MaxPages
  <2> DEFINE g == [f EXCEPT !.capped = TRUE]
  <2>1. g \in FetchType /\ g.state = "paging" /\ g.list = f.list /\ g.kind = f.kind /\ g.capped
    BY DEF FetchType
  <2> HIDE DEF g
  <2>2. FeedOK(EndList(g), removed)
    BY <1>1, <2>1, EndOfList DEF Explained
  <2> QED BY <1>4, <2>2 DEF Advance, g
<1>5. CASE ~ (Policy.capped /\ f.page + 1 = MaxPages)
  <2> DEFINE page == IF Policy.capped THEN f.page + 1 ELSE f.page
             g == [f EXCEPT !.at = After(Page), !.try = 0, !.page = page]
  <2>1. Advance(f, Page) = g
    BY <1>5 DEF Advance
  <2>2. page \in 0 .. MaxPages /\ (Policy.capped => page < MaxPages)
    BY <1>2, <1>3, <1>5, FeedBounds
  <2>3. After(Page) \in 0 .. MaxItems + PageSize /\ 0 \in 0 .. MaxTries
    BY NextPlace, FeedBounds
  <2> HIDE DEF page
  <2>4. /\ g \in FetchType /\ g.kind = f.kind /\ g.list = f.list /\ g.state = "paging" /\ g.page = page
        /\ g.at = After(Page) /\ g.got = f.got /\ g.found = f.found
        /\ g.swallowed = f.swallowed /\ g.capped = f.capped
    BY <2>2, <2>3 DEF FetchType
  <2> HIDE DEF g
  <2>5. PolicyOf(g) = Policy
    BY <1>1, <2>4 DEF PolicyOf
  <2>6. g.list = 2 => g.swallowed \/ g.capped \/ LiveIn(removed) \subseteq g.found
    BY <2>4 DEF FeedOK
  <2>7. Explained(g, removed, BehindIn(Policy.walk, g.at, Live) \ g.got)
    <3>1. CASE f.swallowed
      BY <2>4, <3>1 DEF Explained
    <3>2. CASE f.got = fetch.got \cup Page /\ f.swallowed = fetch.swallowed
      <4> DEFINE S == BehindIn(Policy.walk, fetch.at, Live) \ fetch.got
                 T == BehindIn(Policy.walk, g.at, Live) \ g.got
      <4>1. T \subseteq S
        BY <2>4, <3>2, NextPlace
      <4>2. S \in SUBSET Items
        BY <1>1 DEF BehindIn
      <4>3. Explained(fetch, removed, S)
        BY <1>1 DEF FeedOK
      <4> HIDE DEF S, T
      <4>4. Explained(g, removed, T)
        BY <1>1, <2>4, <2>5, <3>2, <4>1, <4>2, <4>3, LessIsExplained
      <4> QED BY <4>4 DEF T
    <3> QED BY <3>1, <3>2
  <2>8. FeedOK(g, removed)
    BY <1>1, <2>2, <2>4, <2>5, <2>6, <2>7 DEF FeedOK
  <2> QED BY <2>1, <2>8
<1> QED BY <1>4, <1>5

\* A reaction that ends the list early says why.
LEMMA ShortStop ==
    ASSUME FeedOK(fetch, removed), fetch.state = "paging",
           NEW f \in FetchType, f.kind = fetch.kind, f.list = fetch.list, f.state = "paging"
    PROVE  FeedOK(StopShort(f), removed)
<1> DEFINE g == [f EXCEPT !.swallowed = TRUE]
<1>1. g \in FetchType /\ g.state = "paging" /\ g.list = f.list /\ g.kind = f.kind /\ g.swallowed
  BY DEF FetchType
<1> HIDE DEF g
<1>2. FeedOK(EndList(g), removed)
  BY <1>1, EndOfList DEF Explained, FeedOK
<1> QED BY <1>2 DEF StopShort, g

LEMMA RaiseKeeps == FeedOK(fetch, removed) => FeedOK(Raise(fetch), removed)
<1> SUFFICES ASSUME FeedOK(fetch, removed) PROVE FeedOK(Raise(fetch), removed)
  OBVIOUS
<1> DEFINE g == [fetch EXCEPT !.state = "raised"]
<1>1. fetch \in FetchType
  BY DEF FeedOK
<1>2. g \in FetchType /\ g.state = "raised" /\ g.list = fetch.list /\ g.kind = fetch.kind
  BY <1>1 DEF FetchType
<1> HIDE DEF g
<1>3. FeedOK(g, removed)
  BY <1>2 DEF FeedOK
<1> QED BY <1>3 DEF Raise, g

LEMMA PageStep == FeedOK(fetch, removed) /\ FetchPage => FeedOK(fetch', removed')
<1> SUFFICES ASSUME FeedOK(fetch, removed), FetchPage PROVE FeedOK(fetch', removed')
  OBVIOUS
<1>0. fetch.state = "paging" /\ removed' = removed
  BY DEF FetchPage, Paging
<1>1. /\ fetch \in FetchType /\ removed \in SUBSET Items /\ fetch.list \in 1 .. Len(ListsOf[fetch.kind])
      /\ PolicyOf(fetch).capped => fetch.page < MaxPages
      /\ fetch.list = 2 => fetch.swallowed \/ fetch.capped \/ LiveIn(removed) \subseteq fetch.found
      /\ Explained(fetch, removed, BehindIn(Policy.walk, fetch.at, Live) \ fetch.got)
  BY <1>0, AheadIsRest DEF FeedOK
<1>2. /\ Live \in SUBSET Items /\ Live = LiveIn(removed) /\ Policy = PolicyOf(fetch)
      /\ Page \in SUBSET Items
  BY AheadIsRest DEF PageOf
<1>3. CASE Policy.walk = "each" /\ ~ fetch.listed
  <2> DEFINE g == [fetch EXCEPT !.listed = TRUE]
  <2>1. fetch' = g
    BY <1>3 DEF FetchPage
  <2>2. /\ g \in FetchType /\ g.kind = fetch.kind /\ g.list = fetch.list /\ g.state = "paging"
        /\ g.page = fetch.page /\ g.at = fetch.at /\ g.got = fetch.got /\ g.found = fetch.found
        /\ g.swallowed = fetch.swallowed /\ g.capped = fetch.capped
    BY <1>0, <1>1 DEF FetchType
  <2> HIDE DEF g
  <2>3. PolicyOf(g) = PolicyOf(fetch)
    BY <2>2 DEF PolicyOf
  <2>4. FeedOK(g, removed)
    BY <1>1, <1>2, <2>2, <2>3 DEF FeedOK, Explained
  <2> QED BY <1>0, <2>1, <2>4
<1>4. CASE ~ (Policy.walk = "each" /\ ~ fetch.listed)
  <2> DEFINE f == [fetch EXCEPT !.got = @ \cup Page]
  <2>1. \/ LastPage(Page) /\ fetch' = EndList(f)
        \/ ~ LastPage(Page) /\ Policy.walk = "stuck" /\ fetch' = [f EXCEPT !.try = 0]
        \/ ~ LastPage(Page) /\ Policy.walk # "stuck" /\ fetch' = Advance(f, Page)
    BY <1>4 DEF FetchPage
  <2>2. /\ f \in FetchType /\ f.kind = fetch.kind /\ f.list = fetch.list /\ f.state = "paging"
        /\ f.page = fetch.page /\ f.at = fetch.at /\ f.got = fetch.got \cup Page /\ f.found = fetch.found
        /\ f.swallowed = fetch.swallowed /\ f.capped = fetch.capped
    BY <1>0, <1>1, <1>2 DEF FetchType
  <2> HIDE DEF f
  <2>3. PolicyOf(f) = Policy
    BY <1>2, <2>2 DEF PolicyOf
  <2>4. CASE LastPage(Page) /\ fetch' = EndList(f)
    <3> DEFINE S == BehindIn(Policy.walk, fetch.at, Live) \ fetch.got
               T == Live \ f.got
    <3>1. T \subseteq S
      BY <2>2, <2>4, LastPageLeaves
    <3>2. S \in SUBSET Items
      BY <1>2 DEF BehindIn
    <3>3. Explained(fetch, removed, S)
      BY <1>1
    <3> HIDE DEF S, T
    <3>4. Explained(f, removed, T)
      BY <1>1, <1>2, <2>2, <2>3, <3>1, <3>2, <3>3, LessIsExplained
    <3>5. Explained(f, removed, LiveIn(removed) \ f.got)
      BY <1>2, <3>4 DEF T
    <3>6. FeedOK(EndList(f), removed)
      BY <1>1, <2>2, <3>5, EndOfList
    <3> QED BY <1>0, <2>4, <3>6
  <2>5. CASE Policy.walk = "stuck" /\ fetch' = [f EXCEPT !.try = 0]
    <3> DEFINE g == [f EXCEPT !.try = 0]
    <3>1. /\ g \in FetchType /\ g.kind = f.kind /\ g.list = f.list /\ g.state = "paging"
          /\ g.page = f.page /\ g.found = f.found /\ g.swallowed = f.swallowed /\ g.capped = f.capped
      <4>1. 0 \in 0 .. MaxTries
        BY FeedBounds
      <4> QED BY <2>2, <4>1 DEF FetchType
    <3> HIDE DEF g
    <3>2. PolicyOf(g) = Policy
      BY <2>2, <2>3, <3>1 DEF PolicyOf
    <3>3. Explained(g, removed, BehindIn(Policy.walk, g.at, Live) \ g.got)
      BY <2>5 DEF BehindIn, Explained
    <3>4. FeedOK(g, removed)
      BY <1>1, <1>2, <2>2, <3>1, <3>2, <3>3 DEF FeedOK
    <3> QED BY <1>0, <2>5, <3>4 DEF g
  <2>6. CASE ~ LastPage(Page) /\ Policy.walk # "stuck" /\ fetch' = Advance(f, Page)
    <3>1. FeedOK(Advance(f, Page), removed)
      BY <1>0, <2>2, <2>6, LoopAdvances
    <3> QED BY <1>0, <2>6, <3>1
  <2> QED BY <2>1, <2>4, <2>5, <2>6
<1> QED BY <1>3, <1>4

LEMMA RemovalStep == FeedOK(fetch, removed) /\ ItemRemoved => FeedOK(fetch', removed')
<1> SUFFICES ASSUME FeedOK(fetch, removed), ItemRemoved PROVE FeedOK(fetch', removed')
  OBVIOUS
<1>1. PICK x \in Live : removed' = removed \cup {x}
  BY DEF ItemRemoved
<1>2. PICK R : R = removed'
  OBVIOUS
<1>3. fetch' = fetch /\ fetch.state = "paging"
  BY DEF ItemRemoved, Paging
<1>4. /\ fetch \in FetchType /\ removed \in SUBSET Items /\ fetch.list \in 1 .. Len(ListsOf[fetch.kind])
      /\ PolicyOf(fetch).capped => fetch.page < MaxPages
      /\ fetch.list = 2 => fetch.swallowed \/ fetch.capped \/ LiveIn(removed) \subseteq fetch.found
      /\ Explained(fetch, removed, BehindIn(Policy.walk, fetch.at, Live) \ fetch.got)
      /\ Live \in SUBSET Items /\ Live = LiveIn(removed) /\ Policy = PolicyOf(fetch)
      /\ fetch.at \in Nat
  <2>1. fetch.at \in Nat
    BY FetchFields, FeedBounds DEF FeedOK
  <2> QED BY <1>3, <2>1, AheadIsRest DEF FeedOK
<1>5. R \in SUBSET Items /\ LiveIn(R) = Live \ {x} /\ x \notin removed /\ R = removed \cup {x}
  <2>1. x \in Items /\ x \notin removed /\ R = removed \cup {x}
    BY <1>1, <1>2 DEF Live
  <2> QED BY <1>4, <2>1 DEF Live, LiveIn
<1>6. Cardinality(R) = Cardinality(removed) + 1 /\ Cardinality(removed) \in Nat
  BY <1>4, <1>5, ItemsAreFinite, FS_AddElement
<1> DEFINE S == BehindIn(Policy.walk, fetch.at, Live) \ fetch.got
           T == BehindIn(Policy.walk, fetch.at, LiveIn(R)) \ fetch.got
<1>7. S \in SUBSET Items
  BY <1>4 DEF BehindIn
<1>8. CASE Policy.walk = "offset"
  <2>1. PICK y : BehindIn("offset", fetch.at, Live \ {x}) \subseteq BehindIn("offset", fetch.at, Live) \cup {y}
    BY <1>4, RemovalShifts
  <2>2. T \subseteq S \cup {y}
    BY <1>5, <1>8, <2>1
  <2> HIDE DEF S, T
  <2>3. IsFiniteSet(S) /\ Cardinality(S) \in Nat
    BY <1>7, ItemsAreFinite
  <2>4. /\ IsFiniteSet(S \cup {y})
        /\ Cardinality(S \cup {y}) = IF y \in S THEN Cardinality(S) ELSE Cardinality(S) + 1
    BY <2>3, FS_AddElement
  <2>5. IsFiniteSet(T) /\ Cardinality(T) <= Cardinality(S \cup {y}) /\ Cardinality(T) \in Nat
    BY <2>2, <2>4, FS_Subset, FS_CardinalityType
  <2>6. Cardinality(T) <= Cardinality(S) + 1
    BY <2>3, <2>4, <2>5
  <2>7. Cardinality(S) <= Cardinality(removed) => Cardinality(T) <= Cardinality(R)
    BY <1>6, <2>3, <2>5, <2>6
  <2>8. S = {} => Cardinality(S) <= Cardinality(removed)
    BY <1>6, FS_EmptySet
  <2>9. Explained(fetch, removed, S)
    BY <1>4 DEF S
  <2>10. Explained(fetch, R, T)
    BY <1>4, <1>8, <2>7, <2>8, <2>9 DEF Explained
  <2> QED BY <1>2, <1>3, <1>4, <1>5, <2>10 DEF FeedOK, T
<1>9. CASE Policy.walk # "offset"
  <2>1. T \subseteq S
    BY <1>5, <1>9 DEF BehindIn
  <2> HIDE DEF S, T
  <2>2. Explained(fetch, removed, S)
    BY <1>4 DEF S
  <2>3. Explained(fetch, R, T)
    BY <1>4, <1>9, <2>1, <2>2 DEF Explained
  <2> QED BY <1>2, <1>3, <1>4, <1>5, <2>3 DEF FeedOK, T
<1> QED BY <1>8, <1>9

LEMMA FailureStep ==
    ASSUME NEW a \in Answers, FeedOK(fetch, removed), FetchFails(a)
    PROVE  FeedOK(fetch', removed')
<1>0. fetch.state = "paging" /\ removed' = removed
  BY DEF FetchFails, Paging
<1>1. /\ fetch \in FetchType /\ removed \in SUBSET Items /\ fetch.list \in 1 .. Len(ListsOf[fetch.kind])
      /\ Policy.capped => fetch.page < MaxPages
      /\ fetch.list = 2 => fetch.swallowed \/ fetch.capped \/ LiveIn(removed) \subseteq fetch.found
      /\ Explained(fetch, removed, BehindIn(Policy.walk, fetch.at, Live) \ fetch.got)
      /\ Live = LiveIn(removed) /\ Policy = PolicyOf(fetch) /\ Loop(Policy)
  BY <1>0, AheadIsRest DEF FeedOK
<1>2. fetch.page \in 0 .. MaxPages /\ fetch.try \in 0 .. MaxTries
  BY <1>1, FetchFields
<1> DEFINE reaction == IF Policy.walk = "each" /\ ~fetch.listed THEN "raise" ELSE Policy.on[a]
<1>3. reaction \in Reactions
  BY <1>1 DEF Loop, Reactions
<1>4. FeedOK(StopShort(fetch), removed) /\ FeedOK(Raise(fetch), removed)
  BY <1>0, <1>1, ShortStop, RaiseKeeps
<1>5. CASE reaction = "stop"
  <2>1. fetch' = StopShort(fetch)
    BY <1>5 DEF FetchFails
  <2> QED BY <1>0, <1>4, <2>1
<1>6. CASE reaction = "drop"
  <2> DEFINE f == [fetch EXCEPT !.got = {}]
  <2>1. fetch' = StopShort(f)
    BY <1>6 DEF FetchFails
  <2>2. f \in FetchType /\ f.kind = fetch.kind /\ f.list = fetch.list /\ f.state = "paging"
    BY <1>0, <1>1 DEF FetchType
  <2> HIDE DEF f
  <2>3. FeedOK(StopShort(f), removed)
    BY <1>0, <2>2, ShortStop
  <2> QED BY <1>0, <2>1, <2>3
<1>7. CASE reaction = "raise"
  <2>1. fetch' = Raise(fetch)
    BY <1>7 DEF FetchFails
  <2> QED BY <1>0, <1>4, <2>1
<1>8. CASE reaction = "retry"
  <2> DEFINE f == [fetch EXCEPT !.try = fetch.try + 1]
  <2>1. \/ fetch' = Raise(fetch) \/ fetch' = StopShort(fetch)
        \/ fetch.try + 1 < MaxTries /\ fetch' = f
    BY <1>8 DEF FetchFails
  <2>2. CASE fetch.try + 1 < MaxTries /\ fetch' = f
    <3>1. fetch.try + 1 \in 0 .. MaxTries
      BY <1>2, <2>2, FeedBounds
    <3>2. /\ f \in FetchType /\ f.kind = fetch.kind /\ f.list = fetch.list /\ f.state = "paging"
          /\ f.page = fetch.page /\ f.at = fetch.at /\ f.got = fetch.got /\ f.found = fetch.found
          /\ f.swallowed = fetch.swallowed /\ f.capped = fetch.capped
      BY <1>0, <1>1, <3>1 DEF FetchType
    <3> HIDE DEF f
    <3>3. PolicyOf(f) = Policy
      BY <1>1, <3>2 DEF PolicyOf
    <3>4. FeedOK(f, removed)
      BY <1>1, <3>2, <3>3 DEF FeedOK, Explained
    <3> QED BY <1>0, <2>2, <3>4
  <2> QED BY <1>0, <1>4, <2>1, <2>2
<1>9. CASE reaction = "spend"
  <2>1. Policy.capped /\ fetch.page < MaxPages
    BY <1>1, <1>9 DEF Loop
  <2>2. CASE fetch.page + 1 = MaxPages
    <3> DEFINE f == [fetch EXCEPT !.capped = TRUE]
    <3>1. fetch' = EndList(f)
      BY <1>9, <2>2 DEF FetchFails
    <3>2. f \in FetchType /\ f.state = "paging" /\ f.list = fetch.list /\ f.kind = fetch.kind /\ f.capped
      BY <1>0, <1>1 DEF FetchType
    <3> HIDE DEF f
    <3>3. FeedOK(EndList(f), removed)
      BY <1>1, <3>2, EndOfList DEF Explained
    <3> QED BY <1>0, <3>1, <3>3
  <2>3. CASE fetch.page + 1 # MaxPages
    <3> DEFINE f == [fetch EXCEPT !.page = fetch.page + 1]
    <3>1. fetch' = f
      BY <1>9, <2>3 DEF FetchFails
    <3>2. fetch.page + 1 \in 0 .. MaxPages /\ fetch.page + 1 < MaxPages
      BY <1>2, <2>1, <2>3, FeedBounds
    <3>3. /\ f \in FetchType /\ f.kind = fetch.kind /\ f.list = fetch.list /\ f.state = "paging"
          /\ f.page = fetch.page + 1 /\ f.at = fetch.at /\ f.got = fetch.got /\ f.found = fetch.found
          /\ f.swallowed = fetch.swallowed /\ f.capped = fetch.capped
      BY <1>0, <1>1, <3>2 DEF FetchType
    <3> HIDE DEF f
    <3>4. PolicyOf(f) = Policy
      BY <1>1, <3>3 DEF PolicyOf
    <3>5. FeedOK(f, removed)
      BY <1>1, <3>2, <3>3, <3>4 DEF FeedOK, Explained
    <3> QED BY <1>0, <3>1, <3>5
  <2> QED BY <2>2, <2>3
<1>10. CASE reaction = "skip"
  <2> DEFINE f == [fetch EXCEPT !.swallowed = TRUE]
  <2>1. fetch' = IF LastPage(Page) THEN EndList(f) ELSE Advance(f, Page)
    BY <1>10 DEF FetchFails
  <2>2. Policy.walk = "each"
    BY <1>1, <1>10 DEF Loop
  <2>3. /\ f \in FetchType /\ f.kind = fetch.kind /\ f.list = fetch.list /\ f.state = "paging"
        /\ f.page = fetch.page /\ f.found = fetch.found /\ f.swallowed /\ f.capped = fetch.capped
    BY <1>0, <1>1 DEF FetchType
  <2> HIDE DEF f
  <2>4. FeedOK(EndList(f), removed)
    BY <1>1, <2>3, EndOfList DEF Explained
  <2>5. ~ LastPage(Page) => FeedOK(Advance(f, Page), removed)
    BY <1>0, <2>2, <2>3, LoopAdvances
  <2> QED BY <1>0, <2>1, <2>4, <2>5
<1>11. CASE reaction = "restart"
  <2> DEFINE f == [fetch EXCEPT !.base = TRUE, !.at = 0, !.try = 0, !.got = {}]
  <2>1. fetch' = Raise(fetch) \/ fetch' = f
    BY <1>11 DEF FetchFails
  <2>2. Policy.walk = "cursor"
    BY <1>1, <1>11 DEF Loop
  <2>3. /\ f \in FetchType /\ f.kind = fetch.kind /\ f.list = fetch.list /\ f.state = "paging"
        /\ f.page = fetch.page /\ f.at = 0 /\ f.found = fetch.found
        /\ f.swallowed = fetch.swallowed /\ f.capped = fetch.capped
    <3>1. 0 \in 0 .. MaxItems + PageSize /\ 0 \in 0 .. MaxTries
      BY FeedBounds
    <3> QED BY <1>0, <1>1, <3>1 DEF FetchType
  <2> HIDE DEF f
  <2>4. PolicyOf(f) = Policy
    BY <1>1, <2>3 DEF PolicyOf
  <2>5. BehindIn("cursor", 0, Live) = {}
    BY FeedBounds DEF BehindIn, Live, Items
  <2>6. FeedOK(f, removed)
    BY <1>1, <2>2, <2>3, <2>4, <2>5 DEF FeedOK, Explained
  <2> QED BY <1>0, <1>4, <2>1, <2>6
<1> QED BY <1>3, <1>5, <1>6, <1>7, <1>8, <1>9, <1>10, <1>11 DEF Reactions

LEMMA FetchKeeps == FeedOK(fetch, removed) /\ FetchStep => FeedOK(fetch', removed')
BY PageStep, RemovalStep, FailureStep DEF FetchStep

-----------------------------------------------------------------------------
(* The task *)

LEMMA RowFields ==
    ASSUME NEW r \in RowType
    PROVE  /\ r.exists \in BOOLEAN /\ r.enabled \in BOOLEAN /\ r.synced \in BOOLEAN
           /\ r.due \in BOOLEAN /\ r.error \in BOOLEAN
           /\ r.status \in Status \ {"RUNNING"} /\ r.failures \in Nat
BY DEF RowType

LEMMA SyncFields ==
    ASSUME NEW s \in SyncType
    PROVE  /\ s.stage \in {"idle", "starting", "opened", "fetching", "storing", "committing", "aborted", "ended"}
           /\ s.row \in RowType /\ s.outer \in Status /\ s.inner \in Status
           /\ s.stamps \in BOOLEAN /\ s.keeps \in SUBSET Items /\ s.skipped \in SUBSET Items
BY DEF SyncType

LEMMA NewTypes == NewRow \in RowType /\ NoSync \in SyncType
<1>1. NewRow \in RowType
  BY DEF NewRow, RowType, Status
<1> HIDE DEF NewRow
<1> QED BY <1>1 DEF NoSync, SyncType, Status

LEMMA HealedRow ==
    ASSUME NEW r \in RowType, NEW by \in RowType
    PROVE  /\ Healed(r, by) \in RowType
           /\ Healed(r, by).status = by.status /\ Healed(r, by).failures = by.failures
           /\ Healed(r, by).error = by.error
           /\ Healed(r, by).synced = r.synced /\ Healed(r, by).due = r.due
BY DEF Healed, RowType

\* What a task writes at its end.
LEMMA FailureFields ==
    ASSUME NEW s \in SyncType
    PROVE  /\ Failed(s) \in SyncType /\ Failed(s).stage = "committing" /\ Failed(s).keeps = s.keeps
           /\ Failed(s).outer = IF kind \in Delegated THEN s.outer ELSE "FAILED"
           /\ Failed(s).inner = IF kind \in Delegated THEN "FAILED" ELSE s.inner
           /\ Failed(s).row.status = "FAILED"
           /\ Failed(s).row.failures = IF kind \in Scanners THEN s.row.failures + 1 ELSE s.row.failures
           /\ Failed(s).row.error = IF kind \in Scanners THEN TRUE ELSE s.row.error
<1> DEFINE r == [s.row EXCEPT !.status = "FAILED",
                              !.failures = IF kind \in Scanners THEN s.row.failures + 1 ELSE s.row.failures,
                              !.error = IF kind \in Scanners THEN TRUE ELSE s.row.error]
           outer == IF kind \in Delegated THEN s.outer ELSE "FAILED"
           inner == IF kind \in Delegated THEN "FAILED" ELSE s.inner
           f == [s EXCEPT !.stage = "committing", !.row = r, !.outer = outer, !.inner = inner]
<1>1. s.row \in RowType
  BY SyncFields
<1>2. /\ r \in RowType /\ r.status = "FAILED"
      /\ r.failures = IF kind \in Scanners THEN s.row.failures + 1 ELSE s.row.failures
      /\ r.error = IF kind \in Scanners THEN TRUE ELSE s.row.error
  <2>1. (IF kind \in Scanners THEN s.row.failures + 1 ELSE s.row.failures) \in Nat
    BY <1>1, RowFields
  <2> QED BY <1>1, <2>1 DEF RowType, Status
<1>3. Failed(s) = f
  BY <1>1 DEF Failed, LogEnd, SyncType, RowType
<1> HIDE DEF r
<1>4. f \in SyncType /\ f.stage = "committing" /\ f.keeps = s.keeps /\ f.outer = outer /\ f.inner = inner /\ f.row = r
  BY <1>2 DEF SyncType, Status
<1> QED BY <1>2, <1>3, <1>4

LEMMA SuccessFields ==
    ASSUME NEW s \in SyncType
    PROVE  /\ Succeeded(s) \in SyncType /\ Succeeded(s).stage = "committing"
           /\ Succeeded(s).keeps = s.keeps /\ Succeeded(s).skipped = s.skipped
           /\ Succeeded(s).outer = IF kind \in Delegated THEN s.outer ELSE "SUCCESS"
           /\ Succeeded(s).inner = IF kind \in Delegated THEN "SUCCESS" ELSE s.inner
           /\ Succeeded(s).row.status = "SUCCESS"
           /\ Succeeded(s).row.failures = IF kind \in Scanners THEN 0 ELSE s.row.failures
           /\ Succeeded(s).row.error = IF kind \in Scanners THEN FALSE ELSE s.row.error
<1> DEFINE r == [s.row EXCEPT !.status = "SUCCESS",
                              !.failures = IF kind \in Scanners THEN 0 ELSE s.row.failures,
                              !.error = IF kind \in Scanners THEN FALSE ELSE s.row.error]
           outer == IF kind \in Delegated THEN s.outer ELSE "SUCCESS"
           inner == IF kind \in Delegated THEN "SUCCESS" ELSE s.inner
           f == [s EXCEPT !.stage = "committing", !.stamps = TRUE, !.row = r, !.outer = outer, !.inner = inner]
<1>1. s.row \in RowType
  BY SyncFields
<1>2. /\ r \in RowType /\ r.status = "SUCCESS"
      /\ r.failures = IF kind \in Scanners THEN 0 ELSE s.row.failures
      /\ r.error = IF kind \in Scanners THEN FALSE ELSE s.row.error
  BY <1>1 DEF RowType, Status
<1>3. Succeeded(s) = f
  BY <1>1 DEF Succeeded, LogEnd, SyncType, RowType
<1> HIDE DEF r
<1>4. f \in SyncType /\ f.stage = "committing" /\ f.keeps = s.keeps /\ f.skipped = s.skipped /\ f.outer = outer /\ f.inner = inner /\ f.row = r
  BY <1>2 DEF SyncType, Status
<1> QED BY <1>2, <1>3, <1>4

LEMMA RefusalFields ==
    ASSUME NEW s \in SyncType
    PROVE  /\ Refused(s) \in SyncType /\ Refused(s).stage = "committing" /\ Refused(s).keeps = s.keeps
           /\ Refused(s).outer = IF kind \in Delegated THEN s.outer ELSE "FAILED"
           /\ Refused(s).inner = IF kind \in Delegated THEN "FAILED" ELSE s.inner
           /\ Refused(s).row = s.row
BY DEF Refused, LogEnd, SyncType, Status

\* A step of the task alone.
LEMMA TaskMoves ==
    ASSUME ConnectorInv, UNCHANGED Rest, sync' \in SyncType, FeedOK(fetch', removed'),
           CountsInv', TaskInv', KeepsInv'
    PROVE  ConnectorInv'
BY DEF ConnectorInv, Rest, Basics, SingleFlight, ScannerHealth, LogsEnd, Health

\* The task decides on an outcome with what it read.
LEMMA TaskFails ==
    ASSUME ConnectorInv, UNCHANGED <<Rest, feedVars>>, sync.stage \in Undecided, kind \in Scanners \cup Delegated,
           NEW s \in SyncType, s.row = sync.row, s.outer = sync.outer, s.inner = sync.inner,
           sync' = Failed(s)
    PROVE  ConnectorInv'
<1>1. sync \in SyncType /\ sync.row \in RowType /\ sync.row.failures \in Nat /\ count.syncs \in Nat
  BY SyncFields, RowFields, SyncBounds DEF ConnectorInv, Basics
<1>2. /\ sync' \in SyncType /\ sync'.stage = "committing"
      /\ sync'.outer = IF kind \in Delegated THEN s.outer ELSE "FAILED"
      /\ sync'.inner = IF kind \in Delegated THEN "FAILED" ELSE s.inner
      /\ sync'.row.status = "FAILED"
      /\ sync'.row.failures = IF kind \in Scanners THEN s.row.failures + 1 ELSE s.row.failures
      /\ sync'.row.error = IF kind \in Scanners THEN TRUE ELSE s.row.error
  BY FailureFields
<1>3. /\ sync.outer = "RUNNING" /\ sync.inner = IF kind \in Delegated THEN "RUNNING" ELSE "none"
      /\ sync.row.failures + 1 <= count.syncs /\ running
  BY DEF ConnectorInv, TaskInv, CountsInv, Undecided
<1>4. UNCHANGED <<kind, row, logs, running, count, fetch, removed>>
  BY DEF Rest, feedVars
<1>5. CountsInv'
  BY <1>1, <1>2, <1>3, <1>4 DEF ConnectorInv, CountsInv, Undecided
<1>6. TaskInv'
  BY <1>1, <1>2, <1>3, <1>4 DEF ConnectorInv, TaskInv, Undecided, Health, Scanners, Delegated
<1>7. KeepsInv'
  BY <1>2, <1>4 DEF KeepsInv
<1>8. FeedOK(fetch', removed')
  BY <1>4 DEF ConnectorInv
<1> QED BY <1>2, <1>5, <1>6, <1>7, <1>8, TaskMoves

\* What every step may use of the invariant.
LEMMA TaskFacts ==
    ASSUME ConnectorInv
    PROVE  /\ sync \in SyncType /\ sync.row \in RowType /\ sync.row.failures \in Nat
           /\ row \in RowType /\ row.failures \in Nat /\ count.syncs \in Nat
           /\ running <=> sync.stage # "idle"
           /\ fetch \in FetchType /\ fetch.found \in SUBSET Items
           /\ sync.stage \in Undecided =>
                /\ sync.outer = "RUNNING" /\ sync.inner = IF kind \in Delegated THEN "RUNNING" ELSE "none"
                /\ sync.row.failures + 1 <= count.syncs
                /\ kind \in Scanners => Health(sync.row)
           /\ sync.stage \in {"starting", "committing"} \cup Undecided => row.failures + 1 <= count.syncs
<1>1. sync \in SyncType /\ row \in RowType /\ count.syncs \in Nat /\ fetch \in FetchType
  BY SyncBounds DEF ConnectorInv, Basics, FeedOK
<1>2. sync.row \in RowType /\ sync.row.failures \in Nat /\ row.failures \in Nat /\ fetch.found \in SUBSET Items
  BY <1>1, SyncFields, RowFields, FetchFields
<1>3. running <=> sync.stage # "idle"
  BY DEF ConnectorInv, TaskInv
<1>4. sync.stage \in Undecided =>
        /\ sync.outer = "RUNNING" /\ sync.inner = IF kind \in Delegated THEN "RUNNING" ELSE "none"
        /\ sync.row.failures + 1 <= count.syncs
        /\ kind \in Scanners => Health(sync.row)
  BY DEF ConnectorInv, TaskInv, CountsInv
<1>5. sync.stage \in {"starting", "committing"} \cup Undecided => row.failures + 1 <= count.syncs
  BY <1>2 DEF ConnectorInv, CountsInv
<1> QED BY <1>1, <1>2, <1>3, <1>4, <1>5

\* The task's next stage with nothing decided.
LEMMA TaskGoesOn ==
    ASSUME ConnectorInv, UNCHANGED Rest, sync.stage \in Undecided, NEW stage \in Undecided,
           sync' = [sync EXCEPT !.stage = stage], FeedOK(fetch', removed'),
           kind \in Scanners \cup Delegated, stage # "opened", stage = "storing" => fetch'.state = "returned"
    PROVE  ConnectorInv'
<1>1. /\ sync' \in SyncType /\ sync'.stage = stage /\ sync'.row = sync.row /\ sync'.outer = sync.outer
      /\ sync'.inner = sync.inner
  BY TaskFacts DEF SyncType, Undecided
<1>2. UNCHANGED <<kind, row, logs, running, count>>
  BY DEF Rest
<1>3. CountsInv'
  BY <1>1, <1>2, TaskFacts DEF ConnectorInv, CountsInv, Undecided
<1>4. TaskInv'
  BY <1>1, <1>2, TaskFacts DEF ConnectorInv, TaskInv, Undecided, Health
<1>5. KeepsInv'
  BY <1>1 DEF KeepsInv, Undecided
<1> QED BY <1>1, <1>3, <1>4, <1>5, TaskMoves

\* A session that can no longer commit.
LEMMA TaskAborts ==
    ASSUME ConnectorInv, UNCHANGED <<Rest, feedVars>>, sync.stage \in Undecided,
           sync' = [sync EXCEPT !.stage = "aborted"]
    PROVE  ConnectorInv'
<1>1. sync' \in SyncType /\ sync'.stage = "aborted"
  BY TaskFacts DEF SyncType
<1>2. UNCHANGED <<kind, row, logs, running, count, fetch, removed>>
  BY DEF Rest, feedVars
<1>3. CountsInv'
  <2>1. \A s \in DOMAIN logs : logs[s] \in Nat
    BY DEF ConnectorInv, Basics
  <2> QED BY <1>1, <1>2, <2>1, TaskFacts DEF ConnectorInv, CountsInv, Undecided
<1>4. TaskInv'
  BY <1>1, <1>2, TaskFacts DEF ConnectorInv, TaskInv, Undecided
<1>5. KeepsInv'
  BY <1>1 DEF KeepsInv
<1>6. FeedOK(fetch', removed')
  BY <1>2 DEF ConnectorInv
<1> QED BY <1>1, <1>3, <1>4, <1>5, <1>6, TaskMoves

\* An outcome of kinds that read nothing: the log ends, the row stays.
LEMMA LogOnly ==
    ASSUME ConnectorInv, UNCHANGED <<Rest, feedVars>>, sync.stage = "opened",
           sync' \in SyncType, sync'.stage = "committing", sync'.row = sync.row,
           IF kind \in Delegated THEN sync'.outer = "RUNNING" /\ sync'.inner \in {"SUCCESS", "FAILED"}
                                 ELSE sync'.outer \in {"SUCCESS", "FAILED"} /\ sync'.inner = "none"
    PROVE  ConnectorInv'
<1>2. UNCHANGED <<kind, row, logs, running, count, fetch, removed>>
  BY DEF Rest, feedVars
<1>3. CountsInv'
  BY <1>2, TaskFacts DEF ConnectorInv, CountsInv, Undecided
<1>4. TaskInv'
  BY <1>2, TaskFacts DEF ConnectorInv, TaskInv, Undecided, Health
<1>5. KeepsInv'
  BY <1>2 DEF KeepsInv, ConnectorInv
<1>6. FeedOK(fetch', removed')
  BY <1>2 DEF ConnectorInv
<1> QED BY <1>3, <1>4, <1>5, <1>6, TaskMoves

LEMMA TaskSucceeds ==
    ASSUME ConnectorInv, StoreAll
    PROVE  ConnectorInv'
<1>0. PICK skipped \in Skippable(fetch.found) : sync' = Succeeded(Stores(fetch.found, skipped))
  BY DEF StoreAll
<1>s. skipped \in SUBSET fetch.found /\ (skipped # {} => kind \in Choosy)
  BY <1>0 DEF Skippable
<1> DEFINE s == Stores(fetch.found, skipped)
<1>1. sync' = Succeeded(s) /\ sync.stage = "storing" /\ UNCHANGED <<Rest, feedVars>>
  BY <1>0 DEF StoreAll
<1>2. /\ s \in SyncType /\ s.row = sync.row /\ s.outer = sync.outer /\ s.inner = sync.inner
      /\ s.keeps = fetch.found \ skipped /\ s.skipped = skipped
  <2>1. fetch.found \ skipped \in SUBSET Items /\ skipped \in SUBSET Items
    BY <1>s, TaskFacts
  <2> QED BY <2>1, TaskFacts DEF SyncType, Stores
<1> HIDE DEF s
<1>3. UNCHANGED <<kind, row, logs, running, count, fetch, removed>>
  BY <1>1 DEF Rest, feedVars
<1>4. /\ sync' \in SyncType /\ sync'.stage = "committing" /\ sync'.keeps = fetch.found \ skipped
      /\ sync'.skipped = skipped
      /\ sync'.outer = IF kind \in Delegated THEN sync.outer ELSE "SUCCESS"
      /\ sync'.inner = IF kind \in Delegated THEN "SUCCESS" ELSE sync.inner
      /\ sync'.row.status = "SUCCESS"
      /\ sync'.row.failures = IF kind \in Scanners THEN 0 ELSE sync.row.failures
      /\ sync'.row.error = IF kind \in Scanners THEN FALSE ELSE sync.row.error
  <2>1. /\ Succeeded(s) \in SyncType /\ Succeeded(s).stage = "committing"
        /\ Succeeded(s).keeps = s.keeps /\ Succeeded(s).skipped = s.skipped
        /\ Succeeded(s).outer = IF kind \in Delegated THEN s.outer ELSE "SUCCESS"
        /\ Succeeded(s).inner = IF kind \in Delegated THEN "SUCCESS" ELSE s.inner
        /\ Succeeded(s).row.status = "SUCCESS"
        /\ Succeeded(s).row.failures = IF kind \in Scanners THEN 0 ELSE s.row.failures
        /\ Succeeded(s).row.error = IF kind \in Scanners THEN FALSE ELSE s.row.error
    BY <1>2, SuccessFields
  <2>2. PICK t : t = Succeeded(s)
    OBVIOUS
  <2> QED BY <1>1, <1>2, <2>1, <2>2
<1>5. CountsInv'
  BY <1>1, <1>3, <1>4, TaskFacts DEF ConnectorInv, CountsInv, Undecided
<1>6. TaskInv'
  BY <1>1, <1>3, <1>4, TaskFacts DEF ConnectorInv, TaskInv, Undecided, Health, Scanners, Delegated
<1>7. KeepsInv'
  BY <1>s, <1>3, <1>4 DEF KeepsInv, Kept
<1>8. FeedOK(fetch', removed')
  BY <1>3 DEF ConnectorInv
<1> QED BY <1>1, <1>4, <1>5, <1>6, <1>7, <1>8, TaskMoves

-----------------------------------------------------------------------------
(* Every step *)

LEMMA NoFetchKnows ==
    ASSUME NEW k \in DOMAIN ListsOf
    PROVE  /\ NoFetch(k) \in FetchType /\ NoFetch(k).kind = k /\ NoFetch(k).list = 1 /\ NoFetch(k).page = 0
           /\ NoFetch(k).state = "idle" /\ NoFetch(k).at = 0 /\ NoFetch(k).got = {}
           /\ FeedOK(NoFetch(k), {})
<1>1. PICK f : f = NoFetch(k)
  OBVIOUS
<1>2. 0 \in 0 .. MaxItems + PageSize /\ 0 \in 0 .. MaxPages /\ 0 \in 0 .. MaxTries
  BY FeedBounds
<1>3. f \in FetchType /\ f.kind = k /\ f.list = 1 /\ f.page = 0 /\ f.state = "idle" /\ f.at = 0 /\ f.got = {}
  BY <1>1, <1>2 DEF NoFetch, FetchType
<1>4. f.list \in 1 .. Len(ListsOf[f.kind])
  <2>1. Len(ListsOf[k]) \in 1 .. 2
    BY ListsKnown
  <2>2. 1 \in 1 .. Len(ListsOf[k])
    BY <2>1
  <2> QED BY <1>3, <2>2
<1>5. FeedOK(f, {})
  BY <1>3, <1>4 DEF FeedOK
<1> QED BY <1>1, <1>3, <1>5

LEMMA ConnectorStarts == Init => ConnectorInv
<1> SUFFICES ASSUME Init PROVE ConnectorInv
  OBVIOUS
<1>1. PICK added \in BOOLEAN : row = [NewRow EXCEPT !.exists = added]
  BY DEF Init
<1>2. row \in RowType /\ row.failures = 0 /\ row.status = "none" /\ ~ row.error
  BY <1>1, NewTypes DEF RowType, NewRow
<1>3. sync = NoSync /\ sync \in SyncType /\ sync.stage = "idle"
  BY NewTypes DEF Init, NoSync
<1>4. Basics
  <2>1. tick \in [stage : {"asleep", "read"}, listed : BOOLEAN, due : BOOLEAN, overtaken : BOOLEAN]
    BY DEF Init, NoTick
  <2>2. count \in [syncs : 0 .. MaxSyncs, edits : 0 .. MaxEdits, crashes : 0 .. MaxCrashes]
    BY SyncBounds DEF Init
  <2>3. logs \in [Status \ {"none"} -> Nat]
    BY DEF Init
  <2>4. kind \in Kinds /\ running \in BOOLEAN /\ overlap \in BOOLEAN
    BY DEF Init
  <2> QED BY <1>2, <1>3, <2>1, <2>2, <2>3, <2>4 DEF Basics
<1>5. FeedOK(fetch, removed)
  <2>1. PICK k \in DOMAIN ListsOf : fetch = NoFetch(k)
    BY DEF Init, ListsOf
  <2> QED BY <2>1, NoFetchKnows DEF Init
<1>6. SingleFlight /\ ScannerHealth /\ LogsEnd
  BY <1>2 DEF Init, SingleFlight, ScannerHealth, LogsEnd, Status
<1>7. CountsInv
  BY <1>2, <1>3 DEF Init, CountsInv, Undecided
<1>8. TaskInv
  BY <1>3 DEF Init, TaskInv, Undecided
<1>9. KeepsInv
  BY <1>3 DEF Init, KeepsInv, NoFetch
<1> QED BY <1>4, <1>5, <1>6, <1>7, <1>8, <1>9 DEF ConnectorInv

LEMMA LoadStep == ConnectorInv /\ SyncLoads => ConnectorInv'
<1> SUFFICES ASSUME ConnectorInv, SyncLoads PROVE ConnectorInv'
  OBVIOUS
<1>1. UNCHANGED Rest /\ UNCHANGED <<kind, row, logs, running, count, fetch, removed>> /\ sync.stage = "starting"
  BY DEF SyncLoads, Rest, feedVars
<1>2. CASE row.exists
  <2> DEFINE inner == IF kind \in Delegated THEN "RUNNING" ELSE "none"
             s == [NoSync EXCEPT !.stage = "opened", !.row = Healed(NewRow, row),
                               !.outer = "RUNNING", !.inner = inner]
  <2>1. sync' = s
    BY <1>2 DEF SyncLoads
  <2>2. /\ s \in SyncType /\ s.stage = "opened" /\ s.outer = "RUNNING" /\ s.inner = inner
        /\ s.row.failures = row.failures /\ s.row.status = row.status /\ s.row.error = row.error
    <3>1. PICK h : h = Healed(NewRow, row)
      OBVIOUS
    <3>2. h \in RowType /\ h.failures = row.failures /\ h.status = row.status /\ h.error = row.error
      BY <3>1, TaskFacts, NewTypes, HealedRow
    <3>3. s = [NoSync EXCEPT !.stage = "opened", !.row = h, !.outer = "RUNNING", !.inner = inner]
      BY <3>1
    <3> QED BY <3>2, <3>3, NewTypes DEF SyncType, Status
  <2> HIDE DEF s
  <2>3. CountsInv'
    BY <1>1, <2>1, <2>2, TaskFacts DEF ConnectorInv, CountsInv, Undecided
  <2>4. TaskInv'
    BY <1>1, <2>1, <2>2, TaskFacts DEF ConnectorInv, TaskInv, Undecided, ScannerHealth, Health
  <2>5. KeepsInv'
    BY <1>1, <2>1, <2>2 DEF ConnectorInv, KeepsInv
  <2> QED BY <1>1, <2>1, <2>2, <2>3, <2>4, <2>5, TaskMoves DEF ConnectorInv
<1>3. CASE ~ row.exists
  <2>1. sync' = [NoSync EXCEPT !.stage = "ended"]
    BY <1>3 DEF SyncLoads
  <2>2. sync' \in SyncType /\ sync'.stage = "ended"
    BY <2>1, NewTypes DEF SyncType
  <2>3. CountsInv'
    <3>1. \A s \in DOMAIN logs : logs[s] \in Nat
      BY DEF ConnectorInv, Basics
    <3> QED BY <1>1, <2>2, <3>1, TaskFacts DEF ConnectorInv, CountsInv, Undecided
  <2>4. TaskInv'
    BY <1>1, <2>2, TaskFacts DEF ConnectorInv, TaskInv, Undecided
  <2>5. KeepsInv'
    BY <1>1, <2>2 DEF ConnectorInv, KeepsInv
  <2> QED BY <1>1, <2>2, <2>3, <2>4, <2>5, TaskMoves DEF ConnectorInv
<1> QED BY <1>2, <1>3

LEMMA OvertakenTick ==
    ASSUME ConnectorInv, NEW now \in BOOLEAN
    PROVE  /\ Overtaken(now) \in [stage : {"asleep", "read"}, listed : BOOLEAN, due : BOOLEAN, overtaken : BOOLEAN]
           /\ Overtaken(now).stage = tick.stage /\ Overtaken(now).due = tick.due
           /\ Overtaken(now).overtaken = (tick.overtaken \/ (tick.stage = "read" /\ now))
<1>1. tick \in [stage : {"asleep", "read"}, listed : BOOLEAN, due : BOOLEAN, overtaken : BOOLEAN]
  BY DEF ConnectorInv, Basics
<1>2. (tick.overtaken \/ (tick.stage = "read" /\ now)) \in BOOLEAN
  OBVIOUS
<1> QED BY <1>1, <1>2 DEF Overtaken

LEMMA CommitStep == ConnectorInv /\ Commit => ConnectorInv'
<1> SUFFICES ASSUME ConnectorInv, Commit PROVE ConnectorInv'
  OBVIOUS
<1>1. /\ sync.stage = "committing" /\ UNCHANGED <<kind, running, overlap, count, fetch, removed>>
      /\ row' = [Healed(row, sync.row) EXCEPT !.due = Healed(row, sync.row).due /\ ~sync.stamps,
                                              !.synced = Healed(row, sync.row).synced \/ sync.stamps]
      /\ sync' = [sync EXCEPT !.stage = "ended"]
  BY DEF Commit, feedVars
<1>2. /\ row' \in RowType /\ row'.failures = sync.row.failures /\ row'.status = sync.row.status
      /\ row'.error = sync.row.error
  <2>1. PICK h : h = Healed(row, sync.row)
    OBVIOUS
  <2>2. /\ h \in RowType /\ h.failures = sync.row.failures /\ h.status = sync.row.status
        /\ h.error = sync.row.error
    BY <2>1, TaskFacts, HealedRow
  <2>3. (h.due /\ ~sync.stamps) \in BOOLEAN /\ (h.synced \/ sync.stamps) \in BOOLEAN
    OBVIOUS
  <2> QED BY <1>1, <2>1, <2>2, <2>3 DEF RowType
<1>3. /\ sync' \in SyncType /\ sync'.stage = "ended" /\ sync'.keeps = sync.keeps
      /\ sync'.skipped = sync.skipped
  BY <1>1, TaskFacts DEF SyncType
<1>4. IF kind \in Delegated THEN sync.outer = "RUNNING" /\ sync.inner \in {"SUCCESS", "FAILED"}
                            ELSE sync.outer \in {"SUCCESS", "FAILED"} /\ sync.inner = "none"
  BY <1>1 DEF ConnectorInv, TaskInv
<1>5. logs \in [Status \ {"none"} -> Nat] /\ DOMAIN logs = {"RUNNING", "SUCCESS", "FAILED"}
  BY DEF ConnectorInv, Basics, Status
<1>6. /\ DOMAIN logs' = DOMAIN logs
      /\ \A s \in DOMAIN logs :
           /\ logs'[s] = logs[s] + (IF sync.outer = s THEN 1 ELSE 0) + (IF sync.inner = s THEN 1 ELSE 0)
           /\ logs'[s] \in Nat /\ logs'[s] <= logs[s] + 1 /\ logs[s] \in Nat
  <2>1. logs' = [s \in DOMAIN logs |-> logs[s] + (IF sync.outer = s THEN 1 ELSE 0)
                                              + (IF sync.inner = s THEN 1 ELSE 0)]
    BY DEF Commit
  <2>2. \A s \in DOMAIN logs : logs[s] \in Nat
    BY <1>5
  <2>3. \A s \in DOMAIN logs : ~ (sync.outer = s /\ sync.inner = s)
    BY <1>4, <1>5
  <2> QED BY <2>1, <2>2, <2>3
<1>7. Basics'
  <2>1. logs' \in [Status \ {"none"} -> Nat]
    <3>1. logs' = [s \in DOMAIN logs |-> logs'[s]]
      BY DEF Commit
    <3> QED BY <1>5, <1>6, <3>1 DEF Status
  <2>2. tick' \in [stage : {"asleep", "read"}, listed : BOOLEAN, due : BOOLEAN, overtaken : BOOLEAN]
    <3>1. tick' = Overtaken(sync.stamps) /\ sync.stamps \in BOOLEAN
      BY TaskFacts, SyncFields DEF Commit
    <3> QED BY <3>1, OvertakenTick
  <2> QED BY <1>1, <1>2, <1>3, <2>1, <2>2 DEF ConnectorInv, Basics
<1>8. SingleFlight' /\ ScannerHealth' /\ LogsEnd'
  <2>1. SingleFlight'
    BY <1>1 DEF ConnectorInv, SingleFlight
  <2>2. ScannerHealth'
    BY <1>1, <1>2 DEF ConnectorInv, TaskInv, ScannerHealth, Health
  <2>3. LogsEnd'
    BY <1>1, <1>4, <1>5, <1>6 DEF ConnectorInv, LogsEnd
  <2> QED BY <2>1, <2>2, <2>3
<1>9. CountsInv'
  <2>1. row'.failures <= count'.syncs
    BY <1>1, <1>2 DEF ConnectorInv, CountsInv
  <2>2. \A s \in DOMAIN logs' : logs'[s] <= count'.syncs
    <3>1. \A s \in DOMAIN logs : logs[s] + 1 <= count.syncs
      BY <1>1 DEF ConnectorInv, CountsInv
    <3> QED BY <1>1, <1>6, <3>1, TaskFacts
  <2>3. row'.failures \in Nat
    BY <1>2, TaskFacts
  <2>4. \A s \in DOMAIN logs' : logs'[s] \in Nat
    BY <1>6
  <2> QED BY <1>3, <2>1, <2>2, <2>3, <2>4 DEF CountsInv, Undecided
<1>10. TaskInv'
  BY <1>1, <1>3, TaskFacts DEF TaskInv, Undecided
<1>11. KeepsInv'
  BY <1>1, <1>2, <1>3 DEF ConnectorInv, KeepsInv, Kept
<1>12. FeedOK(fetch', removed')
  BY <1>1 DEF ConnectorInv
<1> QED BY <1>7, <1>8, <1>9, <1>10, <1>11, <1>12 DEF ConnectorInv

\* The task is over: nothing of it is left.
LEMMA TaskLeaves ==
    ASSUME ConnectorInv, Pop \/ Crash
    PROVE  ConnectorInv'
<1>1. /\ sync' = NoSync /\ ~ running' /\ running' \in BOOLEAN /\ UNCHANGED <<kind, row, logs, overlap>>
      /\ fetch' = NoFetch(fetch.kind) /\ removed' = {}
  BY DEF Pop, Crash
<1>2. sync' \in SyncType /\ sync'.stage = "idle"
  BY <1>1, NewTypes DEF NoSync
<1>3. count'.syncs = count.syncs /\ count' \in [syncs : 0 .. MaxSyncs, edits : 0 .. MaxEdits, crashes : 0 .. MaxCrashes]
  <2>1. count \in [syncs : 0 .. MaxSyncs, edits : 0 .. MaxEdits, crashes : 0 .. MaxCrashes]
    BY DEF ConnectorInv, Basics
  <2>2. CASE Pop
    BY <2>1, <2>2 DEF Pop
  <2>3. CASE Crash
    <3>1. count' = [count EXCEPT !.crashes = count.crashes + 1] /\ count.crashes + 1 \in 0 .. MaxCrashes
      BY <2>1, <2>3, SyncBounds DEF Crash
    <3> QED BY <2>1, <3>1
  <2> QED BY <2>2, <2>3
<1>4. tick' \in [stage : {"asleep", "read"}, listed : BOOLEAN, due : BOOLEAN, overtaken : BOOLEAN]
  <2>1. tick \in [stage : {"asleep", "read"}, listed : BOOLEAN, due : BOOLEAN, overtaken : BOOLEAN]
    BY DEF ConnectorInv, Basics
  <2>2. NoTick \in [stage : {"asleep", "read"}, listed : BOOLEAN, due : BOOLEAN, overtaken : BOOLEAN]
    BY DEF NoTick
  <2>3. tick' = tick \/ tick' = NoTick
    BY DEF Pop, Crash
  <2> QED BY <2>1, <2>2, <2>3
<1>5. Basics'
  BY <1>1, <1>2, <1>3, <1>4 DEF ConnectorInv, Basics
<1>6. FeedOK(fetch', removed')
  <2>1. PICK k \in DOMAIN ListsOf : fetch' = NoFetch(k)
    BY <1>1, TaskFacts, FetchFields
  <2> QED BY <1>1, <2>1, NoFetchKnows
<1>7. SingleFlight' /\ ScannerHealth' /\ LogsEnd'
  BY <1>1 DEF ConnectorInv, SingleFlight, ScannerHealth, LogsEnd
<1>8. CountsInv'
  <2>1. \A s \in DOMAIN logs : logs[s] \in Nat
    BY DEF ConnectorInv, Basics
  <2> QED BY <1>1, <1>2, <1>3, <2>1, TaskFacts DEF ConnectorInv, CountsInv, Undecided
<1>9. TaskInv'
  BY <1>1, <1>2 DEF TaskInv, Undecided
<1>10. KeepsInv'
  BY <1>1, <1>2 DEF KeepsInv, NoFetch
<1> QED BY <1>5, <1>6, <1>7, <1>8, <1>9, <1>10 DEF ConnectorInv

LEMMA SyncStepKeeps == ConnectorInv /\ SyncStep => ConnectorInv'
<1> SUFFICES ASSUME ConnectorInv, SyncStep PROVE ConnectorInv'
  OBVIOUS
<1>1. CASE TicketingSync \/ UnknownSync
  <2>1. PICK status \in {"SUCCESS", "FAILED"} : sync' = [sync EXCEPT !.stage = "committing", !.outer = status]
    BY <1>1 DEF TicketingSync, UnknownSync
  <2>2. kind \notin Delegated /\ sync.stage = "opened" /\ UNCHANGED <<Rest, feedVars>>
    BY <1>1 DEF TicketingSync, UnknownSync, Ticketing, Unknown, Delegated
  <2>3. /\ sync' \in SyncType /\ sync'.stage = "committing" /\ sync'.row = sync.row /\ sync'.outer = status
        /\ sync'.inner = sync.inner
    BY <2>1, TaskFacts DEF SyncType, Status
  <2>4. sync.inner = "none"
    BY <2>2, TaskFacts DEF Undecided
  <2> QED BY <2>2, <2>3, <2>4, LogOnly
<1>2. CASE MiswrittenSync \/ StoreConflicts
  BY <1>2, TaskAborts DEF MiswrittenSync, StoreConflicts, Undecided
<1>3. CASE Authenticates
  <2>1. /\ sync.stage = "opened" /\ kind \in Scanners \cup Delegated /\ UNCHANGED Rest
        /\ sync' = [sync EXCEPT !.stage = "fetching"]
        /\ fetch' = [NoFetch(kind) EXCEPT !.state = "paging"] /\ removed' = {}
    BY <1>3 DEF Authenticates
  <2>2. kind \in DOMAIN ListsOf
    BY <2>1 DEF Scanners, Delegated, ListsOf
  <2>3. PICK f : f = [NoFetch(kind) EXCEPT !.state = "paging"]
    OBVIOUS
  <2>4. /\ f \in FetchType /\ f.kind = kind /\ f.list = 1 /\ f.state = "paging" /\ f.page = 0 /\ f.at = 0
        /\ f.got = {}
    <3>1. PICK g : g = NoFetch(kind)
      OBVIOUS
    <3>2. g \in FetchType /\ g.kind = kind /\ g.list = 1 /\ g.page = 0 /\ g.at = 0 /\ g.got = {}
      BY <2>2, <3>1, NoFetchKnows
    <3>3. f = [g EXCEPT !.state = "paging"]
      BY <2>3, <3>1
    <3> QED BY ONLY <3>2, <3>3 DEF FetchType
  <2>5. BehindIn(PolicyOf(f).walk, 0, LiveIn({})) = {}
    <3>1. \A i \in Items : PositionIn(LiveIn({}), i) # 0
      <4> SUFFICES ASSUME NEW i \in Items PROVE PositionIn(LiveIn({}), i) # 0
        OBVIOUS
      <4>1. i \in {j \in LiveIn({}) : j <= i} /\ {j \in LiveIn({}) : j <= i} \in SUBSET Items
        BY FeedBounds DEF LiveIn, Items
      <4>2. IsFiniteSet({j \in LiveIn({}) : j <= i})
        BY <4>1, ItemsAreFinite
      <4> QED BY <4>1, <4>2, FS_EmptySet DEF PositionIn
    <3>2. \A i \in Items : ~ (i <= 0) /\ PositionIn(LiveIn({}), i) \in Nat
      BY FeedBounds, PositionType DEF LiveIn, Items
    <3>3. \A i \in Items : ~ (PositionIn(LiveIn({}), i) <= 0)
      BY <3>1, <3>2
    <3> QED BY <3>2, <3>3 DEF BehindIn, LiveIn
  <2>6. FeedOK(f, {})
    <3>1. f.list \in 1 .. Len(ListsOf[f.kind])
      <4>1. Len(ListsOf[kind]) \in 1 .. 2
        BY <2>2, ListsKnown
      <4>2. 1 \in 1 .. Len(ListsOf[kind])
        BY <4>1
      <4> QED BY <2>4, <4>2
    <3>2. f.page < MaxPages /\ f.list # 2
      BY <2>4, FeedBounds
    <3> QED BY <2>4, <2>5, <3>1, <3>2 DEF FeedOK, Explained
  <2> QED BY <2>1, <2>3, <2>6, TaskGoesOn DEF Undecided
<1>4. CASE AuthFails
  <2>1. sync.stage = "opened" /\ kind \in Scanners \cup Delegated /\ UNCHANGED <<Rest, feedVars>>
    BY <1>4 DEF AuthFails
  <2>2. CASE kind \in Scanners
    <3>1. sync' = Failed(sync)
      BY <1>4, <2>2 DEF AuthFails
    <3> QED BY <2>1, <3>1, TaskFacts, TaskFails DEF Undecided
  <2>3. CASE kind \notin Scanners
    <3>1. sync' = Refused(sync) /\ kind \in Delegated
      BY <1>4, <2>1, <2>3 DEF AuthFails
    <3>2. PICK s : s = Refused(sync)
      OBVIOUS
    <3>3. s \in SyncType /\ s.stage = "committing" /\ s.row = sync.row /\ s.outer = sync.outer /\ s.inner = "FAILED"
      BY <3>1, <3>2, TaskFacts, RefusalFields
    <3> QED BY <2>1, <3>1, <3>2, <3>3, TaskFacts, LogOnly DEF Undecided
  <2> QED BY <2>2, <2>3
<1>5. CASE Fetches
  <2>1. sync.stage = "fetching" /\ UNCHANGED syncVars /\ FeedOK(fetch', removed')
    BY <1>5, FetchKeeps DEF Fetches, ConnectorInv
  <2>2. UNCHANGED <<kind, row, logs, sync, running, overlap, tick, count>>
    BY <2>1 DEF syncVars
  <2>3. KeepsInv'
    BY <2>1, <2>2 DEF KeepsInv
  <2>4. CountsInv' /\ TaskInv'
    BY <2>2 DEF ConnectorInv, CountsInv, TaskInv
  <2> QED BY <2>1, <2>2, <2>3, <2>4, TaskFacts, TaskMoves DEF Rest
<1>6. CASE FetchReturned
  <2>1. /\ sync.stage = "fetching" /\ sync' = [sync EXCEPT !.stage = "storing"] /\ UNCHANGED Rest
        /\ UNCHANGED <<fetch, removed>> /\ fetch.state = "returned"
    BY <1>6 DEF FetchReturned, feedVars
  <2>2. kind \in Scanners \cup Delegated /\ FeedOK(fetch', removed')
    BY <2>1 DEF ConnectorInv, TaskInv
  <2> QED BY <2>1, <2>2, TaskGoesOn DEF Undecided
<1>7. CASE FetchRaised \/ StoreRaises
  <2>1. PICK K \in SUBSET Items, P \in SUBSET Items : sync' = Failed(Stores(K, P))
    <3>0. \A K \in SUBSET Items : Skippable(K) \subseteq SUBSET Items
      BY DEF Skippable
    <3>1. CASE FetchRaised
      <4>1. (IF kind \in Scanners THEN fetch.found ELSE {}) \in SUBSET Items
        BY TaskFacts
      <4> QED BY <3>0, <3>1, <4>1 DEF FetchRaised
    <3>2. CASE StoreRaises
      <4>1. PICK last \in fetch.found : \E P \in Skippable({i \in fetch.found : i < last}) :
              sync' = Failed(Stores({i \in fetch.found : i < last}, P))
        BY <3>2 DEF StoreRaises
      <4>2. {i \in fetch.found : i < last} \in SUBSET Items
        BY TaskFacts
      <4> QED BY <3>0, <4>1, <4>2
    <3> QED BY <1>7, <3>1, <3>2
  <2>2. /\ UNCHANGED <<Rest, feedVars>> /\ sync.stage \in {"fetching", "storing"}
    BY <1>7 DEF FetchRaised, StoreRaises
  <2>3. kind \in Scanners \cup Delegated
    BY <2>2 DEF ConnectorInv, TaskInv
  <2>4. PICK s : s = [sync EXCEPT !.keeps = K \ P, !.skipped = P]
    OBVIOUS
  <2>5. s \in SyncType /\ s.row = sync.row /\ s.outer = sync.outer /\ s.inner = sync.inner
    BY <2>4, TaskFacts DEF SyncType
  <2>6. sync' = Failed(s)
    BY <2>1, <2>4 DEF Stores
  <2> QED BY <2>2, <2>3, <2>5, <2>6, TaskFails DEF Undecided
<1> QED BY <1>1, <1>2, <1>3, <1>4, <1>5, <1>6, <1>7, LoadStep, CommitStep, TaskLeaves, TaskSucceeds DEF SyncStep

-----------------------------------------------------------------------------
(* The scheduler, the buttons and the service *)

\* Whoever triggers a sync finds the registry in step with the task.
LEMMA TriggerStarts ==
    ASSUME ConnectorInv, NEW due, Trigger(due), UNCHANGED <<kind, row, logs, feedVars>>,
           tick' \in [stage : {"asleep", "read"}, listed : BOOLEAN, due : BOOLEAN, overtaken : BOOLEAN]
    PROVE  ConnectorInv'
<1>0. UNCHANGED <<kind, row, logs, fetch, removed>>
  BY DEF feedVars
<1>1. CASE due /\ ~ running
  <2>1. sync.stage = "idle" /\ count.syncs < MaxSyncs
    BY <1>1, TaskFacts DEF Trigger, StartTask
  <2>2. /\ running' = TRUE /\ overlap' = overlap /\ sync' = [NoSync EXCEPT !.stage = "starting"]
        /\ count' = [count EXCEPT !.syncs = count.syncs + 1]
    BY <1>1, <2>1 DEF Trigger, StartTask
  <2>3. sync' \in SyncType /\ sync'.stage = "starting"
    BY <2>2, NewTypes DEF SyncType
  <2>4. /\ count' \in [syncs : 0 .. MaxSyncs, edits : 0 .. MaxEdits, crashes : 0 .. MaxCrashes]
        /\ count'.syncs = count.syncs + 1
    <3>1. count \in [syncs : 0 .. MaxSyncs, edits : 0 .. MaxEdits, crashes : 0 .. MaxCrashes]
      BY DEF ConnectorInv, Basics
    <3>2. count.syncs + 1 \in 0 .. MaxSyncs
      BY <2>1, <3>1, TaskFacts, SyncBounds
    <3> QED BY <2>2, <3>1, <3>2
  <2>5. Basics'
    BY <1>0, <2>2, <2>3, <2>4 DEF ConnectorInv, Basics
  <2>6. SingleFlight' /\ ScannerHealth' /\ LogsEnd'
    BY <1>0, <2>2 DEF ConnectorInv, SingleFlight, ScannerHealth, LogsEnd
  <2>7. CountsInv'
    <3>1. \A s \in DOMAIN logs : logs[s] \in Nat
      BY DEF ConnectorInv, Basics
    <3>2. row.failures <= count.syncs /\ \A s \in DOMAIN logs : logs[s] <= count.syncs
      BY <2>1, <3>1, TaskFacts DEF ConnectorInv, CountsInv, Undecided
    <3> QED BY <1>0, <2>3, <2>4, <3>1, <3>2, TaskFacts DEF CountsInv, Undecided
  <2>8. TaskInv'
    BY <2>2, <2>3 DEF TaskInv, Undecided
  <2>9. KeepsInv'
    BY <1>0, <2>1, <2>3 DEF ConnectorInv, KeepsInv
  <2>10. FeedOK(fetch', removed')
    BY <1>0 DEF ConnectorInv
  <2> QED BY <2>5, <2>6, <2>7, <2>8, <2>9, <2>10 DEF ConnectorInv
<1>2. CASE ~ (due /\ ~ running)
  <2>1. UNCHANGED <<count, running, overlap, sync>>
    BY <1>2 DEF Trigger
  <2>2. Basics'
    BY <1>0, <2>1 DEF ConnectorInv, Basics
  <2>3. SingleFlight' /\ ScannerHealth' /\ LogsEnd' /\ CountsInv' /\ TaskInv' /\ KeepsInv'
    BY <1>0, <2>1 DEF ConnectorInv, SingleFlight, ScannerHealth, LogsEnd, CountsInv, TaskInv, KeepsInv, Kept
  <2> QED BY <1>0, <2>2, <2>3 DEF ConnectorInv
<1> QED BY <1>1, <1>2

\* An administrator, or time, changes the row beside the task.
LEMMA RowChanges ==
    ASSUME ConnectorInv, UNCHANGED <<kind, logs, sync, running, overlap, feedVars>>,
           tick' \in [stage : {"asleep", "read"}, listed : BOOLEAN, due : BOOLEAN, overtaken : BOOLEAN],
           count' \in [syncs : 0 .. MaxSyncs, edits : 0 .. MaxEdits, crashes : 0 .. MaxCrashes],
           count'.syncs = count.syncs, row' \in RowType,
           \/ row'.failures = row.failures /\ row'.status = row.status /\ row'.error = row.error
           \/ row'.failures = 0 /\ row'.status = "none" /\ row'.error = FALSE
    PROVE  ConnectorInv'
<1>0. UNCHANGED <<kind, logs, sync, running, overlap, fetch, removed>>
  BY DEF feedVars
<1>1. Basics'
  BY <1>0 DEF ConnectorInv, Basics
<1>2. SingleFlight' /\ LogsEnd' /\ TaskInv'
  BY <1>0 DEF ConnectorInv, SingleFlight, LogsEnd, TaskInv
<1>3. ScannerHealth'
  BY <1>0 DEF ConnectorInv, ScannerHealth
<1>4. CountsInv'
  <2> DEFINE owes == IF sync.stage \in Undecided \cup {"starting", "committing"} THEN 1 ELSE 0
  <2>1. owes \in {0, 1} /\ row.failures + owes <= count.syncs
    BY DEF ConnectorInv, CountsInv
  <2> HIDE DEF owes
  <2>2. row'.failures + owes <= count.syncs
    <3>1. row'.failures \in Nat /\ row'.failures <= row.failures
      BY TaskFacts
    <3> QED BY <2>1, <3>1, TaskFacts
  <2>3. row'.failures + (IF sync.stage \in Undecided \cup {"starting", "committing"} THEN 1 ELSE 0) <= count.syncs
    BY <2>2 DEF owes
  <2> QED BY <1>0, <2>3 DEF ConnectorInv, CountsInv
<1>5. KeepsInv'
  BY <1>0 DEF ConnectorInv, KeepsInv, Kept
<1> QED BY <1>0, <1>1, <1>2, <1>3, <1>4, <1>5 DEF ConnectorInv

LEMMA ConnectorStep == ConnectorInv /\ [Next]_vars => ConnectorInv'
<1> SUFFICES ASSUME ConnectorInv, [Next]_vars PROVE ConnectorInv'
  OBVIOUS
<1> DEFINE TickType == [stage : {"asleep", "read"}, listed : BOOLEAN, due : BOOLEAN, overtaken : BOOLEAN]
           CountType == [syncs : 0 .. MaxSyncs, edits : 0 .. MaxEdits, crashes : 0 .. MaxCrashes]
<1>0. tick \in TickType /\ count \in CountType /\ row \in RowType
  BY DEF ConnectorInv, Basics
<1>1. CASE UNCHANGED vars
  <2>1. UNCHANGED <<kind, row, logs, sync, running, overlap, tick, count, fetch, removed>>
    BY <1>1 DEF vars, syncVars, feedVars
  <2> QED BY <2>1 DEF ConnectorInv, Basics, SingleFlight, ScannerHealth, LogsEnd, CountsInv, TaskInv, KeepsInv, Kept
<1>2. CASE TickReads
  <2>1. tick' = [stage |-> "read", listed |-> row.exists /\ row.enabled, due |-> row.due, overtaken |-> FALSE]
    BY <1>2 DEF TickReads
  <2>2. (row.exists /\ row.enabled) \in BOOLEAN /\ row.due \in BOOLEAN
    BY <1>0, RowFields
  <2>3. tick' \in TickType
    BY <2>1, <2>2
  <2>4. UNCHANGED <<kind, row, logs, sync, running, overlap, count, fetch, removed>>
    BY <1>2 DEF TickReads, feedVars
  <2>5. Basics'
    BY <2>3, <2>4 DEF ConnectorInv, Basics
  <2>6. SingleFlight' /\ ScannerHealth' /\ LogsEnd' /\ CountsInv' /\ TaskInv' /\ KeepsInv'
    BY <2>4 DEF ConnectorInv, SingleFlight, ScannerHealth, LogsEnd, CountsInv, TaskInv, KeepsInv, Kept
  <2> QED BY <2>4, <2>5, <2>6 DEF ConnectorInv
<1>3. CASE TickStarts
  <2>1. PICK due : due = (tick.listed /\ tick.due)
    OBVIOUS
  <2>2. Trigger(due) /\ UNCHANGED <<kind, row, logs, feedVars>> /\ tick' = NoTick
    BY <1>3, <2>1 DEF TickStarts
  <2>3. tick' \in TickType
    BY <2>2 DEF NoTick
  <2> QED BY <2>2, <2>3, TriggerStarts
<1>4. CASE ClickStarts
  BY <1>0, <1>4, TriggerStarts DEF ClickStarts
<1>5. CASE UpdateConnector \/ CreateConnector \/ DeleteConnector
  <2>1. count.edits < MaxEdits /\ count' = [count EXCEPT !.edits = count.edits + 1]
    BY <1>5 DEF UpdateConnector, CreateConnector, DeleteConnector, Edit
  <2>2. count.edits + 1 \in 0 .. MaxEdits
    BY <1>0, <2>1, SyncBounds
  <2>3. count' \in CountType /\ count'.syncs = count.syncs
    BY <1>0, <2>1, <2>2
  <2>4. UNCHANGED <<kind, logs, sync, running, overlap, feedVars>>
    BY <1>5 DEF UpdateConnector, CreateConnector, DeleteConnector, Edit
  <2>5. CASE UpdateConnector
    <3>1. PICK enabled \in BOOLEAN, due \in BOOLEAN :
            row' = [row EXCEPT !.enabled = enabled, !.due = due] /\ tick' = Overtaken(due # row.due)
      BY <2>5 DEF UpdateConnector
    <3>2. row' \in RowType /\ row'.failures = row.failures /\ row'.status = row.status /\ row'.error = row.error
      BY <1>0, <3>1 DEF RowType
    <3>3. tick' \in TickType
      BY <3>1, OvertakenTick
    <3> QED BY <2>3, <2>4, <3>2, <3>3, RowChanges
  <2>6. CASE CreateConnector \/ DeleteConnector
    <3>1. (row' = NewRow \/ row' = [NewRow EXCEPT !.exists = FALSE]) /\ tick' = tick
      BY <2>6 DEF CreateConnector, DeleteConnector
    <3>2. row' \in RowType /\ row'.failures = 0 /\ row'.status = "none" /\ row'.error = FALSE
      <4>1. NewRow \in RowType /\ NewRow.failures = 0 /\ NewRow.status = "none" /\ NewRow.error = FALSE
        BY NewTypes DEF NewRow
      <4> HIDE DEF NewRow
      <4> QED BY <3>1, <4>1 DEF RowType
    <3> QED BY <1>0, <2>3, <2>4, <3>1, <3>2, RowChanges
  <2> QED BY <1>5, <2>5, <2>6
<1>6. CASE IntervalPasses
  <2>1. /\ row' = [row EXCEPT !.due = TRUE] /\ UNCHANGED <<kind, logs, sync, running, overlap, feedVars>>
        /\ tick' = tick /\ count' = count
    BY <1>6 DEF IntervalPasses
  <2>2. row' \in RowType /\ row'.failures = row.failures /\ row'.status = row.status /\ row'.error = row.error
    BY <1>0, <2>1 DEF RowType
  <2> QED BY <1>0, <2>1, <2>2, RowChanges
<1>7. CASE SyncStep \/ Crash
  BY <1>7, SyncStepKeeps, TaskLeaves
<1> QED BY <1>1, <1>2, <1>3, <1>4, <1>5, <1>6, <1>7 DEF Next

LEMMA ConnectorInvariant == Spec => []ConnectorInv
BY ConnectorStarts, ConnectorStep, PTL DEF Spec

\* One task, one story: whoever starts a sync and whenever it ends, the
\* registry keeps the connector to one task (scheduler.py,
\* trigger_background_sync), a scanner's status, failure count and error agree
\* (sync.py, run_sync), and only the syncs that open a log of their own leave
\* that of run_sync at RUNNING, one for each log they end.
THEOREM ConnectorIsSound == Spec => []ConnectorSound
<1>1. ConnectorInv => ConnectorSound
  <2> SUFFICES ASSUME ConnectorInv PROVE ConnectorSound
    OBVIOUS
  <2>1. SingleFlight /\ ScannerHealth /\ LogsEnd
    BY DEF ConnectorInv
  <2>2. row \in [exists : BOOLEAN, enabled : BOOLEAN, synced : BOOLEAN, due : BOOLEAN,
                 status : Status \ {"RUNNING"}, failures : 0 .. MaxSyncs, error : BOOLEAN]
    <3>1. row.failures <= count.syncs /\ count.syncs <= MaxSyncs
      <4>1. count.syncs \in 0 .. MaxSyncs
        BY DEF ConnectorInv, Basics
      <4>2. row.failures + (IF sync.stage \in Undecided \cup {"starting", "committing"} THEN 1 ELSE 0) <= count.syncs
        BY DEF ConnectorInv, CountsInv
      <4> QED BY <4>1, <4>2, TaskFacts, SyncBounds
    <3>2. row.failures \in 0 .. MaxSyncs
      BY <3>1, TaskFacts, SyncBounds
    <3> QED BY <3>2, TaskFacts DEF RowType
  <2>3. logs \in [Status \ {"none"} -> 0 .. MaxSyncs]
    <3>1. logs \in [Status \ {"none"} -> Nat] /\ count.syncs \in 0 .. MaxSyncs
      BY DEF ConnectorInv, Basics
    <3>2. \A s \in DOMAIN logs :
            logs[s] + (IF sync.stage \in Undecided \cup {"starting", "committing"} THEN 1 ELSE 0) <= count.syncs
      BY DEF ConnectorInv, CountsInv
    <3>3. \A s \in DOMAIN logs : logs[s] \in 0 .. MaxSyncs
      BY <3>1, <3>2, SyncBounds
    <3> QED BY <3>1, <3>3
  <2>4. /\ sync.stage \in {"idle", "starting", "opened", "fetching", "storing", "committing", "aborted", "ended"}
        /\ sync.outer \in Status /\ sync.inner \in Status
        /\ sync.stamps \in BOOLEAN /\ sync.keeps \in SUBSET Items /\ sync.skipped \in SUBSET Items
    BY TaskFacts, SyncFields
  <2>5. TypeOK
    BY <2>2, <2>3, <2>4 DEF ConnectorInv, Basics, FeedOK, TypeOK
  <2> QED BY <2>1, <2>5 DEF ConnectorSound
<1> QED BY <1>1, ConnectorInvariant, PTL

\* What a sync that reports SUCCESS leaves unstored it has passed over, or it is
\* explained, for every vendor loop, list, page size and cap: a failure the loop
\* swallowed, the page cap, or, where pages are addressed by offset, the items
\* the vendor dropped while they were read (connectors/*.py).
THEOREM UnstoredIsExplained == Spec => []UnstoredExplained
<1>1. ConnectorInv => UnstoredExplained
  <2> SUFFICES ASSUME ConnectorInv, sync.stage = "ended", fetch.state = "returned", row.status = "SUCCESS"
               PROVE  LET unread == Live \ (sync.keeps \cup sync.skipped) IN
                      /\ sync.skipped # {} => kind \in Choosy
                      /\ unread # {} =>
                           \/ fetch.swallowed \/ fetch.capped
                           \/ Policy.walk = "offset" /\ Cardinality(unread) <= Cardinality(removed)
    BY DEF UnstoredExplained
  <2>1. Kept(sync)
    BY DEF ConnectorInv, KeepsInv
  <2>2. Explained(fetch, removed, LiveIn(removed) \ fetch.found)
    BY DEF ConnectorInv, FeedOK
  <2> QED BY <2>1, <2>2 DEF Kept, Explained, Live, LiveIn, Policy, PolicyOf
<1> QED BY <1>1, ConnectorInvariant, PTL

\* A pass that saw the interval over decides on a connector that is no longer
\* due only when a commit or an edit overtook it.
TickInv == tick.stage = "read" /\ tick.due /\ ~ row.due => tick.overtaken

\* The scheduler starts a sync inside the interval of the last one only when,
\* between the pass's SELECT and its decision, a sync that reports SUCCESS
\* committed or an administrator changed the interval (scheduler.py,
\* _scheduler_loop; service.py, update_connector).
THEOREM EarlyIsOvertaken == Spec => EarlyOnlyWhenOvertaken
<1>1. Init => TickInv
  BY DEF Init, TickInv, NoTick
<1>2. ConnectorInv /\ TickInv /\ [Next]_vars => TickInv'
  <2> SUFFICES ASSUME ConnectorInv, TickInv, [Next]_vars PROVE TickInv'
    OBVIOUS
  <2>0. tick \in [stage : {"asleep", "read"}, listed : BOOLEAN, due : BOOLEAN, overtaken : BOOLEAN] /\ row \in RowType
    BY DEF ConnectorInv, Basics
  <2>1. CASE TickReads
    BY <2>1 DEF TickReads, TickInv
  <2>2. CASE TickStarts \/ Crash
    BY <2>2 DEF TickStarts, Crash, TickInv, NoTick
  <2>3. CASE Commit
    <3>1. /\ tick' = Overtaken(sync.stamps) /\ sync.stamps \in BOOLEAN
          /\ row' = [Healed(row, sync.row) EXCEPT !.due = Healed(row, sync.row).due /\ ~sync.stamps,
                                                  !.synced = Healed(row, sync.row).synced \/ sync.stamps]
      BY <2>3, TaskFacts, SyncFields DEF Commit
    <3>2. PICK h : h = Healed(row, sync.row)
      OBVIOUS
    <3>3. h \in RowType /\ h.due = row.due
      BY <3>2, TaskFacts, HealedRow
    <3>4. row'.due = (row.due /\ ~sync.stamps)
      BY <3>1, <3>2, <3>3 DEF RowType
    <3>5. /\ tick'.stage = tick.stage /\ tick'.due = tick.due
          /\ tick'.overtaken = (tick.overtaken \/ (tick.stage = "read" /\ sync.stamps))
      BY <3>1, OvertakenTick
    <3> QED BY <3>4, <3>5 DEF TickInv
  <2>7. CASE UpdateConnector
    <3>1. PICK enabled \in BOOLEAN, due \in BOOLEAN :
            row' = [row EXCEPT !.enabled = enabled, !.due = due] /\ tick' = Overtaken(due # row.due)
      BY <2>7 DEF UpdateConnector
    <3>2. row'.due = due /\ row.due \in BOOLEAN
      BY <2>0, <3>1 DEF RowType
    <3>3. /\ tick'.stage = tick.stage /\ tick'.due = tick.due
          /\ tick'.overtaken = (tick.overtaken \/ (tick.stage = "read" /\ due # row.due))
      BY <3>1, OvertakenTick
    <3> QED BY <3>2, <3>3 DEF TickInv
  <2>4. CASE CreateConnector \/ DeleteConnector \/ IntervalPasses
    <3>1. tick' = tick
      BY <2>4 DEF CreateConnector, DeleteConnector, IntervalPasses, Edit
    <3>2. row'.due = row.due \/ row'.due = TRUE
      <4>1. NewRow \in RowType /\ NewRow.due = TRUE
        BY NewTypes DEF NewRow
      <4> HIDE DEF NewRow
      <4> QED BY <2>0, <2>4, <4>1 DEF CreateConnector, DeleteConnector, IntervalPasses, RowType
    <3> QED BY <3>1, <3>2 DEF TickInv
  <2>5. CASE UNCHANGED <<tick, row>>
    BY <2>5 DEF TickInv
  <2>6. ASSUME UNCHANGED vars \/ ClickStarts \/ (SyncStep /\ ~ Commit) PROVE UNCHANGED <<tick, row>>
    BY <2>6 DEF vars, syncVars, Rest, ClickStarts, SyncStep, SyncLoads, TicketingSync, UnknownSync, MiswrittenSync,
                Authenticates, AuthFails, Fetches, FetchReturned, FetchRaised, StoreAll, StoreRaises, StoreConflicts, Pop
  <2> QED BY <2>1, <2>2, <2>3, <2>4, <2>5, <2>6, <2>7 DEF Next
<1>3. ConnectorInv /\ TickInv /\ [Next]_vars =>
        [TickStarts /\ running' # running /\ row.exists /\ ~row.due => tick.overtaken]_vars
  <2> SUFFICES ASSUME TickInv, TickStarts, running' # running, ~ row.due PROVE tick.overtaken
    OBVIOUS
  <2>1. tick.stage = "read" /\ tick.due
    BY DEF TickStarts, Trigger
  <2> QED BY <2>1 DEF TickInv
<1>4. Spec => [](ConnectorInv /\ TickInv)
  BY <1>1, <1>2, ConnectorInvariant, PTL DEF Spec
<1> QED BY <1>3, <1>4, PTL DEF Spec, EarlyOnlyWhenOvertaken
=============================================================================
