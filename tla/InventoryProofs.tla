--------------------------- MODULE InventoryProofs ---------------------------
(* What is stored of findings and assets: the score of every finding, not     *)
(* only of those a run enumerates; the findings of one asset under any number *)
(* of syncs, refreshes of the feeds and edits that overlap; the criticality   *)
(* of assets under any transactions; the rows any vendors write of any        *)
(* devices.                                                                   *)
EXTENDS Inventory, AssetContext, AssetRecords, FiniteSetTheorems, WellFoundedInduction, TLAPS

-----------------------------------------------------------------------------
(* The score.  Each part of the budget has its bound and grows with its        *)
(* signal, and rounding keeps the order.                                      *)

\* Each of the seven parts stays within its points, two of them as long as the
\* number is on its scale.
LEMMA PartsBounded ==
    ASSUME NEW in \in ScoreInputs, InScale(in)
    PROVE  /\ SeverityPoints(in) \in Nat /\ SeverityPoints(in) <= 3500
           /\ EpssPoints(in) \in Nat /\ EpssPoints(in) <= 2000
           /\ NativePoints(in) \in Nat /\ NativePoints(in) <= 1500
           /\ CriticalityPoints(in) \in Nat /\ CriticalityPoints(in) <= 1000
           /\ FacingPoints(in) \in Nat /\ FacingPoints(in) <= 600
           /\ SensitivityPoints(in) \in Nat /\ SensitivityPoints(in) <= 400
           /\ CorroborationPoints(in) \in Nat /\ CorroborationPoints(in) <= 1000
<1> USE DEF ScoreInputs, InScale
<1>1. SeverityFallback(in.severity) \in Nat /\ SeverityFallback(in.severity) <= 35
  BY DEF SeverityFallback, Severities
<1>2. SeverityPoints(in) \in Nat /\ SeverityPoints(in) <= 3500
  BY <1>1 DEF SeverityPoints, NoSignal
<1>3. EpssPoints(in) \in Nat /\ EpssPoints(in) <= 2000
  BY DEF EpssPoints, NoSignal
<1>4. NativePoints(in) \in Nat /\ NativePoints(in) <= 1500
  BY DEF NativePoints
<1>5. CriticalityPoints(in) \in Nat /\ CriticalityPoints(in) <= 1000
  BY DEF CriticalityPoints, Criticalities
<1>6. FacingPoints(in) \in Nat /\ FacingPoints(in) <= 600
  BY DEF FacingPoints
<1>7. SensitivityPoints(in) \in Nat /\ SensitivityPoints(in) <= 400
  BY DEF SensitivityPoints, Sensitivities
<1>8. CorroborationPoints(in) \in Nat /\ CorroborationPoints(in) <= 1000
  BY DEF CorroborationPoints
<1> QED BY <1>2, <1>3, <1>4, <1>5, <1>6, <1>7, <1>8

\* The parts add up to the budget of 100 points, in hundredths.
LEMMA SubtotalBounded ==
    ASSUME NEW in \in ScoreInputs, InScale(in)
    PROVE  Subtotal(in) \in Nat /\ Subtotal(in) <= 10000
<1>1. /\ SeverityPoints(in) \in Nat /\ SeverityPoints(in) <= 3500 /\ EpssPoints(in) \in Nat /\ EpssPoints(in) <= 2000
      /\ NativePoints(in) \in Nat /\ NativePoints(in) <= 1500 /\ CriticalityPoints(in) \in Nat /\ CriticalityPoints(in) <= 1000
      /\ FacingPoints(in) \in Nat /\ FacingPoints(in) <= 600 /\ SensitivityPoints(in) \in Nat /\ SensitivityPoints(in) <= 400
      /\ CorroborationPoints(in) \in Nat /\ CorroborationPoints(in) <= 1000
  BY PartsBounded
<1> QED BY <1>1 DEF Subtotal

\* Whatever CVSS and EPSS hold, the parts add up to a number.
LEMMA SubtotalIsInt ==
    ASSUME NEW in \in ScoreInputs
    PROVE  /\ SeverityPoints(in) \in Int /\ EpssPoints(in) \in Int /\ NativePoints(in) \in Int
           /\ CriticalityPoints(in) \in Int /\ FacingPoints(in) \in Int
           /\ SensitivityPoints(in) \in Int /\ CorroborationPoints(in) \in Int
           /\ Subtotal(in) \in Int
<1>0. in.cvss \in Int /\ in.epss \in Int /\ in.native \in Int
  <2>1. /\ in.cvss \in Stored \cup {NoSignal} /\ in.epss \in Stored \cup {NoSignal}
        /\ in.native \in Int
    BY DEF ScoreInputs
  <2>2. \A n \in Stored \cup {NoSignal} : n \in Int
    BY DEF Stored, NoSignal
  <2> QED BY <2>1, <2>2, Zenon
<1>1. SeverityPoints(in) \in Int
  <2>1. \A severity : SeverityFallback(severity) \in Int
    BY DEF SeverityFallback
  <2>2. 100 * SeverityFallback(in.severity) \in Int
    BY <2>1
  <2>3. 35 * in.cvss \in Int
    BY <1>0
  <2> QED BY <2>2, <2>3 DEF SeverityPoints
<1>2. EpssPoints(in) \in Int /\ NativePoints(in) \in Int
  <2>1. 20 * in.epss \in Int /\ 15 * in.native \in Int
    BY <1>0
  <2> QED BY <2>1 DEF EpssPoints, NativePoints
<1>3. CriticalityPoints(in) \in Int /\ SensitivityPoints(in) \in Int
  BY DEF CriticalityPoints, SensitivityPoints
<1>4. FacingPoints(in) \in Int /\ CorroborationPoints(in) \in Int
  BY DEF FacingPoints, CorroborationPoints
<1> QED BY <1>1, <1>2, <1>3, <1>4 DEF Subtotal

\* A number of hundredths rounds to one of its two neighbours.
LEMMA RoundedNear ==
    ASSUME NEW h \in Int
    PROVE  /\ Rounded(h) \in Int
           /\ 100 * Rounded(h) <= h + 50
           /\ h <= 100 * Rounded(h) + 50
<1>1. /\ h \div 100 \in Int /\ h % 100 \in 0 .. 99
      /\ h = 100 * (h \div 100) + (h % 100)
  OBVIOUS
<1>2. CASE Rounded(h) = h \div 100 + 1
  <2>1. h % 100 >= 50
    BY <1>1, <1>2 DEF Rounded
  <2> QED BY <1>1, <1>2, <2>1
<1>3. CASE Rounded(h) = h \div 100
  <2>1. h % 100 <= 50
    BY <1>1, <1>3 DEF Rounded
  <2> QED BY <1>1, <1>3, <2>1
<1>4. Rounded(h) \in {h \div 100, h \div 100 + 1}
  BY DEF Rounded
<1> QED BY <1>2, <1>3, <1>4

\* Rounding a half to the even neighbour keeps the order of two numbers.
LEMMA RoundedMonotone ==
    ASSUME NEW g \in Int, NEW h \in Int, g <= h
    PROVE  Rounded(g) <= Rounded(h)
<1>1. CASE g = h
  BY <1>1, RoundedNear
<1>2. CASE g < h
  <2>1. /\ 100 * Rounded(g) <= g + 50 /\ h <= 100 * Rounded(h) + 50
        /\ Rounded(g) \in Int /\ Rounded(h) \in Int
    BY RoundedNear
  <2>2. 100 * Rounded(g) < 100 * (Rounded(h) + 1)
    BY <2>1, <1>2
  <2> QED BY <2>1, <2>2
<1> QED BY <1>1, <1>2

LEMMA FinalBounded ==
    ASSUME NEW in \in ScoreInputs, InScale(in) PROVE FinalScore(in) \in 0 .. 100
<1>1. Subtotal(in) \in Nat /\ Subtotal(in) <= 10000
  BY SubtotalBounded
<1>2. Rounded(Subtotal(in)) \in 0 .. 100
  <2> DEFINE h == Subtotal(in)
  <2>1. h \in Nat /\ h <= 10000
    BY <1>1
  <2> HIDE DEF h
  <2>2. Rounded(h) \in Int /\ 100 * Rounded(h) <= h + 50 /\ h <= 100 * Rounded(h) + 50
    BY <2>1, RoundedNear
  <2> QED BY <2>1, <2>2 DEF h
<1> QED BY <1>2 DEF FinalScore, KevFloor

\* With CVSS and EPSS on their scales a score is one of 0 .. 100, whatever
\* number the vendor sent as its native one and however many scanners agree.
THEOREM ScoresBounded ==
    ASSUME NEW inputs, inputs \subseteq ScoreInputs, ScoringInit(inputs)
    PROVE  Bounded
<1>1. input \in ScoreInputs
  BY DEF ScoringInit
<1> QED BY <1>1, FinalBounded DEF Bounded

\* What CISA lists as exploited scores 90 at least; nothing else is raised.
THEOREM ScoresFloored ==
    ASSUME NEW inputs, inputs \subseteq ScoreInputs, ScoringInit(inputs)
    PROVE  Floored
<1>1. input \in ScoreInputs
  BY DEF ScoringInit
<1>2. Rounded(Subtotal(input)) \in Int
  BY <1>1, SubtotalIsInt, RoundedNear
<1>3. input.kev \in BOOLEAN
  BY <1>1 DEF ScoreInputs
<1> QED BY <1>2, <1>3 DEF Floored, FinalScore, KevFloor

\* Each part of the budget grows with its signal, unless a CVSS comes in for a
\* label or an EPSS below zero for none.
LEMMA PartsMonotone ==
    ASSUME NEW a \in ScoreInputs, NEW b \in ScoreInputs, AtLeast(b, a)
    PROVE  /\ SeverityPoints(a) <= SeverityPoints(b) \/ (a.cvss = NoSignal /\ b.cvss # NoSignal)
           /\ EpssPoints(a) <= EpssPoints(b) \/ (a.epss = NoSignal /\ b.epss # NoSignal /\ b.epss < 0)
           /\ NativePoints(a) <= NativePoints(b)
           /\ FacingPoints(a) <= FacingPoints(b)
           /\ CorroborationPoints(a) <= CorroborationPoints(b)
<1>7. /\ a.cvss \in Int /\ b.cvss \in Int /\ a.cvss <= b.cvss /\ NoSignal \in Int
      /\ a.epss \in Int /\ b.epss \in Int /\ a.epss <= b.epss
      /\ a.cvss >= NoSignal /\ a.epss >= NoSignal
  <2>1. \A x \in Stored \cup {NoSignal} : x \in Int /\ x >= NoSignal
    BY DEF Stored, NoSignal
  <2>2. /\ a.cvss \in Stored \cup {NoSignal} /\ a.epss \in Stored \cup {NoSignal}
        /\ b.cvss \in Stored \cup {NoSignal} /\ b.epss \in Stored \cup {NoSignal}
    BY DEF ScoreInputs
  <2>3. a.cvss <= b.cvss /\ a.epss <= b.epss
    BY DEF AtLeast
  <2>4. NoSignal \in Int
    BY DEF NoSignal
  <2> QED BY <2>1, <2>2, <2>3, <2>4
<1>8. SeverityFallback(a.severity) <= SeverityFallback(b.severity)
  BY DEF AtLeast
<1> USE DEF ScoreInputs, AtLeast
<1>1. SeverityFallback(a.severity) \in Nat /\ SeverityFallback(a.severity) <= 35 /\ SeverityFallback(b.severity) \in Nat /\ SeverityFallback(b.severity) <= 35
  BY DEF SeverityFallback, Severities
<1>2. SeverityPoints(a) <= SeverityPoints(b) \/ (a.cvss = NoSignal /\ b.cvss # NoSignal)
  <2> DEFINE w == SeverityFallback(a.severity)
             x == SeverityFallback(b.severity)
  <2>1. w \in Nat /\ x \in Nat /\ w <= x
    BY <1>1, <1>8
  <2>2. SeverityPoints(a) = (IF a.cvss = NoSignal THEN 100 * w ELSE 35 * a.cvss)
        /\ SeverityPoints(b) = (IF b.cvss = NoSignal THEN 100 * x ELSE 35 * b.cvss)
    BY DEF SeverityPoints
  <2> HIDE DEF w, x
  <2> QED BY <1>7, <2>1, <2>2
<1>3. EpssPoints(a) <= EpssPoints(b) \/ (a.epss = NoSignal /\ b.epss # NoSignal /\ b.epss < 0)
  <2>1. EpssPoints(a) = (IF a.epss = NoSignal THEN 0 ELSE 20 * a.epss)
        /\ EpssPoints(b) = (IF b.epss = NoSignal THEN 0 ELSE 20 * b.epss)
    BY DEF EpssPoints
  <2> QED BY <1>7, <2>1
<1>4. NativePoints(a) <= NativePoints(b)
  BY DEF NativePoints
<1>5. FacingPoints(a) <= FacingPoints(b)
  BY DEF FacingPoints
<1>6. CorroborationPoints(a) <= CorroborationPoints(b)
  BY DEF CorroborationPoints
<1> QED BY <1>2, <1>3, <1>4, <1>5, <1>6

\* More alarming inputs score no less, but for an added CVSS that is worth less
\* than the label it comes in for, and an added EPSS below zero.
THEOREM ScoresMonotone ==
    ASSUME NEW inputs, inputs \subseteq ScoreInputs, ScoringInit(inputs)
    PROVE  Monotone
<1> SUFFICES ASSUME AtLeast(worse, input),
                    ~(Added("cvss") /\ SeverityPoints(worse) < SeverityPoints(input)),
                    ~(Added("epss") /\ worse.epss < 0)
             PROVE  FinalScore(input) <= FinalScore(worse)
  BY DEF Monotone
<1>1. input \in ScoreInputs /\ worse \in ScoreInputs
  BY DEF ScoringInit
<1>2. Subtotal(input) \in Int /\ Subtotal(worse) \in Int
  BY <1>1, SubtotalIsInt
<1>3. Subtotal(input) <= Subtotal(worse)
  <2>1. /\ CriticalityPoints(input) <= CriticalityPoints(worse)
        /\ SensitivityPoints(input) <= SensitivityPoints(worse)
    BY DEF AtLeast
  <2>2. SeverityPoints(input) \in Int /\ SeverityPoints(worse) \in Int
    BY <1>1, SubtotalIsInt
  <2>3. /\ SeverityPoints(input) <= SeverityPoints(worse)
        /\ EpssPoints(input) <= EpssPoints(worse)
        /\ NativePoints(input) <= NativePoints(worse)
        /\ FacingPoints(input) <= FacingPoints(worse)
        /\ CorroborationPoints(input) <= CorroborationPoints(worse)
    BY <1>1, <2>2, PartsMonotone DEF Added
  <2> QED BY <1>1, <2>1, <2>3, SubtotalIsInt DEF Subtotal
<1>4. Rounded(Subtotal(input)) <= Rounded(Subtotal(worse))
  BY <1>2, <1>3, RoundedMonotone
<1>5. Rounded(Subtotal(input)) \in Int /\ Rounded(Subtotal(worse)) \in Int
  BY <1>2, RoundedNear
<1>6. /\ input.kev \in BOOLEAN /\ worse.kev \in BOOLEAN
      /\ input.kev => worse.kev
  BY <1>1 DEF ScoreInputs, AtLeast
<1> QED BY <1>4, <1>5, <1>6 DEF FinalScore, KevFloor

\* The range, the order and the floor of the score of any two findings
\* (risk_exposure_service.py, score_finding).
THEOREM ScoresAreSound ==
    ASSUME NEW inputs, inputs \subseteq ScoreInputs, ScoringInit(inputs)
    PROVE  ScoresSound
BY ScoresBounded, ScoresMonotone, ScoresFloored DEF ScoresSound
-----------------------------------------------------------------------------
(* One asset's findings.  What is asked of a transaction is asked of its task *)
(* m against the rows D and the feeds F it runs over, so that the same words  *)
(* serve before and after a step of any party.                                *)

SourceCounts == {0} \cup 2 .. Cardinality(Scanners)
FindingRow == [there : BOOLEAN, open : BOOLEAN, kev : BOOLEAN, epss : {NoSignal, 50}, score : 0 .. 100 \cup {NoSignal}]
AssetRow == [criticality : Criticalities, rollup : 0 .. 100 \cup {NoSignal}]
Fits(k, v) ==
    /\ k \in Findings => v \in FindingRow
    /\ \A c \in Cves : k = CorrelationOf(c) => v \in SourceCounts
    /\ k = Asset => v \in AssetRow
Sight(m, D) == Over(m.mine, D)
Tells(row, entry) == row.kev = entry.kev /\ (entry.epss # NoSignal => row.epss = entry.epss)
\* There is a correlation of two sources or more, or none.
CountFor(n) == IF n >= 2 THEN n ELSE 0
Truthful(V, c) == V[CorrelationOf(c)] = CountFor(Cardinality(OpenIn(V, c)))

Fields(m) ==
    m = [stage |-> m.stage, todo |-> m.todo, aim |-> m.aim, look |-> m.look, plan |-> m.plan,
         mine |-> m.mine, looked |-> m.looked, early |-> m.early, unseen |-> m.unseen, alone |-> m.alone]
TaskShape(m) ==
    /\ Fields(m)
    /\ m.stage \in Stages /\ m.alone \in BOOLEAN
    /\ m.early \subseteq m.looked /\ m.looked \subseteq Findings /\ m.unseen \subseteq Cves
    /\ DOMAIN m.mine \subseteq Keys /\ \A k \in DOMAIN m.mine : Fits(k, m.mine[k])
    /\ m.stage = "idle" => DOMAIN m.mine = {}

\* What a sync has written of the findings it looked up says what the feeds
\* say, and of the others only the score is its own.
LookInv(m, D, F) ==
    /\ m.stage \in {"items", "looked"} => m.todo \subseteq Cves /\ DOMAIN m.mine \cap Findings \subseteq m.looked
    /\ m.stage = "looked" =>
         m.aim \in m.looked /\ m.look \in Entries /\ (m.aim \notin m.early => m.look = F[m.aim[2]])
    /\ \A k \in m.looked : k \in DOMAIN m.mine \/ (m.stage = "looked" /\ k = m.aim)
    /\ \A k \in DOMAIN m.mine : k \in m.looked /\ k \notin m.early => Tells(m.mine[k], F[k[2]])
    /\ \A k \in DOMAIN m.mine :
         k \in Findings /\ k \notin m.looked =>
            /\ m.mine[k].there = D[k].there /\ m.mine[k].open = D[k].open
            /\ m.mine[k].kev = D[k].kev /\ m.mine[k].epss = D[k].epss
\* The counts it has read stand for every CVE it has not missed a change of.
CountInv(m, D) ==
    /\ m.stage \in {"items", "looked", "correlate"} => \A c \in Cves : CorrelationOf(c) \notin DOMAIN m.mine
    /\ m.stage = "correlating" =>
         /\ m.plan \in [Cves -> 0 .. Cardinality(Scanners)] /\ m.todo \subseteq Cves
         /\ \A c \in Cves \ m.unseen :
              /\ m.plan[c] = Cardinality(OpenIn(Sight(m, D), c))
              /\ c \notin m.todo => Sight(m, D)[CorrelationOf(c)] = CountFor(m.plan[c])
    /\ m.stage \in {"score", "scoring", "done"} => \A c \in Cves \ m.unseen : Truthful(Sight(m, D), c)
\* The scores it has read are those of what it sees, when it is alone.
SettledIn(V) ==
    /\ \A k \in OpenFindings(V) : V[k].score = ScoreIn(V, k[1], k[2])
    /\ V[Asset].rollup = Highest(V)
ScoreInv(m, D) ==
    /\ m.stage = "scoring" =>
         /\ m.todo \subseteq Findings /\ \A k \in m.todo : m.plan[k] \in 0 .. 100
         /\ m.alone => \A k \in OpenFindings(Sight(m, D)) :
              /\ m.plan[k] = ScoreIn(Sight(m, D), k[1], k[2])
              /\ k \notin m.todo => Sight(m, D)[k].score = m.plan[k]
    /\ m.stage = "done" /\ m.alone => SettledIn(Sight(m, D))
SyncInv(m, D, F) == m.stage # "repropagating" /\ LookInv(m, D, F) /\ CountInv(m, D) /\ ScoreInv(m, D)
FeedInv(m, D) ==
    /\ m.stage \in {"idle", "repropagating"} /\ m.looked = {}
    /\ m.stage = "repropagating" =>
         /\ m.plan \in [Cves -> Entries] /\ m.todo \subseteq Findings /\ DOMAIN m.mine \subseteq Findings
         /\ \A k \in DOMAIN m.mine :
              /\ Tells(m.mine[k], m.plan[k[2]])
              /\ m.mine[k].there = D[k].there /\ m.mine[k].open = D[k].open

RowsSound(D) == DOMAIN D = Keys /\ \A k \in Keys : Fits(k, D[k])
Told(D, F, late) == \A k \in Findings : D[k].there /\ k \notin late => Tells(D[k], F[k[2]])
TasksSound(T, D, F) ==
    /\ T = [t \in Parties |-> T[t]]
    /\ \A t \in Parties : TaskShape(T[t])
    /\ \A s \in Scanners : SyncInv(T[s], D, F)
    /\ FeedInv(T[Feeds], D)
    /\ \A t \in Parties : \A u \in Parties \ {t} : DOMAIN T[t].mine \cap DOMAIN T[u].mine = {}
    /\ \A t \in Parties : T[t].alone => \A u \in Parties \ {t} : T[u].stage = "idle"
BegunSound == begun \in [syncs : 0 .. MaxSyncs, refreshes : 0 .. MaxRefreshes, edits : 0 .. MaxEdits]
StoreSound(D, F, late, missed) ==
    /\ RowsSound(D) /\ F \in [Cves -> Entries] /\ late \subseteq Findings /\ missed \subseteq Cves
    /\ Told(D, F, late)
    /\ \A c \in Cves \ missed : Truthful(D, c)
InventoryInv == BegunSound /\ StoreSound(db, feed, raced, unseen) /\ TasksSound(tx, db, feed)

LEMMA KeysApart ==
    /\ \A k \in Findings : k[1] \in Scanners /\ k[2] \in Cves /\ k = <<k[1], k[2]>> /\ k # Asset
    /\ \A k \in Findings : \A c \in Cves : k # CorrelationOf(c)
    /\ \A c \in Cves : CorrelationOf(c) # Asset
    /\ \A b, c \in Cves : CorrelationOf(b) = CorrelationOf(c) => b = c
    /\ \A s \in Scanners : \A c \in Cves : <<s, c>> \in Findings
    /\ Findings \subseteq Keys /\ Asset \in Keys /\ \A c \in Cves : CorrelationOf(c) \in Keys
    /\ Feeds \notin Scanners /\ Scanners \subseteq Parties /\ Feeds \in Parties
    /\ \A t \in Parties : t = Feeds \/ t \in Scanners
BY InventoryBounds DEF Findings, CorrelationOf, Asset, Keys, Feeds, Parties

\* A transaction's view has every row: its own, or what is committed.
LEMMA SightAt ==
    ASSUME NEW m, NEW D, DOMAIN m.mine \subseteq Keys, DOMAIN D = Keys
    PROVE  /\ DOMAIN Sight(m, D) = Keys
           /\ \A k \in Keys : Sight(m, D)[k] = IF k \in DOMAIN m.mine THEN m.mine[k] ELSE D[k]
BY DEF Sight, Over

LEMMA SightFits ==
    ASSUME NEW m, NEW D, TaskShape(m), RowsSound(D)
    PROVE  RowsSound(Sight(m, D))
<1>1. DOMAIN m.mine \subseteq Keys /\ DOMAIN D = Keys /\ (\A k \in DOMAIN m.mine : Fits(k, m.mine[k]))
      /\ (\A k \in Keys : Fits(k, D[k]))
  BY DEF TaskShape, RowsSound
<1>2. ASSUME NEW k \in Keys PROVE Fits(k, Sight(m, D)[k])
  <2>1. CASE k \in DOMAIN m.mine
    <3>1. Sight(m, D)[k] = m.mine[k]
      BY <1>1, <2>1, SightAt
    <3> QED BY <1>1, <2>1, <3>1
  <2>2. CASE k \notin DOMAIN m.mine
    <3>1. Sight(m, D)[k] = D[k]
      BY <1>1, <2>2, SightAt
    <3> QED BY <1>1, <3>1
  <2> QED BY <2>1, <2>2
<1> QED BY <1>1, <1>2, SightAt DEF RowsSound

\* What the rows of a store are, by their kind.
LEMMA RowKinds ==
    ASSUME NEW V, RowsSound(V)
    PROVE  /\ \A k \in Findings : V[k] \in FindingRow
           /\ \A c \in Cves : V[CorrelationOf(c)] \in SourceCounts
           /\ V[Asset] \in AssetRow
BY KeysApart DEF RowsSound, Fits

LEMMA CountsBounded ==
    ASSUME NEW V, NEW c
    PROVE  Cardinality(OpenIn(V, c)) \in 0 .. Cardinality(Scanners) /\ Cardinality(Scanners) \in Nat
<1>1. OpenIn(V, c) \subseteq Scanners
  BY DEF OpenIn
<1>2. IsFiniteSet(Scanners)
  BY InventoryBounds
<1> QED BY <1>1, <1>2, FS_Subset, FS_CardinalityType

\* A score is one of 0 .. 100, whatever is stored.
LEMMA ScoresFit ==
    ASSUME NEW V, RowsSound(V), NEW k \in Findings
    PROVE  ScoreIn(V, k[1], k[2]) \in 0 .. 100
<1>1. /\ k[1] \in Scanners /\ k[2] \in Cves /\ k = <<k[1], k[2]>>
  BY KeysApart
<1>2. V[<<k[1], k[2]>>] \in FindingRow /\ V[CorrelationOf(k[2])] \in SourceCounts /\ V[Asset] \in AssetRow
  BY <1>1, RowKinds
<1> DEFINE f == V[<<k[1], k[2]>>]
           n == V[CorrelationOf(k[2])]
           in == [severity |-> "HIGH", cvss |-> NoSignal, epss |-> f.epss, native |-> 0,
                  criticality |-> V[Asset].criticality, facing |-> FALSE, sensitivity |-> "INTERNAL",
                  sources |-> IF n = 0 THEN 1 ELSE n, kev |-> f.kev]
<1>3. f.epss \in 0 .. 100 \cup {NoSignal} /\ f.kev \in BOOLEAN /\ V[Asset].criticality \in Criticalities
  BY <1>2 DEF FindingRow, AssetRow
<1>4. (IF n = 0 THEN 1 ELSE n) \in Nat
  BY <1>2, CountsBounded DEF SourceCounts
<1>5. in \in ScoreInputs
  <2>1. "HIGH" \in Severities /\ "INTERNAL" \in Sensitivities
    BY DEF Severities, Sensitivities
  <2> HIDE DEF f, n
  <2>2. /\ NoSignal \in Stored \cup {NoSignal}
        /\ f.epss \in Stored \cup {NoSignal}
    BY <1>3 DEF Stored
  <2> QED BY <1>3, <1>4, <2>1, <2>2 DEF ScoreInputs
<1>6. ScoreIn(V, k[1], k[2]) = FinalScore(in)
  BY DEF ScoreIn
<1>7. InScale(in)
  BY <1>3 DEF InScale
<1> HIDE DEF in
<1> QED BY <1>5, <1>6, <1>7, FinalBounded

LEMMA LargestScore ==
    ASSUME NEW S \in SUBSET (0 .. 100 \cup {NoSignal}), S # {}
    PROVE  Max(S) \in S
<1> DEFINE low == -1000
<1>1. low \in Int /\ 100 \in Int /\ S \subseteq low .. 100
  BY DEF NoSignal
<1>2. S \in SUBSET Int /\ IsFiniteSet(S)
  <2> HIDE DEF low
  <2>1. IsFiniteSet(low .. 100)
    BY <1>1, FS_Interval
  <2>2. IsFiniteSet(S)
    <3> DEFINE L == low .. 100
    <3>1. IsFiniteSet(L) /\ S \subseteq L
      BY <1>1, <2>1
    <3> HIDE DEF L
    <3> QED BY <3>1, FS_Subset
  <2>3. S \in SUBSET Int
    BY <1>1
  <2> QED BY <2>2, <2>3
<1> DEFINE Above(x) == {y \in S : y > x}
           T == {Above(x) : x \in S}
<1>3. ASSUME NEW x \in S PROVE Above(x) \in FiniteSubsetsOf(S)
  BY <1>2, FS_Subset DEF FiniteSubsetsOf
<1>4. T \subseteq FiniteSubsetsOf(S) /\ T # {}
  <2> HIDE DEF Above
  <2> QED BY <1>3
<1>5. PICK least \in T : \A U \in T : ~ (<<U, least>> \in StrictSubsetOrdering(S))
  <2> DEFINE R == StrictSubsetOrdering(S)
             F == FiniteSubsetsOf(S)
  <2>1. IsWellFoundedOn(R, F)
    BY FS_StrictSubsetOrderingWellFounded
  <2> HIDE DEF T, R, F
  <2>2. \E U \in T : \A V \in T : ~ (<<V, U>> \in R)
    BY <1>4, <2>1, WFMin DEF F
  <2> QED BY <2>2 DEF R
<1>6. PICK x \in S : least = Above(x)
  OBVIOUS
<1>7. ASSUME NEW w \in S PROVE x >= w
  <2> SUFFICES ASSUME ~(x >= w) PROVE FALSE
    OBVIOUS
  <2>0. x \in Int /\ w \in Int
    BY <1>2
  <2>1. w > x /\ w \in Above(x) /\ w \notin Above(w)
    BY <2>0
  <2>2. Above(w) \subseteq Above(x)
    <3>1. ASSUME NEW y \in S, y > w PROVE y > x
      <4>1. y \in Int
        BY <1>2
      <4> QED BY <2>0, <2>1, <3>1, <4>1
    <3> QED BY <3>1
  <2>3. <<Above(w), Above(x)>> \in StrictSubsetOrdering(S)
    <3>1. Above(w) \in SUBSET S /\ Above(x) \in SUBSET S /\ Above(w) # Above(x)
      BY <2>1
    <3> HIDE DEF Above
    <3> QED BY <2>2, <3>1 DEF StrictSubsetOrdering
  <2> QED BY <1>5, <1>6, <2>3
<1>8. x \in S /\ \A y \in S : x >= y
  BY <1>7
<1> QED BY <1>8 DEF Max

LEMMA HighestFits ==
    ASSUME NEW V, RowsSound(V)
    PROVE  Highest(V) \in 0 .. 100 \cup {NoSignal}
<1> DEFINE S == {V[k].score : k \in OpenFindings(V)}
<1>1. S \in SUBSET (0 .. 100 \cup {NoSignal})
  <2>1. ASSUME NEW k \in OpenFindings(V) PROVE V[k].score \in 0 .. 100 \cup {NoSignal}
    <3>1. k \in Findings
      BY DEF OpenFindings
    <3>2. V[k] \in FindingRow
      BY <3>1, RowKinds
    <3> QED BY <3>2 DEF FindingRow
  <2> QED BY <2>1
<1>2. CASE OpenFindings(V) = {}
  BY <1>2 DEF Highest
<1>3. CASE OpenFindings(V) # {}
  <2>1. S # {} /\ Highest(V) = Max(S)
    BY <1>3 DEF Highest
  <2> HIDE DEF S
  <2> QED BY <1>1, <2>1, LargestScore
<1> QED BY <1>2, <1>3

\* What the passes read of two stores is the same where they agree.
LEMMA SameOpen ==
    ASSUME NEW V, NEW W, NEW c,
           \A s \in Scanners : V[<<s, c>>].there = W[<<s, c>>].there /\ V[<<s, c>>].open = W[<<s, c>>].open
    PROVE  OpenIn(V, c) = OpenIn(W, c)
BY DEF OpenIn

LEMMA SameFindings ==
    ASSUME NEW V, NEW W, \A k \in Findings : V[k].there = W[k].there /\ V[k].open = W[k].open
    PROVE  OpenFindings(V) = OpenFindings(W) /\ \A c \in Cves : OpenIn(V, c) = OpenIn(W, c)
BY SameOpen, KeysApart DEF OpenFindings

LEMMA SameScore ==
    ASSUME NEW V, NEW W, NEW k \in Findings,
           V[k].epss = W[k].epss, V[k].kev = W[k].kev, V[Asset].criticality = W[Asset].criticality,
           V[CorrelationOf(k[2])] = W[CorrelationOf(k[2])]
    PROVE  ScoreIn(V, k[1], k[2]) = ScoreIn(W, k[1], k[2])
<1>1. k = <<k[1], k[2]>>
  BY KeysApart
<1> QED BY <1>1 DEF ScoreIn

LEMMA InvIsAgreement == InventoryInv => FindingsAgree
<1> SUFFICES ASSUME InventoryInv PROVE FindingsAgree
  OBVIOUS
<1>1. RowsSound(db) /\ feed \in [Cves -> Entries] /\ raced \subseteq Findings /\ unseen \subseteq Cves
      /\ Told(db, feed, raced) /\ (\A c \in Cves \ unseen : Truthful(db, c)) /\ BegunSound
  BY DEF InventoryInv, StoreSound
<1>2. InventoryTypeOK
  <2>1. ASSUME NEW k \in Findings
        PROVE  /\ db[k].there \in BOOLEAN /\ db[k].open \in BOOLEAN
               /\ db[k].kev \in BOOLEAN /\ db[k].epss \in {NoSignal, 50} /\ db[k].score \in 0 .. 100 \cup {NoSignal}
    BY <1>1, RowKinds DEF FindingRow
  <2>2. \A c \in Cves : db[CorrelationOf(c)] \in {0} \cup 2 .. Cardinality(Scanners)
    BY <1>1, RowKinds DEF SourceCounts
  <2>3. db[Asset].criticality \in Criticalities /\ db[Asset].rollup \in 0 .. 100 \cup {NoSignal}
    BY <1>1, RowKinds DEF AssetRow
  <2>4. \A t \in Parties : tx[t].stage \in Stages /\ DOMAIN tx[t].mine \subseteq DOMAIN db
    BY <1>1 DEF InventoryInv, TasksSound, TaskShape, RowsSound
  <2> QED BY <1>1, <2>1, <2>2, <2>3, <2>4 DEF InventoryTypeOK, BegunSound
<1>3. FeedsReachFindings
  BY <1>1 DEF Told, Tells, FeedsReachFindings
<1>4. CorrelationsTrue
  BY <1>1 DEF Truthful, CountFor, CorrelationsTrue
<1> QED BY <1>2, <1>3, <1>4 DEF FindingsAgree
-----------------------------------------------------------------------------
(* Steps of one transaction *)

\* The task of a transaction that has gone on: what it asks of the others is
\* that they have not written what it writes now.
LEMMA TaskGoesOn ==
    ASSUME InventoryInv, NEW t \in Parties, NEW m,
           tx' = [tx EXCEPT ![t] = m], UNCHANGED <<db, feed, raced, unseen, begun>>,
           tx[t].stage # "idle", TaskShape(m),
           t \in Scanners => SyncInv(m, db, feed), t = Feeds => FeedInv(m, db),
           \A k \in DOMAIN m.mine : k \in DOMAIN tx[t].mine \/ Free(t, k),
           m.alone => tx[t].alone
    PROVE  InventoryInv'
<1> USE DEF InventoryInv
<1>1. BegunSound' /\ StoreSound(db, feed, raced, unseen)'
  BY DEF BegunSound
<1>2. tx' = [u \in Parties |-> IF u = t THEN m ELSE tx[u]]
  BY DEF TasksSound
<1> DEFINE T == tx'
<1>3. T = [u \in Parties |-> T[u]] /\ T[t] = m /\ \A u \in Parties \ {t} : T[u] = tx[u]
  BY <1>2
<1> HIDE DEF T
<1>4. TasksSound(tx, db, feed)
  OBVIOUS
<1>5. \A u \in Parties : TaskShape(T[u])
  BY <1>3, <1>4 DEF TasksSound
<1>6. (\A s \in Scanners : SyncInv(T[s], db, feed)) /\ FeedInv(T[Feeds], db)
  BY <1>3, <1>4, KeysApart DEF TasksSound
<1>7. ASSUME NEW u \in Parties, NEW w \in Parties \ {u} PROVE DOMAIN T[u].mine \cap DOMAIN T[w].mine = {}
  <2>0. \A x \in Parties : \A y \in Parties \ {x} : DOMAIN tx[x].mine \cap DOMAIN tx[y].mine = {}
    BY <1>4 DEF TasksSound
  <2>1. \A x \in Parties \ {t} : DOMAIN m.mine \cap DOMAIN tx[x].mine = {}
    BY <2>0 DEF Free
  <2>2. CASE u = t
    BY <1>3, <2>1, <2>2
  <2>3. CASE w = t
    BY <1>3, <2>1, <2>3
  <2>4. CASE u # t /\ w # t
    BY <1>3, <2>0, <2>4
  <2> QED BY <2>2, <2>3, <2>4
<1>8. ASSUME NEW u \in Parties, T[u].alone, NEW w \in Parties \ {u} PROVE T[w].stage = "idle"
  <2>0. \A x \in Parties : tx[x].alone => \A y \in Parties \ {x} : tx[y].stage = "idle"
    BY <1>4 DEF TasksSound
  <2>1. tx[u].alone
    BY <1>3, <1>8
  <2>2. tx[w].stage = "idle"
    BY <2>0, <2>1
  <2>3. w # t
    BY <2>2
  <2> QED BY <1>3, <2>2, <2>3
<1>9. TasksSound(T, db, feed)
  BY <1>3, <1>5, <1>6, <1>7, <1>8 DEF TasksSound
<1>10. TasksSound(tx, db, feed)'
  BY <1>9 DEF T
<1> QED BY <1>1, <1>10

\* What a row of its own changes in a transaction's view.
Wrote(m, m2, D, k, v) == k \in Keys /\ TaskShape(m) /\ RowsSound(D) /\ m2.mine = WithRow(m.mine, k, v)
LEMMA WrittenSight ==
    ASSUME NEW m, NEW m2, NEW D, NEW k, NEW v, Wrote(m, m2, D, k, v)
    PROVE  /\ Sight(m2, D)[k] = v
           /\ \A x \in Keys : x # k => Sight(m2, D)[x] = Sight(m, D)[x]
           /\ DOMAIN m2.mine = DOMAIN m.mine \cup {k} /\ m2.mine[k] = v
           /\ \A x \in DOMAIN m.mine : x # k => m2.mine[x] = m.mine[x]
           /\ Fits(k, v) => \A x \in DOMAIN m2.mine : Fits(x, m2.mine[x])
<1> USE DEF Wrote
<1>1. DOMAIN m2.mine = DOMAIN m.mine \cup {k} /\ m2.mine[k] = v /\ \A x \in DOMAIN m.mine : x # k => m2.mine[x] = m.mine[x]
  BY DEF WithRow
<1>2. DOMAIN m.mine \subseteq Keys /\ DOMAIN D = Keys /\ \A x \in DOMAIN m.mine : Fits(x, m.mine[x])
  BY DEF TaskShape, RowsSound
<1>3. DOMAIN m2.mine \subseteq Keys
  BY <1>1, <1>2
<1>4. \A x \in Keys : Sight(m2, D)[x] = IF x \in DOMAIN m2.mine THEN m2.mine[x] ELSE D[x]
  BY <1>2, <1>3, SightAt
<1>5. \A x \in Keys : Sight(m, D)[x] = IF x \in DOMAIN m.mine THEN m.mine[x] ELSE D[x]
  BY <1>2, SightAt
<1>6. ASSUME NEW x \in Keys, x # k PROVE Sight(m2, D)[x] = Sight(m, D)[x]
  <2>1. CASE x \in DOMAIN m.mine
    BY <1>1, <1>4, <1>5, <1>6, <2>1
  <2>2. CASE x \notin DOMAIN m.mine
    BY <1>1, <1>4, <1>5, <1>6, <2>2
  <2> QED BY <2>1, <2>2
<1>7. ASSUME Fits(k, v), NEW x \in DOMAIN m2.mine PROVE Fits(x, m2.mine[x])
  BY <1>1, <1>2, <1>7
<1>8. Sight(m2, D)[k] = v
  BY <1>1, <1>4
<1> QED BY <1>1, <1>6, <1>7, <1>8

-----------------------------------------------------------------------------
(* What a transaction keeps while others commit, begin or edit *)

\* A task that goes on over other rows: those it has written are as they were,
\* and it is told of the CVEs whose findings or correlation are not.
LEMMA TaskOutlives ==
    ASSUME NEW m, NEW m2, NEW D, NEW E, NEW F, NEW G, NEW missed \in SUBSET Cves,
           TaskShape(m), TaskShape(m2), RowsSound(D), RowsSound(E), SyncInv(m, D, F),
           m2.stage = m.stage, m2.todo = m.todo, m2.aim = m.aim, m2.look = m.look, m2.plan = m.plan,
           m2.mine = m.mine, m2.looked = m.looked, m2.unseen = m.unseen \cup missed,
           (m2.early = m.early /\ F = G) \/ m2.early = m.looked,
           \A k \in DOMAIN m.mine : D[k] = E[k],
           \A c \in Cves \ missed : OpenIn(D, c) = OpenIn(E, c),
           \A c \in Cves \ missed :
             D[CorrelationOf(c)] = E[CorrelationOf(c)] \/ (m.stage = "correlating" /\ c \in m.todo),
           m2.alone => m.alone /\ D = E
    PROVE  SyncInv(m2, E, G)
<1>1. LookInv(m2, E, G)
  <2>1. LookInv(m, D, F)
    BY DEF SyncInv
  <2>2. CASE m2.early = m.early /\ F = G
    BY <2>1, <2>2 DEF LookInv
  <2>3. CASE m2.early = m.looked
    BY <2>1, <2>3 DEF LookInv
  <2> QED BY <2>2, <2>3
<1>2. /\ DOMAIN m.mine \subseteq Keys /\ DOMAIN D = Keys /\ DOMAIN E = Keys
      /\ \A k \in Keys : Sight(m, D)[k] = IF k \in DOMAIN m.mine THEN m.mine[k] ELSE D[k]
      /\ \A k \in Keys : Sight(m2, E)[k] = IF k \in DOMAIN m.mine THEN m.mine[k] ELSE E[k]
  BY SightAt DEF TaskShape, RowsSound
<1>3. ASSUME NEW c \in Cves \ missed PROVE OpenIn(Sight(m2, E), c) = OpenIn(Sight(m, D), c)
  <2>1. ASSUME NEW s \in Scanners
        PROVE  (Sight(m2, E)[<<s, c>>].there /\ Sight(m2, E)[<<s, c>>].open) <=> (Sight(m, D)[<<s, c>>].there /\ Sight(m, D)[<<s, c>>].open)
    <3>1. <<s, c>> \in Keys
      BY KeysApart
    <3>2. CASE <<s, c>> \in DOMAIN m.mine
      BY <1>2, <3>1, <3>2
    <3>3. CASE <<s, c>> \notin DOMAIN m.mine
      <4>1. Sight(m2, E)[<<s, c>>] = E[<<s, c>>] /\ Sight(m, D)[<<s, c>>] = D[<<s, c>>]
        BY <1>2, <3>1, <3>3
      <4>2. s \in OpenIn(D, c) <=> s \in OpenIn(E, c)
        OBVIOUS
      <4> QED BY <4>1, <4>2 DEF OpenIn
    <3> QED BY <3>2, <3>3
  <2> QED BY <2>1 DEF OpenIn
<1>4. ASSUME NEW c \in Cves \ missed
      PROVE  Sight(m2, E)[CorrelationOf(c)] = Sight(m, D)[CorrelationOf(c)] \/ (m.stage = "correlating" /\ c \in m.todo)
  <2>1. CorrelationOf(c) \in Keys
    BY KeysApart
  <2>2. CASE CorrelationOf(c) \in DOMAIN m.mine
    BY <1>2, <2>1, <2>2
  <2>3. CASE CorrelationOf(c) \notin DOMAIN m.mine
    BY <1>2, <2>1, <2>3
  <2> QED BY <2>2, <2>3
<1>5. CountInv(m2, E)
  <2>0. CountInv(m, D)
    BY DEF SyncInv
  <2>1. m2.stage \in {"items", "looked", "correlate"} => \A c \in Cves : CorrelationOf(c) \notin DOMAIN m2.mine
    BY <2>0 DEF CountInv
  <2>2. ASSUME m2.stage = "correlating"
        PROVE  /\ m2.plan \in [Cves -> 0 .. Cardinality(Scanners)] /\ m2.todo \subseteq Cves
               /\ \A c \in Cves \ m2.unseen :
                    /\ m2.plan[c] = Cardinality(OpenIn(Sight(m2, E), c))
                    /\ c \notin m2.todo => Sight(m2, E)[CorrelationOf(c)] = CountFor(m2.plan[c])
    <3>1. /\ m.plan \in [Cves -> 0 .. Cardinality(Scanners)] /\ m.todo \subseteq Cves
          /\ \A c \in Cves \ m.unseen :
                    /\ m.plan[c] = Cardinality(OpenIn(Sight(m, D), c))
                    /\ c \notin m.todo => Sight(m, D)[CorrelationOf(c)] = CountFor(m.plan[c])
      BY <2>0, <2>2 DEF CountInv
    <3>2. ASSUME NEW c \in Cves \ m2.unseen
          PROVE  /\ m2.plan[c] = Cardinality(OpenIn(Sight(m2, E), c))
                 /\ c \notin m2.todo => Sight(m2, E)[CorrelationOf(c)] = CountFor(m2.plan[c])
      <4>1. c \in Cves \ missed /\ c \in Cves \ m.unseen
        BY <3>2
      <4> QED BY <1>3, <1>4, <3>1, <4>1
    <3> QED BY <3>1, <3>2
  <2>3. ASSUME m2.stage \in {"score", "scoring", "done"}, NEW c \in Cves \ m2.unseen
        PROVE  Truthful(Sight(m2, E), c)
    <3>1. c \in Cves \ missed /\ c \in Cves \ m.unseen
      BY <2>3
    <3>2. Truthful(Sight(m, D), c)
      BY <2>0, <2>3, <3>1 DEF CountInv
    <3>3. Sight(m2, E)[CorrelationOf(c)] = Sight(m, D)[CorrelationOf(c)]
      BY <1>4, <2>3, <3>1
    <3> QED BY <1>3, <3>1, <3>2, <3>3 DEF Truthful
  <2> QED BY <2>1, <2>2, <2>3 DEF CountInv
<1>6. ScoreInv(m2, E)
  <2>1. ScoreInv(m, D)
    BY DEF SyncInv
  <2>2. m2.stage = "scoring" => m2.todo \subseteq Findings /\ \A k \in m2.todo : m2.plan[k] \in 0 .. 100
    BY <2>1 DEF ScoreInv
  <2>3. CASE ~m2.alone
    BY <2>2, <2>3 DEF ScoreInv
  <2>4. CASE m2.alone
    <3>1. Sight(m2, E) = Sight(m, D) /\ m.alone
      BY <2>4 DEF Sight
    <3> QED BY <2>1, <2>2, <3>1 DEF ScoreInv
  <2> QED BY <2>3, <2>4
<1> QED BY <1>1, <1>5, <1>6 DEF SyncInv
LEMMA SyncFacts ==
    ASSUME InventoryInv, NEW s \in Scanners
    PROVE  /\ s \in Parties /\ s # Feeds /\ TaskShape(tx[s]) /\ SyncInv(tx[s], db, feed)
           /\ LookInv(tx[s], db, feed) /\ CountInv(tx[s], db) /\ ScoreInv(tx[s], db)
           /\ RowsSound(db) /\ View(s) = Sight(tx[s], db) /\ RowsSound(View(s)) /\ feed \in [Cves -> Entries]
<1>1. s \in Parties /\ s # Feeds /\ TaskShape(tx[s]) /\ SyncInv(tx[s], db, feed) /\ RowsSound(db) /\ feed \in [Cves -> Entries]
  BY KeysApart DEF InventoryInv, StoreSound, TasksSound
<1>2. View(s) = Sight(tx[s], db)
  BY DEF View, Sight
<1> QED BY <1>1, <1>2, SightFits DEF SyncInv

\* _upsert_asset and the scores of the assets rewrite the asset's row.
LEMMA TouchKeeps == ASSUME InventoryInv, NEW s \in Scanners, TouchAsset(s) PROVE InventoryInv'
<1> USE SyncFacts
<1>0. Fields(tx[s])
  BY DEF TaskShape
<1>1. PICK m : m = [tx[s] EXCEPT !.mine = WithRow(@, Asset, View(s)[Asset])]
  OBVIOUS
<1>2. /\ tx[s].stage = "items" /\ Free(s, Asset) /\ tx' = [tx EXCEPT ![s] = m] /\ UNCHANGED <<db, feed, raced, unseen, begun>>
  BY <1>1 DEF TouchAsset, Write
<1>3. /\ m.stage = "items" /\ m.todo = tx[s].todo /\ m.looked = tx[s].looked /\ m.early = tx[s].early
      /\ m.alone = tx[s].alone /\ m.unseen = tx[s].unseen
      /\ m.mine = WithRow(tx[s].mine, Asset, View(s)[Asset])
      /\ Fields(m)
  BY ONLY <1>1, <1>2, <1>0 DEF Fields
<1>4. Fits(Asset, View(s)[Asset]) /\ Asset \in Keys
  BY KeysApart DEF RowsSound
<1>5. /\ DOMAIN m.mine = DOMAIN tx[s].mine \cup {Asset} /\ (\A x \in DOMAIN tx[s].mine : x # Asset => m.mine[x] = tx[s].mine[x])
      /\ \A x \in DOMAIN m.mine : Fits(x, m.mine[x])
  <2>1. Wrote(tx[s], m, db, Asset, View(s)[Asset])
    BY <1>3, <1>4 DEF Wrote
  <2> QED BY <1>4, <2>1, WrittenSight
<1>6. TaskShape(m)
  BY <1>3, <1>4, <1>5 DEF TaskShape, Stages
<1>7. LookInv(m, db, feed)
  BY <1>2, <1>3, <1>5, KeysApart DEF LookInv, TaskShape
<1>8. CountInv(m, db) /\ ScoreInv(m, db)
  BY <1>2, <1>3, <1>5, KeysApart DEF CountInv, ScoreInv
<1> QED BY <1>2, <1>3, <1>5, <1>6, <1>7, <1>8, TaskGoesOn DEF SyncInv

\* _lookup_enrichment
LEMMA LookUpKeeps == ASSUME InventoryInv, NEW s \in Scanners, LookUp(s) PROVE InventoryInv'
<1> USE SyncFacts
<1>0. Fields(tx[s])
  BY DEF TaskShape
<1>1. PICK c \in tx[s].todo :
        Go(s, [tx[s] EXCEPT !.stage = "looked", !.aim = <<s, c>>, !.look = feed[c],
                            !.todo = @ \ {c}, !.looked = @ \cup {<<s, c>>}])
  BY DEF LookUp
<1>2. PICK m : m = [tx[s] EXCEPT !.stage = "looked", !.aim = <<s, c>>, !.look = feed[c],
                                  !.todo = @ \ {c}, !.looked = @ \cup {<<s, c>>}]
  OBVIOUS
<1>3. tx[s].stage = "items" /\ tx' = [tx EXCEPT ![s] = m] /\ UNCHANGED <<db, feed, raced, unseen, begun>>
  BY <1>1, <1>2 DEF LookUp, Go
<1>4. /\ m.stage = "looked" /\ m.aim = <<s, c>> /\ m.look = feed[c] /\ m.todo = tx[s].todo \ {c}
      /\ m.looked = tx[s].looked \cup {<<s, c>>} /\ m.early = tx[s].early /\ m.mine = tx[s].mine
      /\ m.alone = tx[s].alone /\ m.unseen = tx[s].unseen
      /\ Fields(m)
  BY ONLY <1>2, <1>0 DEF Fields
<1>5. c \in Cves /\ tx[s].todo \subseteq Cves /\ <<s, c>> \in Findings /\ feed[c] \in Entries /\ DOMAIN tx[s].mine \cap Findings \subseteq tx[s].looked
  BY <1>1, <1>3, KeysApart DEF LookInv
<1>6. TaskShape(m)
  BY <1>4, <1>5 DEF TaskShape, Stages
<1>7. LookInv(m, db, feed)
  <2>1. m.aim[2] = c
    BY <1>4
  <2>2. ASSUME NEW k \in m.looked PROVE k \in DOMAIN m.mine \/ (m.stage = "looked" /\ k = m.aim)
    BY <1>3, <1>4, <2>2 DEF LookInv
  <2>3. ASSUME NEW k \in DOMAIN m.mine, k \in m.looked /\ k \notin m.early PROVE Tells(m.mine[k], feed[k[2]])
    <3>1. k \in Findings
      BY <2>3, <1>6 DEF TaskShape
    <3> QED BY <1>4, <1>5, <2>3, <3>1 DEF LookInv
  <2>4. ASSUME NEW k \in DOMAIN m.mine, k \in Findings /\ k \notin m.looked
        PROVE  m.mine[k].there = db[k].there /\ m.mine[k].open = db[k].open /\ m.mine[k].kev = db[k].kev /\ m.mine[k].epss = db[k].epss
    BY <1>4, <2>4 DEF LookInv
  <2>5. m.todo \subseteq Cves /\ DOMAIN m.mine \cap Findings \subseteq m.looked /\ m.aim \in m.looked /\ m.look \in Entries
        /\ (m.aim \notin m.early => m.look = feed[m.aim[2]])
    BY <1>4, <1>5, <2>1
  <2> QED BY <2>2, <2>3, <2>4, <2>5 DEF LookInv
<1>8. CountInv(m, db) /\ ScoreInv(m, db)
  BY <1>3, <1>4 DEF CountInv, ScoreInv
<1> QED BY <1>3, <1>4, <1>6, <1>7, <1>8, TaskGoesOn DEF SyncInv

\* _upsert_vulnerability
LEMMA UpsertKeeps == ASSUME InventoryInv, NEW s \in Scanners, Upsert(s) PROVE InventoryInv'
<1> USE SyncFacts
<1>0. Fields(tx[s])
  BY DEF TaskShape
<1> DEFINE old == View(s)[tx[s].aim]
           v == [there |-> TRUE, open |-> IF old.there THEN old.open ELSE TRUE,
                 kev |-> tx[s].look.kev, epss |-> tx[s].look.epss, score |-> old.score]
           a == tx[s].aim
<1>1. PICK m : m = [[tx[s] EXCEPT !.stage = "items"] EXCEPT !.mine = WithRow(@, a, v)]
  OBVIOUS
<1>2. /\ tx[s].stage = "looked" /\ Free(s, a) /\ tx' = [tx EXCEPT ![s] = m] /\ UNCHANGED <<db, feed, raced, unseen, begun>>
  BY <1>1 DEF Upsert, Write
<1>3. /\ a \in tx[s].looked /\ tx[s].look \in Entries /\ (a \notin tx[s].early => tx[s].look = feed[a[2]])
      /\ a \in Findings /\ a \in Keys
  BY <1>2, KeysApart DEF LookInv, TaskShape
<1>4. v \in FindingRow
  <2>1. old \in FindingRow
    BY <1>3, RowKinds
  <2> HIDE DEF old
  <2> QED BY <1>3, <2>1 DEF FindingRow, Entries
<1>5. Fits(a, v)
  <2> HIDE DEF v, a
  <2> QED BY <1>3, <1>4, KeysApart DEF Fits
<1>6. v.kev = tx[s].look.kev /\ v.epss = tx[s].look.epss
  OBVIOUS
<1> HIDE DEF v, a
<1>7. /\ m.stage = "items" /\ m.todo = tx[s].todo /\ m.looked = tx[s].looked /\ m.early = tx[s].early
      /\ m.alone = tx[s].alone /\ m.unseen = tx[s].unseen
      /\ m.mine = WithRow(tx[s].mine, a, v)
      /\ Fields(m)
  BY ONLY <1>1, <1>0 DEF Fields
<1>8. /\ DOMAIN m.mine = DOMAIN tx[s].mine \cup {a} /\ m.mine[a] = v
      /\ (\A x \in DOMAIN tx[s].mine : x # a => m.mine[x] = tx[s].mine[x])
      /\ \A x \in DOMAIN m.mine : Fits(x, m.mine[x])
  <2>1. Wrote(tx[s], m, db, a, v)
    BY <1>3, <1>7 DEF Wrote
  <2> QED BY <1>5, <2>1, WrittenSight
<1>9. TaskShape(m)
  BY <1>3, <1>7, <1>8 DEF TaskShape, Stages
<1>10. LookInv(m, db, feed)
  <2>1. m.todo \subseteq Cves /\ DOMAIN m.mine \cap Findings \subseteq m.looked
    BY <1>2, <1>3, <1>7, <1>8 DEF LookInv
  <2>2. \A k \in m.looked : k \in DOMAIN m.mine
    BY <1>2, <1>7, <1>8 DEF LookInv, a
  <2>3. ASSUME NEW k \in DOMAIN m.mine, k \in m.looked, k \notin m.early PROVE Tells(m.mine[k], feed[k[2]])
    <3>1. CASE k = a
      BY <1>3, <1>6, <1>7, <1>8, <2>3, <3>1 DEF Tells
    <3>2. CASE k # a
      BY <1>7, <1>8, <2>3, <3>2 DEF LookInv
    <3> QED BY <3>1, <3>2
  <2> QED BY <1>7, <2>1, <2>2, <2>3 DEF LookInv
<1>11. CountInv(m, db) /\ ScoreInv(m, db)
  BY <1>2, <1>3, <1>7, <1>8, KeysApart DEF CountInv, ScoreInv
<1> QED BY <1>2, <1>7, <1>8, <1>9, <1>10, <1>11, TaskGoesOn DEF SyncInv

LEMMA ItemsDoneKeeps == ASSUME InventoryInv, NEW s \in Scanners, ItemsDone(s) PROVE InventoryInv'
<1> USE SyncFacts
<1>0. Fields(tx[s])
  BY DEF TaskShape
<1>1. PICK m : m = [tx[s] EXCEPT !.stage = "correlate"]
  OBVIOUS
<1>2. tx[s].stage = "items" /\ tx' = [tx EXCEPT ![s] = m] /\ UNCHANGED <<db, feed, raced, unseen, begun>>
  BY <1>1 DEF ItemsDone, Go
<1>3. /\ m.stage = "correlate" /\ m.looked = tx[s].looked /\ m.early = tx[s].early /\ m.mine = tx[s].mine
      /\ m.alone = tx[s].alone /\ m.unseen = tx[s].unseen
      /\ Fields(m)
  BY ONLY <1>1, <1>0 DEF Fields
<1>4. TaskShape(m)
  BY <1>3 DEF TaskShape, Stages
<1>5. LookInv(m, db, feed) /\ CountInv(m, db) /\ ScoreInv(m, db)
  BY <1>2, <1>3 DEF LookInv, CountInv, ScoreInv
<1> QED BY <1>2, <1>3, <1>4, <1>5, TaskGoesOn DEF SyncInv
\* run_correlations: what it counts is what it sees.
LEMMA CorrelationReadsKeeps == ASSUME InventoryInv, NEW s \in Scanners, CorrelationReads(s) PROVE InventoryInv'
<1> USE SyncFacts
<1>0. Fields(tx[s])
  BY DEF TaskShape
<1> DEFINE V == View(s)
           counts == [c \in Cves |-> Cardinality(OpenIn(V, c))]
           left == {c \in Cves : counts[c] >= 2 \/ V[CorrelationOf(c)] # 0}
<1>1. PICK m : m = [tx[s] EXCEPT !.stage = "correlating", !.plan = counts, !.unseen = {}, !.todo = left]
  OBVIOUS
<1>2. tx[s].stage = "correlate" /\ tx' = [tx EXCEPT ![s] = m] /\ UNCHANGED <<db, feed, raced, unseen, begun>>
  BY <1>1 DEF CorrelationReads, Go
<1>3. /\ m.stage = "correlating" /\ m.plan = counts /\ m.unseen = {} /\ m.todo = left
      /\ m.looked = tx[s].looked /\ m.early = tx[s].early /\ m.mine = tx[s].mine /\ m.alone = tx[s].alone
      /\ Fields(m)
  BY ONLY <1>1, <1>0 DEF Fields
<1>4. TaskShape(m)
  <2> HIDE DEF left, counts
  <2> QED BY <1>3 DEF TaskShape, Stages
<1>5. Sight(m, db) = V
  BY <1>3 DEF Sight
<1>6. CountInv(m, db)
  <2>1. \A c \in Cves : counts[c] = Cardinality(OpenIn(V, c)) /\ counts[c] \in 0 .. Cardinality(Scanners)
    BY CountsBounded
  <2>2. m.plan \in [Cves -> 0 .. Cardinality(Scanners)] /\ m.todo \subseteq Cves
    BY <1>3, CountsBounded
  <2>3. ASSUME NEW c \in Cves, c \notin m.todo PROVE V[CorrelationOf(c)] = CountFor(m.plan[c])
    <3>1. V[CorrelationOf(c)] = 0 /\ ~(counts[c] >= 2)
      BY <1>3, <2>3
    <3> QED BY <1>3, <3>1 DEF CountFor
  <2> HIDE DEF V, counts, left
  <2> QED BY <1>3, <1>5, <2>1, <2>2, <2>3 DEF CountInv
<1>7. LookInv(m, db, feed) /\ ScoreInv(m, db)
  <2> HIDE DEF left, counts
  <2> QED BY <1>2, <1>3 DEF LookInv, ScoreInv
<1> HIDE DEF left, counts
<1> QED BY <1>2, <1>3, <1>4, <1>6, <1>7, TaskGoesOn DEF SyncInv

\* One row is upserted or deleted.
LEMMA CorrelatesKeeps == ASSUME InventoryInv, NEW s \in Scanners, Correlates(s) PROVE InventoryInv'
<1> USE SyncFacts
<1>0. Fields(tx[s])
  BY DEF TaskShape
<1>1. PICK c \in tx[s].todo :
        Write(s, CorrelationOf(c), IF tx[s].plan[c] >= 2 THEN tx[s].plan[c] ELSE 0,
               [tx[s] EXCEPT !.todo = @ \ {c}])
  BY DEF Correlates
<1> DEFINE a == CorrelationOf(c)
           v == IF tx[s].plan[c] >= 2 THEN tx[s].plan[c] ELSE 0
<1>2. PICK m : m = [[tx[s] EXCEPT !.todo = @ \ {c}] EXCEPT !.mine = WithRow(@, a, v)]
  OBVIOUS
<1>3. /\ tx[s].stage = "correlating" /\ Free(s, a) /\ tx' = [tx EXCEPT ![s] = m] /\ UNCHANGED <<db, feed, raced, unseen, begun>>
  BY <1>1, <1>2 DEF Correlates, Write
<1>4. /\ tx[s].plan \in [Cves -> 0 .. Cardinality(Scanners)] /\ tx[s].todo \subseteq Cves
      /\ \A d \in Cves \ tx[s].unseen :
           /\ tx[s].plan[d] = Cardinality(OpenIn(View(s), d))
           /\ d \notin tx[s].todo => View(s)[CorrelationOf(d)] = CountFor(tx[s].plan[d])
  BY <1>3 DEF CountInv
<1>5. c \in Cves /\ a \in Keys /\ a \notin Findings /\ v = CountFor(tx[s].plan[c])
  BY <1>1, <1>4, KeysApart DEF CountFor
<1>6. Fits(a, v)
  <2>1. tx[s].plan[c] \in 0 .. Cardinality(Scanners) /\ Cardinality(Scanners) \in Nat
    BY <1>4, <1>5, CountsBounded
  <2>2. v \in SourceCounts
    BY <2>1 DEF SourceCounts
  <2> HIDE DEF v
  <2> QED BY <1>5, <2>2, KeysApart DEF Fits
<1> HIDE DEF v
<1>7. /\ m.stage = tx[s].stage /\ m.todo = tx[s].todo \ {c} /\ m.plan = tx[s].plan
      /\ m.looked = tx[s].looked /\ m.early = tx[s].early
      /\ m.alone = tx[s].alone /\ m.unseen = tx[s].unseen
      /\ m.mine = WithRow(tx[s].mine, a, v)
      /\ Fields(m)
  BY ONLY <1>2, <1>0 DEF Fields
<1>8. /\ Sight(m, db)[a] = v /\ (\A x \in Keys : x # a => Sight(m, db)[x] = Sight(tx[s], db)[x])
      /\ DOMAIN m.mine = DOMAIN tx[s].mine \cup {a}
      /\ (\A x \in DOMAIN tx[s].mine : x # a => m.mine[x] = tx[s].mine[x])
      /\ \A x \in DOMAIN m.mine : Fits(x, m.mine[x])
  <2>1. Wrote(tx[s], m, db, a, v)
    BY <1>5, <1>7 DEF Wrote
  <2> QED BY <1>6, <2>1, WrittenSight
<1>9. TaskShape(m)
  BY <1>3, <1>5, <1>7, <1>8 DEF TaskShape, Stages
<1>10. LookInv(m, db, feed)
  BY <1>3, <1>5, <1>7, <1>8 DEF LookInv, TaskShape
<1>11. \A d \in Cves : OpenIn(Sight(m, db), d) = OpenIn(View(s), d)
  BY <1>5, <1>8, SameFindings, KeysApart
<1>12. CountInv(m, db)
  <2>1. ASSUME NEW d \in Cves \ m.unseen
        PROVE  /\ m.plan[d] = Cardinality(OpenIn(Sight(m, db), d))
               /\ d \notin m.todo => Sight(m, db)[CorrelationOf(d)] = CountFor(m.plan[d])
    <3>1. m.plan[d] = Cardinality(OpenIn(Sight(m, db), d))
      BY <1>4, <1>7, <1>11, <2>1
    <3>2. CASE d = c
      BY <1>5, <1>7, <1>8, <3>1, <3>2
    <3>3. CASE d # c
      <4>1. CorrelationOf(d) # a /\ CorrelationOf(d) \in Keys
        BY <1>5, <2>1, <3>3, KeysApart
      <4> QED BY <1>4, <1>7, <1>8, <2>1, <3>1, <3>3, <4>1
    <3> QED BY <3>2, <3>3
  <2> QED BY <1>3, <1>4, <1>7, <2>1 DEF CountInv
<1>13. ScoreInv(m, db)
  BY <1>3, <1>7 DEF ScoreInv
<1> QED BY <1>3, <1>7, <1>8, <1>9, <1>10, <1>12, <1>13, TaskGoesOn DEF SyncInv

\* compute_risk_scores
LEMMA AssetsScoredKeeps == ASSUME InventoryInv, NEW s \in Scanners, AssetsScored(s) PROVE InventoryInv'
<1> USE SyncFacts
<1>0. Fields(tx[s])
  BY DEF TaskShape
<1>1. PICK m : m = [[tx[s] EXCEPT !.stage = "score"] EXCEPT
                      !.mine = WithRow(@, Asset, View(s)[Asset])]
  OBVIOUS
<1>2. /\ tx[s].stage = "correlating" /\ tx[s].todo = {} /\ Free(s, Asset) /\ tx' = [tx EXCEPT ![s] = m]
      /\ UNCHANGED <<db, feed, raced, unseen, begun>>
  BY <1>1 DEF AssetsScored, Write
<1>3. /\ m.stage = "score" /\ m.looked = tx[s].looked /\ m.early = tx[s].early
      /\ m.alone = tx[s].alone /\ m.unseen = tx[s].unseen
      /\ m.mine = WithRow(tx[s].mine, Asset, View(s)[Asset])
      /\ Fields(m)
  BY ONLY <1>1, <1>0 DEF Fields
<1>4. Fits(Asset, View(s)[Asset]) /\ Asset \in Keys /\ Asset \notin Findings
  BY KeysApart DEF RowsSound
<1>5. /\ Sight(m, db)[Asset] = View(s)[Asset] /\ (\A x \in Keys : x # Asset => Sight(m, db)[x] = Sight(tx[s], db)[x])
      /\ DOMAIN m.mine = DOMAIN tx[s].mine \cup {Asset} /\ (\A x \in DOMAIN tx[s].mine : x # Asset => m.mine[x] = tx[s].mine[x])
      /\ \A x \in DOMAIN m.mine : Fits(x, m.mine[x])
  <2>1. Wrote(tx[s], m, db, Asset, View(s)[Asset])
    BY <1>3, <1>4 DEF Wrote
  <2> QED BY <1>4, <2>1, WrittenSight
<1>6. TaskShape(m)
  BY <1>3, <1>4, <1>5 DEF TaskShape, Stages
<1>7. LookInv(m, db, feed)
  BY <1>2, <1>3, <1>4, <1>5 DEF LookInv, TaskShape
<1>8. \A d \in Cves : OpenIn(Sight(m, db), d) = OpenIn(View(s), d)
  BY <1>4, <1>5, SameFindings, KeysApart
<1>9. ASSUME NEW c \in Cves \ m.unseen PROVE Truthful(Sight(m, db), c)
  <2>1. /\ tx[s].plan[c] = Cardinality(OpenIn(View(s), c))
        /\ View(s)[CorrelationOf(c)] = CountFor(tx[s].plan[c])
    BY <1>2, <1>3, <1>9 DEF CountInv
  <2>2. Sight(m, db)[CorrelationOf(c)] = View(s)[CorrelationOf(c)]
    BY <1>5, <1>9, KeysApart
  <2> QED BY <1>8, <1>9, <2>1, <2>2 DEF Truthful
<1>10. CountInv(m, db) /\ ScoreInv(m, db)
  BY <1>3, <1>9 DEF CountInv, ScoreInv
<1> QED BY <1>2, <1>3, <1>5, <1>6, <1>7, <1>10, TaskGoesOn DEF SyncInv

\* compute_finding_risk_scores: everything is read,
LEMMA ScoresReadKeeps == ASSUME InventoryInv, NEW s \in Scanners, ScoresRead(s) PROVE InventoryInv'
<1> USE SyncFacts
<1>0. Fields(tx[s])
  BY DEF TaskShape
<1> DEFINE V == View(s)
           open == OpenFindings(V)
           plan == [k \in open |-> ScoreIn(V, k[1], k[2])]
<1>1. PICK m : m = [tx[s] EXCEPT !.stage = "scoring", !.todo = open, !.plan = plan]
  OBVIOUS
<1>2. tx[s].stage = "score" /\ tx' = [tx EXCEPT ![s] = m] /\ UNCHANGED <<db, feed, raced, unseen, begun>>
  BY <1>1 DEF ScoresRead, Go
<1>3. /\ m.stage = "scoring" /\ m.plan = plan /\ m.unseen = tx[s].unseen /\ m.todo = open
      /\ m.looked = tx[s].looked /\ m.early = tx[s].early /\ m.mine = tx[s].mine /\ m.alone = tx[s].alone
      /\ Fields(m)
  BY ONLY <1>1, <1>0 DEF Fields
<1>4. Sight(m, db) = V
  BY <1>3 DEF Sight
<1>5. open \subseteq Findings
  BY DEF OpenFindings
<1>6. \A k \in open : plan[k] = ScoreIn(V, k[1], k[2]) /\ plan[k] \in 0 .. 100
  BY <1>5, ScoresFit
<1> HIDE DEF V, open, plan
<1>7. TaskShape(m)
  BY <1>3 DEF TaskShape, Stages
<1>8. ScoreInv(m, db)
  BY <1>3, <1>4, <1>5, <1>6 DEF ScoreInv, open
<1>9. LookInv(m, db, feed) /\ CountInv(m, db)
  BY <1>2, <1>3, <1>4 DEF LookInv, CountInv, V
<1> QED BY <1>2, <1>3, <1>7, <1>8, <1>9, TaskGoesOn DEF SyncInv
\* ... then written row by row: a score changes nothing the passes read.
LEMMA ScoreWrittenKeeps == ASSUME InventoryInv, NEW s \in Scanners, ScoreWritten(s) PROVE InventoryInv'
<1> USE SyncFacts
<1>0. Fields(tx[s])
  BY DEF TaskShape
<1>1. PICK k \in tx[s].todo : Write(s, k, [View(s)[k] EXCEPT !.score = tx[s].plan[k]], [tx[s] EXCEPT !.todo = @ \ {k}])
  BY DEF ScoreWritten
<1>2. PICK v : v = [View(s)[k] EXCEPT !.score = tx[s].plan[k]]
  OBVIOUS
<1>3. PICK m : m = [[tx[s] EXCEPT !.todo = @ \ {k}] EXCEPT !.mine = WithRow(@, k, v)]
  OBVIOUS
<1>4. /\ tx[s].stage = "scoring" /\ Free(s, k) /\ tx' = [tx EXCEPT ![s] = m] /\ UNCHANGED <<db, feed, raced, unseen, begun>>
  BY <1>1, <1>2, <1>3 DEF ScoreWritten, Write
<1>5. k \in Findings /\ k \in Keys /\ tx[s].plan[k] \in 0 .. 100 /\ tx[s].todo \subseteq Findings
  BY <1>1, <1>4, KeysApart DEF ScoreInv
<1>6. /\ v \in FindingRow /\ v.there = View(s)[k].there /\ v.open = View(s)[k].open /\ v.kev = View(s)[k].kev
      /\ v.epss = View(s)[k].epss /\ v.score = tx[s].plan[k]
  <2>1. View(s)[k] \in FindingRow
    BY <1>5, RowKinds
  <2> QED BY <1>2, <1>5, <2>1 DEF FindingRow
<1>7. Fits(k, v)
  BY <1>5, <1>6, KeysApart DEF Fits
<1>8. /\ m.stage = "scoring" /\ m.todo = tx[s].todo \ {k} /\ m.plan = tx[s].plan
      /\ m.looked = tx[s].looked /\ m.early = tx[s].early
      /\ m.alone = tx[s].alone /\ m.unseen = tx[s].unseen
      /\ m.mine = WithRow(tx[s].mine, k, v)
      /\ Fields(m)
  BY ONLY <1>3, <1>4, <1>0 DEF Fields
<1> DEFINE V == View(s)
           W == Sight(m, db)
<1>9. /\ W[k] = v /\ (\A x \in Keys : x # k => W[x] = V[x])
      /\ DOMAIN m.mine = DOMAIN tx[s].mine \cup {k} /\ m.mine[k] = v
      /\ (\A x \in DOMAIN tx[s].mine : x # k => m.mine[x] = tx[s].mine[x])
      /\ \A x \in DOMAIN m.mine : Fits(x, m.mine[x])
  <2>1. Wrote(tx[s], m, db, k, v)
    BY <1>5, <1>8 DEF Wrote
  <2> QED BY <1>7, <2>1, WrittenSight
<1>10. \A x \in Findings : /\ W[x].there = V[x].there /\ W[x].open = V[x].open
                           /\ W[x].kev = V[x].kev /\ W[x].epss = V[x].epss
  BY <1>6, <1>9, KeysApart
<1>11. W[Asset] = V[Asset] /\ \A c \in Cves : W[CorrelationOf(c)] = V[CorrelationOf(c)]
  BY <1>5, <1>9, KeysApart
<1>12. V = Sight(tx[s], db)
  OBVIOUS
<1> HIDE DEF V, W
<1>13. OpenFindings(W) = OpenFindings(V) /\ \A c \in Cves : OpenIn(W, c) = OpenIn(V, c)
  BY <1>10, SameFindings
<1>14. TaskShape(m)
  BY <1>5, <1>8, <1>9 DEF TaskShape, Stages
<1>15. LookInv(m, db, feed)
  <2>1. ASSUME NEW x \in DOMAIN m.mine, x \in m.looked, x \notin m.early PROVE Tells(m.mine[x], feed[x[2]])
    <3>1. x \in DOMAIN tx[s].mine /\ Tells(tx[s].mine[x], feed[x[2]])
      BY <1>4, <1>8, <2>1 DEF LookInv
    <3>2. CASE x = k
      <4>1. V[k] = tx[s].mine[k]
        BY <1>5, <1>12, <3>1, <3>2, SightAt DEF TaskShape, RowsSound
      <4> QED BY <1>6, <1>9, <3>1, <3>2, <4>1 DEF Tells, V
    <3>3. CASE x # k
      BY <1>9, <3>1, <3>3
    <3> QED BY <3>2, <3>3
  <2>2. ASSUME NEW x \in DOMAIN m.mine, x \in Findings, x \notin m.looked
        PROVE  m.mine[x].there = db[x].there /\ m.mine[x].open = db[x].open /\ m.mine[x].kev = db[x].kev /\ m.mine[x].epss = db[x].epss
    <3>1. CASE x = k
      <4>1. V[k] = IF k \in DOMAIN tx[s].mine THEN tx[s].mine[k] ELSE db[k]
        BY <1>5, <1>12, SightAt DEF TaskShape, RowsSound
      <4>2. V[k].there = db[k].there /\ V[k].open = db[k].open /\ V[k].kev = db[k].kev /\ V[k].epss = db[k].epss
        <5>1. CASE k \in DOMAIN tx[s].mine
          BY <1>8, <2>2, <3>1, <4>1, <5>1 DEF LookInv
        <5>2. CASE k \notin DOMAIN tx[s].mine
          BY <4>1, <5>2
        <5> QED BY <5>1, <5>2
      <4> QED BY <1>6, <1>9, <3>1, <4>2 DEF V
    <3>2. CASE x # k
      BY <1>8, <1>9, <2>2, <3>2 DEF LookInv
    <3> QED BY <3>1, <3>2
  <2>3. \A x \in m.looked : x \in DOMAIN m.mine
    BY <1>4, <1>8, <1>9 DEF LookInv
  <2> QED BY <1>8, <2>1, <2>2, <2>3 DEF LookInv
<1>16. CountInv(m, db)
  <2>1. ASSUME NEW c \in Cves \ m.unseen PROVE Truthful(W, c)
    <3>1. Truthful(V, c)
      BY <1>4, <1>8, <1>12, <2>1 DEF CountInv
    <3> QED BY <1>11, <1>13, <2>1, <3>1 DEF Truthful
  <2> QED BY <1>8, <2>1 DEF CountInv, W
<1>17. ScoreInv(m, db)
  <2>1. m.todo \subseteq Findings /\ \A x \in m.todo : m.plan[x] \in 0 .. 100
    BY <1>4, <1>8 DEF ScoreInv
  <2>2. ASSUME m.alone, NEW x \in OpenFindings(W)
        PROVE  m.plan[x] = ScoreIn(W, x[1], x[2]) /\ (x \notin m.todo => W[x].score = m.plan[x])
    <3>1. x \in OpenFindings(V) /\ x \in Findings
      BY <1>13, <2>2 DEF OpenFindings
    <3>2. tx[s].plan[x] = ScoreIn(V, x[1], x[2]) /\ (x \notin tx[s].todo => V[x].score = tx[s].plan[x])
      BY <1>4, <1>8, <1>12, <2>2, <3>1 DEF ScoreInv
    <3>3. ScoreIn(W, x[1], x[2]) = ScoreIn(V, x[1], x[2])
      <4>1. x[2] \in Cves
        BY <3>1, KeysApart
      <4> QED BY <1>10, <1>11, <3>1, <4>1, SameScore
    <3>4. CASE x = k
      BY <1>6, <1>8, <1>9, <3>2, <3>3, <3>4
    <3>5. CASE x # k
      <4>1. W[x] = V[x]
        BY <1>9, <3>1, <3>5, KeysApart
      <4> QED BY <1>8, <3>2, <3>3, <3>5, <4>1
    <3> QED BY <3>4, <3>5
  <2> QED BY <1>8, <2>1, <2>2 DEF ScoreInv, W
<1> QED BY <1>4, <1>8, <1>9, <1>14, <1>15, <1>16, <1>17, TaskGoesOn DEF SyncInv

\* The asset takes the highest of the scores the transaction sees.
LEMMA RolledUpKeeps == ASSUME InventoryInv, NEW s \in Scanners, RolledUp(s) PROVE InventoryInv'
<1> USE SyncFacts
<1>0. Fields(tx[s])
  BY DEF TaskShape
<1>1. PICK v : v = [View(s)[Asset] EXCEPT !.rollup = Highest(View(s))]
  OBVIOUS
<1>2. PICK m : m = [[tx[s] EXCEPT !.stage = "done"] EXCEPT !.mine = WithRow(@, Asset, v)]
  OBVIOUS
<1>3. /\ tx[s].stage = "scoring" /\ tx[s].todo = {} /\ Free(s, Asset) /\ tx' = [tx EXCEPT ![s] = m]
      /\ UNCHANGED <<db, feed, raced, unseen, begun>>
  BY <1>1, <1>2 DEF RolledUp, Write
<1>4. v \in AssetRow /\ v.rollup = Highest(View(s)) /\ v.criticality = View(s)[Asset].criticality
  <2>1. View(s)[Asset] \in AssetRow /\ Highest(View(s)) \in 0 .. 100 \cup {NoSignal}
    BY RowKinds, HighestFits
  <2> QED BY <1>1, <2>1 DEF AssetRow
<1>5. Fits(Asset, v) /\ Asset \in Keys /\ Asset \notin Findings
  BY <1>4, KeysApart DEF Fits
<1>6. /\ m.stage = "done" /\ m.looked = tx[s].looked /\ m.early = tx[s].early
      /\ m.alone = tx[s].alone /\ m.unseen = tx[s].unseen
      /\ m.mine = WithRow(tx[s].mine, Asset, v)
      /\ Fields(m)
  BY ONLY <1>2, <1>0 DEF Fields
<1> DEFINE V == View(s)
           W == Sight(m, db)
<1>7. /\ W[Asset] = v /\ (\A x \in Keys : x # Asset => W[x] = V[x])
      /\ DOMAIN m.mine = DOMAIN tx[s].mine \cup {Asset}
      /\ (\A x \in DOMAIN tx[s].mine : x # Asset => m.mine[x] = tx[s].mine[x])
      /\ \A x \in DOMAIN m.mine : Fits(x, m.mine[x])
  <2>1. Wrote(tx[s], m, db, Asset, v)
    BY <1>5, <1>6 DEF Wrote
  <2> QED BY <1>5, <2>1, WrittenSight
<1>8. (\A x \in Findings : W[x] = V[x]) /\ \A c \in Cves : W[CorrelationOf(c)] = V[CorrelationOf(c)]
  BY <1>7, KeysApart
<1>9. V = Sight(tx[s], db)
  OBVIOUS
<1>10. W[Asset].rollup = Highest(V) /\ W[Asset].criticality = V[Asset].criticality
  BY <1>4, <1>7
<1> HIDE DEF V, W
<1>11. OpenFindings(W) = OpenFindings(V) /\ \A c \in Cves : OpenIn(W, c) = OpenIn(V, c)
  BY <1>8, SameFindings
<1>12. TaskShape(m)
  BY <1>5, <1>6, <1>7 DEF TaskShape, Stages
<1>13. LookInv(m, db, feed)
  BY <1>3, <1>5, <1>6, <1>7 DEF LookInv, TaskShape
<1>14. CountInv(m, db)
  <2>1. ASSUME NEW c \in Cves \ m.unseen PROVE Truthful(W, c)
    <3>1. Truthful(V, c)
      BY <1>3, <1>6, <1>9, <2>1 DEF CountInv
    <3> QED BY <1>8, <1>11, <2>1, <3>1 DEF Truthful
  <2> QED BY <1>6, <2>1 DEF CountInv, W
<1>15. ScoreInv(m, db)
  <2>1. ASSUME m.alone PROVE SettledIn(W)
    <3>1. ASSUME NEW x \in OpenFindings(W) PROVE W[x].score = ScoreIn(W, x[1], x[2])
      <4>1. x \in OpenFindings(V) /\ x \in Findings
        BY <1>11, <3>1 DEF OpenFindings
      <4>2. V[x].score = ScoreIn(V, x[1], x[2])
        BY <1>3, <1>6, <1>9, <2>1, <4>1 DEF ScoreInv
      <4>3. x[2] \in Cves
        BY <4>1, KeysApart
      <4>4. ScoreIn(W, x[1], x[2]) = ScoreIn(V, x[1], x[2])
        BY <1>8, <1>10, <4>1, <4>3, SameScore
      <4> QED BY <1>8, <4>1, <4>2, <4>4
    <3>2. Highest(W) = Highest(V)
      <4>1. {W[k].score : k \in OpenFindings(W)} = {V[k].score : k \in OpenFindings(V)}
        BY <1>8, <1>11 DEF OpenFindings
      <4> QED BY <1>11, <4>1 DEF Highest
    <3> QED BY <1>10, <3>1, <3>2 DEF SettledIn
  <2> QED BY <1>6, <2>1 DEF ScoreInv, W
<1> QED BY <1>3, <1>6, <1>7, <1>12, <1>13, <1>14, <1>15, TaskGoesOn DEF SyncInv

LEMMA IdleSound ==
    /\ TaskShape(Idle) /\ DOMAIN Idle.mine = {} /\ Idle.alone = FALSE /\ Idle.stage = "idle" /\ Idle.unseen = {}
    /\ Fields(Idle) /\ Idle.looked = {} /\ Idle.early = {}
    /\ \A D, F : SyncInv(Idle, D, F) /\ FeedInv(Idle, D)
<1>1. /\ DOMAIN Idle.mine = {} /\ Idle.alone = FALSE /\ Idle.stage = "idle" /\ Idle.unseen = {} /\ Idle.looked = {} /\ Idle.early = {}
  BY DEF Idle
<1>2. Fields(Idle)
  BY DEF Idle, Fields
<1>3. TaskShape(Idle)
  BY <1>1, <1>2 DEF TaskShape, Stages
<1>4. ASSUME NEW D, NEW F PROVE SyncInv(Idle, D, F) /\ FeedInv(Idle, D)
  BY <1>1 DEF SyncInv, LookInv, CountInv, ScoreInv, FeedInv
<1> QED BY <1>1, <1>2, <1>3, <1>4

LEMMA RollsBackKeeps == ASSUME InventoryInv, NEW t \in Parties, RollsBack(t) PROVE InventoryInv'
<1>1. PICK m : m = Idle
  OBVIOUS
<1>2. tx[t].stage # "idle" /\ tx' = [tx EXCEPT ![t] = m] /\ UNCHANGED <<db, feed, raced, unseen, begun>>
  BY <1>1 DEF RollsBack
<1> QED BY <1>1, <1>2, IdleSound, TaskGoesOn

LEMMA FeedFacts ==
    ASSUME InventoryInv
    PROVE  /\ Feeds \in Parties /\ Feeds \notin Scanners /\ TaskShape(tx[Feeds]) /\ FeedInv(tx[Feeds], db)
           /\ RowsSound(db) /\ View(Feeds) = Sight(tx[Feeds], db) /\ RowsSound(View(Feeds)) /\ feed \in [Cves -> Entries]
<1>1. Feeds \in Parties /\ Feeds \notin Scanners /\ TaskShape(tx[Feeds]) /\ FeedInv(tx[Feeds], db) /\ RowsSound(db) /\ feed \in [Cves -> Entries]
  BY KeysApart DEF InventoryInv, StoreSound, TasksSound
<1>2. View(Feeds) = Sight(tx[Feeds], db)
  BY DEF View, Sight
<1> QED BY <1>1, <1>2, SightFits

\* repropagate_enrichment writes what the feeds say of a finding, and nothing else of it.
LEMMA RepropagateKeeps == ASSUME InventoryInv, Repropagate PROVE InventoryInv'
<1> USE FeedFacts
<1>0. Fields(tx[Feeds])
  BY DEF TaskShape
<1>1. PICK k \in tx[Feeds].todo :
         LET new == tx[Feeds].plan[k[2]]  old == View(Feeds)[k] IN
         Write(Feeds, k, [old EXCEPT !.kev = new.kev, !.epss = IF new.epss = NoSignal THEN @ ELSE new.epss],
               [tx[Feeds] EXCEPT !.todo = @ \ {k}])
  BY DEF Repropagate
<1> DEFINE new == tx[Feeds].plan[k[2]]
           old == View(Feeds)[k]
<1>2. PICK v : v = [old EXCEPT !.kev = new.kev, !.epss = IF new.epss = NoSignal THEN @ ELSE new.epss]
  OBVIOUS
<1>3. PICK m : m = [[tx[Feeds] EXCEPT !.todo = @ \ {k}] EXCEPT !.mine = WithRow(@, k, v)]
  OBVIOUS
<1>4. /\ tx[Feeds].stage = "repropagating" /\ Free(Feeds, k) /\ tx' = [tx EXCEPT ![Feeds] = m] /\ UNCHANGED <<db, feed, raced, unseen, begun>>
  BY <1>1, <1>2, <1>3 DEF Repropagate, Write
<1>5. k \in Findings /\ k \in Keys /\ k[2] \in Cves /\ new \in Entries /\ tx[Feeds].todo \subseteq Findings
  BY <1>1, <1>4, KeysApart DEF FeedInv
<1>6. old.there = db[k].there /\ old.open = db[k].open /\ old \in FindingRow
  <2>1. old = IF k \in DOMAIN tx[Feeds].mine THEN tx[Feeds].mine[k] ELSE db[k]
    BY <1>5, SightAt DEF TaskShape, RowsSound
  <2>2. old \in FindingRow
    BY <1>5, RowKinds
  <2> QED BY <1>4, <2>1, <2>2 DEF FeedInv
<1> HIDE DEF new, old
<1>7. v \in FindingRow /\ Tells(v, new) /\ v.there = db[k].there /\ v.open = db[k].open
  BY <1>2, <1>5, <1>6 DEF FindingRow, Entries, Tells
<1>8. Fits(k, v)
  BY <1>5, <1>7, KeysApart DEF Fits
<1>9. /\ m.stage = "repropagating" /\ m.todo = tx[Feeds].todo \ {k} /\ m.plan = tx[Feeds].plan
      /\ m.looked = tx[Feeds].looked /\ m.early = tx[Feeds].early
      /\ m.alone = tx[Feeds].alone /\ m.unseen = tx[Feeds].unseen
      /\ m.mine = WithRow(tx[Feeds].mine, k, v)
      /\ Fields(m)
  BY ONLY <1>3, <1>4, <1>0 DEF Fields
<1>10. /\ DOMAIN m.mine = DOMAIN tx[Feeds].mine \cup {k} /\ m.mine[k] = v
       /\ (\A x \in DOMAIN tx[Feeds].mine : x # k => m.mine[x] = tx[Feeds].mine[x])
       /\ \A x \in DOMAIN m.mine : Fits(x, m.mine[x])
  <2>1. Wrote(tx[Feeds], m, db, k, v)
    BY <1>5, <1>9 DEF Wrote
  <2> QED BY <1>8, <2>1, WrittenSight
<1>11. TaskShape(m)
  BY <1>5, <1>9, <1>10 DEF TaskShape, Stages
<1>12. FeedInv(m, db)
  <2>1. ASSUME NEW x \in DOMAIN m.mine
        PROVE  Tells(m.mine[x], m.plan[x[2]]) /\ m.mine[x].there = db[x].there /\ m.mine[x].open = db[x].open
    <3>1. CASE x = k
      BY <1>7, <1>9, <1>10, <3>1 DEF new
    <3>2. CASE x # k
      BY <1>4, <1>9, <1>10, <2>1, <3>2 DEF FeedInv
    <3> QED BY <3>1, <3>2
  <2> QED BY <1>4, <1>5, <1>9, <1>10, <2>1 DEF FeedInv
<1> QED BY <1>4, <1>9, <1>10, <1>11, <1>12, TaskGoesOn
-----------------------------------------------------------------------------
(* Steps that reach every transaction: one begins, commits, or a user edits   *)

\* m2 is the task m over other rows and feeds, told of what it missed.
Follows(m, m2, missed, D, E, F, G) ==
    /\ Fields(m2) /\ m2.stage = m.stage /\ m2.todo = m.todo /\ m2.aim = m.aim /\ m2.look = m.look /\ m2.plan = m.plan
    /\ m2.mine = m.mine /\ m2.looked = m.looked /\ m2.unseen = m.unseen \cup missed /\ m2.alone = FALSE
    /\ (m2.early = m.early /\ F = G) \/ m2.early = m.looked
    /\ missed \subseteq Cves
    /\ \A k \in DOMAIN m.mine : D[k] = E[k]
    /\ \A c \in Cves \ missed :
         /\ OpenIn(D, c) = OpenIn(E, c)
         /\ D[CorrelationOf(c)] = E[CorrelationOf(c)] \/ (m.stage = "correlating" /\ c \in m.todo)

\* The task of t is a new one, or nobody's; the others follow.
LEMMA TasksFollow ==
    ASSUME NEW T, NEW U, NEW D, NEW E, NEW F, NEW G, NEW t,
           RowsSound(D), RowsSound(E), TasksSound(T, D, F), U = [u \in Parties |-> U[u]],
           t \in Parties =>
             /\ TaskShape(U[t]) /\ DOMAIN U[t].mine = {}
             /\ U[t].alone => \A u \in Parties \ {t} : U[u].stage = "idle",
           t \in Scanners => SyncInv(U[t], E, G), t = Feeds => FeedInv(U[t], E),
           NEW missed, \A u \in Parties \ {t} : Follows(T[u], U[u], missed[u], D, E, F, G)
    PROVE  TasksSound(U, E, G)
<1>1. (\A u \in Parties : TaskShape(T[u])) /\ (\A s \in Scanners : SyncInv(T[s], D, F)) /\ FeedInv(T[Feeds], D)
      /\ (\A u \in Parties : \A w \in Parties \ {u} : DOMAIN T[u].mine \cap DOMAIN T[w].mine = {})
  BY DEF TasksSound
<1>2. ASSUME NEW u \in Parties \ {t} PROVE TaskShape(U[u])
  <2>1. TaskShape(T[u]) /\ Follows(T[u], U[u], missed[u], D, E, F, G)
    BY <1>1
  <2> QED BY <2>1 DEF TaskShape, Follows
<1>3. \A u \in Parties : TaskShape(U[u])
  BY <1>2
<1>4. ASSUME NEW s \in Scanners PROVE SyncInv(U[s], E, G)
  <2>1. s \in Parties
    BY KeysApart
  <2>2. CASE s = t
    BY <2>2
  <2>3. CASE s # t
    <3>1. TaskShape(T[s]) /\ TaskShape(U[s]) /\ SyncInv(T[s], D, F) /\ Follows(T[s], U[s], missed[s], D, E, F, G)
      BY <1>1, <1>3, <2>1, <2>3
    <3> DEFINE m == T[s]
               m2 == U[s]
               told == missed[s]
    <3>2. /\ TaskShape(m) /\ TaskShape(m2) /\ SyncInv(m, D, F) /\ told \in SUBSET Cves
          /\ m2.stage = m.stage /\ m2.todo = m.todo /\ m2.aim = m.aim /\ m2.look = m.look /\ m2.plan = m.plan
          /\ m2.mine = m.mine /\ m2.looked = m.looked /\ m2.unseen = m.unseen \cup told /\ ~m2.alone
          /\ (m2.early = m.early /\ F = G) \/ m2.early = m.looked
          /\ \A k \in DOMAIN m.mine : D[k] = E[k]
          /\ \A c \in Cves \ told : OpenIn(D, c) = OpenIn(E, c)
          /\ \A c \in Cves \ told :
               D[CorrelationOf(c)] = E[CorrelationOf(c)] \/ (m.stage = "correlating" /\ c \in m.todo)
      BY <3>1 DEF Follows
    <3> HIDE DEF m, m2, told
    <3>3. SyncInv(m2, E, G)
      BY <3>2, TaskOutlives
    <3> QED BY <3>3 DEF m2
  <2> QED BY <2>2, <2>3
<1>5. FeedInv(U[Feeds], E)
  <2>1. CASE Feeds = t
    BY <2>1
  <2>2. CASE Feeds # t
    <3>1. Follows(T[Feeds], U[Feeds], missed[Feeds], D, E, F, G)
      BY <2>2, KeysApart
    <3> QED BY <1>1, <3>1 DEF FeedInv, Follows
  <2> QED BY <2>1, <2>2
<1>6. \A u \in Parties \ {t} : U[u].mine = T[u].mine /\ ~U[u].alone
  BY DEF Follows
<1>7. ASSUME NEW u \in Parties, NEW w \in Parties \ {u} PROVE DOMAIN U[u].mine \cap DOMAIN U[w].mine = {}
  <2>1. CASE u = t
    BY <2>1
  <2>2. CASE w = t
    BY <2>2
  <2>3. CASE u # t /\ w # t
    <3>1. U[u].mine = T[u].mine /\ U[w].mine = T[w].mine
      BY <1>6, <2>3
    <3> QED BY <1>1, <3>1
  <2> QED BY <2>1, <2>2, <2>3
<1>8. ASSUME NEW u \in Parties, U[u].alone, NEW w \in Parties \ {u} PROVE U[w].stage = "idle"
  <2>1. u = t
    BY <1>6, <1>8
  <2> QED BY <1>8, <2>1
<1> QED BY <1>3, <1>4, <1>5, <1>7, <1>8 DEF TasksSound

\* A run_sync begins over no items, or some.
LEMMA BeginKeeps == ASSUME InventoryInv, NEW s \in Scanners, Begin(s) PROVE InventoryInv'
<1> USE SyncFacts
<1>1. PICK reported \in SUBSET Cves :
         tx' = [t \in Parties |->
           IF t = s THEN [Idle EXCEPT !.stage = "items", !.todo = reported,
                                      !.alone = \A u \in Parties : tx[u].stage = "idle"]
           ELSE [tx[t] EXCEPT !.alone = FALSE]]
  BY DEF Begin
<1>2. PICK m : m = [Idle EXCEPT !.stage = "items", !.todo = reported, !.alone = \A u \in Parties : tx[u].stage = "idle"]
  OBVIOUS
<1>3. UNCHANGED <<db, feed, raced, unseen>> /\ begun.syncs < MaxSyncs /\ begun' = [begun EXCEPT !.syncs = @ + 1]
  BY DEF Begin
<1>4. /\ m.stage = "items" /\ m.todo = reported /\ m.mine = Idle.mine /\ m.looked = {} /\ m.early = {} /\ m.unseen = {}
      /\ m.alone = (\A u \in Parties : tx[u].stage = "idle") /\ Fields(m)
  BY <1>2, IdleSound DEF Fields, Idle
<1>5. m.alone \in BOOLEAN
  BY <1>4
<1>6. TaskShape(m) /\ DOMAIN m.mine = {}
  BY <1>4, <1>5, IdleSound DEF TaskShape, Stages
<1>7. SyncInv(m, db, feed)
  BY <1>4, <1>6 DEF SyncInv, LookInv, CountInv, ScoreInv
<1>8. TasksSound(tx, db, feed)
  BY DEF InventoryInv
<1>9. PICK U : U = tx'
  OBVIOUS
<1>10. PICK missed : missed = [u \in Parties |-> {}]
  OBVIOUS
<1>11. U = [u \in Parties |-> U[u]] /\ U[s] = m /\ \A u \in Parties \ {s} : U[u] = [tx[u] EXCEPT !.alone = FALSE]
  BY <1>1, <1>2, <1>9
<1>12. ASSUME NEW u \in Parties \ {s} PROVE Follows(tx[u], U[u], missed[u], db, db, feed, feed)
  <2>1. Fields(tx[u]) /\ missed[u] = {}
    BY <1>8, <1>10 DEF TasksSound, TaskShape
  <2> QED BY <1>11, <2>1 DEF Follows, Fields
<1>13. U[s].alone => \A u \in Parties \ {s} : U[u].stage = "idle"
  <2>1. \A u \in Parties \ {s} : U[u].stage = tx[u].stage
    BY <1>12 DEF Follows
  <2> QED BY <1>4, <1>11, <2>1
<1>14. TasksSound(U, db, feed)
  BY <1>6, <1>7, <1>8, <1>11, <1>12, <1>13, TasksFollow
<1>15. BegunSound'
  BY <1>3, InventoryBounds DEF InventoryInv, BegunSound
<1> QED BY <1>3, <1>9, <1>14, <1>15 DEF InventoryInv

\* The feeds are replaced in a transaction of their own.
LEMMA SwapKeeps == ASSUME InventoryInv, Swap PROVE InventoryInv'
<1> USE FeedFacts
<1>1. PICK new \in [Cves -> Entries] :
         tx' = [t \in Parties |->
           IF t = Feeds THEN [Idle EXCEPT !.stage = "repropagating", !.plan = new,
                                          !.todo = {k \in Findings : db[k].there}]
           ELSE [tx[t] EXCEPT !.alone = FALSE]]
  BY DEF Swap
<1> DEFINE known == {k \in Findings : db[k].there}
<1>2. PICK m : m = [Idle EXCEPT !.stage = "repropagating", !.plan = new, !.todo = known]
  OBVIOUS
<1>3. UNCHANGED <<db, feed, raced, unseen>> /\ begun.refreshes < MaxRefreshes /\ begun' = [begun EXCEPT !.refreshes = @ + 1]
  BY DEF Swap
<1>4. /\ m.stage = "repropagating" /\ m.todo = known /\ m.plan = new /\ m.mine = Idle.mine /\ m.looked = {} /\ m.early = {}
      /\ m.unseen = {} /\ m.alone = FALSE /\ Fields(m)
  BY <1>2, IdleSound DEF Fields, Idle
<1>5. TaskShape(m) /\ DOMAIN m.mine = {}
  BY <1>4, IdleSound DEF TaskShape, Stages
<1>6. FeedInv(m, db)
  BY <1>4, <1>5 DEF FeedInv
<1>7. TasksSound(tx, db, feed)
  BY DEF InventoryInv
<1>8. PICK U : U = tx'
  OBVIOUS
<1>9. PICK missed : missed = [u \in Parties |-> {}]
  OBVIOUS
<1>10. U = [u \in Parties |-> U[u]] /\ U[Feeds] = m /\ \A u \in Parties \ {Feeds} : U[u] = [tx[u] EXCEPT !.alone = FALSE]
  BY <1>1, <1>2, <1>8
<1>11. ASSUME NEW u \in Parties \ {Feeds} PROVE Follows(tx[u], U[u], missed[u], db, db, feed, feed)
  <2>1. Fields(tx[u]) /\ missed[u] = {}
    BY <1>7, <1>9 DEF TasksSound, TaskShape
  <2> QED BY <1>10, <2>1 DEF Follows, Fields
<1>12. TasksSound(U, db, feed)
  BY <1>4, <1>5, <1>6, <1>7, <1>10, <1>11, TasksFollow
<1>13. BegunSound'
  BY <1>3, InventoryBounds DEF InventoryInv, BegunSound
<1> QED BY <1>3, <1>8, <1>12, <1>13 DEF InventoryInv
\* What a commit makes of the rows, for those who still run.
LEMMA ReleaseFollows ==
    ASSUME InventoryInv, NEW s \in Scanners, NEW full, Releases(s, full)
    PROVE  TasksSound(tx, db, feed)'
<1> USE SyncFacts
<1>1. TasksSound(tx, db, feed)
  BY DEF InventoryInv
<1>2. PICK U : U = tx'
  OBVIOUS
<1>3. PICK missed : missed = [u \in Parties |-> Changes(s) \cup Overrules(s, u)]
  OBVIOUS
<1>4. PICK E : E = View(s)
  OBVIOUS
<1>5. /\ U = [u \in Parties |-> IF u = s THEN Idle
                               ELSE [tx[u] EXCEPT !.unseen = @ \cup Changes(s) \cup Overrules(s, u), !.alone = FALSE]]
      /\ db' = E /\ feed' = feed
  BY <1>2, <1>4 DEF Releases
<1>6. U = [u \in Parties |-> U[u]] /\ U[s] = Idle
      /\ \A u \in Parties \ {s} : U[u] = [tx[u] EXCEPT !.unseen = @ \cup Changes(s) \cup Overrules(s, u), !.alone = FALSE]
  BY <1>5
<1>7. ASSUME NEW u \in Parties \ {s} PROVE Follows(tx[u], U[u], missed[u], db, E, feed, feed)
  <2>0. missed[u] = Changes(s) \cup Overrules(s, u)
    BY <1>3
  <2>1. TaskShape(tx[u]) /\ Fields(tx[u]) /\ DOMAIN tx[s].mine \cap DOMAIN tx[u].mine = {}
    BY <1>1 DEF TasksSound, TaskShape
  <2>2. U[u] = [tx[u] EXCEPT !.unseen = @ \cup Changes(s) \cup Overrules(s, u), !.alone = FALSE]
    BY <1>6
  <2>3. /\ Fields(U[u]) /\ U[u].stage = tx[u].stage /\ U[u].todo = tx[u].todo /\ U[u].aim = tx[u].aim /\ U[u].look = tx[u].look
        /\ U[u].plan = tx[u].plan /\ U[u].mine = tx[u].mine /\ U[u].looked = tx[u].looked /\ U[u].early = tx[u].early
        /\ U[u].alone = FALSE /\ U[u].unseen = tx[u].unseen \cup Changes(s) \cup Overrules(s, u)
    BY ONLY <2>1, <2>2 DEF Fields
  <2>4. Changes(s) \subseteq Cves /\ Overrules(s, u) \subseteq Cves
    BY DEF Changes, Overrules
  <2>5. ASSUME NEW k \in DOMAIN tx[u].mine PROVE db[k] = E[k]
    <3>1. k \in Keys /\ k \notin DOMAIN tx[s].mine
      BY <2>1 DEF TaskShape
    <3> QED BY <1>4, <3>1, SightAt DEF TaskShape, RowsSound
  <2>6. ASSUME NEW c \in Cves \ missed[u]
        PROVE  /\ OpenIn(db, c) = OpenIn(E, c)
               /\ db[CorrelationOf(c)] = E[CorrelationOf(c)] \/ (tx[u].stage = "correlating" /\ c \in tx[u].todo)
    <3>1. c \in Cves /\ c \notin Changes(s) /\ c \notin Overrules(s, u)
      BY <2>0, <2>6
    <3> QED BY <1>4, <3>1 DEF Changes, Overrules
  <2>7. missed[u] \subseteq Cves /\ U[u].unseen = tx[u].unseen \cup missed[u]
    BY <2>0, <2>3, <2>4
  <2> HIDE <1>4
  <2> QED BY <2>3, <2>5, <2>6, <2>7 DEF Follows
<1>8. RowsSound(E)
  BY <1>4
<1>9. TaskShape(U[s]) /\ DOMAIN U[s].mine = {} /\ ~U[s].alone /\ SyncInv(U[s], E, feed)
  BY <1>6, IdleSound
<1>10. TasksSound(U, E, feed)
  BY <1>1, <1>6, <1>7, <1>8, <1>9, TasksFollow
<1> QED BY <1>2, <1>5, <1>10

\* run_sync ends: what it leaves is what the feeds say, and what its passes
\* counted.
LEMMA CommitKeeps ==
    ASSUME InventoryInv, NEW s \in Scanners, Commits(s) \/ CommitsPartly(s)
    PROVE  InventoryInv'
<1> USE SyncFacts
<1>1. PICK full \in BOOLEAN : Releases(s, full) /\ (full => tx[s].stage = "done") /\ (~full => tx[s].stage = "correlate")
  BY DEF Commits, CommitsPartly
<1>2. /\ db' = View(s) /\ raced' = (raced \ tx[s].looked) \cup tx[s].early /\ feed' = feed /\ begun' = begun
      /\ unseen' = IF full THEN tx[s].unseen ELSE unseen \cup Changes(s)
  BY <1>1 DEF Releases
<1>3. BegunSound' /\ TasksSound(tx, db, feed)'
  BY <1>1, <1>2, ReleaseFollows DEF InventoryInv, BegunSound
<1>4. StoreSound(db, feed, raced, unseen)
  BY DEF InventoryInv
<1>5. \A k \in Keys : View(s)[k] = IF k \in DOMAIN tx[s].mine THEN tx[s].mine[k] ELSE db[k]
  BY SightAt DEF TaskShape, RowsSound
<1>6. PICK E : E = View(s)
  OBVIOUS
<1>7. ASSUME NEW k \in Findings, E[k].there, k \notin raced' PROVE Tells(E[k], feed[k[2]])
  <2>1. k \in Keys /\ k \notin tx[s].early /\ (k \in raced => k \in tx[s].looked)
    BY <1>2, <1>7, KeysApart
  <2>2. CASE k \in tx[s].looked
    BY <1>1, <1>5, <1>6, <2>1, <2>2 DEF LookInv
  <2>3. CASE k \notin tx[s].looked
    <3>1. E[k].there = db[k].there /\ E[k].kev = db[k].kev /\ E[k].epss = db[k].epss
      <4>1. CASE k \in DOMAIN tx[s].mine
        BY <1>5, <1>6, <2>1, <2>3, <4>1 DEF LookInv
      <4>2. CASE k \notin DOMAIN tx[s].mine
        BY <1>5, <1>6, <2>1, <4>2
      <4> QED BY <4>1, <4>2
    <3>2. Tells(db[k], feed[k[2]])
      BY <1>4, <1>7, <2>1, <2>3, <3>1 DEF StoreSound, Told
    <3> QED BY <3>1, <3>2 DEF Tells
  <2> QED BY <2>2, <2>3
<1>8. ASSUME NEW c \in Cves \ unseen' PROVE Truthful(E, c)
  <2>1. CASE full
    <3>1. c \in Cves \ tx[s].unseen
      BY <1>2, <1>8, <2>1
    <3> QED BY <1>1, <1>6, <2>1, <3>1 DEF CountInv
  <2>2. CASE ~full
    <3>1. c \in Cves /\ c \notin unseen /\ c \notin Changes(s) /\ CorrelationOf(c) \in Keys
      BY <1>2, <1>8, <2>2, KeysApart
    <3>2. OpenIn(E, c) = OpenIn(db, c)
      BY <1>6, <3>1 DEF Changes
    <3>3. CorrelationOf(c) \notin DOMAIN tx[s].mine
      BY <1>1, <2>2, <3>1 DEF CountInv
    <3>4. E[CorrelationOf(c)] = db[CorrelationOf(c)]
      BY <1>5, <1>6, <3>1, <3>3
    <3>5. Truthful(db, c)
      BY <1>4, <3>1 DEF StoreSound
    <3> QED BY <3>2, <3>4, <3>5 DEF Truthful
  <2> QED BY <2>1, <2>2
<1>9. raced' \subseteq Findings /\ unseen' \subseteq Cves
  BY <1>2, <1>4 DEF StoreSound, TaskShape, Changes
<1>10. RowsSound(E)
  BY <1>6
<1>11. PICK late, left : late = raced' /\ left = unseen'
  OBVIOUS
<1>12. StoreSound(E, feed, late, left)
  BY <1>7, <1>8, <1>9, <1>10, <1>11 DEF StoreSound, Told
<1>13. StoreSound(db, feed, raced, unseen)'
  BY <1>2, <1>6, <1>11, <1>12
<1> QED BY <1>3, <1>13 DEF InventoryInv

\* The new feeds and what they say of the findings become visible together.
LEMMA FeedsCommitKeeps == ASSUME InventoryInv, FeedsCommit PROVE InventoryInv'
<1> USE FeedFacts
<1>1. TasksSound(tx, db, feed) /\ StoreSound(db, feed, raced, unseen)
  BY DEF InventoryInv
<1>2. PICK U, E, G : U = tx' /\ E = View(Feeds) /\ G = tx[Feeds].plan
  OBVIOUS
<1>3. PICK missed : missed = [u \in Parties |-> {}]
  OBVIOUS
<1>4. /\ tx[Feeds].stage = "repropagating" /\ feed' = G /\ db' = E
      /\ raced' = {k \in Findings : db[k].there /\ k \notin DOMAIN tx[Feeds].mine}
      /\ U = [t \in Parties |-> IF t = Feeds THEN Idle ELSE [tx[t] EXCEPT !.early = tx[t].looked, !.alone = FALSE]]
      /\ unseen' = unseen /\ begun' = begun
  BY <1>2 DEF FeedsCommit
<1>5. /\ G \in [Cves -> Entries] /\ DOMAIN tx[Feeds].mine \subseteq Findings
      /\ \A k \in DOMAIN tx[Feeds].mine :
           /\ Tells(tx[Feeds].mine[k], G[k[2]])
           /\ tx[Feeds].mine[k].there = db[k].there /\ tx[Feeds].mine[k].open = db[k].open
  BY <1>2, <1>4 DEF FeedInv
<1>6. \A k \in Keys : E[k] = IF k \in DOMAIN tx[Feeds].mine THEN tx[Feeds].mine[k] ELSE db[k]
  BY <1>2, SightAt DEF TaskShape, RowsSound
<1>7. (\A k \in Findings : E[k].there = db[k].there /\ E[k].open = db[k].open)
      /\ \A c \in Cves : E[CorrelationOf(c)] = db[CorrelationOf(c)]
  <2>1. ASSUME NEW k \in Findings PROVE E[k].there = db[k].there /\ E[k].open = db[k].open
    <3>1. CASE k \in DOMAIN tx[Feeds].mine
      BY <1>5, <1>6, <3>1, KeysApart
    <3>2. CASE k \notin DOMAIN tx[Feeds].mine
      BY <1>6, <3>2, KeysApart
    <3> QED BY <3>1, <3>2
  <2>2. ASSUME NEW c \in Cves PROVE E[CorrelationOf(c)] = db[CorrelationOf(c)]
    <3>1. CorrelationOf(c) \in Keys /\ CorrelationOf(c) \notin DOMAIN tx[Feeds].mine
      BY <1>5, KeysApart
    <3> QED BY <1>6, <3>1
  <2> QED BY <2>1, <2>2
<1>8. \A c \in Cves : OpenIn(E, c) = OpenIn(db, c)
  BY <1>7, SameFindings
<1>9. RowsSound(E)
  BY <1>2
<1>10. U = [u \in Parties |-> U[u]] /\ U[Feeds] = Idle
       /\ \A u \in Parties \ {Feeds} : U[u] = [tx[u] EXCEPT !.early = tx[u].looked, !.alone = FALSE]
  BY <1>4
<1>11. ASSUME NEW u \in Parties \ {Feeds} PROVE Follows(tx[u], U[u], missed[u], db, E, feed, G)
  <2>1. TaskShape(tx[u]) /\ Fields(tx[u]) /\ DOMAIN tx[Feeds].mine \cap DOMAIN tx[u].mine = {} /\ missed[u] = {}
    BY <1>1, <1>3 DEF TasksSound, TaskShape
  <2>2. U[u] = [tx[u] EXCEPT !.early = tx[u].looked, !.alone = FALSE]
    BY <1>10
  <2>3. /\ Fields(U[u]) /\ U[u].stage = tx[u].stage /\ U[u].todo = tx[u].todo /\ U[u].aim = tx[u].aim /\ U[u].look = tx[u].look
        /\ U[u].plan = tx[u].plan /\ U[u].mine = tx[u].mine /\ U[u].looked = tx[u].looked /\ U[u].early = tx[u].looked
        /\ U[u].alone = FALSE /\ U[u].unseen = tx[u].unseen
    BY ONLY <2>1, <2>2 DEF Fields
  <2>4. ASSUME NEW k \in DOMAIN tx[u].mine PROVE db[k] = E[k]
    <3>1. k \in Keys /\ k \notin DOMAIN tx[Feeds].mine
      BY <2>1 DEF TaskShape
    <3> QED BY <1>6, <3>1
  <2> QED BY <1>7, <1>8, <2>1, <2>3, <2>4 DEF Follows
<1>12. TaskShape(U[Feeds]) /\ DOMAIN U[Feeds].mine = {} /\ ~U[Feeds].alone /\ FeedInv(U[Feeds], E)
  BY <1>10, IdleSound
<1>13. TasksSound(U, E, G)
  BY <1>1, <1>9, <1>10, <1>11, <1>12, TasksFollow
<1>14. PICK late : late = raced'
  OBVIOUS
<1>15. Told(E, G, late)
  <2>1. ASSUME NEW k \in Findings, E[k].there, k \notin late PROVE Tells(E[k], G[k[2]])
    <3>1. k \in DOMAIN tx[Feeds].mine /\ k \in Keys
      BY <1>4, <1>7, <1>14, <2>1, KeysApart
    <3> QED BY <1>5, <1>6, <3>1
  <2> QED BY <2>1 DEF Told
<1>16. StoreSound(E, G, late, unseen)
  <2>1. late \subseteq Findings /\ unseen \subseteq Cves
    BY <1>1, <1>4, <1>14 DEF StoreSound
  <2>2. \A c \in Cves \ unseen : Truthful(E, c)
    BY <1>1, <1>7, <1>8 DEF StoreSound, Truthful
  <2> QED BY <1>5, <1>9, <1>15, <2>1, <2>2 DEF StoreSound
<1>17. BegunSound'
  BY <1>4 DEF InventoryInv, BegunSound
<1> QED BY <1>2, <1>4, <1>13, <1>14, <1>16, <1>17 DEF InventoryInv
\* Edits of users: the tasks of all follow, and nobody's is a new one.
LEMMA EditFollows ==
    ASSUME InventoryInv, NEW k, NEW v, Edit(k, v), NEW gone \in SUBSET Cves, RowsSound(db'),
           \A c \in Cves \ gone : OpenIn(db, c) = OpenIn(db', c) /\ db[CorrelationOf(c)] = db'[CorrelationOf(c)],
           tx' = [t \in Parties |-> [tx[t] EXCEPT !.unseen = @ \cup gone, !.alone = FALSE]]
    PROVE  TasksSound(tx, db, feed)' /\ BegunSound'
<1>1. TasksSound(tx, db, feed) /\ RowsSound(db) /\ BegunSound
  BY DEF InventoryInv, StoreSound
<1>2. /\ begun.edits < MaxEdits /\ begun' = [begun EXCEPT !.edits = @ + 1] /\ feed' = feed
      /\ \A t \in Parties : k \notin DOMAIN tx[t].mine
      /\ db' = [db EXCEPT ![k] = v]
  BY DEF Edit
<1>3. PICK U, E : U = tx' /\ E = db'
  OBVIOUS
<1>4. PICK missed : missed = [u \in Parties |-> gone]
  OBVIOUS
<1>5. PICK t : t \notin Parties
  BY NoSetContainsEverything
<1>6. U = [u \in Parties |-> U[u]] /\ \A u \in Parties : U[u] = [tx[u] EXCEPT !.unseen = @ \cup gone, !.alone = FALSE]
  BY <1>3
<1>7. ASSUME NEW u \in Parties \ {t} PROVE Follows(tx[u], U[u], missed[u], db, E, feed, feed)
  <2>1. TaskShape(tx[u]) /\ Fields(tx[u]) /\ missed[u] = gone
    BY <1>1, <1>4 DEF TasksSound, TaskShape
  <2>2. U[u] = [tx[u] EXCEPT !.unseen = @ \cup gone, !.alone = FALSE]
    BY <1>6
  <2>3. /\ Fields(U[u]) /\ U[u].stage = tx[u].stage /\ U[u].todo = tx[u].todo /\ U[u].aim = tx[u].aim /\ U[u].look = tx[u].look
        /\ U[u].plan = tx[u].plan /\ U[u].mine = tx[u].mine /\ U[u].looked = tx[u].looked /\ U[u].early = tx[u].early
        /\ U[u].alone = FALSE /\ U[u].unseen = tx[u].unseen \cup gone
    BY ONLY <2>1, <2>2 DEF Fields
  <2>4. ASSUME NEW x \in DOMAIN tx[u].mine PROVE db[x] = E[x]
    BY <1>1, <1>2, <1>3, <2>1 DEF TaskShape, RowsSound
  <2>5. \A c \in Cves \ gone : OpenIn(db, c) = OpenIn(E, c) /\ db[CorrelationOf(c)] = E[CorrelationOf(c)]
    BY <1>3
  <2> QED BY ONLY <2>1, <2>3, <2>4, <2>5, gone \in SUBSET Cves DEF Follows
<1>8. RowsSound(E)
  BY <1>3
<1>9. t \notin Scanners /\ t # Feeds
  BY <1>5, KeysApart
<1>10. TasksSound(U, E, feed)
  BY <1>1, <1>5, <1>6, <1>7, <1>8, <1>9, TasksFollow
<1>11. BegunSound'
  <2>1. begun \in [syncs : 0 .. MaxSyncs, refreshes : 0 .. MaxRefreshes, edits : 0 .. MaxEdits] /\ MaxEdits \in Nat
    BY <1>1, InventoryBounds DEF BegunSound
  <2>2. begun' \in [syncs : 0 .. MaxSyncs, refreshes : 0 .. MaxRefreshes, edits : 0 .. MaxEdits]
    BY ONLY <1>2, <2>1
  <2> QED BY <2>2 DEF BegunSound
<1> QED BY <1>2, <1>3, <1>10, <1>11

\* update_vulnerability
LEMMA SetStatusKeeps == ASSUME InventoryInv, NEW s \in Scanners, NEW c \in Cves, SetStatus(s, c) PROVE InventoryInv'
<1>1. StoreSound(db, feed, raced, unseen) /\ RowsSound(db)
  BY DEF InventoryInv, StoreSound
<1>2. PICK v : v = [db[<<s, c>>] EXCEPT !.open = ~@]
  OBVIOUS
<1>3. /\ Edit(<<s, c>>, v) /\ unseen' = unseen \cup {c}
      /\ tx' = [t \in Parties |-> [tx[t] EXCEPT !.unseen = @ \cup {c}, !.alone = FALSE]]
  BY <1>2 DEF SetStatus
<1>4. <<s, c>> \in Findings /\ <<s, c>> \in Keys /\ db[<<s, c>>] \in FindingRow
  BY <1>1, KeysApart, RowKinds
<1>5. v \in FindingRow /\ v.there = db[<<s, c>>].there /\ v.kev = db[<<s, c>>].kev /\ v.epss = db[<<s, c>>].epss
  BY <1>2, <1>4 DEF FindingRow
<1>6. PICK E : E = db'
  OBVIOUS
<1>7. /\ DOMAIN E = Keys /\ E[<<s, c>>] = v /\ \A x \in Keys : x # <<s, c>> => E[x] = db[x]
  BY <1>1, <1>3, <1>4, <1>6 DEF Edit, RowsSound
<1>8. Fits(<<s, c>>, v)
  BY <1>4, <1>5, KeysApart DEF Fits
<1>9. RowsSound(E)
  BY <1>1, <1>7, <1>8 DEF RowsSound
<1>10. ASSUME NEW d \in Cves \ {c} PROVE OpenIn(db, d) = OpenIn(E, d)
  <2>1. \A u \in Scanners : E[<<u, d>>] = db[<<u, d>>]
    BY <1>7, <1>10, KeysApart
  <2> QED BY <2>1 DEF OpenIn
<1>11. \A d \in Cves : E[CorrelationOf(d)] = db[CorrelationOf(d)]
  BY <1>4, <1>7, KeysApart
<1>12. TasksSound(tx, db, feed)' /\ BegunSound'
  <2>1. {c} \in SUBSET Cves /\ RowsSound(db')
        /\ \A d \in Cves \ {c} : OpenIn(db, d) = OpenIn(db', d) /\ db[CorrelationOf(d)] = db'[CorrelationOf(d)]
    BY <1>6, <1>9, <1>10, <1>11
  <2> QED BY <1>3, <2>1, EditFollows
<1>13. Told(E, feed, raced)
  <2>1. ASSUME NEW k \in Findings, E[k].there, k \notin raced PROVE Tells(E[k], feed[k[2]])
    <3>1. db[k].there /\ E[k].kev = db[k].kev /\ E[k].epss = db[k].epss
      <4>1. CASE k = <<s, c>>
        BY <1>5, <1>7, <2>1, <4>1
      <4>2. CASE k # <<s, c>>
        BY <1>7, <2>1, <4>2, KeysApart
      <4> QED BY <4>1, <4>2
    <3> QED BY <1>1, <2>1, <3>1 DEF StoreSound, Told, Tells
  <2> QED BY <2>1 DEF Told
<1>14. PICK left : left = unseen'
  OBVIOUS
<1>15. StoreSound(E, feed, raced, left)
  <2>1. ASSUME NEW d \in Cves \ left PROVE Truthful(E, d)
    <3>1. d \in Cves \ unseen /\ d # c
      BY <1>3, <1>14, <2>1
    <3> QED BY <1>1, <1>10, <1>11, <3>1 DEF StoreSound, Truthful
  <2>2. left \subseteq Cves
    BY <1>1, <1>3, <1>14 DEF StoreSound
  <2> QED BY <1>1, <1>9, <1>13, <2>1, <2>2 DEF StoreSound
<1>16. feed' = feed /\ raced' = raced
  BY <1>3 DEF Edit
<1> QED BY <1>6, <1>12, <1>14, <1>15, <1>16 DEF InventoryInv

\* update_asset_exposure_context
LEMMA SetCriticalityKeeps ==
    ASSUME InventoryInv, NEW criticality \in {"CRITICAL", "MEDIUM"}, SetCriticality(criticality)
    PROVE  InventoryInv'
<1>1. StoreSound(db, feed, raced, unseen) /\ RowsSound(db) /\ TasksSound(tx, db, feed)
  BY DEF InventoryInv, StoreSound
<1>2. PICK v : v = [db[Asset] EXCEPT !.criticality = criticality]
  OBVIOUS
<1>3. /\ Edit(Asset, v) /\ unseen' = unseen /\ tx' = [t \in Parties |-> [tx[t] EXCEPT !.alone = FALSE]]
  BY <1>2 DEF SetCriticality
<1>4. Asset \in Keys /\ db[Asset] \in AssetRow
  BY <1>1, KeysApart, RowKinds
<1>5. v \in AssetRow
  BY <1>2, <1>4 DEF AssetRow, Criticalities
<1>6. PICK E : E = db'
  OBVIOUS
<1>7. /\ DOMAIN E = Keys /\ E[Asset] = v /\ \A x \in Keys : x # Asset => E[x] = db[x]
  BY <1>1, <1>3, <1>4, <1>6 DEF Edit, RowsSound
<1>8. Fits(Asset, v)
  BY <1>4, <1>5, KeysApart DEF Fits
<1>9. RowsSound(E)
  BY <1>1, <1>7, <1>8 DEF RowsSound
<1>10. (\A k \in Findings : E[k] = db[k]) /\ \A d \in Cves : E[CorrelationOf(d)] = db[CorrelationOf(d)]
  BY <1>7, KeysApart
<1>11. \A d \in Cves : OpenIn(E, d) = OpenIn(db, d)
  BY <1>10, SameFindings
<1>12. tx' = [t \in Parties |-> [tx[t] EXCEPT !.unseen = @ \cup {}, !.alone = FALSE]]
  <2>1. ASSUME NEW t \in Parties PROVE [tx[t] EXCEPT !.alone = FALSE] = [tx[t] EXCEPT !.unseen = @ \cup {}, !.alone = FALSE]
    <3>1. Fields(tx[t])
      BY <1>1 DEF TasksSound, TaskShape
    <3> QED BY ONLY <3>1 DEF Fields
  <2> QED BY <1>3, <2>1
<1>13. TasksSound(tx, db, feed)' /\ BegunSound'
  <2> DEFINE none == {}
  <2>1. none \in SUBSET Cves /\ RowsSound(db')
        /\ (\A d \in Cves \ none : OpenIn(db, d) = OpenIn(db', d) /\ db[CorrelationOf(d)] = db'[CorrelationOf(d)])
        /\ tx' = [t \in Parties |-> [tx[t] EXCEPT !.unseen = @ \cup none, !.alone = FALSE]]
    BY <1>6, <1>9, <1>10, <1>11, <1>12
  <2> HIDE DEF none
  <2> QED BY <1>3, <2>1, EditFollows
<1>14. StoreSound(E, feed, raced, unseen)
  <2>1. Told(E, feed, raced) /\ \A d \in Cves \ unseen : Truthful(E, d)
    BY <1>1, <1>10, <1>11 DEF StoreSound, Told, Truthful
  <2> QED BY <1>1, <1>9, <2>1 DEF StoreSound
<1>15. feed' = feed /\ raced' = raced
  BY <1>3 DEF Edit
<1> QED BY <1>3, <1>6, <1>13, <1>14, <1>15 DEF InventoryInv

-----------------------------------------------------------------------------
(* The rows at the start, and the promises *)

\* Scores are read off rows that fit, and fit them.
LEMMA RowsStart ==
    ASSUME NEW known, known = {} \/ known = Findings, NEW entries \in [Cves -> Entries],
           NEW score \in [Findings -> 0 .. 100], NEW R, R = Rows(known, entries, score)
    PROVE  RowsSound(R) /\ Told(R, entries, {}) /\ \A c \in Cves : Truthful(R, c)
<1>1. /\ DOMAIN R = Keys
      /\ \A k \in Findings : R[k] =
                IF k \in known
                THEN [there |-> TRUE, open |-> TRUE, kev |-> entries[k[2]].kev, epss |-> entries[k[2]].epss, score |-> score[k]]
                ELSE NoFinding
      /\ \A c \in Cves : R[CorrelationOf(c)] = CountFor(Cardinality({s \in Scanners : <<s, c>> \in known}))
      /\ R[Asset] = [criticality |-> "MEDIUM", rollup |-> IF known = {} THEN NoSignal ELSE Max({score[f] : f \in known})]
  <2>1. DOMAIN R = Keys
    BY DEF Rows
  <2>2. ASSUME NEW k \in Findings
        PROVE  R[k] = IF k \in known
                      THEN [there |-> TRUE, open |-> TRUE, kev |-> entries[k[2]].kev, epss |-> entries[k[2]].epss, score |-> score[k]]
                      ELSE NoFinding
    BY KeysApart DEF Rows
  <2>3. ASSUME NEW c \in Cves PROVE R[CorrelationOf(c)] = CountFor(Cardinality({s \in Scanners : <<s, c>> \in known}))
    <3>1. CorrelationOf(c) \in Keys /\ CorrelationOf(c) \notin known /\ CorrelationOf(c) \notin Findings /\ CorrelationOf(c) # Asset
      BY KeysApart
    <3>2. CorrelationOf(c)[2] = c
      BY DEF CorrelationOf
    <3> QED BY <3>1, <3>2 DEF Rows, CountFor
  <2>4. R[Asset] = [criticality |-> "MEDIUM", rollup |-> IF known = {} THEN NoSignal ELSE Max({score[f] : f \in known})]
    <3>1. Asset \in Keys /\ Asset \notin known /\ Asset \notin Findings
      BY KeysApart
    <3> QED BY <3>1 DEF Rows
  <2> QED BY <2>1, <2>2, <2>3, <2>4
<1>2. ASSUME NEW k \in Findings PROVE R[k] \in FindingRow /\ (R[k].there => Tells(R[k], entries[k[2]]))
                                      /\ (R[k].there /\ R[k].open <=> k \in known)
  <2>1. entries[k[2]] \in Entries /\ score[k] \in 0 .. 100
    BY KeysApart
  <2>2. CASE k \in known
    <3>1. R[k] = [there |-> TRUE, open |-> TRUE, kev |-> entries[k[2]].kev, epss |-> entries[k[2]].epss, score |-> score[k]]
      BY <1>1, <2>2
    <3> QED BY <2>1, <2>2, <3>1 DEF FindingRow, Entries, Tells
  <2>3. CASE k \notin known
    <3>1. R[k] = NoFinding
      BY <1>1, <2>3
    <3> QED BY <2>3, <3>1 DEF FindingRow, NoFinding, NoSignal
  <2> QED BY <2>2, <2>3
<1>3. ASSUME NEW c \in Cves PROVE R[CorrelationOf(c)] \in SourceCounts /\ Truthful(R, c)
  <2>1. \A s \in Scanners : <<s, c>> \in Findings
    BY KeysApart
  <2>2. OpenIn(R, c) = {s \in Scanners : <<s, c>> \in known}
    BY <1>2, <2>1 DEF OpenIn
  <2>3. Truthful(R, c)
    BY <1>1, <2>2 DEF Truthful
  <2> DEFINE n == Cardinality(OpenIn(R, c))
  <2>4. n \in 0 .. Cardinality(Scanners) /\ Cardinality(Scanners) \in Nat
    BY CountsBounded
  <2>5. R[CorrelationOf(c)] = CountFor(n)
    BY <2>3 DEF Truthful
  <2> HIDE DEF n
  <2>6. CountFor(n) \in SourceCounts
    BY <2>4 DEF CountFor, SourceCounts
  <2> QED BY <2>3, <2>5, <2>6
<1>4. R[Asset] \in AssetRow
  <2>1. (IF known = {} THEN NoSignal ELSE Max({score[f] : f \in known})) \in 0 .. 100 \cup {NoSignal}
    <3>1. CASE known = {}
      BY <3>1
    <3>2. CASE known # {}
      <4> DEFINE S == {score[f] : f \in known}
      <4>1. S \in SUBSET (0 .. 100 \cup {NoSignal}) /\ S # {}
        BY <3>2
      <4> HIDE DEF S
      <4>2. Max(S) \in 0 .. 100 \cup {NoSignal}
        BY <4>1, LargestScore
      <4> QED BY <3>2, <4>2 DEF S
    <3> QED BY <3>1, <3>2
  <2>2. "MEDIUM" \in Criticalities
    BY DEF Criticalities
  <2> DEFINE top == IF known = {} THEN NoSignal ELSE Max({score[f] : f \in known})
  <2>3. R[Asset] = [criticality |-> "MEDIUM", rollup |-> top] /\ top \in 0 .. 100 \cup {NoSignal}
    BY <1>1, <2>1
  <2> HIDE DEF top
  <2> QED BY <2>2, <2>3 DEF AssetRow
<1>5. ASSUME NEW k \in Keys PROVE Fits(k, R[k])
  BY <1>2, <1>3, <1>4 DEF Fits
<1>6. RowsSound(R)
  BY <1>1, <1>5 DEF RowsSound
<1>7. Told(R, entries, {})
  BY <1>2 DEF Told
<1> QED BY <1>3, <1>6, <1>7

LEMMA InventoryStarts == InventoryInit => InventoryInv
<1> SUFFICES ASSUME InventoryInit PROVE InventoryInv
  OBVIOUS
<1>1. PICK known \in {{}, Findings} :
         db = Rows(known, feed, [k \in Findings |-> ScoreIn(Rows(known, feed, [f \in Findings |-> 0]), k[1], k[2])])
  BY DEF InventoryInit
<1>2. feed \in [Cves -> Entries] /\ tx = [t \in Parties |-> Idle] /\ raced = {} /\ unseen = {}
      /\ begun = [syncs |-> 0, refreshes |-> 0, edits |-> 0]
  BY DEF InventoryInit
<1> DEFINE zero == [f \in Findings |-> 0]
           U == Rows(known, feed, zero)
           score == [k \in Findings |-> ScoreIn(U, k[1], k[2])]
<1>3. zero \in [Findings -> 0 .. 100]
  OBVIOUS
<1>4. RowsSound(U)
  <2> HIDE DEF zero
  <2> QED BY <1>1, <1>2, <1>3, RowsStart
<1>5. score \in [Findings -> 0 .. 100]
  <2> HIDE DEF U
  <2> QED BY <1>4, ScoresFit
<1>6. db = Rows(known, feed, score)
  BY <1>1
<1> HIDE DEF score
<1>7. RowsSound(db) /\ Told(db, feed, {}) /\ \A c \in Cves : Truthful(db, c)
  BY <1>1, <1>2, <1>5, <1>6, RowsStart
<1>8. StoreSound(db, feed, raced, unseen)
  BY <1>2, <1>7 DEF StoreSound
<1>9. TasksSound(tx, db, feed)
  <2>1. \A t \in Parties : tx[t] = Idle
    BY <1>2
  <2>2. tx = [t \in Parties |-> tx[t]]
    BY <1>2
  <2> HIDE <1>2
  <2> QED BY <2>1, <2>2, IdleSound, KeysApart DEF TasksSound
<1>10. BegunSound
  BY <1>2, InventoryBounds DEF BegunSound
<1> QED BY <1>8, <1>9, <1>10 DEF InventoryInv

LEMMA InventoryStep == InventoryInv /\ [InventoryNext]_inventoryVars => InventoryInv'
<1> SUFFICES ASSUME InventoryInv, [InventoryNext]_inventoryVars PROVE InventoryInv'
  OBVIOUS
<1>1. CASE UNCHANGED inventoryVars
  <2>1. db' = db /\ feed' = feed /\ tx' = tx /\ raced' = raced /\ unseen' = unseen /\ begun' = begun
    BY <1>1 DEF inventoryVars
  <2> QED BY <2>1 DEF InventoryInv, BegunSound
<1>2. ASSUME NEW s \in Scanners, Begin(s) PROVE InventoryInv'
  BY <1>2, BeginKeeps
<1>3. ASSUME NEW s \in Scanners, SyncStep(s) PROVE InventoryInv'
  BY <1>3, TouchKeeps, LookUpKeeps, UpsertKeeps, ItemsDoneKeeps, CorrelationReadsKeeps, CorrelatesKeeps,
     AssetsScoredKeeps, ScoresReadKeeps, ScoreWrittenKeeps, RolledUpKeeps, CommitKeeps DEF SyncStep
<1>4. ASSUME NEW s \in Scanners, CommitsPartly(s) PROVE InventoryInv'
  BY <1>4, CommitKeeps
<1>5. CASE Swap \/ Repropagate \/ FeedsCommit
  BY <1>5, SwapKeeps, RepropagateKeeps, FeedsCommitKeeps
<1>6. ASSUME NEW s \in Scanners, NEW c \in Cves, SetStatus(s, c) PROVE InventoryInv'
  BY <1>6, SetStatusKeeps
<1>7. ASSUME NEW criticality \in {"CRITICAL", "MEDIUM"}, SetCriticality(criticality) PROVE InventoryInv'
  BY <1>7, SetCriticalityKeeps
<1>8. ASSUME NEW t \in Parties, RollsBack(t) PROVE InventoryInv'
  BY <1>8, RollsBackKeeps
<1> QED BY <1>1, <1>2, <1>3, <1>4, <1>5, <1>6, <1>7, <1>8 DEF InventoryNext

\* FindingsAgree: whatever syncs, refreshes and edits overlap, fail or wait,
\* and however many, a finding says of its CVE what the feeds say
\* (enrichment_feeds.py, repropagate_enrichment; sync.py, _lookup_enrichment)
\* and a correlation counts the open findings it is about
\* (correlation_service.py, run_correlations), but for the two overtakings
\* that raced and unseen name.
THEOREM FindingsStayAgreed == InventorySpec => []FindingsAgree
<1>1. InventoryInit => InventoryInv
  BY InventoryStarts
<1>2. InventoryInv /\ [InventoryNext]_inventoryVars => InventoryInv'
  BY InventoryStep
<1>3. InventoryInv => FindingsAgree
  BY InvIsAgreement
<1> QED BY <1>1, <1>2, <1>3, PTL DEF InventorySpec

\* AloneSettles: a sync that overlapped nothing leaves every open finding with
\* the score of what is stored of it and the asset with the highest of them
\* (risk_exposure_service.py, compute_finding_risk_scores).
THEOREM LoneSyncSettles == InventorySpec => AloneSettles
<1> DEFINE Agrees == \A s \in Scanners : tx[s].alone /\ tx[s].stage = "done" /\ tx'[s].stage = "idle" /\ db' # db
                                            => Settled'
<1>1. ASSUME InventoryInv, InventoryNext PROVE Agrees
  <2> SUFFICES ASSUME NEW s \in Scanners, tx[s].alone, tx[s].stage = "done", tx'[s].stage = "idle", db' # db
               PROVE  Settled'
    OBVIOUS
  <2> USE <1>1, SyncFacts
  <2>0. s \in Parties /\ s # Feeds
    OBVIOUS
  <2>1. \A u \in Parties : tx[u].stage # "idle" => u = s
    BY <2>0 DEF InventoryInv, TasksSound
  <2>2. CASE \E u \in Scanners : Commits(u) \/ CommitsPartly(u)
    <3>1. PICK u \in Scanners : Commits(u) \/ CommitsPartly(u)
      BY <2>2
    <3>2. u = s
      BY <2>1, <3>1, KeysApart DEF Commits, CommitsPartly
    <3>3. db' = Sight(tx[s], db)
      BY <3>1, <3>2 DEF Commits, CommitsPartly, Releases
    <3>4. PICK E : E = db'
      OBVIOUS
    <3>5. SettledIn(E)
      BY <3>3, <3>4 DEF ScoreInv
    <3> QED BY <3>4, <3>5 DEF Settled, SettledIn
  <2>3. CASE FeedsCommit
    <3>1. tx[Feeds].stage = "repropagating"
      BY <2>3 DEF FeedsCommit
    <3> QED BY <2>0, <2>1, <3>1, FeedFacts
  <2>5. ASSUME NEW u \in Scanners, NEW c \in Cves, SetStatus(u, c) PROVE FALSE
    <3>1. tx'[s] = [tx[s] EXCEPT !.unseen = @ \cup {c}, !.alone = FALSE] /\ Fields(tx[s])
      BY <2>0, <2>5 DEF SetStatus, TaskShape
    <3>2. tx'[s].stage = tx[s].stage
      BY ONLY <3>1 DEF Fields
    <3> QED BY <3>2
  <2>6. ASSUME NEW criticality, SetCriticality(criticality) PROVE FALSE
    <3>1. tx'[s] = [tx[s] EXCEPT !.alone = FALSE] /\ Fields(tx[s])
      BY <2>0, <2>6 DEF SetCriticality, TaskShape
    <3>2. tx'[s].stage = tx[s].stage
      BY ONLY <3>1 DEF Fields
    <3> QED BY <3>2
  <2>7. ASSUME db' = db PROVE FALSE
    BY <2>7
  <2>8. ASSUME NEW u \in Scanners, Begin(u) \/ (SyncStep(u) /\ ~Commits(u)) PROVE db' = db
    BY <2>8 DEF Begin, SyncStep, TouchAsset, LookUp, Upsert, ItemsDone, CorrelationReads, Correlates, AssetsScored,
                ScoresRead, ScoreWritten, RolledUp, Write, Go
  <2>9. ASSUME Swap \/ Repropagate \/ \E t \in Parties : RollsBack(t) PROVE db' = db
    BY <2>9 DEF Swap, Repropagate, RollsBack, Write
  <2> QED BY <1>1, <2>2, <2>3, <2>5, <2>6, <2>7, <2>8, <2>9 DEF InventoryNext
<1>2. InventoryInit => InventoryInv
  BY InventoryStarts
<1>3. InventoryInv /\ [InventoryNext]_inventoryVars => InventoryInv'
  BY InventoryStep
<1>4. InventoryInv /\ [InventoryNext]_inventoryVars => [Agrees]_inventoryVars
  BY <1>1
<1>5. InventorySpec => [][Agrees]_inventoryVars
  BY <1>2, <1>3, <1>4, PTL DEF InventorySpec
<1> QED BY <1>5 DEF AloneSettles

-----------------------------------------------------------------------------
(* The criticality of assets.  What a transaction holds is stated of its      *)
(* record q, of the rows As and groups Gs, of what administrators chose (Ch), *)
(* of what met (Co) and of what came apart (Ap).                              *)

ContextSpec == ContextInit /\ [][ContextNext]_contextVars

IsProfile(p) == {"title", "department", "tags"} \subseteq DOMAIN p
RowColumns == {"criticality", "source", "profile"}
IsRow(r) ==
    /\ r = [criticality |-> r.criticality, source |-> r.source, profile |-> r.profile]
    /\ r.criticality \in Criticality /\ r.source \in Sources /\ IsProfile(r.profile)
IsColumns(d) ==
    /\ DOMAIN d \subseteq RowColumns
    /\ "criticality" \in DOMAIN d => d["criticality"] \in Criticality
    /\ "source" \in DOMAIN d => d["source"] \in Sources
    /\ "profile" \in DOMAIN d => IsProfile(d["profile"])
Overrides == [value : Criticality, at : Nat]
GroupRow == [there : BOOLEAN, members : SUBSET Assets, override : Overrides \cup {NoOverride}]

\* GroupsSeen and Decided of a transaction whose record is q.
SeenBy(q, Gs) ==
    [g \in Groups |->
      IF g # q.group THEN Gs[g]
      ELSE CASE q.kind = "addMember" -> [Gs[g] EXCEPT !.members = @ \cup {q.asset}]
             [] q.kind = "removeMember" -> [Gs[g] EXCEPT !.members = @ \ {q.asset}]
             [] q.kind = "setGroup" /\ q.before.value # q.value ->
                  [Gs[g] EXCEPT !.override = [value |-> q.value, at |-> q.at]]
             [] OTHER -> Gs[g]]
DecidedBy(q, Gs, row, a) ==
    CASE q.kind = "override" -> [row EXCEPT !.criticality = q.value, !.source = "ASSET_OVERRIDE"]
      [] q.kind = "sync" -> Reinferred([row EXCEPT !.profile = q.profile])
      [] q.kind = "intune" -> [row EXCEPT !.profile.title = None]
      [] OTHER -> Precedence(row, OverridesOn(SeenBy(q, Gs), a))

\* One asset as GroupsReachAssets has it.
InItsTier(row, Gs, a) ==
    LET on == OverridesOn(Gs, a) IN
    CASE row.source = "ASSET_OVERRIDE" -> TRUE
      [] row.source = "GROUP_OVERRIDE" -> \E o \in on : row.criticality = o.value /\ \A p \in on : p.at <= o.at
      [] OTHER -> on = {} /\ row.criticality = Inferred(row.profile)

OfAsset == {"override", "sync", "intune", "addMember", "removeMember"}
OfGroup == {"addMember", "removeMember", "setGroup", "deleteGroup"}
FormSound(q) ==
    /\ q.kind \in OfAsset \cup OfGroup \cup {"recompute"}
    /\ q.kind \in OfAsset => q.asset \in Assets
    /\ IF q.kind \in OfGroup THEN q.group \in Groups ELSE q.group = None
    /\ q.kind \in {"override", "setGroup"} => q.value \in Criticality
    /\ q.kind = "sync" => IsProfile(q.profile)
RowsIn(q) == DOMAIN q.rows
\* What a transaction has loaded and what it will write.
TakenSound(q) ==
    /\ RowsIn(q) \subseteq Assets \cap q.foot /\ q.todo \subseteq RowsIn(q) /\ DOMAIN q.dirty = RowsIn(q) \ q.todo
    /\ q.kind # "deleteGroup" => q.foot \cap Assets = RowsIn(q)
    /\ q.kind = "deleteGroup" => RowsIn(q) = {}
    /\ q.kind \in OfAsset => RowsIn(q) = {q.asset}
    /\ q.kind \in OfGroup => q.group \in q.foot
    /\ \A a \in RowsIn(q) : IsRow(q.rows[a])
    /\ \A a \in DOMAIN q.dirty : IsColumns(q.dirty[a])
\* Unless it met another, its rows are those of the store and its decisions
\* those it would take now.
Abreast(q, As, Gs) ==
    /\ \A a \in RowsIn(q) : q.rows[a] = As[a]
    /\ \A g \in Groups : Gs[g].members \cap RowsIn(q) # {} => g \in q.foot
    /\ \A a \in DOMAIN q.dirty : q.dirty[a] = Changed(q.rows[a], DecidedBy(q, Gs, q.rows[a], a))
\* An override that stands was there when the row was loaded, and the
\* transaction does not write over it.
Spares(q, Ch, Co) ==
    \A a \in RowsIn(q) \ Co : Ch[a] # None =>
        /\ q.rows[a].criticality = Ch[a] /\ q.rows[a].source = "ASSET_OVERRIDE"
        /\ a \in DOMAIN q.dirty /\ q.kind # "override" => DOMAIN q.dirty[a] \subseteq {"profile"}
\* Members that joined since came apart.
KnowsMembers(q, Gs, Ap) ==
    q.kind \in {"setGroup", "deleteGroup"} => Gs[q.group].members \ q.foot \subseteq Ap
RequestFields ==
    {"stage", "kind", "asset", "group", "value", "profile", "at", "todo", "rows", "dirty", "before", "foot", "met"}
IsRequest(q) == q = [f \in RequestFields |-> q[f]]
RequestSound(q, now) ==
    /\ IsRequest(q) /\ q.stage \in {"idle", "begun", "deciding"} /\ q.met \in BOOLEAN /\ q.todo \subseteq Assets
    /\ q.stage # "idle" => FormSound(q) /\ q.at \in Nat /\ q.at <= now
    /\ q.stage = "deciding" => TakenSound(q)
    /\ q.stage = "begun" => q.dirty = <<>> /\ ~q.met
RequestAgrees(q, As, Gs, Ch, Co, Ap) ==
    q.stage = "deciding" =>
        /\ ~q.met => Abreast(q, As, Gs)
        /\ Spares(q, Ch, Co) /\ KnowsMembers(q, Gs, Ap)
AssetsSound(As) == As = [a \in Assets |-> As[a]] /\ \A a \in Assets : IsRow(As[a])
GroupsSound(Gs, now) ==
    /\ Gs \in [Groups -> GroupRow]
    /\ \A g \in Groups :
         /\ Gs[g].override.at <= now
         /\ ~Gs[g].there => Gs[g].members = {} /\ Gs[g].override = NoOverride
ChoicesSound ==
    /\ clock \in 0 .. MaxRequests /\ chosen \in [Assets -> Criticality \cup {None}]
    /\ contested \in SUBSET Assets /\ apart \in SUBSET Assets
ContextInv ==
    /\ ChoicesSound /\ AssetsSound(assets) /\ GroupsSound(groups, clock)
    /\ requests = [t \in Requests |-> requests[t]]
    /\ \A t \in Requests : RequestSound(requests[t], clock)
    /\ \A t \in Requests : RequestAgrees(requests[t], assets, groups, chosen, contested, apart)
    /\ OverridesStand /\ \A a \in Assets \ apart : InItsTier(assets[a], groups, a)

LEMMA ColumnsAsRow ==
    ASSUME NEW r, IsRow(r), NEW n, IsRow(n)
    PROVE  Written(Changed(r, n), r) = n /\ IsColumns(Changed(r, n))
<1>1. DOMAIN r = RowColumns /\ DOMAIN n = RowColumns
  BY DEF IsRow, RowColumns
<1>2. ASSUME NEW c \in RowColumns PROVE Written(Changed(r, n), r)[c] = n[c]
  BY <1>1, <1>2 DEF Written, Changed
<1>3. Written(Changed(r, n), r) = [c \in RowColumns |-> n[c]]
  BY <1>1, <1>2 DEF Written
<1>4. n = [c \in RowColumns |-> n[c]]
  BY DEF IsRow, RowColumns
<1>5. IsColumns(Changed(r, n))
  BY <1>1 DEF IsColumns, Changed, IsRow
<1> QED BY <1>3, <1>4, <1>5

LEMMA WrittenIsRow ==
    ASSUME NEW d, IsColumns(d), NEW r, IsRow(r)
    PROVE  /\ IsRow(Written(d, r))
           /\ DOMAIN d \subseteq {"profile"} => Written(d, r).criticality = r.criticality /\ Written(d, r).source = r.source
<1> DEFINE w == Written(d, r)
<1>1. DOMAIN r = RowColumns
  BY DEF IsRow, RowColumns
<1>2. w = [c \in RowColumns |-> IF c \in DOMAIN d THEN d[c] ELSE r[c]]
  BY <1>1 DEF Written
<1>3. w = [criticality |-> w.criticality, source |-> w.source, profile |-> w.profile]
  BY <1>2 DEF RowColumns
<1>4. /\ w.criticality = IF "criticality" \in DOMAIN d THEN d["criticality"] ELSE r.criticality
      /\ w.source = IF "source" \in DOMAIN d THEN d["source"] ELSE r.source
      /\ w.profile = IF "profile" \in DOMAIN d THEN d["profile"] ELSE r.profile
  BY <1>2 DEF RowColumns
<1> HIDE DEF w
<1>5. IsRow(w)
  BY <1>3, <1>4 DEF IsRow, IsColumns
<1> QED BY <1>4, <1>5 DEF w

\* Of several overrides one was updated last.
LEMMA WinnerExists ==
    ASSUME NEW S \in SUBSET Overrides, NEW now \in Nat, \A o \in S : o.at <= now, S # {}
    PROVE  Winner(S) \in S /\ \A p \in S : p.at <= Winner(S).at
<1> DEFINE Above(o) == {y \in 0 .. now : y > o.at}
           T == {Above(o) : o \in S}
<1>1. ASSUME NEW o \in S PROVE o.at \in Nat /\ o.at <= now
  BY DEF Overrides
<1>2. IsFiniteSet(0 .. now)
  BY FS_Interval
<1>3. ASSUME NEW o \in S PROVE Above(o) \in FiniteSubsetsOf(0 .. now)
  BY <1>2, FS_Subset DEF FiniteSubsetsOf
<1>4. T \subseteq FiniteSubsetsOf(0 .. now) /\ T # {}
  <2> HIDE DEF Above
  <2> QED BY <1>3
<1>5. PICK least \in T : \A U \in T : ~ (<<U, least>> \in StrictSubsetOrdering(0 .. now))
  <2> DEFINE R == StrictSubsetOrdering(0 .. now)
             F == FiniteSubsetsOf(0 .. now)
  <2>1. IsWellFoundedOn(R, F)
    BY FS_StrictSubsetOrderingWellFounded
  <2> HIDE DEF T, R, F
  <2>2. \E U \in T : \A V \in T : ~ (<<V, U>> \in R)
    BY <1>4, <2>1, WFMin DEF F
  <2> QED BY <2>2 DEF R
<1>6. PICK o \in S : least = Above(o)
  OBVIOUS
<1>7. ASSUME NEW p \in S PROVE p.at <= o.at
  <2> SUFFICES ASSUME ~ (p.at <= o.at) PROVE FALSE
    OBVIOUS
  <2>1. o.at \in Nat /\ p.at \in 0 .. now /\ o.at < p.at
    BY <1>1
  <2>2. Above(p) \subseteq Above(o) /\ p.at \in Above(o) /\ p.at \notin Above(p)
    BY <2>1
  <2>3. Above(p) \in T
    OBVIOUS
  <2>4. Above(o) \subseteq 0 .. now
    OBVIOUS
  <2> HIDE DEF Above
  <2>5. <<Above(p), Above(o)>> \in StrictSubsetOrdering(0 .. now)
    BY <2>2, <2>4 DEF StrictSubsetOrdering
  <2> QED BY <1>5, <1>6, <2>3, <2>5
<1>8. \E w \in S : \A p \in S : p.at <= w.at
  BY <1>7
<1> QED BY <1>8 DEF Winner

LEMMA SeenAreGroups ==
    ASSUME NEW q, FormSound(q), q.at \in Nat, NEW now \in Nat, q.at <= now, NEW Gs, GroupsSound(Gs, now)
    PROVE  /\ SeenBy(q, Gs) \in [Groups -> GroupRow]
           /\ \A g \in Groups : SeenBy(q, Gs)[g].override.at <= now
<1>1. ASSUME NEW g \in Groups PROVE SeenBy(q, Gs)[g] \in GroupRow /\ SeenBy(q, Gs)[g].override.at <= now
  <2>1. Gs[g] \in GroupRow /\ Gs[g].override.at <= now
    BY DEF GroupsSound
  <2>2. CASE SeenBy(q, Gs)[g] = Gs[g]
    BY <2>1, <2>2
  <2>3. CASE q.kind = "addMember" /\ SeenBy(q, Gs)[g] = [Gs[g] EXCEPT !.members = @ \cup {q.asset}]
    BY <2>1, <2>3 DEF GroupRow, FormSound, OfAsset
  <2>4. CASE q.kind = "removeMember" /\ SeenBy(q, Gs)[g] = [Gs[g] EXCEPT !.members = @ \ {q.asset}]
    BY <2>1, <2>4 DEF GroupRow
  <2>5. CASE q.kind = "setGroup" /\ SeenBy(q, Gs)[g] = [Gs[g] EXCEPT !.override = [value |-> q.value, at |-> q.at]]
    <3>1. [value |-> q.value, at |-> q.at] \in Overrides
      BY <2>5 DEF Overrides, FormSound
    <3> QED BY <2>1, <2>5, <3>1 DEF GroupRow
  <2> QED BY <2>2, <2>3, <2>4, <2>5 DEF SeenBy
<1>2. SeenBy(q, Gs) = [g \in Groups |-> SeenBy(q, Gs)[g]]
  BY DEF SeenBy
<1> QED BY <1>1, <1>2

LEMMA OverridesAreSound ==
    ASSUME NEW Gs \in [Groups -> GroupRow], NEW a
    PROVE  OverridesOn(Gs, a) \in SUBSET Overrides
BY DEF OverridesOn, GroupRow

LEMMA InferredIsCriticality == ASSUME NEW p PROVE Inferred(p) \in Criticality
BY DEF Inferred, Criticality

\* Precedence makes a row, in its tier.
LEMMA PrecedenceSettles ==
    ASSUME NEW Gs \in [Groups -> GroupRow], NEW now \in Nat, \A g \in Groups : Gs[g].override.at <= now,
           NEW row, IsRow(row), NEW a
    PROVE  LET n == Precedence(row, OverridesOn(Gs, a)) IN
           /\ IsRow(n) /\ InItsTier(n, Gs, a)
           /\ row.source = "ASSET_OVERRIDE" => n = row
<1> DEFINE on == OverridesOn(Gs, a)
           n == Precedence(row, on)
<1>1. on \in SUBSET Overrides /\ \A o \in on : o.at <= now
  BY OverridesAreSound DEF OverridesOn
<1>2. CASE row.source = "ASSET_OVERRIDE"
  BY <1>2 DEF Precedence, InItsTier
<1>3. CASE row.source # "ASSET_OVERRIDE" /\ on # {}
  <2>1. Winner(on) \in on /\ \A p \in on : p.at <= Winner(on).at
    BY <1>1, <1>3, WinnerExists
  <2>2. n = [row EXCEPT !.criticality = Winner(on).value, !.source = "GROUP_OVERRIDE"]
    BY <1>3 DEF Precedence
  <2>3. n = [criticality |-> Winner(on).value, source |-> "GROUP_OVERRIDE", profile |-> row.profile]
    BY <2>2 DEF IsRow
  <2>4. Winner(on).value \in Criticality
    BY <1>1, <2>1 DEF Overrides
  <2> HIDE DEF on, n
  <2>5. IsRow(n)
    BY <2>3, <2>4 DEF IsRow, Sources
  <2> USE DEF on
  <2>6. InItsTier(n, Gs, a)
    BY <2>1, <2>3 DEF InItsTier
  <2> QED BY <1>3, <2>5, <2>6 DEF n
<1>4. CASE row.source # "ASSET_OVERRIDE" /\ on = {}
  <2>1. n = [row EXCEPT !.criticality = Inferred(row.profile), !.source = "AUTO"]
    BY <1>4 DEF Precedence
  <2>2. n = [criticality |-> Inferred(row.profile), source |-> "AUTO", profile |-> row.profile]
    BY <2>1 DEF IsRow
  <2> HIDE DEF on, n
  <2>3. IsRow(n)
    BY <2>2, InferredIsCriticality DEF IsRow, Sources
  <2> USE DEF on
  <2>4. InItsTier(n, Gs, a)
    BY <1>4, <2>2 DEF InItsTier
  <2> QED BY <1>4, <2>3, <2>4 DEF n
<1> QED BY <1>2, <1>3, <1>4

\* What a transaction decides is a row; only an override of the asset
\* replaces one.
LEMMA DecidedIsRow ==
    ASSUME NEW q, FormSound(q), q.at \in Nat, NEW now \in Nat, q.at <= now, NEW Gs, GroupsSound(Gs, now),
           NEW row, IsRow(row), NEW a
    PROVE  LET n == DecidedBy(q, Gs, row, a) IN
           /\ IsRow(n)
           /\ row.source = "ASSET_OVERRIDE" /\ q.kind # "override" => DOMAIN Changed(row, n) \subseteq {"profile"}
<1> DEFINE n == DecidedBy(q, Gs, row, a)
<1>0. ASSUME n.criticality = row.criticality, n.source = row.source PROVE DOMAIN Changed(row, n) \subseteq {"profile"}
  BY <1>0 DEF Changed, IsRow
<1>1. CASE q.kind = "override"
  <2>1. n = [criticality |-> q.value, source |-> "ASSET_OVERRIDE", profile |-> row.profile]
    BY <1>1 DEF DecidedBy, IsRow
  <2>2. q.value \in Criticality
    BY <1>1 DEF FormSound
  <2> HIDE DEF n
  <2>3. IsRow(n)
    BY <2>1, <2>2 DEF IsRow, Sources
  <2> QED BY <1>1, <2>3 DEF n
<1>2. CASE q.kind = "sync"
  <2> DEFINE m == [criticality |-> row.criticality, source |-> row.source, profile |-> q.profile]
  <2>1. n = Reinferred(m)
    BY <1>2 DEF DecidedBy, IsRow
  <2>2. IsProfile(q.profile)
    BY <1>2 DEF FormSound
  <2>3. IF row.source = "AUTO" THEN n = [criticality |-> Inferred(q.profile), source |-> row.source, profile |-> q.profile]
        ELSE n = m
    BY <2>1 DEF Reinferred
  <2> HIDE DEF n
  <2>4. IsRow(n)
    BY <2>2, <2>3, InferredIsCriticality DEF IsRow
  <2>5. row.source = "ASSET_OVERRIDE" => n.criticality = row.criticality /\ n.source = row.source
    BY <2>3
  <2> QED BY <2>4, <2>5, <1>0 DEF n
<1>3. CASE q.kind = "intune"
  <2>1. n = [row EXCEPT !.profile.title = None]
    BY <1>3 DEF DecidedBy
  <2>2. n = [criticality |-> row.criticality, source |-> row.source, profile |-> [row.profile EXCEPT !.title = None]]
    BY <2>1 DEF IsRow
  <2>3. IsProfile([row.profile EXCEPT !.title = None])
    BY DEF IsRow, IsProfile
  <2> HIDE DEF n
  <2>4. IsRow(n) /\ n.criticality = row.criticality /\ n.source = row.source
    BY <2>2, <2>3 DEF IsRow
  <2> QED BY <2>4, <1>0 DEF n
<1>4. CASE q.kind \notin {"override", "sync", "intune"}
  <2>1. n = Precedence(row, OverridesOn(SeenBy(q, Gs), a))
    BY <1>4 DEF DecidedBy
  <2>2. IsRow(n) /\ (row.source = "ASSET_OVERRIDE" => n = row)
    BY <2>1, PrecedenceSettles, SeenAreGroups
  <2> QED BY <2>2, <1>0
<1> QED BY <1>1, <1>2, <1>3, <1>4

LEMMA DecidedIs == \A t \in Requests : \A row, a : Decided(t, row, a) = DecidedBy(requests[t], groups, row, a)
<1>1. \A t \in Requests : GroupsSeen(t) = SeenBy(requests[t], groups)
  BY DEF GroupsSeen, SeenBy
<1> QED BY <1>1 DEF Decided, DecidedBy

LEMMA IdleIsSound ==
    ASSUME NEW now, NEW As, NEW Gs, NEW Ch, NEW Co, NEW Ap
    PROVE  RequestSound(IdleRequest, now) /\ RequestAgrees(IdleRequest, As, Gs, Ch, Co, Ap)
BY DEF RequestSound, RequestAgrees, IsRequest, RequestFields, IdleRequest

\* A step of one transaction before its commit.
LEMMA OneMoves ==
    ASSUME ContextInv, NEW t \in Requests, NEW n, requests' = [requests EXCEPT ![t] = n],
           UNCHANGED <<assets, groups, chosen, contested, apart>>,
           clock' \in {clock, clock + 1}, clock' <= MaxRequests,
           RequestSound(n, clock'), RequestAgrees(n, assets, groups, chosen, contested, apart)
    PROVE  ContextInv'
<1>1. clock \in Nat /\ clock' \in Nat /\ clock <= clock' /\ MaxRequests \in Nat
  BY ContextBounds DEF ContextInv, ChoicesSound
<1>2. requests' = [u \in Requests |-> IF u = t THEN n ELSE requests[u]]
  BY DEF ContextInv
<1>3. ASSUME NEW u \in Requests
      PROVE  RequestSound(requests'[u], clock') /\ RequestAgrees(requests'[u], assets, groups, chosen, contested, apart)
  <2>1. CASE u = t
    BY <1>2, <2>1
  <2>2. CASE u # t
    <3>1. requests'[u] = requests[u] /\ RequestSound(requests[u], clock)
          /\ RequestAgrees(requests[u], assets, groups, chosen, contested, apart)
      BY <1>2, <2>2 DEF ContextInv
    <3>2. RequestSound(requests[u], clock')
      <4>1. requests[u].stage # "idle" => requests[u].at \in Nat /\ requests[u].at <= clock'
        BY <1>1, <3>1 DEF RequestSound
      <4> QED BY <3>1, <4>1 DEF RequestSound
    <3> QED BY <3>1, <3>2
  <2> QED BY <2>1, <2>2
<1>4. requests' = [u \in Requests |-> requests'[u]]
  BY <1>2
<1>5. ChoicesSound' /\ GroupsSound(groups, clock')
  <2>1. ChoicesSound'
    BY <1>1 DEF ContextInv, ChoicesSound
  <2>2. ASSUME NEW g \in Groups PROVE groups[g].override.at <= clock'
    <3>1. groups[g].override.at \in Nat /\ groups[g].override.at <= clock
      BY DEF ContextInv, GroupsSound, GroupRow, Overrides, NoOverride
    <3> QED BY <1>1, <3>1
  <2> QED BY <2>1, <2>2 DEF ContextInv, GroupsSound
<1>6. OverridesStand'
  BY DEF ContextInv, OverridesStand
<1> QED BY <1>3, <1>4, <1>5, <1>6 DEF ContextInv

LEMMA BeginKeepsContext == ASSUME ContextInv, NEW t \in Requests, BeginRequest(t) PROVE ContextInv'
<1>1. PICK f \in Forms :
        requests' = [requests EXCEPT ![t] =
          [IdleRequest EXCEPT !.stage = "begun", !.at = clock + 1, !.kind = f.kind, !.asset = f.asset,
                              !.group = f.group, !.value = f.value, !.profile = f.profile]]
  BY DEF BeginRequest
<1> DEFINE n == [IdleRequest EXCEPT !.stage = "begun", !.at = clock + 1, !.kind = f.kind, !.asset = f.asset,
                                    !.group = f.group, !.value = f.value, !.profile = f.profile]
<1>2. requests' = [requests EXCEPT ![t] = n]
  BY <1>1
<1>3. clock \in Nat /\ clock' = clock + 1 /\ clock' <= MaxRequests /\ MaxRequests \in Nat
  BY ContextBounds DEF ContextInv, ChoicesSound, BeginRequest
<1>4. FormSound(n)
  <2>1. \A p \in Profiles : IsProfile(p)
    BY ContextBounds DEF IsProfile
  <2>2. FormSound(f)
    BY <2>1, ContextBounds DEF Forms, FormSound, OfAsset, OfGroup
  <2>3. n.kind = f.kind /\ n.asset = f.asset /\ n.group = f.group /\ n.value = f.value /\ n.profile = f.profile
    BY DEF IdleRequest
  <2> HIDE DEF n
  <2> QED BY <2>2, <2>3 DEF FormSound
<1>5. RequestSound(n, clock')
  <2>1. IsRequest(n) /\ n.stage = "begun" /\ n.dirty = <<>> /\ n.met = FALSE /\ n.at = clock' /\ n.todo = {}
    <3>1. IsRequest(n)
      BY DEF IsRequest, RequestFields, IdleRequest
    <3> QED BY <1>3, <3>1 DEF IdleRequest
  <2> HIDE DEF n
  <2>2. n.at \in Nat /\ n.at <= clock'
    BY <1>3, <2>1
  <2>3. n.todo \subseteq Assets
    BY <2>1
  <2>4. n.stage # "idle" /\ n.stage # "deciding" /\ n.met \in BOOLEAN /\ (n.stage = "begun" => n.dirty = <<>> /\ ~n.met)
    BY <2>1
  <2> QED BY <1>4, <2>1, <2>2, <2>3, <2>4 DEF RequestSound
<1>6. RequestAgrees(n, assets, groups, chosen, contested, apart)
  BY DEF RequestAgrees, IdleRequest
<1> HIDE DEF n
<1> QED BY <1>2, <1>3, <1>5, <1>6, OneMoves DEF BeginRequest

LEMMA RollBackKeepsContext == ASSUME ContextInv, NEW t \in Requests, RequestRollsBack(t) PROVE ContextInv'
<1>1. clock \in Nat /\ clock <= MaxRequests
  BY ContextBounds DEF ContextInv, ChoicesSound
<1>2. requests' = [requests EXCEPT ![t] = IdleRequest]
  BY DEF RequestRollsBack
<1> QED BY <1>1, <1>2, IdleIsSound, OneMoves DEF RequestRollsBack

LEMMA LoadsKeepsContext == ASSUME ContextInv, NEW t \in Requests, Loads(t) PROVE ContextInv'
<1> DEFINE q == requests[t]
           loaded == Loaded(q)
           before == IF q.group = None THEN NoOverride ELSE groups[q.group].override
           n == [q EXCEPT !.stage = "deciding", !.todo = loaded, !.rows = [a \in loaded |-> assets[a]],
                          !.before = before, !.foot = Footprint(q)]
<1>1. clock \in Nat /\ clock <= MaxRequests
  BY ContextBounds DEF ContextInv, ChoicesSound
<1>2. requests' = [requests EXCEPT ![t] = IF NotFound(q) THEN IdleRequest ELSE n]
  BY DEF Loads
<1>3. CASE NotFound(q)
  <2>1. requests' = [requests EXCEPT ![t] = IdleRequest]
    BY <1>2, <1>3
  <2> QED BY <1>1, <2>1, IdleIsSound, OneMoves DEF Loads
<1>4. CASE ~NotFound(q)
  <2>1. IsRequest(q) /\ FormSound(q) /\ q.at \in Nat /\ q.at <= clock /\ q.dirty = <<>> /\ q.met = FALSE
    BY DEF ContextInv, RequestSound, Loads
  <2>2. IsRequest(n) /\ n.stage = "deciding" /\ n.todo = loaded /\ n.rows = [a \in loaded |-> assets[a]]
        /\ n.dirty = q.dirty /\ n.foot = Footprint(q) /\ n.met = q.met /\ n.kind = q.kind /\ n.asset = q.asset
        /\ n.group = q.group /\ n.at = q.at /\ n.value = q.value /\ n.profile = q.profile
    BY <2>1 DEF IsRequest, RequestFields
  <2>3. IsRequest(n) /\ FormSound(n)
    <3> HIDE DEF n
    <3> QED BY <2>1, <2>2 DEF FormSound
  <2>4. n.stage = "deciding" /\ n.todo = loaded /\ n.rows = [a \in loaded |-> assets[a]] /\ n.dirty = <<>>
        /\ n.foot = Footprint(q) /\ n.met = FALSE /\ n.kind = q.kind /\ n.asset = q.asset /\ n.group = q.group
        /\ n.at = q.at
    BY <2>1, <2>2
  <2> HIDE DEF n
  <2>5. loaded \subseteq Assets /\ (q.kind = "deleteGroup" => loaded = {}) /\ (q.kind \in OfAsset => loaded = {q.asset})
    BY <2>1 DEF Loaded, FormSound, OfAsset, OfGroup, ContextInv, GroupsSound, GroupRow
  <2>6. loaded \subseteq Footprint(q) /\ (q.kind \in OfGroup => q.group \in Footprint(q))
    BY <2>1, ContextBounds DEF Footprint, FormSound
  <2>7. q.kind # "deleteGroup" => Footprint(q) \cap Assets = loaded
    BY <2>1, <2>5, ContextBounds DEF Footprint, FormSound
  <2>8. RowsIn(n) = loaded /\ DOMAIN n.dirty = {}
    <3>1. DOMAIN n.dirty = {}
      <4>1. DOMAIN <<>> = {}
        OBVIOUS
      <4> QED BY <2>4, <4>1
    <3> QED BY <2>4, <3>1 DEF RowsIn
  <2>9. \A a \in loaded : n.rows[a] = assets[a] /\ IsRow(assets[a])
    BY <2>4, <2>5 DEF ContextInv, AssetsSound
  <2> HIDE DEF loaded
  <2>10. TakenSound(n)
    BY <2>4, <2>5, <2>6, <2>7, <2>8, <2>9 DEF TakenSound
  <2>11. RequestSound(n, clock)
    BY <2>1, <2>3, <2>4, <2>5, <2>10 DEF RequestSound
  <2>12. Abreast(n, assets, groups)
    <3>1. \A g \in Groups : groups[g].members \cap loaded # {} => g \in n.foot
      BY <2>4 DEF Footprint, loaded
    <3> QED BY <2>8, <2>9, <3>1 DEF Abreast
  <2>13. Spares(n, chosen, contested)
    <3>1. \A a \in loaded \ contested : chosen[a] # None =>
            assets[a].criticality = chosen[a] /\ assets[a].source = "ASSET_OVERRIDE"
      BY <2>5 DEF ContextInv, OverridesStand
    <3> QED BY <2>8, <2>9, <3>1 DEF Spares
  <2>14. KnowsMembers(n, groups, apart)
    <3>1. q.kind \in {"setGroup", "deleteGroup"} => groups[q.group].members \subseteq Footprint(q)
      BY DEF Footprint, Loaded
    <3> QED BY <2>4, <3>1 DEF KnowsMembers
  <2>15. requests' = [requests EXCEPT ![t] = n]
    BY <1>2, <1>4
  <2>16. RequestAgrees(n, assets, groups, chosen, contested, apart)
    BY <2>12, <2>13, <2>14 DEF RequestAgrees
  <2> QED BY <1>1, <2>11, <2>15, <2>16, OneMoves DEF Loads
<1> QED BY <1>3, <1>4

LEMMA DecidesKeepsContext == ASSUME ContextInv, NEW t \in Requests, Decides(t) PROVE ContextInv'
<1> DEFINE q == requests[t]
<1>1. clock \in Nat /\ clock <= MaxRequests
  BY ContextBounds DEF ContextInv, ChoicesSound
<1>2. PICK a \in q.todo :
        requests' = [requests EXCEPT
          ![t].todo = @ \ {a}, ![t].dirty = Flushed(@, a, Changed(q.rows[a], Decided(t, q.rows[a], a)))]
  BY DEF Decides
<1> DEFINE columns == Changed(q.rows[a], DecidedBy(q, groups, q.rows[a], a))
           n == [q EXCEPT !.todo = @ \ {a}, !.dirty = Flushed(@, a, columns)]
<1>3. requests' = [requests EXCEPT ![t] = n]
  <2>1. Decided(t, q.rows[a], a) = DecidedBy(q, groups, q.rows[a], a)
    BY DecidedIs
  <2>2. requests = [u \in Requests |-> requests[u]] /\ IsRequest(q)
    BY DEF ContextInv, RequestSound
  <2> QED BY <1>2, <2>1, <2>2 DEF IsRequest, RequestFields
<1>4. IsRequest(q) /\ FormSound(q) /\ q.at \in Nat /\ q.at <= clock /\ TakenSound(q) /\ q.stage = "deciding"
      /\ q.met \in BOOLEAN /\ q.todo \subseteq Assets
  BY DEF ContextInv, RequestSound, Decides
<1>5. (~q.met => Abreast(q, assets, groups)) /\ Spares(q, chosen, contested) /\ KnowsMembers(q, groups, apart)
  BY <1>4 DEF ContextInv, RequestAgrees
<1>6. IsRequest(n) /\ n.stage = q.stage /\ n.todo = q.todo \ {a} /\ n.rows = q.rows
      /\ n.dirty = Flushed(q.dirty, a, columns) /\ n.foot = q.foot /\ n.met = q.met /\ n.kind = q.kind
      /\ n.asset = q.asset /\ n.group = q.group /\ n.at = q.at /\ n.value = q.value /\ n.before = q.before
      /\ n.profile = q.profile
  <2> HIDE DEF columns
  <2> QED BY <1>4 DEF IsRequest, RequestFields
<1>7. IsRequest(n) /\ FormSound(n) /\ SeenBy(n, groups) = SeenBy(q, groups)
      /\ \A row, b : DecidedBy(n, groups, row, b) = DecidedBy(q, groups, row, b)
  <2> HIDE DEF n, q
  <2>2. FormSound(n)
    BY <1>4, <1>6 DEF FormSound
  <2>3. n.kind = q.kind /\ n.group = q.group /\ n.asset = q.asset /\ n.value = q.value /\ n.at = q.at
        /\ n.before = q.before /\ n.profile = q.profile
    BY <1>6
  <2>4. SeenBy(n, groups) = SeenBy(q, groups)
    BY <2>3 DEF SeenBy
  <2>5. \A row, b : DecidedBy(n, groups, row, b) = DecidedBy(q, groups, row, b)
    BY <2>3, <2>4 DEF DecidedBy
  <2> QED BY <1>6, <2>2, <2>4, <2>5
<1>8. n.stage = "deciding" /\ n.todo = q.todo \ {a} /\ n.rows = q.rows /\ n.dirty = Flushed(q.dirty, a, columns)
      /\ n.foot = q.foot /\ n.met = q.met /\ n.kind = q.kind /\ n.asset = q.asset /\ n.group = q.group /\ n.at = q.at
  BY <1>4, <1>6
<1>9. a \in RowsIn(q) /\ RowsIn(n) = RowsIn(q) /\ a \in q.todo
  BY <1>2, <1>4, <1>8 DEF RowsIn, TakenSound
<1>10. DOMAIN n.dirty = DOMAIN q.dirty \cup {a} /\ n.dirty[a] = columns
       /\ \A b \in DOMAIN q.dirty \ {a} : n.dirty[b] = q.dirty[b]
  BY <1>8 DEF Flushed
<1> HIDE DEF n
<1>11. IsRow(q.rows[a])
  BY <1>4, <1>9 DEF TakenSound
<1>12. /\ IsColumns(columns)
       /\ q.rows[a].source = "ASSET_OVERRIDE" /\ q.kind # "override" => DOMAIN columns \subseteq {"profile"}
  <2>1. GroupsSound(groups, clock)
    BY DEF ContextInv
  <2> QED BY <1>1, <1>4, <1>11, <2>1, DecidedIsRow, ColumnsAsRow
<1>13. TakenSound(n)
  <2>1. DOMAIN n.dirty = RowsIn(n) \ n.todo
    BY <1>4, <1>8, <1>9, <1>10 DEF TakenSound
  <2>2. \A b \in DOMAIN n.dirty : IsColumns(n.dirty[b])
    BY <1>4, <1>10, <1>12 DEF TakenSound
  <2> HIDE DEF columns
  <2> QED BY <1>4, <1>8, <1>9, <2>1, <2>2 DEF TakenSound
<1>14. RequestSound(n, clock)
  BY <1>4, <1>7, <1>8, <1>13 DEF RequestSound
<1>15. ~n.met => Abreast(n, assets, groups)
  BY <1>5, <1>7, <1>8, <1>9, <1>10 DEF Abreast
<1>16. Spares(n, chosen, contested)
  BY <1>5, <1>8, <1>9, <1>10, <1>12 DEF Spares
<1>17. KnowsMembers(n, groups, apart)
  BY <1>5, <1>8 DEF KnowsMembers
<1>18. RequestAgrees(n, assets, groups, chosen, contested, apart)
  BY <1>15, <1>16, <1>17 DEF RequestAgrees
<1> QED BY <1>1, <1>3, <1>14, <1>18, OneMoves DEF Decides

\* The commit, as the facts the other proofs use.
LEMMA CommitFacts ==
    ASSUME ContextInv, NEW t \in Requests, CommitsRequest(t)
    PROVE  LET q == requests[t] IN
           /\ q.stage = "deciding" /\ q.todo = {} /\ FormSound(q) /\ TakenSound(q) /\ q.at \in Nat /\ q.at <= clock
           /\ q.met \in BOOLEAN /\ RequestAgrees(q, assets, groups, chosen, contested, apart)
           /\ DOMAIN q.dirty = RowsIn(q)
           /\ assets' = [a \in Assets |-> IF a \in RowsIn(q) THEN Written(q.dirty[a], assets[a]) ELSE assets[a]]
           /\ groups' = IF q.kind = "deleteGroup"
                        THEN [groups EXCEPT ![q.group] = [there |-> FALSE, members |-> {}, override |-> NoOverride]]
                        ELSE SeenBy(q, groups)
           /\ q.kind \in OfGroup /\ q.kind # "removeMember" => groups[q.group].there
<1> DEFINE q == requests[t]
<1>1. q.stage = "deciding" /\ q.todo = {} /\ ~Refused(t)
  BY DEF CommitsRequest
<1>2. RequestSound(q, clock) /\ RequestAgrees(q, assets, groups, chosen, contested, apart)
  BY DEF ContextInv
<1>3. FormSound(q) /\ TakenSound(q) /\ q.at \in Nat /\ q.at <= clock /\ q.met \in BOOLEAN
  BY <1>1, <1>2 DEF RequestSound
<1>4. DOMAIN q.dirty = RowsIn(q)
  BY <1>1, <1>3 DEF TakenSound
<1>5. assets' = [a \in Assets |-> IF a \in RowsIn(q) THEN Written(q.dirty[a], assets[a]) ELSE assets[a]]
  BY <1>4 DEF CommitsRequest
<1>6. GroupsSeen(t) = SeenBy(q, groups)
  BY DEF GroupsSeen, SeenBy
<1>7. groups' = IF q.kind = "deleteGroup"
                THEN [groups EXCEPT ![q.group] = [there |-> FALSE, members |-> {}, override |-> NoOverride]]
                ELSE SeenBy(q, groups)
  BY <1>6 DEF CommitsRequest, GroupsAfter
<1>8. q.kind \in OfGroup /\ q.kind # "removeMember" => groups[q.group].there
  BY <1>1, <1>3, ContextBounds DEF Refused, FormSound
<1> QED BY <1>1, <1>2, <1>3, <1>4, <1>5, <1>7, <1>8

\* What a transaction nothing met has decided is what it writes.
LEMMA DecisionsLand ==
    ASSUME ContextInv, NEW t \in Requests, CommitsRequest(t), ~requests[t].met, NEW a \in RowsIn(requests[t])
    PROVE  assets'[a] = DecidedBy(requests[t], groups, assets[a], a)
<1> DEFINE q == requests[t]
           n == DecidedBy(q, groups, assets[a], a)
<1>1. /\ q.stage = "deciding" /\ FormSound(q) /\ TakenSound(q) /\ q.at \in Nat /\ q.at <= clock
      /\ RequestAgrees(q, assets, groups, chosen, contested, apart) /\ DOMAIN q.dirty = RowsIn(q)
      /\ assets' = [b \in Assets |-> IF b \in RowsIn(q) THEN Written(q.dirty[b], assets[b]) ELSE assets[b]]
  BY CommitFacts
<1>2. a \in Assets
  BY <1>1 DEF TakenSound
<1>3. assets'[a] = Written(Changed(assets[a], n), assets[a])
  BY <1>1, <1>2 DEF RequestAgrees, Abreast
<1>4. IsRow(assets[a]) /\ clock \in Nat /\ GroupsSound(groups, clock)
  BY <1>2 DEF ContextInv, AssetsSound, ChoicesSound
<1>5. IsRow(n)
  BY <1>1, <1>4, DecidedIsRow
<1> HIDE DEF n
<1> QED BY <1>3, <1>4, <1>5, ColumnsAsRow DEF n

LEMMA CommitKeepsRows ==
    ASSUME ContextInv, NEW t \in Requests, CommitsRequest(t)
    PROVE  AssetsSound(assets') /\ GroupsSound(groups', clock') /\ ChoicesSound'
<1> DEFINE q == requests[t]
<1>1. /\ FormSound(q) /\ TakenSound(q) /\ q.at \in Nat /\ q.at <= clock /\ DOMAIN q.dirty = RowsIn(q)
      /\ assets' = [a \in Assets |-> IF a \in RowsIn(q) THEN Written(q.dirty[a], assets[a]) ELSE assets[a]]
      /\ groups' = IF q.kind = "deleteGroup"
                   THEN [groups EXCEPT ![q.group] = [there |-> FALSE, members |-> {}, override |-> NoOverride]]
                   ELSE SeenBy(q, groups)
      /\ q.kind \in OfGroup /\ q.kind # "removeMember" => groups[q.group].there
  BY CommitFacts
<1>2. clock' = clock /\ clock \in Nat /\ GroupsSound(groups, clock)
  BY DEF CommitsRequest, ContextInv, ChoicesSound
<1>3. AssetsSound(assets')
  <2>1. ASSUME NEW a \in Assets PROVE IsRow(assets'[a])
    <3>1. IsRow(assets[a])
      BY DEF ContextInv, AssetsSound
    <3>2. CASE a \in RowsIn(q)
      <4>1. IsColumns(q.dirty[a])
        BY <1>1, <3>2 DEF TakenSound
      <4> QED BY <1>1, <3>1, <3>2, <4>1, WrittenIsRow
    <3>3. CASE a \notin RowsIn(q)
      BY <1>1, <3>1, <3>3
    <3> QED BY <3>2, <3>3
  <2>2. assets' = [a \in Assets |-> assets'[a]]
    BY <1>1
  <2> QED BY <2>1, <2>2 DEF AssetsSound
<1>4. GroupsSound(groups', clock)
  <2>1. CASE q.kind = "deleteGroup"
    <3>1. groups' = [groups EXCEPT ![q.group] = [there |-> FALSE, members |-> {}, override |-> NoOverride]]
      BY <1>1, <2>1
    <3>2. [there |-> FALSE, members |-> {}, override |-> NoOverride] \in GroupRow /\ NoOverride.at = 0
      BY DEF GroupRow, NoOverride
    <3>3. ASSUME NEW g \in Groups
          PROVE  /\ groups'[g] \in GroupRow /\ groups'[g].override.at <= clock
                 /\ ~groups'[g].there => groups'[g].members = {} /\ groups'[g].override = NoOverride
      <4>1. CASE g = q.group
        <5>1. groups'[g] = [there |-> FALSE, members |-> {}, override |-> NoOverride]
          BY <1>2, <3>1, <4>1 DEF GroupsSound
        <5>2. groups'[g].members = {} /\ groups'[g].override = NoOverride
          BY <5>1
        <5> QED BY <1>2, <3>2, <5>1, <5>2
      <4>2. CASE g # q.group
        BY <1>2, <3>1, <4>2 DEF GroupsSound
      <4> QED BY <4>1, <4>2
    <3>4. groups' \in [Groups -> GroupRow]
      BY <1>2, <3>1, <3>3 DEF GroupsSound
    <3> QED BY <3>3, <3>4 DEF GroupsSound
  <2>2. CASE q.kind # "deleteGroup"
    <3>1. groups' = SeenBy(q, groups)
      BY <1>1, <2>2
    <3>2. groups' \in [Groups -> GroupRow] /\ \A g \in Groups : groups'[g].override.at <= clock
      BY <1>1, <1>2, <3>1, SeenAreGroups
    <3>3. ASSUME NEW g \in Groups, ~groups'[g].there PROVE groups'[g].members = {} /\ groups'[g].override = NoOverride
      <4>1. groups[g] \in GroupRow
        BY <1>2 DEF GroupsSound
      <4>2. CASE groups'[g] = groups[g]
        BY <1>2, <3>3, <4>2 DEF GroupsSound
      <4>3. CASE g = q.group /\ q.kind \in OfGroup /\ q.kind # "removeMember" /\ groups'[g] # groups[g]
        <5>1. groups'[g].there = groups[g].there
          BY <3>1, <4>1, <4>3 DEF SeenBy, GroupRow
        <5> QED BY <1>1, <3>3, <4>3, <5>1
      <4>4. CASE g = q.group /\ q.kind = "removeMember"
        <5>1. groups'[g] = [groups[g] EXCEPT !.members = @ \ {q.asset}]
          BY <3>1, <4>4 DEF SeenBy
        <5>2. groups'[g].there = groups[g].there /\ groups'[g].members = groups[g].members \ {q.asset}
              /\ groups'[g].override = groups[g].override
          BY <4>1, <5>1 DEF GroupRow
        <5> QED BY <1>2, <3>3, <5>2 DEF GroupsSound
      <4> QED BY <3>1, <4>2, <4>3, <4>4 DEF SeenBy, OfGroup
    <3> QED BY <3>2, <3>3 DEF GroupsSound
  <2> QED BY <2>1, <2>2
<1>5. ChoicesSound'
  <2>1. q.kind = "override" => q.asset \in Assets /\ q.value \in Criticality
    BY <1>1 DEF FormSound, OfAsset
  <2>2. chosen' \in [Assets -> Criticality \cup {None}]
    BY <2>1 DEF CommitsRequest, ContextInv, ChoicesSound
  <2>3. contested' \in SUBSET Assets
    BY <2>1 DEF CommitsRequest, ContextInv, ChoicesSound
  <2>4. apart' \in SUBSET Assets
    <3>1. q.kind = "intune" => q.asset \in Assets
      BY <1>1 DEF FormSound, OfAsset
    <3>2. \A met \in BOOLEAN : Unsettles(q, met) \subseteq Assets
      BY <3>1 DEF Unsettles
    <3>3. PICK met \in BOOLEAN : apart' = (apart \ (IF met THEN {} ELSE Settles(q))) \cup Unsettles(q, met)
      <4>1. (q.met \/ Meets(t) # {}) \in BOOLEAN
        OBVIOUS
      <4> QED BY <4>1 DEF CommitsRequest
    <3> QED BY <3>2, <3>3 DEF ContextInv, ChoicesSound
  <2> QED BY <1>2, <2>2, <2>3, <2>4 DEF ContextInv, ChoicesSound
<1> QED BY <1>2, <1>3, <1>4, <1>5

\* The overrides on an asset depend on the groups that have it.
LEMMA SameOverrides ==
    ASSUME NEW Gs, NEW Hs, NEW a,
           \A g \in Groups : /\ a \in Gs[g].members <=> a \in Hs[g].members
                             /\ a \in Gs[g].members => Gs[g].override = Hs[g].override
    PROVE  OverridesOn(Gs, a) = OverridesOn(Hs, a)
<1>1. {h \in Groups : a \in Gs[h].members /\ Gs[h].override # NoOverride}
      = {h \in Groups : a \in Hs[h].members /\ Hs[h].override # NoOverride}
  OBVIOUS
<1> QED BY <1>1 DEF OverridesOn

\* A commit changes one group at most, and of its members one it had loaded,
\* unless it deletes the group.
LEMMA CommitChangesGroup ==
    ASSUME ContextInv, NEW t \in Requests, CommitsRequest(t), NEW g \in Groups
    PROVE  LET q == requests[t] IN
           /\ g # q.group => groups'[g] = groups[g]
           /\ g = q.group => g \in q.foot /\ q.kind \in OfGroup
           /\ groups'[g].members \subseteq groups[g].members \cup q.foot
           /\ q.kind # "deleteGroup" => groups[g].members \subseteq groups'[g].members \cup q.foot
           /\ q.kind # "addMember" => groups'[g].members \subseteq groups[g].members
           /\ g = q.group /\ q.kind \notin {"setGroup", "deleteGroup"} => groups'[g].override = groups[g].override
<1> DEFINE q == requests[t]
<1>1. /\ FormSound(q) /\ TakenSound(q)
      /\ groups' = IF q.kind = "deleteGroup"
                   THEN [groups EXCEPT ![q.group] = [there |-> FALSE, members |-> {}, override |-> NoOverride]]
                   ELSE SeenBy(q, groups)
  BY CommitFacts
<1>2. groups \in [Groups -> GroupRow] /\ groups[g] \in GroupRow
  BY DEF ContextInv, GroupsSound
<1>3. CASE g # q.group
  BY <1>1, <1>2, <1>3 DEF SeenBy
<1>4. CASE g = q.group
  <2>1. g \in q.foot /\ q.kind \in OfGroup
    BY <1>1, <1>4, ContextBounds DEF FormSound, TakenSound
  <2>2. q.kind \in {"addMember", "removeMember"} => q.asset \in q.foot
    BY <1>1 DEF TakenSound, OfAsset
  <2>3. CASE q.kind = "deleteGroup"
    <3>1. groups'[g] = [there |-> FALSE, members |-> {}, override |-> NoOverride]
      BY <1>1, <1>2, <1>4, <2>3
    <3> QED BY <1>4, <2>1, <2>3, <3>1
  <2>4. CASE q.kind = "addMember"
    <3>1. groups'[g] = [groups[g] EXCEPT !.members = @ \cup {q.asset}]
      BY <1>1, <1>4, <2>4 DEF SeenBy
    <3>2. groups'[g].members = groups[g].members \cup {q.asset} /\ groups'[g].override = groups[g].override
      BY <1>2, <3>1 DEF GroupRow
    <3> QED BY <1>4, <2>1, <2>2, <2>4, <3>2
  <2>5. CASE q.kind = "removeMember"
    <3>1. groups'[g] = [groups[g] EXCEPT !.members = @ \ {q.asset}]
      BY <1>1, <1>4, <2>5 DEF SeenBy
    <3>2. groups'[g].members = groups[g].members \ {q.asset} /\ groups'[g].override = groups[g].override
      BY <1>2, <3>1 DEF GroupRow
    <3> QED BY <1>4, <2>1, <2>2, <2>5, <3>2
  <2>6. CASE q.kind = "setGroup"
    <3>1. groups'[g] = groups[g] \/ groups'[g] = [groups[g] EXCEPT !.override = [value |-> q.value, at |-> q.at]]
      BY <1>1, <1>4, <2>6 DEF SeenBy
    <3>2. groups'[g].members = groups[g].members
      BY <1>2, <3>1 DEF GroupRow
    <3> QED BY <1>4, <2>1, <2>6, <3>2
  <2> QED BY <2>1, <2>3, <2>4, <2>5, <2>6 DEF OfGroup
<1> QED BY <1>3, <1>4

\* What others committed before it holds of a transaction that goes on.
LEMMA OtherGoesOn ==
    ASSUME ContextInv, NEW t \in Requests, CommitsRequest(t), NEW u \in Requests, u # t
    PROVE  /\ RequestSound(requests'[u], clock')
           /\ RequestAgrees(requests'[u], assets', groups', chosen', contested', apart')
<1> DEFINE q == requests[t]
           w == requests[u]
           n == requests'[u]
           met == q.met \/ Meets(t) # {}
<1>1. /\ q.stage = "deciding" /\ FormSound(q) /\ TakenSound(q) /\ q.met \in BOOLEAN
      /\ RequestAgrees(q, assets, groups, chosen, contested, apart)
      /\ assets' = [a \in Assets |-> IF a \in RowsIn(q) THEN Written(q.dirty[a], assets[a]) ELSE assets[a]]
  BY CommitFacts
<1>2. RequestSound(w, clock) /\ RequestAgrees(w, assets, groups, chosen, contested, apart) /\ clock' = clock
  BY DEF ContextInv, CommitsRequest
<1>3. n = IF u \in Meets(t) THEN [w EXCEPT !.met = TRUE] ELSE w
  BY DEF CommitsRequest
<1>4. /\ IsRequest(n) /\ n.stage = w.stage /\ n.todo = w.todo /\ n.rows = w.rows /\ n.dirty = w.dirty /\ n.foot = w.foot
      /\ n.kind = w.kind /\ n.asset = w.asset /\ n.group = w.group /\ n.at = w.at /\ n.value = w.value
      /\ n.before = w.before /\ n.profile = w.profile
      /\ n.met \in BOOLEAN /\ (~n.met => n = w)
  <2>1. IsRequest(w) /\ w.met \in BOOLEAN
    BY <1>2 DEF RequestSound
  <2>2. CASE u \in Meets(t)
    <3>1. n = [w EXCEPT !.met = TRUE]
      BY <1>3, <2>2
    <3> QED BY <2>1, <3>1 DEF IsRequest, RequestFields
  <2>3. CASE u \notin Meets(t)
    BY <1>3, <2>1, <2>3
  <2> QED BY <2>2, <2>3
<1>5. w.stage = "deciding" /\ u \notin Meets(t) => w.foot \cap q.foot = {}
  BY DEF Meets
<1>6. w.stage = "begun" => n = w
  BY <1>3 DEF Meets
<1> HIDE DEF n
<1>7. RequestSound(n, clock')
  <2>1. FormSound(w) => FormSound(n)
    BY <1>4 DEF FormSound
  <2>2. TakenSound(w) => TakenSound(n)
    BY <1>4 DEF TakenSound, RowsIn
  <2> QED BY <1>2, <1>4, <1>6, <2>1, <2>2 DEF RequestSound
<1>8. SUFFICES ASSUME w.stage = "deciding"
               PROVE  /\ ~n.met => Abreast(n, assets', groups')
                      /\ Spares(n, chosen', contested') /\ KnowsMembers(n, groups', apart')
  BY <1>4, <1>7 DEF RequestAgrees, n
<1>9. TakenSound(w) /\ FormSound(w) /\ Spares(w, chosen, contested) /\ KnowsMembers(w, groups, apart)
      /\ (~w.met => Abreast(w, assets, groups))
  BY <1>2, <1>8 DEF RequestSound, RequestAgrees
<1>10. RowsIn(n) = RowsIn(w) /\ RowsIn(w) \subseteq w.foot /\ RowsIn(w) \subseteq Assets
  BY <1>4, <1>9 DEF RowsIn, TakenSound
<1>11. ASSUME ~n.met PROVE Abreast(n, assets', groups')
  <2>1. n = w /\ w.foot \cap q.foot = {} /\ Abreast(w, assets, groups)
    <3>1. u \in Meets(t) => n.met
      BY <1>2, <1>3 DEF n, RequestSound, IsRequest, RequestFields
    <3> QED BY <1>4, <1>5, <1>8, <1>9, <1>11, <3>1
  <2>2. ASSUME NEW a \in RowsIn(w) PROVE assets'[a] = assets[a]
    <3>1. a \notin RowsIn(q)
      BY <1>1, <1>10, <2>1 DEF TakenSound
    <3> QED BY <1>1, <1>10, <3>1
  <2>3. ASSUME NEW g \in Groups, NEW a \in RowsIn(w)
        PROVE  /\ a \in groups'[g].members <=> a \in groups[g].members
               /\ a \in groups[g].members => groups'[g] = groups[g]
    <3>1. a \notin q.foot
      BY <1>10, <2>1
    <3>2. a \in groups'[g].members => a \in groups[g].members
      BY <3>1, CommitChangesGroup
    <3>3. a \in groups[g].members => groups'[g] = groups[g]
      BY <2>1, CommitChangesGroup DEF Abreast
    <3> QED BY <3>2, <3>3
  <2>4. \A g \in Groups : groups'[g].members \cap RowsIn(w) # {} => g \in w.foot
    BY <2>1, <2>3 DEF Abreast
  <2>5. ASSUME NEW a \in RowsIn(w), NEW row PROVE DecidedBy(w, groups', row, a) = DecidedBy(w, groups, row, a)
    <3>1. ASSUME NEW g \in Groups
          PROVE  /\ a \in SeenBy(w, groups')[g].members <=> a \in SeenBy(w, groups)[g].members
                 /\ a \in SeenBy(w, groups')[g].members => SeenBy(w, groups')[g].override = SeenBy(w, groups)[g].override
      <4>1. CASE g # q.group
        <5>1. groups'[g] = groups[g]
          BY <4>1, CommitChangesGroup
        <5> QED BY <5>1 DEF SeenBy
      <4>2. CASE g = q.group
        <5>1. g \in q.foot
          BY <4>2, CommitChangesGroup
        <5>2. g # w.group
          BY <1>9, <2>1, <5>1, ContextBounds DEF FormSound, TakenSound
        <5>3. SeenBy(w, groups')[g] = groups'[g] /\ SeenBy(w, groups)[g] = groups[g]
          BY <5>2 DEF SeenBy
        <5> QED BY <2>3, <5>3
      <4> QED BY <4>1, <4>2
    <3>2. OverridesOn(SeenBy(w, groups'), a) = OverridesOn(SeenBy(w, groups), a)
      BY <3>1, SameOverrides
    <3> QED BY <3>2 DEF DecidedBy
  <2>6. \A a \in DOMAIN w.dirty : a \in RowsIn(w)
    BY <1>9 DEF TakenSound
  <2> QED BY <2>1, <2>2, <2>4, <2>5, <2>6 DEF Abreast
<1>12. Spares(n, chosen', contested')
  <2>1. ASSUME NEW a \in RowsIn(w) \ contested', chosen'[a] # None
        PROVE  a \notin contested /\ chosen'[a] = chosen[a]
    <3>1. a \in Assets /\ a \in w.foot
      BY <1>10
    <3>2. CASE q.kind = "override"
      <4>1. RowsIn(q) = {q.asset} /\ q.asset \in q.foot /\ q.asset \in Assets
        BY <1>1, <3>2 DEF TakenSound, OfAsset
      <4>2. CASE met
        <5>1. contested' = contested \cup {q.asset} /\ chosen' = [chosen EXCEPT ![q.asset] = q.value]
          BY <3>2, <4>2 DEF CommitsRequest
        <5> QED BY <2>1, <3>1, <5>1 DEF ContextInv, ChoicesSound
      <4>3. CASE ~met
        <5>1. w.foot \cap q.foot = {}
          BY <1>5, <1>8, <4>3
        <5>2. contested' = contested \ {q.asset} /\ chosen' = [chosen EXCEPT ![q.asset] = q.value]
          BY <3>2, <4>3 DEF CommitsRequest
        <5>3. a # q.asset
          BY <3>1, <4>1, <5>1
        <5> QED BY <2>1, <3>1, <5>2, <5>3 DEF ContextInv, ChoicesSound
      <4> QED BY <4>2, <4>3
    <3>3. CASE q.kind # "override"
      BY <2>1, <3>3 DEF CommitsRequest
    <3> QED BY <3>2, <3>3
  <2> QED BY <1>4, <1>9, <1>10, <2>1 DEF Spares
<1>13. KnowsMembers(n, groups', apart')
  <2> SUFFICES ASSUME w.kind \in {"setGroup", "deleteGroup"}, NEW a \in groups'[w.group].members, a \notin w.foot
               PROVE  a \in apart'
    BY <1>4 DEF KnowsMembers
  <2>1. w.group \in Groups /\ w.group \in w.foot
    BY <1>9 DEF FormSound, TakenSound, OfGroup
  <2>2. a \in Assets
    BY <2>1, CommitKeepsRows DEF GroupsSound, GroupRow
  <2>3. apart' = (apart \ (IF met THEN {} ELSE Settles(q))) \cup Unsettles(q, met)
    BY DEF CommitsRequest
  <2>4. CASE a \in groups[w.group].members
    <3>1. a \in apart
      BY <1>9, <2>4 DEF KnowsMembers
    <3>2. ASSUME ~met, a \in Settles(q) PROVE FALSE
      <4>1. a \in RowsIn(q)
        BY <1>1, <3>2 DEF Settles, TakenSound
      <4>2. w.group \in q.foot
        BY <1>1, <2>1, <2>4, <3>2, <4>1 DEF RequestAgrees, Abreast
      <4> QED BY <1>5, <1>8, <2>1, <3>2, <4>2
    <3> QED BY <2>3, <3>1, <3>2
  <2>5. CASE a \notin groups[w.group].members
    <3>1. w.group = q.group /\ w.group \in q.foot /\ a \in q.foot
      BY <2>1, <2>5, CommitChangesGroup
    <3>2. met
      BY <1>5, <1>8, <2>1, <3>1
    <3>3. a \in Unsettles(q, met)
      BY <2>2, <3>1, <3>2 DEF Unsettles
    <3> QED BY <2>3, <3>3
  <2> QED BY <2>4, <2>5
<1> QED BY <1>11, <1>12, <1>13

LEMMA CommitKeepsOverrides == ASSUME ContextInv, NEW t \in Requests, CommitsRequest(t) PROVE OverridesStand'
<1> DEFINE q == requests[t]
           met == q.met \/ Meets(t) # {}
<1>1. /\ FormSound(q) /\ TakenSound(q) /\ q.stage = "deciding" /\ DOMAIN q.dirty = RowsIn(q)
      /\ RequestAgrees(q, assets, groups, chosen, contested, apart)
      /\ assets' = [a \in Assets |-> IF a \in RowsIn(q) THEN Written(q.dirty[a], assets[a]) ELSE assets[a]]
  BY CommitFacts
<1> SUFFICES ASSUME NEW a \in Assets \ contested', chosen'[a] # None
             PROVE  assets'[a].criticality = chosen'[a] /\ assets'[a].source = "ASSET_OVERRIDE"
  BY DEF OverridesStand
<1>2. IsRow(assets[a])
  BY DEF ContextInv, AssetsSound
<1>3. CASE q.kind = "override" /\ a = q.asset
  <2>1. ~met
    <3>1. met => contested' = contested \cup {q.asset}
      BY <1>3 DEF CommitsRequest
    <3> QED BY <1>3, <3>1
  <2>2. a \in RowsIn(q)
    BY <1>1, <1>3 DEF TakenSound, OfAsset
  <2>3. assets'[a] = [assets[a] EXCEPT !.criticality = q.value, !.source = "ASSET_OVERRIDE"]
    BY <1>3, <2>1, <2>2, DecisionsLand DEF DecidedBy
  <2>4. assets'[a].criticality = q.value /\ assets'[a].source = "ASSET_OVERRIDE"
    BY <1>2, <2>3 DEF IsRow
  <2>5. chosen'[a] = q.value
    BY <1>3 DEF CommitsRequest, ContextInv, ChoicesSound
  <2> QED BY <2>4, <2>5
<1>4. CASE ~(q.kind = "override" /\ a = q.asset)
  <2>1. chosen'[a] = chosen[a] /\ a \notin contested
    <3>1. CASE q.kind = "override"
      <4>1. chosen' = [chosen EXCEPT ![q.asset] = q.value] /\ contested \ {q.asset} \subseteq contested'
        BY <3>1 DEF CommitsRequest
      <4> QED BY <1>4, <3>1, <4>1 DEF ContextInv, ChoicesSound
    <3>2. CASE q.kind # "override"
      BY <3>2 DEF CommitsRequest
    <3> QED BY <3>1, <3>2
  <2>2. assets[a].criticality = chosen[a] /\ assets[a].source = "ASSET_OVERRIDE"
    BY <2>1 DEF ContextInv, OverridesStand
  <2>3. CASE a \in RowsIn(q)
    <3>1. q.kind # "override"
      BY <1>1, <1>4, <2>3 DEF TakenSound, OfAsset
    <3>2. DOMAIN q.dirty[a] \subseteq {"profile"} /\ IsColumns(q.dirty[a])
      BY <1>1, <2>1, <2>3, <3>1 DEF RequestAgrees, Spares, TakenSound
    <3> QED BY <1>1, <1>2, <2>1, <2>2, <2>3, <3>2, WrittenIsRow
  <2>4. CASE a \notin RowsIn(q)
    BY <1>1, <2>1, <2>2, <2>4
  <2> QED BY <2>3, <2>4
<1> QED BY <1>3, <1>4

LEMMA CommitKeepsTiers ==
    ASSUME ContextInv, NEW t \in Requests, CommitsRequest(t), NEW a \in Assets \ apart'
    PROVE  InItsTier(assets'[a], groups', a)
<1> DEFINE q == requests[t]
           met == q.met \/ Meets(t) # {}
<1>1. /\ FormSound(q) /\ TakenSound(q) /\ q.stage = "deciding" /\ q.at \in Nat /\ q.at <= clock
      /\ RequestAgrees(q, assets, groups, chosen, contested, apart)
      /\ assets' = [b \in Assets |-> IF b \in RowsIn(q) THEN Written(q.dirty[b], assets[b]) ELSE assets[b]]
      /\ groups' = IF q.kind = "deleteGroup"
                   THEN [groups EXCEPT ![q.group] = [there |-> FALSE, members |-> {}, override |-> NoOverride]]
                   ELSE SeenBy(q, groups)
  BY CommitFacts
<1>2. apart' = (apart \ (IF met THEN {} ELSE Settles(q))) \cup Unsettles(q, met)
  BY DEF CommitsRequest
<1>3. IsRow(assets[a]) /\ clock \in Nat /\ GroupsSound(groups, clock)
  BY DEF ContextInv, AssetsSound, ChoicesSound
<1>4. CASE a \notin q.foot
  <2>1. a \notin apart
    <3>1. Settles(q) \subseteq q.foot
      BY DEF Settles
    <3> QED BY <1>2, <1>4, <3>1
  <2>2. InItsTier(assets[a], groups, a) /\ assets'[a] = assets[a]
    BY <1>1, <1>4, <2>1 DEF ContextInv, TakenSound
  <2>3. ASSUME NEW g \in Groups
        PROVE  /\ a \in groups'[g].members <=> a \in groups[g].members
               /\ a \in groups'[g].members => groups'[g].override = groups[g].override
    <3>1. CASE g # q.group
      BY <3>1, CommitChangesGroup
    <3>2. CASE g = q.group /\ q.kind \in {"setGroup", "deleteGroup"}
      <4>1. a \notin groups[g].members
        BY <1>1, <1>4, <2>1, <3>2 DEF RequestAgrees, KnowsMembers
      <4>2. groups'[g].members \subseteq groups[g].members
        BY <3>2, CommitChangesGroup
      <4> QED BY <4>1, <4>2
    <3>3. CASE g = q.group /\ q.kind \notin {"setGroup", "deleteGroup"}
      BY <1>4, <3>3, CommitChangesGroup
    <3> QED BY <3>1, <3>2, <3>3
  <2>4. OverridesOn(groups', a) = OverridesOn(groups, a)
    BY <2>3, SameOverrides
  <2>5. PICK row, Gs : row = assets'[a] /\ Gs = groups'
    OBVIOUS
  <2>6. InItsTier(row, Gs, a)
    BY <2>2, <2>4, <2>5 DEF InItsTier
  <2> QED BY <2>5, <2>6
<1>5. CASE a \in q.foot
  <2>1. ~met /\ q.kind # "deleteGroup" /\ (q.kind = "intune" => a # q.asset)
    BY <1>2, <1>5 DEF Unsettles
  <2>2. a \in RowsIn(q) /\ groups' = SeenBy(q, groups)
    BY <1>1, <1>5, <2>1 DEF TakenSound
  <2>3. assets'[a] = DecidedBy(q, groups, assets[a], a)
    BY <2>1, <2>2, DecisionsLand
  <2>4. groups' \in [Groups -> GroupRow] /\ \A g \in Groups : groups'[g].override.at <= clock
    <3> HIDE DEF q
    <3>1. /\ SeenBy(q, groups) \in [Groups -> GroupRow]
          /\ \A g \in Groups : SeenBy(q, groups)[g].override.at <= clock
      BY <1>1, <1>3, SeenAreGroups
    <3> QED BY <2>2, <3>1
  <2>5. CASE q.kind = "override"
    <3>1. assets'[a] = [assets[a] EXCEPT !.criticality = q.value, !.source = "ASSET_OVERRIDE"]
      BY <2>3, <2>5 DEF DecidedBy
    <3>2. assets'[a].source = "ASSET_OVERRIDE"
      BY <1>3, <3>1 DEF IsRow
    <3> QED BY <3>2 DEF InItsTier
  <2>6. CASE q.kind = "sync"
    <3>1. a \notin apart /\ groups' = groups
      <4>1. Settles(q) = {}
        BY <2>6 DEF Settles
      <4>2. q.group \notin Groups
        BY <1>1, <2>6, ContextBounds DEF FormSound, OfGroup
      <4> QED BY <1>2, <1>3, <2>2, <4>1, <4>2 DEF SeenBy, GroupsSound
    <3>2. InItsTier(assets[a], groups, a)
      BY <3>1 DEF ContextInv
    <3> DEFINE m == [criticality |-> assets[a].criticality, source |-> assets[a].source, profile |-> q.profile]
    <3>3. assets'[a] = Reinferred(m)
      BY <1>3, <2>3, <2>6 DEF DecidedBy, IsRow
    <3>4. IF assets[a].source = "AUTO"
          THEN assets'[a] = [criticality |-> Inferred(q.profile), source |-> "AUTO", profile |-> q.profile]
          ELSE assets'[a] = m
      BY <3>3 DEF Reinferred
    <3>5. CASE assets[a].source = "AUTO"
      <4>1. OverridesOn(groups, a) = {}
        BY <3>2, <3>5 DEF InItsTier
      <4> QED BY <3>1, <3>4, <3>5, <4>1 DEF InItsTier
    <3>6. CASE assets[a].source # "AUTO"
      <4>1. assets'[a].source = assets[a].source /\ assets'[a].criticality = assets[a].criticality
        BY <3>4, <3>6
      <4>2. assets[a].source \in {"GROUP_OVERRIDE", "ASSET_OVERRIDE"}
        BY <1>3, <3>6 DEF IsRow, Sources
      <4> QED BY <3>1, <3>2, <4>1, <4>2 DEF InItsTier
    <3> QED BY <3>5, <3>6
  <2>7. CASE q.kind = "intune"
    BY <1>1, <2>1, <2>2, <2>7 DEF TakenSound, OfAsset
  <2>8. CASE q.kind \notin {"override", "sync", "intune"}
    <3>1. assets'[a] = Precedence(assets[a], OverridesOn(groups', a))
      BY <2>2, <2>3, <2>8 DEF DecidedBy
    <3> QED BY <1>3, <2>4, <3>1, PrecedenceSettles
  <2> QED BY <2>5, <2>6, <2>7, <2>8
<1> QED BY <1>4, <1>5

LEMMA CommitKeepsContext == ASSUME ContextInv, NEW t \in Requests, CommitsRequest(t) PROVE ContextInv'
<1>1. requests' = [u \in Requests |-> requests'[u]] /\ requests'[t] = IdleRequest
  BY DEF CommitsRequest
<1>2. ASSUME NEW u \in Requests
      PROVE  /\ RequestSound(requests'[u], clock')
             /\ RequestAgrees(requests'[u], assets', groups', chosen', contested', apart')
  BY <1>1, OtherGoesOn, IdleIsSound
<1> QED BY <1>1, <1>2, CommitKeepsRows, CommitKeepsOverrides, CommitKeepsTiers DEF ContextInv

LEMMA ContextStarts == ContextInit => ContextInv
<1> SUFFICES ASSUME ContextInit PROVE ContextInv
  OBVIOUS
<1>1. clock = 0 /\ chosen = [a \in Assets |-> None] /\ contested = {} /\ apart = {} /\ MaxRequests \in Nat
  BY ContextBounds DEF ContextInit
<1>2. ChoicesSound /\ OverridesStand
  BY <1>1 DEF ChoicesSound, OverridesStand
<1>3. groups \in [Groups -> [there : {TRUE}, members : SUBSET Assets, override : {NoOverride}]]
  BY DEF ContextInit
<1>4. GroupsSound(groups, clock)
  <2>1. NoOverride.at = 0
    BY DEF NoOverride
  <2>2. ASSUME NEW g \in Groups
        PROVE  groups[g] \in GroupRow /\ groups[g].there = TRUE /\ groups[g].override = NoOverride
    BY <1>3 DEF GroupRow
  <2>3. groups \in [Groups -> GroupRow]
    BY <1>3, <2>2
  <2>4. \A g \in Groups : groups[g].override.at <= clock
    <3>1. \A g \in Groups : groups[g].override.at = clock
      BY <1>1, <2>1, <2>2
    <3>2. clock <= clock
      BY <1>1
    <3> QED BY <3>1, <3>2
  <2>5. \A g \in Groups : groups[g].there
    BY <2>2
  <2> QED BY <2>3, <2>4, <2>5 DEF GroupsSound
<1>5. ASSUME NEW a \in Assets
      PROVE  assets[a] = [criticality |-> Inferred(Plain), source |-> "AUTO", profile |-> Plain]
  BY DEF ContextInit
<1>6. AssetsSound(assets)
  <2>1. IsProfile(Plain)
    BY DEF IsProfile, Plain
  <2>2. \A a \in Assets : IsRow(assets[a])
    BY <1>5, <2>1, InferredIsCriticality DEF IsRow, Sources
  <2> QED BY <2>2 DEF AssetsSound, ContextInit
<1>7. ASSUME NEW a \in Assets PROVE InItsTier(assets[a], groups, a)
  <2>1. OverridesOn(groups, a) = {}
    BY <1>3 DEF OverridesOn
  <2> QED BY <1>5, <2>1 DEF InItsTier
<1>8. requests = [t \in Requests |-> requests[t]] /\ \A t \in Requests : requests[t] = IdleRequest
  BY DEF ContextInit
<1>9. \A t \in Requests : /\ RequestSound(requests[t], clock)
                          /\ RequestAgrees(requests[t], assets, groups, chosen, contested, apart)
  BY <1>8, IdleIsSound
<1> QED BY <1>2, <1>4, <1>6, <1>7, <1>8, <1>9 DEF ContextInv

LEMMA ContextStep == ContextInv /\ [ContextNext]_contextVars => ContextInv'
<1> SUFFICES ASSUME ContextInv, [ContextNext]_contextVars PROVE ContextInv'
  OBVIOUS
<1>1. CASE UNCHANGED contextVars
  BY <1>1 DEF contextVars, ContextInv, ChoicesSound, OverridesStand
<1>2. ASSUME NEW t \in Requests, BeginRequest(t) \/ Loads(t) \/ Decides(t) \/ CommitsRequest(t) \/ RequestRollsBack(t)
      PROVE  ContextInv'
  BY <1>2, BeginKeepsContext, LoadsKeepsContext, DecidesKeepsContext, CommitKeepsContext, RollBackKeepsContext
<1> QED BY <1>1, <1>2 DEF ContextNext

LEMMA ContextIsAsStated == ContextInv => ContextStands
<1> SUFFICES ASSUME ContextInv PROVE ContextStands
  OBVIOUS
<1>1. ContextTypeOK
  <2>1. \A a \in Assets :
          /\ assets[a].criticality \in Criticality /\ assets[a].source \in Sources
          /\ {"title", "department", "tags"} \subseteq DOMAIN assets[a].profile
    BY DEF ContextInv, AssetsSound, IsRow, IsProfile
  <2>2. ASSUME NEW g \in Groups
        PROVE  /\ groups[g].there \in BOOLEAN /\ groups[g].members \in SUBSET Assets
               /\ groups[g].override.value \in Criticality \cup {None}
               /\ groups[g].override.at \in 0 .. clock
               /\ ~groups[g].there => groups[g].members = {} /\ groups[g].override = NoOverride
    <3>1. groups[g] \in GroupRow /\ groups[g].override.at <= clock /\ clock \in Nat
          /\ (~groups[g].there => groups[g].members = {} /\ groups[g].override = NoOverride)
      BY DEF ContextInv, GroupsSound, ChoicesSound
    <3>2. groups[g].override.value \in Criticality \cup {None} /\ groups[g].override.at \in Nat
      BY <3>1 DEF GroupRow, Overrides, NoOverride
    <3> QED BY <3>1, <3>2 DEF GroupRow
  <2>3. \A t \in Requests : requests[t].stage \in {"idle", "begun", "deciding"} /\ requests[t].todo \subseteq Assets
    BY DEF ContextInv, RequestSound
  <2> QED BY <2>1, <2>2, <2>3 DEF ContextTypeOK, ContextInv, ChoicesSound
<1>2. GroupsReachAssets
  BY DEF ContextInv, GroupsReachAssets, InItsTier
<1> QED BY <1>1, <1>2 DEF ContextStands, ContextInv

(* The three tiers, for any assets, groups, profiles and transactions: an     *)
(* asset's own override stands through whatever syncs, groups and             *)
(* recomputations do, and an asset without one has the override of its groups *)
(* that was updated last or what is inferred of it.                          *)
THEOREM ContextAlwaysStands == ContextSpec => []ContextStands
<1>1. ContextSpec => []ContextInv
  BY ContextStarts, ContextStep, PTL DEF ContextSpec
<1> QED BY <1>1, ContextIsAsStated, PTL

-----------------------------------------------------------------------------
(* The rows of devices.  What is stored is stated of the fleet F, the hosts H *)
(* that have a row, the users W each device has had and the hosts S the       *)
(* script has rewritten.                                                      *)

RecordsSpec == RecordsInit /\ [][RecordsNext]_recordVars

\* The name and the vulnerability of a vendor's item; neither depends on who
\* has the device.
HostIn(F, v, d, answered) ==
    LET dev == F.devices[d] IN
    CASE v = "CROWDSTRIKE" -> IF "device" \in answered THEN Or(dev.name, Or(dev.ip, dev.agent)) ELSE dev.agent
      [] v = "DEFENDER" -> IF "device" \in answered THEN Or(dev.dns, dev.machine) ELSE dev.machine
      [] v \in {"RAPID7", "WIZ"} -> dev.name
      [] v = "QUALYS" -> IF "device" \in answered THEN Or(dev.dns, dev.ip) ELSE NoValue
      [] OTHER -> Or(dev.dns, dev.ip)
CveIn(v, answered) == IF v \in {"RAPID7", "QUALYS"} THEN Entry(answered) ELSE "cve"
NamesIn(F, H, d) ==
    {RowNamed(F.devices[d].mdm)}
      \cup (UNION {{RowNamed(HostIn(F, v, d, answered)) : answered \in SUBSET Lookups(v)} : v \in F.vendors})
      \cup {h \in H : h = F.devices[d].name \/ (h \in DOMAIN F.short /\ F.short[h] = F.devices[d].name)}
\* A device others can be taken for.
Confused(F, H, W, d) ==
    \E e \in Devices \ {d} : W[d] \cap W[e] # {} \/ NamesIn(F, H, d) \cap NamesIn(F, H, e) # {}

RecordFields == {"serial", "login", "owner", "type", "os", "category", "agent", "sources", "listed", "by"}
IsRecord(row) ==
    /\ row = [f \in RecordFields |-> row[f]]
    /\ row.serial \in Devices \cup {NoValue} /\ row.login \in Users \cup {NoValue}
    /\ row.owner \in Users \cup People \cup {NoValue}
    /\ {row.type, row.os} \subseteq Categories \cup {NoValue} /\ row.category \in Categories
    /\ row.agent \in BOOLEAN /\ row.listed \in BOOLEAN
    /\ row.sources \subseteq Vendors \cup {"JAMF", "HUMAANS", "CROWDSTRIKE"} /\ row.by \in SUBSET Devices
\* What a row says comes from devices it was written for.
FromItsDevices(F, W, h, row) ==
    /\ row.serial # NoValue => row.serial \in row.by
    /\ row.login # NoValue => \E e \in row.by : row.login \in W[e]
    /\ row.owner \in People =>
         LET person == F.people[row.owner] IN
         h \in person.prefix \/ \E d \in row.by : d \in person.equipment \/ W[d] \cap person.names # {}
\* One of its devices has its name; another had it too, or a user of one that
\* was there before.
ForItsDevices(F, H, W, h, row) ==
    /\ \E d \in row.by : h \in NamesIn(F, H, d)
    /\ \A d \in row.by : h \in NamesIn(F, H, d) \/ \E e \in row.by \ {d} : W[d] \cap W[e] # {}
    /\ \A d \in row.by : row.by = {d} \/ Confused(F, H, W, d)
RowSound(F, H, W, S, h, row) ==
    /\ IsRecord(row) /\ FromItsDevices(F, W, h, row) /\ ForItsDevices(F, H, W, h, row)
    /\ ~row.listed => h \in S

StoredSound(F, R, W, S) ==
    R = [h \in DOMAIN R |-> R[h]] /\ \A h \in DOMAIN R : RowSound(F, DOMAIN R, W, S, h, R[h])
SerialsKept(F, R, W, E) == \A d \in E : Confused(F, DOMAIN R, W, d) \/ \E h \in DOMAIN R : R[h].serial = d
FoundSound(F, R, X, lost) ==
    \A x \in X :
       /\ x.host \in DOMAIN R
       /\ x.source \notin lost => /\ x.host = RowNamed(HostIn(F, x.source, x.device, Lookups(x.source)))
                                  /\ x.cve = CveIn(x.source, Lookups(x.source))
HoldersSound ==
    /\ login \in [Devices -> Users \cup {NoValue}] /\ had \in [Devices -> SUBSET Users]
    /\ \A d \in Devices : login[d] # NoValue => login[d] \in had[d]
RecordsInv ==
    /\ fleet \in Fleets /\ HoldersSound
    /\ failed \subseteq Vendors /\ enrolled \subseteq Devices /\ records \in 0 .. MaxRecords
    /\ stopped \subseteq scripted /\ scripted \subseteq DOMAIN rows
    /\ StoredSound(fleet, rows, had, scripted) /\ SerialsKept(fleet, rows, had, enrolled)
    /\ FoundSound(fleet, rows, found, failed)

LEMMA FleetIsSound ==
    ASSUME NEW F \in Fleets
    PROVE  /\ F.vendors \subseteq Vendors
           /\ \A d \in Devices : /\ F.devices[d].serial \in BOOLEAN /\ F.devices[d].user \in Users \cup {NoValue}
                                 /\ F.devices[d].product \in Categories \cup {NoValue}
                                 /\ F.devices[d].os \in Categories \cup {NoValue}
           /\ \A p \in People : F.people[p].names \subseteq Users /\ F.people[p].equipment \subseteq Devices
           /\ \A h \in DOMAIN F.hints : F.hints[h] \in Categories
BY RecordBounds

\* An item names its device, and says nothing of another.
LEMMA ItemFacts ==
    ASSUME fleet \in Fleets, NEW v \in Vendors, NEW d \in Devices, NEW answered
    PROVE  LET item == Item(v, d, answered) IN
           /\ item.host = HostIn(fleet, v, d, answered) /\ item.cve = CveIn(v, answered)
           /\ item.serial \in {SerialOf(d), NoValue} /\ item.login \in {login[d], NoValue}
           /\ item.product \in Categories \cup {NoValue} /\ item.os \in Categories \cup {NoValue}
           /\ item.agent \in BOOLEAN
<1> DEFINE item == Item(v, d, answered)
<1>1. Device(d).product \in Categories \cup {NoValue} /\ Device(d).os \in Categories \cup {NoValue}
  BY FleetIsSound DEF Device
<1>2. CASE v = "CROWDSTRIKE"
  <2>1. item = CrowdStrikeItem(d, answered)
    BY <1>2 DEF Item
  <2>2. HostIn(fleet, v, d, answered)
          = IF "device" \in answered THEN Or(Device(d).name, Or(Device(d).ip, Device(d).agent)) ELSE Device(d).agent
    BY <1>2 DEF HostIn, Device
  <2> QED BY <1>1, <1>2, <2>1, <2>2 DEF CrowdStrikeItem, Anonymous, CveIn
<1>3. CASE v = "DEFENDER"
  <2>1. item = DefenderItem(d, answered)
    BY <1>3 DEF Item
  <2>2. HostIn(fleet, v, d, answered)
          = IF "device" \in answered THEN Or(Device(d).dns, Device(d).machine) ELSE Device(d).machine
    BY <1>3 DEF HostIn, Device
  <2>3. CASE "device" \in answered
    <3>1. item = [Anonymous(Or(Device(d).dns, Device(d).machine)) EXCEPT !.os = Device(d).os]
      BY <2>1, <2>3 DEF DefenderItem
    <3> QED BY <1>1, <1>3, <2>2, <2>3, <3>1 DEF Anonymous, CveIn
  <2>4. CASE "device" \notin answered
    <3>1. item = Anonymous(Device(d).machine)
      BY <2>1, <2>4 DEF DefenderItem
    <3>2. item.host = Device(d).machine /\ item.cve = "cve" /\ item.serial = NoValue /\ item.login = NoValue
          /\ item.product = NoValue /\ item.os = NoValue /\ item.agent = FALSE
      BY <3>1 DEF Anonymous
    <3> QED BY <1>3, <2>2, <2>4, <3>2 DEF CveIn
  <2> QED BY <2>3, <2>4
<1>4. CASE v = "RAPID7"
  <2>1. item = Rapid7Item(d, answered) /\ HostIn(fleet, v, d, answered) = Device(d).name
    BY <1>4 DEF Item, HostIn, Device
  <2> QED BY <1>1, <1>4, <2>1 DEF Rapid7Item, Anonymous, CveIn
<1>5. CASE v = "QUALYS"
  <2>1. item = QualysItem(d, answered)
        /\ HostIn(fleet, v, d, answered) = IF "device" \in answered THEN Or(Device(d).dns, Device(d).ip) ELSE NoValue
    BY <1>5 DEF Item, HostIn, Device
  <2> QED BY <1>1, <1>5, <2>1 DEF QualysItem, Scanned, Anonymous, CveIn
<1>6. CASE v = "NESSUS"
  <2>1. item = NessusItem(d) /\ HostIn(fleet, v, d, answered) = Or(Device(d).dns, Device(d).ip)
    BY <1>6 DEF Item, HostIn, Device
  <2> QED BY <1>1, <1>6, <2>1 DEF NessusItem, Scanned, Anonymous, CveIn
<1>7. CASE v = "WIZ"
  <2>1. item = WizItem(d) /\ HostIn(fleet, v, d, answered) = Device(d).name
    BY <1>7 DEF Item, HostIn, Device
  <2> QED BY <1>1, <1>7, <2>1 DEF WizItem, Anonymous, CveIn
<1> QED BY <1>2, <1>3, <1>4, <1>5, <1>6, <1>7, RecordBounds

LEMMA NamesAre ==
    ASSUME fleet \in Fleets, NEW d \in Devices
    PROVE  NamesOf(d) = NamesIn(fleet, DOMAIN rows, d)
<1>1. ASSUME NEW v \in fleet.vendors
      PROVE  {RowNamed(Item(v, d, answered).host) : answered \in SUBSET Lookups(v)}
             = {RowNamed(HostIn(fleet, v, d, answered)) : answered \in SUBSET Lookups(v)}
  <2>1. v \in Vendors
    BY FleetIsSound
  <2>2. \A answered : Item(v, d, answered).host = HostIn(fleet, v, d, answered)
    BY <2>1, ItemFacts
  <2> QED BY <2>2
<1>2. {{RowNamed(Item(v, d, answered).host) : answered \in SUBSET Lookups(v)} : v \in fleet.vendors}
      = {{RowNamed(HostIn(fleet, v, d, answered)) : answered \in SUBSET Lookups(v)} : v \in fleet.vendors}
  <2> DEFINE A(v) == {RowNamed(Item(v, d, answered).host) : answered \in SUBSET Lookups(v)}
             B(v) == {RowNamed(HostIn(fleet, v, d, answered)) : answered \in SUBSET Lookups(v)}
  <2>1. \A v \in fleet.vendors : A(v) = B(v)
    BY <1>1
  <2> HIDE DEF A, B
  <2>2. {A(v) : v \in fleet.vendors} = {B(v) : v \in fleet.vendors}
    BY <2>1
  <2> QED BY <2>2 DEF A, B
<1> QED BY <1>2 DEF NamesOf, NamesIn, Device

LEMMA CategoryIs ==
    ASSUME fleet \in Fleets, NEW host, NEW os \in Categories \cup {NoValue}, NEW product \in Categories \cup {NoValue}
    PROVE  Classify(host, os, product) \in Categories
BY FleetIsSound DEF Classify, Or, Categories

LEMMA NamesGrow ==
    ASSUME NEW F, NEW H, NEW I, H \subseteq I
    PROVE  \A d : NamesIn(F, H, d) \subseteq NamesIn(F, I, d)
BY DEF NamesIn

LEMMA ConfusedGrows ==
    ASSUME NEW F, NEW H, NEW I, H \subseteq I, NEW V, NEW W, \A d \in Devices : V[d] \subseteq W[d], NEW d \in Devices,
           Confused(F, H, V, d)
    PROVE  Confused(F, I, W, d)
<1>1. PICK e \in Devices \ {d} : V[d] \cap V[e] # {} \/ NamesIn(F, H, d) \cap NamesIn(F, H, e) # {}
  BY DEF Confused
<1>2. W[d] \cap W[e] # {} \/ NamesIn(F, I, d) \cap NamesIn(F, I, e) # {}
  BY <1>1, NamesGrow
<1> QED BY <1>2 DEF Confused

\* More rows, more users and more of the script leave a row sound.
LEMMA SoundGrows ==
    ASSUME NEW F, NEW H, NEW I, H \subseteq I, NEW V, NEW W, \A d \in Devices : V[d] \subseteq W[d],
           NEW S, NEW T, S \subseteq T, NEW h, NEW row, RowSound(F, H, V, S, h, row)
    PROVE  RowSound(F, I, W, T, h, row)
<1>1. IsRecord(row) /\ row.by \subseteq Devices /\ (~row.listed => h \in T)
  BY DEF RowSound, IsRecord
<1>2. FromItsDevices(F, W, h, row)
  <2>1. row.login # NoValue => \E e \in row.by : row.login \in W[e]
    BY <1>1 DEF RowSound, FromItsDevices
  <2>2. ASSUME row.owner \in People
        PROVE  LET person == F.people[row.owner] IN
               h \in person.prefix \/ \E d \in row.by : d \in person.equipment \/ W[d] \cap person.names # {}
    <3>1. FromItsDevices(F, V, h, row)
      BY DEF RowSound
    <3> QED BY <1>1, <2>2, <3>1 DEF FromItsDevices
  <2> QED BY <2>1, <2>2 DEF RowSound, FromItsDevices
<1>3. ForItsDevices(F, I, W, h, row)
  <2>1. ForItsDevices(F, H, V, h, row)
    BY DEF RowSound
  <2>2. \E d \in row.by : h \in NamesIn(F, I, d)
    BY <2>1, NamesGrow DEF ForItsDevices
  <2>3. ASSUME NEW d \in row.by PROVE h \in NamesIn(F, I, d) \/ \E e \in row.by \ {d} : W[d] \cap W[e] # {}
    BY <1>1, <2>1, NamesGrow DEF ForItsDevices
  <2>4. ASSUME NEW d \in row.by PROVE row.by = {d} \/ Confused(F, I, W, d)
    BY <1>1, <2>1, ConfusedGrows DEF ForItsDevices
  <2> QED BY <2>2, <2>3, <2>4 DEF ForItsDevices
<1> QED BY <1>1, <1>2, <1>3 DEF RowSound

\* What a record of device d leaves in a row comes from d or was there.
LEMMA JoinedSays ==
    ASSUME NEW F, NEW W, NEW h, NEW row, IsRecord(row), FromItsDevices(F, W, h, row), NEW d \in Devices,
           NEW new, new.by = row.by \cup {d},
           new.serial \in {row.serial, d, NoValue},
           new.login = row.login \/ new.login = NoValue \/ new.login \in W[d],
           new.owner = row.owner \/ new.owner \notin People
    PROVE  FromItsDevices(F, W, h, new)
<1>1. new.serial # NoValue => new.serial \in new.by
  BY DEF FromItsDevices
<1>2. new.login # NoValue => \E e \in new.by : new.login \in W[e]
  BY DEF FromItsDevices
<1>3. ASSUME new.owner \in People
      PROVE  LET person == F.people[new.owner] IN
             h \in person.prefix \/ \E e \in new.by : e \in person.equipment \/ W[e] \cap person.names # {}
  BY <1>3 DEF FromItsDevices
<1> QED BY <1>1, <1>2, <1>3 DEF FromItsDevices

\* A device joins a row that has its name, or a device that had its user.
LEMMA JoinedBelongs ==
    ASSUME NEW F, NEW H, NEW W, NEW h, NEW row, row.by \subseteq Devices, ForItsDevices(F, H, W, h, row),
           NEW d \in Devices, h \in NamesIn(F, H, d) \/ d \in row.by \/ \E e \in row.by : W[d] \cap W[e] # {},
           NEW new, new.by = row.by \cup {d}
    PROVE  ForItsDevices(F, H, W, h, new)
<1>1. CASE d \in row.by
  <2>1. new.by = row.by
    BY <1>1
  <2> QED BY <2>1 DEF ForItsDevices
<1>2. CASE d \notin row.by
  <2>1. PICK x \in row.by : h \in NamesIn(F, H, x)
    BY DEF ForItsDevices
  <2>2. x \in new.by
    OBVIOUS
  <2>3. ASSUME NEW y \in new.by PROVE h \in NamesIn(F, H, y) \/ \E e \in new.by \ {y} : W[y] \cap W[e] # {}
    <3>1. CASE y = d
      BY <1>2, <3>1
    <3>2. CASE y \in row.by
      BY <3>2 DEF ForItsDevices
    <3> QED BY <3>1, <3>2
  <2>4. Confused(F, H, W, d)
    <3>1. CASE h \in NamesIn(F, H, d)
      BY <1>2, <2>1, <3>1 DEF Confused
    <3>2. CASE \E e \in row.by : W[d] \cap W[e] # {}
      BY <1>2, <3>2 DEF Confused
    <3> QED BY <1>2, <3>1, <3>2
  <2>5. ASSUME NEW y \in row.by PROVE Confused(F, H, W, y)
    <3>1. CASE row.by = {y}
      <4>1. x = y /\ d # y /\ y \in Devices
        BY <1>2, <2>1, <3>1
      <4>2. CASE h \in NamesIn(F, H, d)
        BY <2>1, <4>1, <4>2 DEF Confused
      <4>3. CASE W[d] \cap W[y] # {}
        BY <4>1, <4>3 DEF Confused
      <4> QED BY <1>2, <3>1, <4>2, <4>3
    <3>2. CASE row.by # {y}
      BY <3>2 DEF ForItsDevices
    <3> QED BY <3>1, <3>2
  <2>6. \A y \in new.by : new.by = {y} \/ Confused(F, H, W, y)
    BY <2>4, <2>5
  <2> QED BY <2>1, <2>2, <2>3, <2>6 DEF ForItsDevices
<1> QED BY <1>1, <1>2

\* A row of one device.
LEMMA AloneBelongs ==
    ASSUME NEW F, NEW H, NEW W, NEW h, NEW d \in Devices, h \in NamesIn(F, H, d), NEW new, new.by = {d}
    PROVE  ForItsDevices(F, H, W, h, new)
BY DEF ForItsDevices

\* A record is stored in one row.
LEMMA OneRowStored ==
    ASSUME NEW F, NEW R, NEW W, NEW S, NEW E \in SUBSET Devices, NEW X, NEW lost,
           StoredSound(F, R, W, S), SerialsKept(F, R, W, E), FoundSound(F, R, X, lost),
           NEW host, NEW row, RowSound(F, DOMAIN R \cup {host}, W, S, host, row),
           host \in DOMAIN R => /\ R[host].by \subseteq row.by
                                /\ row.serial = R[host].serial \/ \E e \in row.by : e # R[host].serial,
           NEW R2, R2 = [h \in DOMAIN R \cup {host} |-> IF h = host THEN row ELSE R[h]]
    PROVE  StoredSound(F, R2, W, S) /\ SerialsKept(F, R2, W, E) /\ FoundSound(F, R2, X, lost)
<1> DEFINE I == DOMAIN R \cup {host}
<1>1. DOMAIN R2 = I /\ DOMAIN R \subseteq I
  OBVIOUS
<1>2. ASSUME NEW h \in I PROVE RowSound(F, I, W, S, h, R2[h])
  <2>1. CASE h = host
    BY <2>1
  <2>2. CASE h # host
    <3>1. h \in DOMAIN R /\ R2[h] = R[h] /\ RowSound(F, DOMAIN R, W, S, h, R[h])
      BY <2>2 DEF StoredSound
    <3> QED BY <1>1, <3>1, SoundGrows
  <2> QED BY <2>1, <2>2
<1>3. StoredSound(F, R2, W, S)
  BY <1>1, <1>2 DEF StoredSound
<1>4. ASSUME NEW d \in E PROVE Confused(F, I, W, d) \/ \E h \in I : R2[h].serial = d
  <2>1. CASE Confused(F, DOMAIN R, W, d)
    BY <1>1, <2>1, ConfusedGrows
  <2>2. CASE ~Confused(F, DOMAIN R, W, d)
    <3>1. PICK h \in DOMAIN R : R[h].serial = d
      BY <2>2 DEF SerialsKept
    <3>2. CASE h # host
      BY <3>1, <3>2
    <3>3. CASE h = host /\ row.serial = d
      BY <3>1, <3>3
    <3>4. CASE h = host /\ row.serial # d
      <4>1. d # NoValue
        BY RecordBounds
      <4>2. d \in R[host].by
        BY <3>1, <3>4, <4>1 DEF StoredSound, RowSound, FromItsDevices
      <4>3. d \in row.by /\ row.by # {d}
        BY <3>1, <3>4, <4>2
      <4>4. Confused(F, I, W, d)
        BY <4>3 DEF RowSound, ForItsDevices
      <4> QED BY <4>4
    <3> QED BY <3>2, <3>3, <3>4
  <2> QED BY <2>1, <2>2
<1>5. SerialsKept(F, R2, W, E)
  BY <1>1, <1>4 DEF SerialsKept
<1>6. FoundSound(F, R2, X, lost)
  BY <1>1 DEF FoundSound
<1> QED BY <1>3, <1>5, <1>6

\* A step that leaves every row its serial number.
LEMMA AllRowsStored ==
    ASSUME NEW F, NEW R, NEW W, NEW S, NEW T, NEW E, NEW X, NEW lost,
           StoredSound(F, R, W, S), SerialsKept(F, R, W, E), FoundSound(F, R, X, lost),
           NEW Q, Q = [h \in DOMAIN R |-> Q[h]],
           \A h \in DOMAIN R : RowSound(F, DOMAIN R, W, T, h, Q[h]) /\ Q[h].serial = R[h].serial
    PROVE  StoredSound(F, Q, W, T) /\ SerialsKept(F, Q, W, E) /\ FoundSound(F, Q, X, lost)
<1>1. DOMAIN Q = DOMAIN R
  OBVIOUS
<1>2. StoredSound(F, Q, W, T)
  BY <1>1 DEF StoredSound
<1>3. SerialsKept(F, Q, W, E)
  BY <1>1 DEF SerialsKept
<1>4. FoundSound(F, Q, X, lost)
  BY <1>1 DEF FoundSound
<1> QED BY <1>2, <1>3, <1>4

\* What the steps use of the invariant.
LEMMA RowFacts ==
    ASSUME RecordsInv, NEW h \in DOMAIN rows
    PROVE  /\ RowSound(fleet, DOMAIN rows, had, scripted, h, rows[h]) /\ IsRecord(rows[h])
           /\ FromItsDevices(fleet, had, h, rows[h]) /\ ForItsDevices(fleet, DOMAIN rows, had, h, rows[h])
           /\ \A source : Raises(rows[h], source) => h \in scripted
BY DEF RecordsInv, StoredSound, RowSound, Raises

\* A row of which a device has the name, or a user of its devices, takes what
\* is known of the device.
LEMMA RowJoined ==
    ASSUME RecordsInv, NEW h \in DOMAIN rows, NEW d \in Devices, NEW S, scripted \subseteq S, NEW new,
           \/ h \in NamesIn(fleet, DOMAIN rows, d) \/ d \in rows[h].by \/ \E e \in rows[h].by : had[d] \cap had[e] # {},
           IsRecord(new), new.by = rows[h].by \cup {d}, new.serial \in {rows[h].serial, d},
           new.login \in {rows[h].login, login[d], NoValue},
           new.owner = rows[h].owner \/ new.owner \notin People,
           ~new.listed => h \in S
    PROVE  /\ RowSound(fleet, DOMAIN rows, had, S, h, new)
           /\ rows[h].by \subseteq new.by /\ (new.serial = rows[h].serial \/ \E e \in new.by : e # rows[h].serial)
<1>1. IsRecord(rows[h]) /\ FromItsDevices(fleet, had, h, rows[h])
      /\ ForItsDevices(fleet, DOMAIN rows, had, h, rows[h]) /\ rows[h].by \subseteq Devices
  BY RowFacts DEF IsRecord
<1>2. new.login = rows[h].login \/ new.login = NoValue \/ new.login \in had[d]
  BY DEF RecordsInv, HoldersSound
<1>3. FromItsDevices(fleet, had, h, new)
  BY <1>1, <1>2, JoinedSays
<1>4. ForItsDevices(fleet, DOMAIN rows, had, h, new)
  BY <1>1, JoinedBelongs
<1> QED BY <1>3, <1>4 DEF RowSound

LEMMA SerialIs == ASSUME NEW d \in Devices PROVE SerialOf(d) \in {d, NoValue} /\ (SerialOf(d) = d <=> Device(d).serial)
<1>1. d # NoValue
  BY RecordBounds
<1> QED BY <1>1 DEF SerialOf

LEMMA VendorNames ==
    ASSUME NEW F, NEW H, NEW v \in F.vendors, NEW d, NEW answered \in SUBSET Lookups(v)
    PROVE  RowNamed(HostIn(F, v, d, answered)) \in NamesIn(F, H, d)
<1> DEFINE Given(w) == {RowNamed(HostIn(F, w, d, given)) : given \in SUBSET Lookups(w)}
<1>1. RowNamed(HostIn(F, v, d, answered)) \in Given(v)
  OBVIOUS
<1>2. UNION {Given(w) : w \in F.vendors} \subseteq NamesIn(F, H, d)
  BY DEF NamesIn
<1> HIDE DEF Given
<1> QED BY <1>1, <1>2

LEMMA CountIsBounded == ASSUME RecordsInv, Counts PROVE records' \in 0 .. MaxRecords
BY RecordBounds DEF RecordsInv, Counts

LEMMA ScannerKeepsRows ==
    ASSUME RecordsInv, NEW v \in fleet.vendors, NEW d \in Devices, NEW answered \in SUBSET Lookups(v),
           ScannerRecord(v, d, answered)
    PROVE  RecordsInv'
<1> DEFINE item == Item(v, d, answered)
           host == RowNamed(item.host)
           row == IF host \in DOMAIN rows THEN Touched(rows[host], item, v, d) ELSE NewRow(item, v, d)
<1>1. fleet \in Fleets /\ v \in Vendors
  BY FleetIsSound DEF RecordsInv
<1>2. /\ item.host = HostIn(fleet, v, d, answered) /\ item.cve = CveIn(v, answered)
      /\ item.serial \in {SerialOf(d), NoValue} /\ item.login \in {login[d], NoValue}
      /\ item.product \in Categories \cup {NoValue} /\ item.os \in Categories \cup {NoValue} /\ item.agent \in BOOLEAN
  BY <1>1, ItemFacts
<1>3. item.serial \in {d, NoValue} /\ login[d] \in Users \cup {NoValue}
  BY <1>2, SerialIs DEF RecordsInv, HoldersSound
<1>4. /\ failed' = IF answered = Lookups(v) THEN failed ELSE failed \cup {v}
      /\ UNCHANGED <<fleet, login, had, enrolled, scripted>> /\ records' \in 0 .. MaxRecords
  BY CountIsBounded DEF ScannerRecord
<1>5. failed \subseteq failed' /\ failed' \subseteq Vendors /\ FoundSound(fleet, rows, found, failed')
  BY <1>1, <1>4 DEF RecordsInv, FoundSound
<1>6. host \in NamesIn(fleet, DOMAIN rows \cup {host}, d) /\ host \in NamesIn(fleet, DOMAIN rows, d)
  BY <1>2, VendorNames
<1>7. CASE host \in DOMAIN rows /\ Raises(rows[host], v)
  <2>1. stopped' = stopped \cup {host} /\ rows' = rows /\ found' = found
    BY <1>7 DEF ScannerRecord
  <2>2. host \in scripted
    BY <1>7, RowFacts
  <2> QED BY <1>4, <1>5, <2>1, <2>2 DEF RecordsInv, HoldersSound
<1>8. CASE ~(host \in DOMAIN rows /\ Raises(rows[host], v))
  <2>1. /\ rows' = Put(host, row) /\ stopped' = stopped
        /\ found' = found \cup {[host |-> host, cve |-> item.cve, source |-> v, device |-> d]}
    BY <1>8 DEF ScannerRecord
  <2>2. Classify(item.host, item.os, item.product) \in Categories
    BY <1>1, <1>2, CategoryIs
  <2>3. /\ RowSound(fleet, DOMAIN rows \cup {host}, had, scripted, host, row)
        /\ host \in DOMAIN rows => /\ rows[host].by \subseteq row.by
                                   /\ row.serial = rows[host].serial \/ \E e \in row.by : e # rows[host].serial
    <3>1. CASE host \in DOMAIN rows
      <4> DEFINE old == rows[host]
      <4>1. row = Touched(old, item, v, d) /\ IsRecord(old)
        BY <3>1, RowFacts
      <4>2. /\ row = [f \in RecordFields |-> row[f]]
            /\ row.by = old.by \cup {d} /\ row.owner = old.owner /\ row.listed = old.listed /\ row.os = old.os
            /\ row.sources = old.sources \cup {v} /\ row.agent = (old.agent \/ item.agent)
            /\ row.type = Or(item.product, old.type) /\ row.serial = Or(item.serial, old.serial)
            /\ row.login = Or(item.login, old.login)
            /\ row.category \in {old.category, Classify(item.host, item.os, item.product)}
        <5> HIDE DEF item, host, row
        <5> QED BY <4>1 DEF Touched, IsRecord, RecordFields
      <4> HIDE DEF row, item, host, old
      <4>3. IsRecord(row)
        BY <1>1, <1>2, <1>3, <2>2, <4>1, <4>2 DEF IsRecord, Or
      <4>4. row.serial \in {old.serial, d} /\ row.login \in {old.login, login[d], NoValue}
        BY <1>2, <1>3, <4>2 DEF Or
      <4>5. ~row.listed => host \in scripted
        BY <3>1, <4>2, RowFacts DEF RowSound, old
      <4>6. DOMAIN rows \cup {host} = DOMAIN rows
        BY <3>1
      <4> QED BY <1>6, <3>1, <4>2, <4>3, <4>4, <4>5, <4>6, RowJoined DEF old
    <3>2. CASE host \notin DOMAIN rows
      <4>1. row = NewRow(item, v, d)
        BY <3>2
      <4>2. /\ row = [f \in RecordFields |-> row[f]]
            /\ row.by = {d} /\ row.owner = NoValue /\ row.listed = TRUE /\ row.os = item.os
            /\ row.sources = {v} /\ row.agent = item.agent /\ row.type = item.product /\ row.serial = item.serial
            /\ row.login = item.login /\ row.category = Classify(item.host, item.os, item.product)
        <5> HIDE DEF item, host, row
        <5> QED BY <4>1 DEF NewRow, RecordFields
      <4> HIDE DEF row, item, host
      <4>3. IsRecord(row)
        BY <1>1, <1>2, <1>3, <2>2, <4>2 DEF IsRecord
      <4>4. FromItsDevices(fleet, had, host, row)
        <5>1. NoValue \notin People
          BY RecordBounds
        <5>2. row.login # NoValue => row.login \in had[d]
          BY <1>2, <4>2 DEF RecordsInv, HoldersSound
        <5>3. row.serial # NoValue => row.serial \in row.by
          BY <1>3, <4>2
        <5> QED BY <4>2, <5>1, <5>2, <5>3 DEF FromItsDevices
      <4>5. ForItsDevices(fleet, DOMAIN rows \cup {host}, had, host, row)
        BY <1>6, <4>2, AloneBelongs
      <4> QED BY <3>2, <4>2, <4>3, <4>4, <4>5 DEF RowSound
    <3> QED BY <3>1, <3>2
  <2>4. rows' = [h \in DOMAIN rows \cup {host} |-> IF h = host THEN row ELSE rows[h]]
    BY <2>1 DEF Put
  <2> HIDE DEF row, host
  <2>5. StoredSound(fleet, rows', had, scripted) /\ SerialsKept(fleet, rows', had, enrolled)
        /\ FoundSound(fleet, rows', found, failed')
    <3>1. StoredSound(fleet, rows, had, scripted) /\ SerialsKept(fleet, rows, had, enrolled) /\ enrolled \in SUBSET Devices
      BY DEF RecordsInv
    <3>2. PICK R, lost : R = rows' /\ lost = failed'
      OBVIOUS
    <3>3. /\ R = [h \in DOMAIN rows \cup {host} |-> IF h = host THEN row ELSE rows[h]]
          /\ FoundSound(fleet, rows, found, lost)
      BY <1>5, <2>4, <3>2
    <3> HIDE DEF item
    <3>4. StoredSound(fleet, R, had, scripted) /\ SerialsKept(fleet, R, had, enrolled) /\ FoundSound(fleet, R, found, lost)
      BY <2>3, <3>1, <3>3, OneRowStored
    <3> QED BY <3>2, <3>4
  <2>6. FoundSound(fleet, rows', found', failed')
    <3> DEFINE x == [host |-> host, cve |-> item.cve, source |-> v, device |-> d]
    <3>1. v \notin failed' => answered = Lookups(v)
      BY <1>4
    <3>2. v \notin failed' => /\ host = RowNamed(HostIn(fleet, v, d, Lookups(v)))
                              /\ item.cve = CveIn(v, Lookups(v))
      BY <1>2, <3>1 DEF host
    <3>3. host \in DOMAIN rows'
      BY <2>4
    <3>4. x.host = host /\ x.cve = item.cve /\ x.source = v /\ x.device = d /\ found' = found \cup {x}
      BY <2>1
    <3> HIDE DEF x, item
    <3> QED BY <2>5, <3>2, <3>3, <3>4 DEF FoundSound
  <2>7. DOMAIN rows \subseteq DOMAIN rows'
    BY <2>4
  <2> QED BY <1>4, <1>5, <2>1, <2>5, <2>6, <2>7 DEF RecordsInv, HoldersSound
<1> QED BY <1>7, <1>8

\* A new category leaves the rest of a row as it was.
LEMMA CategoryChanges ==
    ASSUME NEW F, NEW H, NEW W, NEW S, NEW h, NEW row, RowSound(F, H, W, S, h, row), NEW c \in Categories
    PROVE  LET new == [row EXCEPT !.category = c] IN RowSound(F, H, W, S, h, new) /\ new.serial = row.serial
<1> DEFINE new == [row EXCEPT !.category = c]
<1>1. IsRecord(row) /\ FromItsDevices(F, W, h, row) /\ ForItsDevices(F, H, W, h, row) /\ (~row.listed => h \in S)
  BY DEF RowSound
<1>2. /\ new = [f \in RecordFields |-> new[f]]
      /\ new.serial = row.serial /\ new.login = row.login /\ new.owner = row.owner /\ new.type = row.type
      /\ new.os = row.os /\ new.category = c /\ new.agent = row.agent /\ new.by = row.by
      /\ new.listed = row.listed /\ new.sources = row.sources
  BY <1>1 DEF IsRecord, RecordFields
<1> HIDE DEF new
<1>3. IsRecord(new)
  BY <1>1, <1>2 DEF IsRecord
<1>4. FromItsDevices(F, W, h, new)
  BY <1>1, <1>2 DEF FromItsDevices
<1>5. ForItsDevices(F, H, W, h, new)
  BY <1>1, <1>2 DEF ForItsDevices
<1>6. RowSound(F, H, W, S, h, new)
  BY <1>1, <1>2, <1>3, <1>4, <1>5 DEF RowSound
<1> QED BY <1>2, <1>6 DEF new

LEMMA JamfKeepsRows == ASSUME RecordsInv, NEW d \in Devices, JamfRecord(d) PROVE RecordsInv'
<1> DEFINE dev == Device(d)
           category == Classify(dev.mdm, dev.os, NoValue)
           mine == IF dev.serial THEN enrolled \cup {d} ELSE enrolled
<1>1. fleet \in Fleets /\ login[d] \in Users \cup {NoValue} /\ (login[d] # NoValue => login[d] \in had[d])
  BY DEF RecordsInv, HoldersSound
<1>2. dev.os \in Categories \cup {NoValue} /\ category \in Categories
  BY <1>1, FleetIsSound, CategoryIs DEF Device
<1>3. /\ UNCHANGED <<fleet, login, had, found, failed, scripted>> /\ records' \in 0 .. MaxRecords /\ enrolled' = mine
  BY CountIsBounded DEF JamfRecord
<1>4. SerialOf(d) \in {d, NoValue} /\ (dev.serial => SerialOf(d) = d) /\ d # NoValue /\ login[d] \notin People
      /\ NoValue \notin People
  BY <1>1, SerialIs, RecordBounds
<1>5. enrolled \in SUBSET Devices /\ mine \in SUBSET Devices
  BY DEF RecordsInv
<1>6. RowNamed(dev.mdm) \in NamesIn(fleet, DOMAIN rows, d)
      /\ RowNamed(dev.mdm) \in NamesIn(fleet, DOMAIN rows \cup {RowNamed(dev.mdm)}, d)
  BY DEF NamesIn, Device
<1>7. ASSUME NEW host, NEW row, rows' = Put(host, row),
             RowSound(fleet, DOMAIN rows \cup {host}, had, scripted, host, row),
             host \in DOMAIN rows => /\ rows[host].by \subseteq row.by
                                     /\ row.serial = rows[host].serial \/ \E e \in row.by : e # rows[host].serial,
             dev.serial => row.serial = d,
             stopped' \subseteq scripted
      PROVE  RecordsInv'
  <2>1. rows' = [h \in DOMAIN rows \cup {host} |-> IF h = host THEN row ELSE rows[h]]
    BY <1>7 DEF Put
  <2>2. StoredSound(fleet, rows', had, scripted) /\ SerialsKept(fleet, rows', had, enrolled)
        /\ FoundSound(fleet, rows', found, failed)
    <3>1. StoredSound(fleet, rows, had, scripted) /\ SerialsKept(fleet, rows, had, enrolled)
          /\ FoundSound(fleet, rows, found, failed)
      BY DEF RecordsInv
    <3> HIDE DEF mine, dev, category
    <3>2. PICK R : R = rows'
      OBVIOUS
    <3>3. R = [h \in DOMAIN rows \cup {host} |-> IF h = host THEN row ELSE rows[h]]
      BY <2>1, <3>2
    <3>4. StoredSound(fleet, R, had, scripted) /\ SerialsKept(fleet, R, had, enrolled)
          /\ FoundSound(fleet, R, found, failed)
      BY <1>5, <1>7, <3>1, <3>3, OneRowStored
    <3> QED BY <3>2, <3>4
  <2>3. SerialsKept(fleet, rows', had, mine)
    <3>1. host \in DOMAIN rows' /\ rows'[host] = row
      BY <2>1
    <3> QED BY <1>7, <2>2, <3>1 DEF SerialsKept
  <2>4. DOMAIN rows \subseteq DOMAIN rows'
    BY <2>1
  <2> HIDE DEF mine
  <2> QED BY <1>3, <1>5, <1>7, <2>2, <2>3, <2>4 DEF RecordsInv, HoldersSound
<1>8. CASE JamfMatches(d) = {}
  <2> DEFINE host == RowNamed(dev.mdm)
             row == JamfRow(d)
  <2>1. rows' = Put(host, row) /\ stopped' = stopped
    BY <1>8 DEF JamfRecord
  <2>2. /\ row = [f \in RecordFields |-> row[f]]
        /\ row.serial = SerialOf(d) /\ row.login = NoValue /\ row.owner = login[d] /\ row.type = NoValue
        /\ row.os = dev.os /\ row.category = category /\ row.agent = FALSE /\ row.sources = {"JAMF"}
        /\ row.listed = TRUE /\ row.by = {d}
    BY DEF JamfRow, RecordFields
  <2> HIDE DEF row, category, dev
  <2>3. IsRecord(row)
    BY <1>1, <1>2, <1>4, <2>2 DEF IsRecord
  <2>4. FromItsDevices(fleet, had, host, row)
    BY <1>4, <2>2 DEF FromItsDevices
  <2>5. ForItsDevices(fleet, DOMAIN rows \cup {host}, had, host, row)
    BY <1>6, <2>2, AloneBelongs
  <2>6. RowSound(fleet, DOMAIN rows \cup {host}, had, scripted, host, row)
    BY <2>2, <2>3, <2>4, <2>5 DEF RowSound
  <2>7. host \notin DOMAIN rows
    BY <1>8 DEF JamfMatches, dev
  <2>8. stopped' \subseteq scripted
    BY <2>1 DEF RecordsInv
  <2> HIDE DEF host
  <2> QED BY <1>4, <1>7, <2>1, <2>2, <2>6, <2>7, <2>8
<1>9. CASE JamfMatches(d) # {}
  <2>1. PICK h \in JamfMatches(d) : /\ rows' = Put(h, JamfEnriched(rows[h], d))
                                    /\ stopped' = IF Raises(rows[h], "JAMF") THEN stopped \cup {h} ELSE stopped
    BY <1>9 DEF JamfRecord
  <2> DEFINE old == rows[h]
             row == JamfEnriched(old, d)
  <2>2. h \in DOMAIN rows
    BY DEF JamfMatches
  <2>3. IsRecord(old) /\ FromItsDevices(fleet, had, h, old) /\ (Raises(old, "JAMF") => h \in scripted)
        /\ (~old.listed => h \in scripted)
    BY <2>2, RowFacts DEF RowSound
  <2>4. h \in NamesIn(fleet, DOMAIN rows, d) \/ d \in old.by \/ \E e \in old.by : had[d] \cap had[e] # {}
    <3>1. CASE old.serial # NoValue /\ old.serial = SerialOf(d)
      BY <1>4, <2>3, <3>1 DEF FromItsDevices
    <3>2. CASE login[d] # NoValue /\ old.login = login[d]
      <4>1. PICK e \in old.by : login[d] \in had[e]
        BY <2>3, <3>2 DEF FromItsDevices
      <4> QED BY <1>1, <3>2, <4>1
    <3>3. CASE h = RowNamed(Device(d).mdm)
      BY <1>6, <3>3
    <3> QED BY <3>1, <3>2, <3>3 DEF JamfMatches
  <2>5. /\ row = [f \in RecordFields |-> row[f]]
        /\ row.serial = Or(SerialOf(d), old.serial) /\ row.owner = Or(old.owner, login[d]) /\ row.by = old.by \cup {d}
        /\ row.category \in {old.category, category} /\ row.login = old.login /\ row.type = old.type
        /\ row.os = old.os /\ row.agent = old.agent /\ row.listed = old.listed
        /\ row.sources \subseteq old.sources \cup {"JAMF"}
    <3> HIDE DEF old
    <3> QED BY <2>3 DEF JamfEnriched, IsRecord, RecordFields
  <2> HIDE DEF row, old, category
  <2>6. row.serial \in {old.serial, d} /\ (dev.serial => row.serial = d)
    BY <1>4, <2>5 DEF Or
  <2>7. row.owner = old.owner \/ row.owner \notin People
    BY <1>4, <2>5 DEF Or
  <2>8. IsRecord(row)
    <3>1. row.owner \in Users \cup People \cup {NoValue} /\ row.serial \in Devices \cup {NoValue}
      BY <1>1, <2>3, <2>5, <2>6 DEF Or, IsRecord
    <3> QED BY <1>2, <2>3, <2>5, <3>1 DEF IsRecord
  <2>9. /\ RowSound(fleet, DOMAIN rows, had, scripted, h, row)
        /\ rows[h].by \subseteq row.by /\ (row.serial = rows[h].serial \/ \E e \in row.by : e # rows[h].serial)
    BY <2>2, <2>3, <2>4, <2>5, <2>6, <2>7, <2>8, RowJoined DEF old
  <2>10. DOMAIN rows \cup {h} = DOMAIN rows
    BY <2>2
  <2>11. stopped' \subseteq scripted
    BY <2>1, <2>3 DEF RecordsInv, old
  <2> QED BY <1>7, <2>1, <2>6, <2>9, <2>10, <2>11 DEF row, old
<1> QED BY <1>8, <1>9

LEMMA HumaansKeepsRows == ASSUME RecordsInv, NEW p \in People, HumaansRecord(p) PROVE RecordsInv'
<1> DEFINE breaking == {h \in HumaansMatches(p) : Raises(rows[h], "HUMAANS")}
<1>1. PICK done \in SUBSET HumaansMatches(p) :
        /\ rows' = [h \in DOMAIN rows |-> IF h \in done THEN HumaansEnriched(rows[h], p) ELSE rows[h]]
        /\ stopped' = stopped \cup (done \cap breaking)
  BY DEF HumaansRecord
<1>2. UNCHANGED <<fleet, login, had, found, failed, enrolled, scripted>> /\ records' \in 0 .. MaxRecords
  BY CountIsBounded DEF HumaansRecord
<1>3. p # NoValue /\ fleet \in Fleets /\ fleet.people[p].names \subseteq Users /\ NoValue \notin Users
      /\ fleet.people[p].equipment \subseteq Devices /\ NoValue \notin Devices
  BY FleetIsSound, RecordBounds DEF RecordsInv
<1>4. ASSUME NEW h \in DOMAIN rows
      PROVE  RowSound(fleet, DOMAIN rows, had, scripted, h, rows'[h]) /\ rows'[h].serial = rows[h].serial
  <2> DEFINE old == rows[h]
             row == HumaansEnriched(old, p)
  <2>1. RowSound(fleet, DOMAIN rows, had, scripted, h, old) /\ IsRecord(old) /\ FromItsDevices(fleet, had, h, old)
        /\ ForItsDevices(fleet, DOMAIN rows, had, h, old)
    BY RowFacts
  <2>2. CASE h \notin done
    BY <1>1, <2>1, <2>2
  <2>3. CASE h \in done
    <3>1. rows'[h] = row /\ h \in HumaansMatches(p)
      BY <1>1, <2>3
    <3>2. /\ row = [f \in RecordFields |-> row[f]]
          /\ row.serial = old.serial /\ row.login = old.login /\ row.owner = p /\ row.type = old.type
          /\ row.os = old.os /\ row.category = old.category /\ row.agent = old.agent /\ row.by = old.by
          /\ row.listed = old.listed /\ row.sources \subseteq old.sources \cup {"HUMAANS"}
      <4> HIDE DEF old
      <4> QED BY <2>1 DEF HumaansEnriched, IsRecord, RecordFields
    <3>3. h \in fleet.people[p].prefix
          \/ \E d \in old.by : d \in fleet.people[p].equipment \/ had[d] \cap fleet.people[p].names # {}
      <4>1. CASE old.serial \in fleet.people[p].equipment
        BY <1>3, <2>1, <4>1 DEF FromItsDevices
      <4>2. CASE old.login \in fleet.people[p].names
        <5>1. PICK e \in old.by : old.login \in had[e]
          BY <1>3, <2>1, <4>2 DEF FromItsDevices
        <5> QED BY <4>2, <5>1
      <4>3. CASE h \in fleet.people[p].prefix
        BY <4>3
      <4> QED BY <3>1, <4>1, <4>2, <4>3 DEF HumaansMatches
    <3> HIDE DEF row, old
    <3>4. IsRecord(row)
      BY <2>1, <3>2 DEF IsRecord
    <3>5. FromItsDevices(fleet, had, h, row)
      BY <2>1, <3>2, <3>3 DEF FromItsDevices
    <3>6. ForItsDevices(fleet, DOMAIN rows, had, h, row)
      BY <2>1, <3>2 DEF ForItsDevices
    <3> QED BY <2>1, <3>1, <3>2, <3>4, <3>5, <3>6 DEF RowSound, old
  <2> QED BY <2>2, <2>3
<1>5. rows' = [h \in DOMAIN rows |-> rows'[h]]
  BY <1>1
<1>6. StoredSound(fleet, rows', had, scripted) /\ SerialsKept(fleet, rows', had, enrolled)
      /\ FoundSound(fleet, rows', found, failed)
  <2>1. StoredSound(fleet, rows, had, scripted) /\ SerialsKept(fleet, rows, had, enrolled)
        /\ FoundSound(fleet, rows, found, failed)
    BY DEF RecordsInv
  <2>2. PICK R : R = rows'
    OBVIOUS
  <2> QED BY <1>4, <1>5, <2>1, <2>2, AllRowsStored
<1>7. done \cap breaking \subseteq scripted
  <2>1. HumaansMatches(p) \subseteq DOMAIN rows
    BY DEF HumaansMatches
  <2> QED BY <2>1, RowFacts
<1>8. DOMAIN rows' = DOMAIN rows
  BY <1>1
<1> QED BY <1>1, <1>2, <1>6, <1>7, <1>8 DEF RecordsInv, HoldersSound

LEMMA ReclassifyKeepsRows == ASSUME RecordsInv, Reclassify PROVE RecordsInv'
<1>1. rows' = [h \in DOMAIN rows |-> [rows[h] EXCEPT !.category = Classify(h, rows[h].os, rows[h].type)]]
  BY DEF Reclassify
<1>2. UNCHANGED <<fleet, login, had, found, failed, enrolled, stopped, scripted>> /\ records' \in 0 .. MaxRecords
  BY CountIsBounded DEF Reclassify
<1>3. ASSUME NEW h \in DOMAIN rows
      PROVE  RowSound(fleet, DOMAIN rows, had, scripted, h, rows'[h]) /\ rows'[h].serial = rows[h].serial
  <2> DEFINE category == Classify(h, rows[h].os, rows[h].type)
  <2>1. rows'[h] = [rows[h] EXCEPT !.category = category]
    BY <1>1
  <2>2. RowSound(fleet, DOMAIN rows, had, scripted, h, rows[h]) /\ IsRecord(rows[h])
    BY RowFacts
  <2>3. category \in Categories
    BY <2>2, CategoryIs DEF IsRecord, RecordsInv
  <2> HIDE DEF category
  <2> QED BY <2>1, <2>2, <2>3, CategoryChanges
<1>4. rows' = [h \in DOMAIN rows |-> rows'[h]] /\ DOMAIN rows' = DOMAIN rows
  BY <1>1
<1>5. StoredSound(fleet, rows', had, scripted) /\ SerialsKept(fleet, rows', had, enrolled)
      /\ FoundSound(fleet, rows', found, failed)
  <2>1. StoredSound(fleet, rows, had, scripted) /\ SerialsKept(fleet, rows, had, enrolled)
        /\ FoundSound(fleet, rows, found, failed)
    BY DEF RecordsInv
  <2>2. PICK R : R = rows'
    OBVIOUS
  <2> QED BY <1>3, <1>4, <2>1, <2>2, AllRowsStored
<1> QED BY <1>2, <1>4, <1>5 DEF RecordsInv, HoldersSound

LEMMA ScriptKeepsRows == ASSUME RecordsInv, EnrichScript PROVE RecordsInv'
<1> DEFINE met == {h \in DOMAIN rows : \E d \in Devices : h \in RowOf(Device(d).name)}
<1>1. PICK last \in [met -> Devices] :
        /\ \A h \in met : h \in RowOf(Device(last[h]).name)
        /\ scripted' = scripted \cup met
        /\ rows' = [h \in DOMAIN rows |->
                      IF h \in met THEN Rewritten(h, last[h])
                      ELSE IF rows[h].agent THEN rows[h]
                      ELSE [rows[h] EXCEPT !.category = Classify(h, rows[h].os, NoValue)]]
  BY DEF EnrichScript
<1>2. UNCHANGED <<fleet, login, had, found, failed, enrolled, stopped>> /\ records' \in 0 .. MaxRecords
  BY CountIsBounded DEF EnrichScript
<1>3. fleet \in Fleets /\ scripted \subseteq scripted' /\ scripted' \subseteq DOMAIN rows
  BY <1>1 DEF RecordsInv
<1>4. ASSUME NEW h \in DOMAIN rows
      PROVE  RowSound(fleet, DOMAIN rows, had, scripted', h, rows'[h]) /\ rows'[h].serial = rows[h].serial
  <2> DEFINE old == rows[h]
  <2>1. RowSound(fleet, DOMAIN rows, had, scripted, h, old) /\ IsRecord(old)
    BY RowFacts
  <2>2. RowSound(fleet, DOMAIN rows, had, scripted', h, old)
    <3>1. \A d \in Devices : had[d] \subseteq had[d]
      OBVIOUS
    <3> HIDE DEF old
    <3> QED BY <1>3, <2>1, <3>1, SoundGrows
  <2>3. CASE h \in met
    <3> DEFINE d == last[h]
               row == Rewritten(h, d)
    <3>1. d \in Devices /\ h \in RowOf(Device(d).name)
      BY <1>1, <2>3
    <3>2. h \in NamesIn(fleet, DOMAIN rows, d)
      <4> HIDE DEF d
      <4>1. h \in DOMAIN rows
            /\ (h = fleet.devices[d].name \/ (h \in DOMAIN fleet.short /\ fleet.short[h] = fleet.devices[d].name))
        BY <3>1 DEF RowOf, Device
      <4> QED BY <4>1 DEF NamesIn
    <3> DEFINE category == Classify(h, IF old.os = NoValue THEN Device(d).os ELSE old.os, Device(d).product)
    <3>3. category \in Categories
      <4>1. (IF old.os = NoValue THEN Device(d).os ELSE old.os) \in Categories \cup {NoValue}
            /\ Device(d).product \in Categories \cup {NoValue}
        BY <1>3, <2>1, <3>1, FleetIsSound DEF IsRecord, Device
      <4> HIDE DEF old, d
      <4> QED BY <1>3, <4>1, CategoryIs
    <3>4. /\ row = [f \in RecordFields |-> row[f]]
          /\ row.serial = old.serial /\ row.login = old.login /\ row.owner = old.owner /\ row.type = old.type
          /\ row.os = old.os /\ row.category = category /\ row.agent = TRUE /\ row.by = old.by \cup {d}
          /\ row.listed = FALSE /\ row.sources = {"CROWDSTRIKE"}
      <4> HIDE DEF d
      <4> QED BY <2>1 DEF Rewritten, IsRecord, RecordFields
    <3>5. rows'[h] = row /\ h \in scripted'
      BY <1>1, <2>3
    <3> HIDE DEF row, category, d
    <3>6. IsRecord(row)
      BY <2>1, <3>1, <3>3, <3>4 DEF IsRecord
    <3>7. RowSound(fleet, DOMAIN rows, had, scripted', h, row)
      BY <1>3, <3>1, <3>2, <3>4, <3>5, <3>6, RowJoined
    <3> QED BY <3>4, <3>5, <3>7
  <2>4. CASE h \notin met /\ old.agent
    BY <1>1, <2>2, <2>4
  <2>5. CASE h \notin met /\ ~old.agent
    <3>1. rows'[h] = [old EXCEPT !.category = Classify(h, old.os, NoValue)]
      BY <1>1, <2>5
    <3>2. Classify(h, old.os, NoValue) \in Categories
      BY <1>3, <2>1, CategoryIs DEF IsRecord
    <3> HIDE DEF old
    <3>3. RowSound(fleet, DOMAIN rows, had, scripted', h, rows'[h]) /\ rows'[h].serial = old.serial
      <4> DEFINE c == Classify(h, old.os, NoValue)
      <4>1. c \in Categories /\ rows'[h] = [old EXCEPT !.category = c]
        BY <3>1, <3>2
      <4> HIDE DEF c
      <4> QED BY <2>2, <4>1, CategoryChanges
    <3> QED BY <3>3 DEF old
  <2> QED BY <2>3, <2>4, <2>5
<1>5. rows' = [h \in DOMAIN rows |-> rows'[h]] /\ DOMAIN rows' = DOMAIN rows
  BY <1>1
<1>6. StoredSound(fleet, rows', had, scripted') /\ SerialsKept(fleet, rows', had, enrolled)
      /\ FoundSound(fleet, rows', found, failed)
  <2>1. StoredSound(fleet, rows, had, scripted) /\ SerialsKept(fleet, rows, had, enrolled)
        /\ FoundSound(fleet, rows, found, failed)
    BY DEF RecordsInv
  <2>2. PICK R, T : R = rows' /\ T = scripted'
    OBVIOUS
  <2>3. R = [h \in DOMAIN rows |-> R[h]]
    BY <1>5, <2>2
  <2>4. \A h \in DOMAIN rows : RowSound(fleet, DOMAIN rows, had, T, h, R[h]) /\ R[h].serial = rows[h].serial
    BY <1>4, <2>2
  <2>5. StoredSound(fleet, R, had, T) /\ SerialsKept(fleet, R, had, enrolled) /\ FoundSound(fleet, R, found, failed)
    <3> HIDE DEF met
    <3> QED BY <2>1, <2>3, <2>4, AllRowsStored
  <2> QED BY <2>2, <2>5
<1>7. stopped' \subseteq scripted'
  BY <1>2, <1>3 DEF RecordsInv
<1> QED BY <1>2, <1>3, <1>5, <1>6, <1>7 DEF RecordsInv, HoldersSound

LEMMA HandOverKeepsRows == ASSUME RecordsInv, NEW d \in Devices, NEW u \in Users, HandOver(d, u) PROVE RecordsInv'
<1>1. /\ UNCHANGED <<fleet, rows, found, failed, enrolled, stopped, scripted>> /\ records' \in 0 .. MaxRecords
      /\ login' = [login EXCEPT ![d] = u] /\ had' = [had EXCEPT ![d] = @ \cup {u}]
  BY CountIsBounded DEF HandOver
<1>2. HoldersSound' /\ \A e \in Devices : had[e] \subseteq had'[e]
  BY <1>1 DEF RecordsInv, HoldersSound
<1>3. PICK W : W = had'
  OBVIOUS
<1>4. StoredSound(fleet, rows, W, scripted)
  <2>1. \A h \in DOMAIN rows : RowSound(fleet, DOMAIN rows, had, scripted, h, rows[h])
    BY RowFacts
  <2>2. \A h \in DOMAIN rows : RowSound(fleet, DOMAIN rows, W, scripted, h, rows[h])
    BY <1>2, <1>3, <2>1, SoundGrows
  <2> QED BY <2>2 DEF StoredSound, RecordsInv
<1>5. SerialsKept(fleet, rows, W, enrolled)
  <2>1. \A e \in Devices : Confused(fleet, DOMAIN rows, had, e) => Confused(fleet, DOMAIN rows, W, e)
    BY <1>2, <1>3, ConfusedGrows
  <2> QED BY <2>1 DEF SerialsKept, RecordsInv
<1> QED BY <1>1, <1>2, <1>3, <1>4, <1>5 DEF RecordsInv

LEMMA RecordsStart == RecordsInit => RecordsInv
<1> SUFFICES ASSUME RecordsInit PROVE RecordsInv
  OBVIOUS
<1>1. /\ fleet \in Fleets /\ rows = <<>> /\ found = {} /\ records = 0
      /\ failed = {} /\ enrolled = {} /\ stopped = {} /\ scripted = {} /\ records \in 0 .. MaxRecords
  BY RecordBounds DEF RecordsInit
<1>2. DOMAIN rows = {} /\ rows = [h \in DOMAIN rows |-> rows[h]]
  BY <1>1
<1>3. HoldersSound
  <2>1. \A d \in Devices : Device(d).user \in Users \cup {NoValue}
    BY <1>1, FleetIsSound DEF Device
  <2> QED BY <2>1 DEF RecordsInit, HoldersSound
<1>4. StoredSound(fleet, rows, had, scripted) /\ SerialsKept(fleet, rows, had, enrolled)
      /\ FoundSound(fleet, rows, found, failed)
  BY <1>1, <1>2 DEF StoredSound, SerialsKept, FoundSound
<1> QED BY <1>1, <1>3, <1>4 DEF RecordsInv

LEMMA RecordsStep == RecordsInv /\ [RecordsNext]_recordVars => RecordsInv'
<1> SUFFICES ASSUME RecordsInv, [RecordsNext]_recordVars PROVE RecordsInv'
  OBVIOUS
<1>1. CASE UNCHANGED recordVars
  BY <1>1 DEF recordVars, RecordsInv, HoldersSound
<1>2. CASE RecordsNext
  BY <1>2, ScannerKeepsRows, JamfKeepsRows, HandOverKeepsRows, HumaansKeepsRows, ReclassifyKeepsRows, ScriptKeepsRows
     DEF RecordsNext
<1> QED BY <1>1, <1>2

LEMMA RecordsAreAsStated == RecordsInv => RecordsFollow
<1> SUFFICES ASSUME RecordsInv PROVE RecordsFollow
  OBVIOUS
<1>1. fleet \in Fleets /\ \A d \in Devices : NamesOf(d) = NamesIn(fleet, DOMAIN rows, d)
  BY NamesAre DEF RecordsInv
<1>2. RecordsTypeOK
  <2>1. \A h \in DOMAIN rows :
          /\ rows[h].serial \in Devices \cup {NoValue} /\ rows[h].login \in Users \cup {NoValue}
          /\ rows[h].owner \in Users \cup People \cup {NoValue} /\ rows[h].category \in Categories
          /\ rows[h].sources \subseteq Vendors \cup {"JAMF", "HUMAANS", "CROWDSTRIKE"} /\ rows[h].by \in SUBSET Devices
    BY RowFacts DEF IsRecord
  <2>2. {x.host : x \in found} \cup stopped \cup scripted \subseteq DOMAIN rows
    BY DEF RecordsInv, FoundSound
  <2> QED BY <2>1, <2>2 DEF RecordsTypeOK, RecordsInv, HoldersSound
<1>3. StrayForCause
  <2>1. \A h \in DOMAIN rows : rows[h].by \subseteq Devices /\ ForItsDevices(fleet, DOMAIN rows, had, h, rows[h])
    BY RowFacts DEF IsRecord
  <2> QED BY <1>1, <2>1 DEF StrayForCause, ForItsDevices, Share
<1>4. SerialKept
  <2> SUFFICES ASSUME NEW d \in enrolled
               PROVE  \/ \E h \in DOMAIN rows : rows[h].serial = d
                      \/ \E e \in Devices \ {d} : Share(d, e) \/ NamesOf(d) \cap NamesOf(e) # {}
    BY DEF SerialKept
  <2>1. d \in Devices /\ (Confused(fleet, DOMAIN rows, had, d) \/ \E h \in DOMAIN rows : rows[h].serial = d)
    BY DEF RecordsInv, SerialsKept
  <2> QED BY <1>1, <2>1 DEF Confused, Share
<1>5. OwnerForCause
  BY RowFacts DEF OwnerForCause, FromItsDevices
<1>6. OneFinding
  <2> SUFFICES ASSUME NEW v \in Vendors \ failed, NEW d \in Devices
               PROVE  Cardinality({<<x.host, x.cve>> : x \in {y \in found : y.source = v /\ y.device = d}}) <= 1
    BY DEF OneFinding
  <2> DEFINE full == <<RowNamed(HostIn(fleet, v, d, Lookups(v))), CveIn(v, Lookups(v))>>
             names == {<<x.host, x.cve>> : x \in {y \in found : y.source = v /\ y.device = d}}
  <2>1. \A x \in found : x.source = v /\ x.device = d => <<x.host, x.cve>> = full
    BY DEF RecordsInv, FoundSound
  <2>2. names \subseteq {full}
    <3> HIDE DEF full
    <3> QED BY <2>1
  <2> HIDE DEF names, full
  <2>3. IsFiniteSet({full}) /\ Cardinality({full}) = 1
    BY FS_Singleton
  <2>4. Cardinality(names) \in Nat /\ Cardinality(names) <= Cardinality({full})
    BY <2>2, <2>3, FS_Subset, FS_CardinalityType
  <2> QED BY <2>3, <2>4 DEF names
<1>7. StopsForCause
  BY DEF RecordsInv, StopsForCause
<1> QED BY <1>2, <1>3, <1>4, <1>5, <1>6, <1>7 DEF RecordsFollow

(* Records of one device meet in one row, for any fleet and any number of     *)
(* records: what goes astray, loses its serial number, has a strange owner,   *)
(* is found twice or stops a sync has one of the stated causes.               *)
THEOREM RecordsAlwaysFollow == RecordsSpec => []RecordsFollow
<1>1. RecordsSpec => []RecordsInv
  BY RecordsStart, RecordsStep, PTL DEF RecordsSpec
<1> QED BY <1>1, RecordsAreAsStated, PTL
=============================================================================
