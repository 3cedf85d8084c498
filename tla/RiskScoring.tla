----------------------------- MODULE RiskScoring -----------------------------
(* The risk-exposure score of one finding (risk_exposure_service.py,         *)
(* score_finding): a fixed budget of 100 points, and a floor for what CISA    *)
(* lists as exploited.  Points are integers, in hundredths; a signal that is  *)
(* missing is NoSignal and earns nothing.                                     *)
EXTENDS Integers

VARIABLES input, worse    \* two findings the batch scores

scoringVars == <<input, worse>>

NoSignal == -1000    \* below what a column holds
Severities == {"CRITICAL", "HIGH", "MEDIUM", "LOW", "INFO"}
Criticalities == {"CRITICAL", "HIGH", "MEDIUM", "LOW"}
Sensitivities == {"RESTRICTED", "CONFIDENTIAL", "INTERNAL", "PUBLIC"}
KevFloor == 90

\* cvss in tenths, epss and native in percent of their scales, each as it was
\* sent: the columns hold any number below 100 and below 10 in size, and
\* native is any.
Stored == -999 .. 999
ScoreInputs ==
    [severity : Severities, cvss : Stored \cup {NoSignal}, epss : Stored \cup {NoSignal},
     native : Int, criticality : Criticalities, facing : BOOLEAN,
     sensitivity : Sensitivities, sources : Nat, kev : BOOLEAN]

SeverityFallback(severity) ==
    CASE severity = "CRITICAL" -> 35 [] severity = "HIGH" -> 20 [] severity = "MEDIUM" -> 8
      [] severity = "LOW" -> 2 [] OTHER -> 0
\* Neither this number nor the next is clamped to its scale.
SeverityPoints(in) == IF in.cvss = NoSignal THEN 100 * SeverityFallback(in.severity) ELSE 35 * in.cvss

EpssPoints(in) == IF in.epss = NoSignal THEN 0 ELSE 20 * in.epss

\* _normalize_native_signal: clamped to the vendor's scale.
NativePoints(in) == IF in.native < 0 THEN 0 ELSE IF in.native > 100 THEN 1500 ELSE 15 * in.native

CriticalityPoints(in) ==
    CASE in.criticality = "CRITICAL" -> 1000 [] in.criticality = "HIGH" -> 670
      [] in.criticality = "MEDIUM" -> 330 [] OTHER -> 0
SensitivityPoints(in) ==
    CASE in.sensitivity = "RESTRICTED" -> 400 [] in.sensitivity = "CONFIDENTIAL" -> 268
      [] in.sensitivity = "INTERNAL" -> 132 [] OTHER -> 0
FacingPoints(in) == IF in.facing THEN 600 ELSE 0

\* A third of the ten points for each scanner beyond the first.
CorroborationPoints(in) ==
    IF in.sources <= 1 THEN 0 ELSE IF in.sources = 2 THEN 333 ELSE IF in.sources = 3 THEN 667 ELSE 1000

Subtotal(in) ==
    SeverityPoints(in) + EpssPoints(in) + NativePoints(in) + CriticalityPoints(in)
    + FacingPoints(in) + SensitivityPoints(in) + CorroborationPoints(in)

\* round(): the even neighbour of a half.
Rounded(h) ==
    LET q == h \div 100  r == h % 100 IN
    IF r > 50 \/ (r = 50 /\ q % 2 = 1) THEN q + 1 ELSE q

FinalCapped(in) ==
    LET rounded == Rounded(Subtotal(in)) IN
    IF in.kev /\ rounded > KevFloor THEN KevFloor ELSE rounded
FinalScore(in) ==
    LET rounded == Rounded(Subtotal(in)) IN
    IF in.kev /\ rounded < KevFloor THEN KevFloor ELSE rounded

-----------------------------------------------------------------------------
\* One input is at least as alarming as another: every signal is as strong, or
\* added where there was none.
AtLeast(b, a) ==
    /\ a.cvss <= b.cvss
    /\ SeverityFallback(a.severity) <= SeverityFallback(b.severity)
    /\ a.epss <= b.epss /\ a.native <= b.native /\ a.sources <= b.sources
    /\ CriticalityPoints(a) <= CriticalityPoints(b)
    /\ SensitivityPoints(a) <= SensitivityPoints(b)
    /\ (a.facing => b.facing) /\ (a.kev => b.kev)

\* worse is input with one signal stronger, or another.
ScoringInit(inputs) ==
    /\ input \in inputs
    /\ worse \in {b \in inputs : \E field \in DOMAIN b : b = [input EXCEPT ![field] = b[field]]}

Added(field) == input[field] = NoSignal /\ worse[field] # NoSignal
InScale(in) == in.cvss \in 0 .. 100 \cup {NoSignal} /\ in.epss \in 0 .. 100 \cup {NoSignal}

(* A score is one of 0 .. 100 whatever number the vendor sent as its native  *)
(* one, as long as CVSS and EPSS are on their scales: those two are stored    *)
(* and scored as sent, and a CVSS of 30 outscores everything.                 *)
Bounded == InScale(input) => FinalScore(input) \in 0 .. 100

(* More alarming inputs score no less, with two exceptions the code makes: a  *)
(* CVSS score that comes in for a label worth more, and an EPSS added below   *)
(* zero.                                                                      *)
Monotone ==
    AtLeast(worse, input) =>
        \/ FinalScore(input) <= FinalScore(worse)
        \/ Added("cvss") /\ SeverityPoints(worse) < SeverityPoints(input)
        \/ Added("epss") /\ worse.epss < 0

(* What CISA lists as exploited scores 90 at least, however little else is    *)
(* known of it; no other finding is raised by the floor.                      *)
Floored ==
    /\ input.kev => FinalScore(input) >= KevFloor
    /\ ~input.kev => FinalScore(input) = Rounded(Subtotal(input))

(* The score in one statement: its range on CVSS's and EPSS's scales, its     *)
(* order but for an added CVSS or EPSS, and its floor.                        *)
ScoresSound == Bounded /\ Monotone /\ Floored
=============================================================================
