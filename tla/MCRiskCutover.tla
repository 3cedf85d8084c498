--------------------------- MODULE MCRiskCutover ---------------------------
(* Instances of RiskCutover for TLC. *)
EXTENDS RiskCutover, TLC

CONSTANTS r1, f1

\* The rule was created from the saved filter (and can be edited without it).
LinkedRule == r1 :> f1

\* Requests are interchangeable, and so are assets.
CutoverSymmetry == Permutations(Admins) \cup Permutations(Assets)
=============================================================================
