--------------------------- MODULE MCRiskBackfill ---------------------------
(* Instances of RiskBackfill for TLC. *)
EXTENDS RiskBackfill, TLC

\* The ticks are interchangeable.
WorkerSymmetry == Permutations(Workers)
=============================================================================
