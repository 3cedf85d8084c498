----------------------------- MODULE MCAiBatch -----------------------------
(* Instances of AiBatch for TLC. *)
EXTENDS AiBatch

CONSTANTS f1, f2, b1, w1, p1, p2
=============================================================================
