---------------------------- MODULE MCAiExplain ----------------------------
(* Instances of AiExplain for TLC. *)
EXTENDS AiExplain

CONSTANTS s1, s2
=============================================================================
