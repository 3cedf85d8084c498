-------------------------- MODULE MCConnectorSync --------------------------
(* Instances of ConnectorSync for TLC. *)
EXTENDS ConnectorSync

EveryKind == Scanners \cup Delegated \cup Miswritten \cup Ticketing \cup Unknown
=============================================================================
