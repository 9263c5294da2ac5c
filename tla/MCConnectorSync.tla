--------------------------- MODULE MCConnectorSync ---------------------------
(* ConnectorSync for TLC. *)
EXTENDS ConnectorSync
=============================================================================
