--------------------------- MODULE MCOrderLifecycle ---------------------------
(* Values of the constants of OrderLifecycle for TLC. *)
EXTENDS OrderLifecycle

MCConns == AgentConns \cup ServiceConns
=============================================================================
