--------------------------- MODULE MCAgentSession ---------------------------
(* Small instances of AgentSession for TLC: see the configurations. *)
EXTENDS AgentSession

=============================================================================
