----------------------------- MODULE MCAgentLoop ------------------------------
(* One agent's loop on small instances.                                    *)
EXTENDS AgentLoop

CONSTANTS m1, m2
=============================================================================
