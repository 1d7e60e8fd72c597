--------------------------- MODULE MCAgentSession ---------------------------
(* AgentSession for TLC: two callers beside the login at the start.  A call  *)
(* logs in at most twice, so the attempts never run out.                     *)
EXTENDS AgentSession

MCLogins == 1..(2 * MaxCalls + 1)
=============================================================================
