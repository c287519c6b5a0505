--------------------------- MODULE MCAgentSession ---------------------------
(* Instances of AgentSession: three sends, a restart and a close.          *)
EXTENDS AgentSession, TLC
CONSTANTS s1, s2, s3, r1, c
=============================================================================
