---------------------------- MODULE MCAgentService ----------------------------
(* AgentService with one agent, two sends to it and a reload.  The agents'  *)
(* table entries do not touch one another, so that what can go wrong is     *)
(* what several calls and a cleanup do to the entry of one agent.           *)
EXTENDS AgentService

CONSTANTS a1, s1, s2, r1

MCTarget == [f \in {s1, s2, r1} |-> a1]
===============================================================================
