--------------------------- MODULE MCAgentTerminals ---------------------------
(* AgentTerminals with one obedient and one stubborn process.               *)
EXTENDS AgentTerminals

CONSTANTS t1, t2, w

MCChunks == {<<1>>, <<3, 2>>}
===============================================================================
