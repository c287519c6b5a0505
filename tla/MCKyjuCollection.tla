--------------------------- MODULE MCKyjuCollection ---------------------------
(* KyjuCollection with a writer and a reader, or two writers. *)
EXTENDS KyjuCollection, TLC

CONSTANTS r1, r2
===============================================================================
