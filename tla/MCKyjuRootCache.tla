--------------------------- MODULE MCKyjuRootCache ---------------------------
(* KyjuRootCache with two callers of flush(). *)
EXTENDS KyjuRootCache

CONSTANTS f1, f2

MCFlushers == {f1, f2}
==============================================================================
