--------------------------- MODULE MCServiceRuntime ---------------------------
(* ServiceRuntime with three keys: a server that needs the database, a       *)
(* window that needs the server or would like the database, and a class of   *)
(* the database that needs the window and may so close a cycle.              *)
EXTENDS ServiceRuntime, TLC

CONSTANTS db, http, window

MCShapes == (db :> {<<{}, {}>>, <<{window}, {}>>})
  @@ (http :> {<<{db}, {}>>})
  @@ (window :> {<<{http}, {}>>, <<{}, {db}>>})
===============================================================================
