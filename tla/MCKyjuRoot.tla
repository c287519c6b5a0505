------------------------------ MODULE MCKyjuRoot ------------------------------
(* KyjuRoot with two replicas, and the ways to share the paths out. *)
EXTENDS KyjuRoot, TLC

CONSTANTS r1, r2, k1, k2

\* Everybody writes the one path.
AllWrite == {<<r1, k1>>, <<r2, k1>>}
\* One writer, the others read.
OneWrites == {<<r1, k1>>}
\* Each replica writes a path of its own.
EachItsOwn == {<<r1, k1>>, <<r2, k2>>}
===============================================================================
