----------------------------- MODULE WriteBehind -----------------------------
(***************************************************************************)
(* What a write-behind root document promises, said without any of the     *)
(* machinery that provides it: memory moves forward one write at a time,   *)
(* the file on disk lags behind it, is only ever replaced by a whole       *)
(* document that memory has held and never by an older one, and a process  *)
(* death throws away exactly the part that had not reached the file.       *)
(*                                                                         *)
(* A document is identified by the number of the write that produced it.   *)
(***************************************************************************)
EXTENDS Naturals

CONSTANT MaxSets    \* how many writes are issued over the whole run

VARIABLES issued,   \* number of writes accepted so far, over all processes
          mem,      \* the document the current process answers reads from
          disk      \* the document in the root file

wvars == <<issued, mem, disk>>

Init == issued = 0 /\ mem = 0 /\ disk = 0

Write == /\ issued < MaxSets
         /\ issued' = issued + 1
         /\ mem' = issued + 1
         /\ UNCHANGED disk

\* The file catches up with some document between its own and memory's.
Persist == /\ disk' \in disk .. mem
           /\ UNCHANGED <<issued, mem>>

\* The process dies and the next one starts from the file.
Restart == /\ mem' = disk
           /\ UNCHANGED <<issued, disk>>

Next == Write \/ Persist \/ Restart

Spec == Init /\ [][Next]_wvars
==============================================================================
