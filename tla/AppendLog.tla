----------------------------- MODULE AppendLog -----------------------------
(***************************************************************************)
(* What a collection of the kyju database promises whoever appends to it:  *)
(* entries are only ever added at the end, and an acknowledged entry was   *)
(* added before and stays, after every entry acknowledged earlier, until   *)
(* the whole collection is deleted.  Nothing is promised any more once the *)
(* medium is damaged.                                                      *)
(***************************************************************************)
EXTENDS Naturals, Sequences

CONSTANT Batches   \* the sequences of entries that may be added at once

VARIABLES entries, \* the entries, oldest first
          acked,   \* the batches acknowledged, oldest first
          sound    \* the medium holds what was written to it

vars == <<entries, acked, sound>>

Init == entries = <<>> /\ acked = <<>> /\ sound = TRUE

\* The batch stands in the log, entry after entry.
Contains(log, batch) ==
  \E i \in 0 .. Len(log) - Len(batch) :
    batch = [j \in 1 .. Len(batch) |-> log[i + j]]

\* x stands before y in the log.
Before(log, x, y) == \E i, j \in DOMAIN log : i < j /\ log[i] = x /\ log[j] = y

Add == /\ \E batch \in Batches : entries' = entries \o batch
       /\ UNCHANGED <<acked, sound>>

Acknowledge ==
  /\ \E batch \in Batches :
       /\ Contains(entries, batch)
       /\ \A n \in DOMAIN acked : Before(entries, acked[n][1], batch[1])
       /\ acked' = Append(acked, batch)
  /\ UNCHANGED <<entries, sound>>

\* From here on nothing is kept; the entries may go at once or later.
Delete == /\ acked' = <<>> /\ entries' \in {entries, <<>>}
          /\ UNCHANGED sound

Damage == sound' = FALSE

Next == (sound /\ (Add \/ Acknowledge \/ Delete)) \/ Damage
Spec == Init /\ [][Next]_vars
=============================================================================
