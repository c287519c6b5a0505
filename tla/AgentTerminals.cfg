\* An obedient and a stubborn process; kills, releases, a restart, the close.
SPECIFICATION FairSpec
CONSTANTS
  t1 = t1
  t2 = t2
  w = w
  Terminals = {t1, t2}
  Stubborn = {t2}
  Printers = {t1}
  Waiters = {w}
  Chunks <- MCChunks
  ByteLimit = 4
  MaxKills = 1
  MaxPrints = 2
  MaxRestarts = 1
\* The bounds bring every behaviour to rest.
CHECK_DEADLOCK FALSE
INVARIANTS SomethingWillEndIt OutputIsTheTail
PROPERTIES EverythingEnds WaitersAnswered
