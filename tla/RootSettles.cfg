\* Each replica writes a path of its own; disconnects and a lost connection.
SPECIFICATION FairSpec
CONSTANTS
  r1 = r1
  r2 = r2
  k1 = k1
  k2 = k2
  Replicas = {r1, r2}
  Keys = {k1, k2}
  Writers <- EachItsOwn
  MaxWrites = 2
  MaxCalls = 3
  MaxReconnects = 0
  MaxCloses = 1
\* The bounds bring every behaviour to rest.
CHECK_DEADLOCK FALSE
INVARIANTS SoleWriterFollows
PROPERTIES EventuallyConsistent Answered
