\* One writer and one reader: disconnects, a reconnect, a lost connection, writes
\* that wait for the flusher.
SPECIFICATION Spec
CONSTANTS
  r1 = r1
  r2 = r2
  k1 = k1
  k2 = k2
  Replicas = {r1, r2}
  Keys = {k1}
  Writers <- OneWrites
  MaxWrites = 3
  MaxCalls = 2
  MaxReconnects = 1
  MaxCloses = 1
\* The bounds bring every behaviour to rest.
CHECK_DEADLOCK FALSE
INVARIANTS SessionsAgree ReadersFollow
PROPERTIES WritesInOrder
