\* Two replicas set the same path at the same time.
SPECIFICATION Spec
CONSTANTS
  r1 = r1
  r2 = r2
  k1 = k1
  k2 = k2
  Replicas = {r1, r2}
  Keys = {k1}
  Writers <- AllWrite
  MaxWrites = 2
  MaxCalls = 1
  MaxReconnects = 0
  MaxCloses = 0
\* The bounds bring every behaviour to rest.
CHECK_DEADLOCK FALSE
INVARIANTS Converged
