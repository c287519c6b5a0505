\* Two writers whose calls do not overlap, left alone in the end; pages fill.
SPECIFICATION FairSpec
CONSTANTS
  r1 = r1
  r2 = r2
  Replicas = {r1, r2}
  Writers = {r1, r2}
  PageSize = 2
  BatchSizes = {1, 2}
  Referenced = FALSE
  Overlapping = FALSE
  MaxConcats = 3
  MaxCalls = 3
  MaxReads = 0
  MaxDeletes = 0
\* The bounds bring every behaviour to rest.
CHECK_DEADLOCK FALSE
INVARIANTS NothingMissed
PROPERTIES EventuallyFollows
