\* A writer and a reader whose calls overlap: subscriptions and reads of page
\* ranges while pages fill and the collection is deleted.
SPECIFICATION Spec
CONSTANTS
  r1 = r1
  r2 = r2
  Replicas = {r1, r2}
  Writers = {r1}
  PageSize = 2
  BatchSizes = {0, 2}
  Referenced = FALSE
  Overlapping = TRUE
  MaxConcats = 2
  MaxCalls = 2
  MaxReads = 1
  MaxDeletes = 1
\* The bounds bring every behaviour to rest.
CHECK_DEADLOCK FALSE
INVARIANTS SubscribersFollow
PROPERTIES ReadersAppendOnly
