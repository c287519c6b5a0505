\* Failing disk writes and a process death, two callers of flush().
SPECIFICATION FairSpec
CONSTANTS
  f1 = f1
  f2 = f2
  Flushers <- MCFlushers
  MaxSets = 4
  MaxFailures = 2
  MaxCrashes = 1
INVARIANTS NothingForgotten FlushedMeansDurable
PROPERTIES SuccessfulFlushSyncs RefinesWriteBehind EventuallyDurable FlushReturns
