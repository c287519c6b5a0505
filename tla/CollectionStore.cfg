\* Three concats, a creation, a reader, a deletion, and a process death.
\* A deletion and the first concat may run beside the creation.
SPECIFICATION FairSpec
CONSTANTS
  c1 = c1
  c2 = c2
  c3 = c3
  create = create
  reader = reader
  delete = delete
  Concats = {c1, c2, c3}
  Creator = create
  Readers = {reader}
  Deleter = delete
  Batch <- MCBatch
  MaxPageSize = 2
  Overlapping = {c1, delete}
  MaxCrashes = 1
CHECK_DEADLOCK FALSE
INVARIANTS IndexAgrees
PROPERTIES ReadsAnswerAll ConcatsEnd ImplementsAppendLog
