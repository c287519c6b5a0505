\* Four registrations or reloads, a prune and an evaluation that throws.
SPECIFICATION FairSpec
CONSTANTS
  db = db
  http = http
  window = window
  Services = {db, http, window}
  Shapes <- MCShapes
  Overlap = FALSE
  MaxChanges = 4
  MaxPrunes = 1
  MaxFailures = 1
CHECK_DEADLOCK FALSE
INVARIANTS IdleIsSettled NoOrphans
PROPERTIES DependentsCleanedFirst WhenIdleReturns
