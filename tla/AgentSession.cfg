\* Three sends, a restart, a close and one failure, in any interleaving.
SPECIFICATION FairSpec
CONSTANTS
  s1 = s1
  s2 = s2
  s3 = s3
  r1 = r1
  c = c
  Sends = {s1, s2, s3}
  Restarts = {r1}
  Closer = c
  Overlap = FALSE
  Late = FALSE
  MaxFails = 1
CHECK_DEADLOCK FALSE
INVARIANTS AtMostOnce NothingLost TurnsStayWhole NoProcessLeftBehind PermissionsUnwind PromptingHasTurn
PROPERTIES ClosedUntilRestarted SendsReturn
