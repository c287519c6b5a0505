\* A close may begin while the agent is between two awaits.
SPECIFICATION Spec
CONSTANTS
  s1 = s1
  s2 = s2
  s3 = s3
  r1 = r1
  c = c
  Sends = {s1, s2, s3}
  Restarts = {}
  Closer = c
  Overlap = TRUE
  Late = FALSE
  MaxFails = 1
CHECK_DEADLOCK FALSE
PROPERTIES ClosedIsFinal
