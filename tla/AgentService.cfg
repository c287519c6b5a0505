\* One agent, two sends or a send and a reload, a hot reload, a failure, something that
\* comes in late from a killed process, a shutdown.
SPECIFICATION FairSpec
CONSTANTS
  a1 = a1
  s1 = s1
  s2 = s2
  r1 = r1
  Agents = {a1}
  Sends = {s1, s2}
  Reloads = {r1}
  Target <- MCTarget
  Overlap = FALSE
  MaxCalls = 2
  MaxHots = 1
  MaxFailures = 1
  MaxLates = 1
\* The bounds bring every behaviour to rest.
CHECK_DEADLOCK FALSE
INVARIANTS NoStrayProcess CutTurnsKept
PROPERTIES WorkGoesOn
