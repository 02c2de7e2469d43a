SPECIFICATION GateFairSpec
CONSTANTS
  Threads = {t1, t2, t3, t4}
  Systems = {"windows", "linux"}
  Classes = {"latch", "countdown"}
  Counts <- MCCounts
  MaxReleases = 3
INVARIANTS
  NoEarlyPassage
  NobodyAsleep
PROPERTIES
  StaysOpen
  AllLeave
\* When every release of the bound is spent all threads may be waiting.
CHECK_DEADLOCK FALSE
