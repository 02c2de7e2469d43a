SPECIFICATION GateFairSpec
CONSTANTS
  Threads = {t1, t2}
  Systems = {"windows"}
  Classes = {"latch"}
  Counts = {1}
  MaxReleases = 1
PROPERTIES
  AllPass
\* When every release of the bound is spent all threads may be waiting.
CHECK_DEADLOCK FALSE
