SPECIFICATION FairSpec
CONSTANTS
  Threads = {t1, t2, t3}
  Systems = {"windows", "linux"}
  Parties = 2
  Commands = {"none", "returns", "throws"}
  MaxResets = 2
  MaxRefused = 1
INVARIANTS
  CountsMembers
  IndexesUnique
  AllOrNone
PROPERTIES
  EveryoneLeaves
\* When the generations of the bound are used up all threads may be waiting.
CHECK_DEADLOCK FALSE
