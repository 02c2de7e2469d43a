SPECIFICATION RuntimeSpec
CONSTANTS
  Threads = {t1, t2, t3}
  Locks = {a, b}
  Paths = {"create", "enter", "critical", "lazy"}
  MaxDepth = 2
SYMMETRY Symmetry
CHECK_DEADLOCK FALSE
INVARIANTS
  Exclusion
  NothingLost
