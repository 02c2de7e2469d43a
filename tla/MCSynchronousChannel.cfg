SPECIFICATION Spec
CONSTANTS
  Threads = {t1, t2, t3}
  Nodes = {n1, n2, n3, n4}
  Systems = {"windows", "linux"}
  MaxFailures = 1
SYMMETRY Symmetry
\* Every thread may be waiting for a partner.
CHECK_DEADLOCK FALSE
INVARIANTS
  HandOver
  NobodyMissed
