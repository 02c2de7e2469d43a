SPECIFICATION Spec
CONSTANTS
  Threads = {t1, t2, t3, t4}
  Systems = {"windows", "linux"}
  Classes = {"plain", "fair"}
  Seeds <- MCSeeds
  MaxIssued = 2
SYMMETRY Symmetry
INVARIANTS
  PermitsConserved
  QueueCounted
  NoLostWakeup
PROPERTIES
  KeepsContract
\* With a seed of zero every thread may be waiting for a permit nobody issues.
CHECK_DEADLOCK FALSE
