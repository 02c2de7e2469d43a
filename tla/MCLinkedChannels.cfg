SPECIFICATION FairSpec
CONSTANTS
  Threads = {t1, t2, t3}
  Items = {x, y}
  Systems = {"windows", "linux"}
  Classes = {"linked", "bounded"}
  Capacities = {1, 2}
  MaxLength = 2
  MaxDrift = 2
\* Every thread may be waiting for an item nobody puts.
CHECK_DEADLOCK FALSE
INVARIANTS
  PermitsSplit
  NobodyStranded
PROPERTIES
  KeepsContract
  PutterProceeds
