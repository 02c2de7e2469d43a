SPECIFICATION Spec
CONSTANTS
  Threads = {t1, t2, t3, t4}
  Systems = {"windows", "linux"}
  Classes = {"writers", "readers", "reentrant"}
  MaxHolds = 2
SYMMETRY Symmetry
CHECK_DEADLOCK FALSE
INVARIANTS
  Exclusion
  WaitersCounted
  NoLostWakeup
