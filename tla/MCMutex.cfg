SPECIFICATION FairSpec
CONSTANTS
  Threads = {t1, t2, t3, t4}
  Systems = {"windows", "linux"}
  Classes = {"mutex", "reentrant"}
  MaxHolds = 3
INVARIANTS
  MutualExclusion
  NoLostWakeup
PROPERTIES
  HandedOn
  KeepsContract
