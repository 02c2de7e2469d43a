SPECIFICATION UseSpec
CONSTANTS
  Threads = {t1, t2, t3}
  Nodes = {1, 2, 3, 4}
  Systems = {"windows", "linux"}
  Seeds <- MCSeeds
  MaxIssued = 2
  Uses = {"alone", "lock"}
  Wrap = 3
  LockNodes = 2
SYMMETRY Symmetry
INVARIANTS
  PermitsAccounted
  NoOvertaking
  NobodyForgotten
  SignalWakes
  WriterAlone
  NeverMissed
PROPERTIES
  KeepsContract
\* With a seed of zero every thread may be waiting for a permit nobody issues.
CHECK_DEADLOCK FALSE
