SPECIFICATION ExecutorFairSpec
CONSTANTS
  Callers = {c1, c2, c3}
  Workers = {w1, w2}
  Capacities = {1, 2, 6}
  MaxCalls = 6
\* The calls are bounded; and with a full channel the shutdown and the worker
\* may wait for each other.
CHECK_DEADLOCK FALSE
INVARIANTS
  OneWorker
  AtMostOneMore
PROPERTIES
  ShutdownCompletes
