SPECIFICATION RendezvousSpec
CONSTANTS
  Threads = {t1, t2, t3}
  Systems = {"windows", "linux"}
  Parties = {2, 3, 4}
  Functions = {"none", "rotates", "throws"}
  MaxCalls = 6
SYMMETRY Symmetry
\* Fewer threads than a party may be waiting for the others.
CHECK_DEADLOCK FALSE
INVARIANTS
  GateBalanced
  Exchanged
  LastOutCleansUp
