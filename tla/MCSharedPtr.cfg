CONSTANTS
  Threads = {t1, t2, t3}
  Creator = t1
  ArrayCount = 2
  Handles = {h1, h2, h3, h4}
  Nobody = nobody
  LockHolding = TRUE
SYMMETRY Symmetric
SPECIFICATION Spec
CHECK_DEADLOCK FALSE
INVARIANTS CountsExact OwnersSeeData BlockOutlivesHandles NoLeak
