CONSTANTS
  Threads = {t1, t2}
  Creator = t1
  ArrayCount = 2
  Handles = {h1, h2, h3, h4}
  Nobody = nobody
  LockHolding = FALSE
SYMMETRY Symmetric
SPECIFICATION Spec
CHECK_DEADLOCK FALSE
INVARIANTS OwnersSeeData
