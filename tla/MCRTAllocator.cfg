CONSTANTS
  Threads = {t1, t2}
  Nobody = nobody
  Allocators = {a1, a2}
  Resources = {r1, r2}
  Buffers = {b1, b2}
  NULL = null
  MAP_FAILED = failed
SPECIFICATION FairSpec
CHECK_DEADLOCK FALSE
INVARIANTS ArenaExclusive ArenaBacked
PROPERTY LocksComeFree
