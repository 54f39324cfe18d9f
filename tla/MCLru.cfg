CONSTANTS
  Blocks = {1, 2, 3, 4}
  NULL = null
  Caches = {c1, c2}
  Keys = {k1, k2, k3}
  k1 = k1
  v0 = v0
  v1 = v1
  v2 = v2
  Values <- ValuesOf
  Capacities = {2, 3}
  Failures = {}
SYMMETRY Symmetric
SPECIFICATION Spec
CHECK_DEADLOCK FALSE
INVARIANTS ListMatchesMap FullPoolSuffices
PROPERTY ImplementsRecency
