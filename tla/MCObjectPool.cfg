CONSTANTS
  Blocks = {1, 2, 3, 4}
  NULL = null
  Pools = {p1, p2}
  Amounts = {0, 2}
  Elasticities = {0, 2}
  MaxHeld = 2
  Failures = {1, 2, 3}
SYMMETRY SymmetricPools
SPECIFICATION PoolSpec
INVARIANT OnePlace
