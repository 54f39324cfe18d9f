CONSTANTS
  k1 = k1
  k2 = k2
  k3 = k3
  Keys <- MCKeys
  Values = {v1, v2}
  NULL = NULL
  Hash <- MCHash
  Primes <- MCPrimes
  MIN_POWER = 4
  MAX_POWER = 6
  MaxLoadPercent = 100
  KEYS_PER_TRANSFER = 1
  InitialBuckets <- MCInitialBuckets
  Failures <- EntryOrTable
  GoodMoves <- MCGoodMoves
  DelOverwritten = FALSE
SPECIFICATION FairSpec
INVARIANTS LookupFindsContent EntriesCounted EntriesWellPlaced
  NothingStranded
PROPERTY ResizeEnds
