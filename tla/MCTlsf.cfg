CONSTANTS
  WORD_SIZE_BYTES_LOG2 = 3
  WORD_SIZE_BITS = 14
  SLI_COUNT_LOG2 = 3
  ALIGNMENT_REQUIREMENT = 16
  INT_BITS = 32
  ArenaSizes <- MCArenaSizes
  Requests <- MCRequests
  NULL = NULL
SPECIFICATION Spec
INVARIANTS BlocksTile FreeListsExact Coalesced
  FoundBlockFits GoodFit UserDataAligned EmptyArenaIsFresh
PROPERTY ImplementsHeap
