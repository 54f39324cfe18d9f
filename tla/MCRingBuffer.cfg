CONSTANTS
  m_capacity = 4
  UINT_MOD = 8
  Sizes <- MCSizes
  MaxBytes = 13
  CheckedWriter = TRUE
SPECIFICATION FairSpec
INVARIANTS IndicesTrackBytes UnreadIntact NoDataRace
  DecisionsHold EndOfBufferIsFinal
  CompoundCoversFreeSpace
PROPERTIES FirstInFirstOut EverythingIsRead WaitingPays
