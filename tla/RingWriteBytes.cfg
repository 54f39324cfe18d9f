CONSTANTS
  m_capacity = 4
  UINT_MOD = 8
  Sizes <- MCSizes
  MaxBytes = 13
  CheckedWriter = FALSE
SPECIFICATION Spec
INVARIANT IndicesTrackBytes
