SPECIFICATION Spec
CONSTANTS
  Sources <- MCSources
  DstLens = {0, 1, 3}
  CompactThreshold = 3
  RetryAfterError = TRUE
INVARIANTS
  TypeOK
  CopiesInBounds
  BufferIsTheUnreadStream
  PaddingVerdict
