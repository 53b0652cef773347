SPECIFICATION FairSpec
CONSTANTS
  Blocks <- MCBlocks
  DstLens = {0, 1, 3}
  CompactThreshold = 3
  RetryAfterError = TRUE
INVARIANTS
  TypeOK
  PayloadPumpedOnce
  DeclaredSize
  FinishedAgrees
  RefusesOnlyLatePadding
PROPERTIES
  UsesRawStream
  DriverTerminates
