SPECIFICATION FairSpec
CONSTANTS
  Sources <- MCSources
  DstLens = {0, 1, 3}
  CompactThreshold = 3
  RetryAfterError = FALSE
INVARIANT ReportsUntilError
PROPERTIES
  ImplementsOneShot
  DriverTerminates
CHECK_DEADLOCK FALSE
