SPECIFICATION Spec
CONSTANTS
  Sources <- MCSources
  DstLens = {3}
  CompactThreshold = 3
  RetryAfterError = TRUE
PROPERTY NothingAfterMarker
