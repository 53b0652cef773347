SPECIFICATION Spec
CONSTANTS
  Blocks <- MCBlocks
  DstLens = {1, 3}
  CompactThreshold = 3
  RetryAfterError = FALSE
INVARIANT AcceptsWhatOneShotAccepts
CHECK_DEADLOCK FALSE
