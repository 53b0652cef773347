SPECIFICATION DecodeSpec
CONSTANTS
  Exact = Exact
  Blocks <- MCBlocks
  Capacities <- MCCapacities
INVARIANTS
  DecodeTypeOK
  AcceptsWholeBlocks
CHECK_DEADLOCK FALSE
