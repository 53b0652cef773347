SPECIFICATION RoundTripSpec
CONSTANTS
  ChunkSize = 13
  MaxXattrData = 13
  NoFork = NoFork
  OffsetLimit = 64
  Inputs <- MCInputs
INVARIANTS
  TypeOK
  HoldsSource
  BoundedOverhead
CHECK_DEADLOCK FALSE
