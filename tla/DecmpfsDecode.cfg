SPECIFICATION FairSpec
CONSTANTS
  ChunkSize = 4
  MaxXattrData = 8
  NoFork = NoFork
  Exact = Exact
  MaxUsize = 127
  Wrappers <- MCWrappers
  Capacities <- MCCapacities
INVARIANTS
  TypeOK
  WritesItsOwnPart
  AcceptsWholeWrappers
  WritesContent
  FailsAtFirstFault
PROPERTY Returns
CHECK_DEADLOCK FALSE
