SPECIFICATION FairSpec
CONSTANTS
  Sources <- MCSources
  Capacities <- MCCapacities
  Unbounded = Unbounded
INVARIANTS
  TypeOK
  CopiesInBounds
  AgreesWithReference
PROPERTY Returns
CHECK_DEADLOCK FALSE
