SPECIFICATION FairRoundTripSpec
CONSTANT Inputs <- MCInputs
INVARIANTS
  TypeOK
  EmittedDecodes
  BlockHoldsSource
  BucketsHoldNewest
  NewDistanceAfterMatch
  ExpansionBounded
PROPERTY Returns
CHECK_DEADLOCK FALSE
