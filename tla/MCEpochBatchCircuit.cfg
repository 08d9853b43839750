SPECIFICATION Spec
CONSTANTS
  SlotsPerEpoch = 2
  SlotsPerPeriod = 8
  MaxSlot = 11
  Main = Main
  Other = Other
  Home = Main
  Networks = {Main, Other}
  Proposed <- MCProposed
  EpochInputs <- MCEpochInputs
  Verifying <- MCVerifying
  Sizes <- MCSizes
  MaxBatch = 4
  ZeroLeaf = ZeroLeaf
INVARIANTS
  TypeOK
  AcceptedIsProvable
  LeavesAreEpochs
  AcceptsExactlyWellFormed
\* A run ends.
CHECK_DEADLOCK FALSE
