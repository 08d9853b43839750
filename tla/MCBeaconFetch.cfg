SPECIFICATION Spec
CONSTANTS
  SlotsPerEpoch = 6
  SlotsPerPeriod = 6
  MaxSlot = 8
  MaxAttempts = 3
  Starts = {0, 3, 5, 6}
  ForkEpochs <- MCForkEpochs
INVARIANTS
  TypeOK
  SettledInputsVerify
  CommitteeIsContracts
  FetchIsComplete
  DomainIsSigners
PROPERTY
  FetchEnds
