SPECIFICATION Spec
CONSTANTS
  SlotsPerEpoch = 6
  SlotsPerPeriod = 6
  MaxSlot = 8
  MaxAttempts = 3
  Starts = {0, 3, 5}
INVARIANT InitCommitteeIsCurrent
