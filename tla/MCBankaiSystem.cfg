SPECIFICATION SysSpec
CONSTANTS
  SlotsPerEpoch = 4
  SlotsPerPeriod = 16
  MaxSlot = 37
  Main = Main
  Home = Main
  Networks = {Main}
  Proposed <- MCProposed
  NoHash = NoHash
  NoProof = NoProof
  EpochOutputs <- MCEpochOutputs
  CommitteeOutputs <- MCCommitteeOutputs
  BatchOutputs <- MCBatchOutputs
  MaxAttempts = 2
  TargetBatchSize = 2
  DeployPeriods = {1}
  ManualSlots = {16}
  Heads = {23, 35}
  Commands = {"epoch", "batch", "committee"}
  Target = 32
  MaxJobs = 1
  MaxFailures = 0
INVARIANTS
  SysTypeOK
  NoEpochSkipped
  OneHeaderPerEpoch
  CommitteeProofsMatch
  DerivedInputsVerify
