SPECIFICATION SysSpec
CONSTANTS
  SlotsPerEpoch = 4
  SlotsPerPeriod = 16
  MaxSlot = 37
  Main = Main
  Home = Main
  Networks = {Main}
  Proposed <- MCProposed
  NoHash = NoHash
  NoProof = NoProof
  EpochOutputs <- MCFreshEpochOutputs
  CommitteeOutputs <- MCCommitteeOutputs
  BatchOutputs <- MCFreshBatchOutputs
  MaxAttempts = 2
  TargetBatchSize = 2
  DeployPeriods = {1}
  ManualSlots = {16}
  Heads = {23, 35}
  Commands = {"batch", "committee"}
  Target = 32
  MaxJobs = 1
  MaxFailures = 0
PROPERTY SyncsToTarget
