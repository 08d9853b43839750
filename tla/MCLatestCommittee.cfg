SPECIFICATION ClientSpec
CONSTANTS
  SlotsPerEpoch = 2
  SlotsPerPeriod = 4
  MaxSlot = 9
  Main = Main
  Other = Other
  Home = Main
  Networks <- MCNetworks
  Proposed <- MCProposed
  NoHash = NoHash
  NoProof = NoProof
  EpochOutputs <- MCEpochOutputs
  CommitteeOutputs <- MCCommitteeOutputs
  BatchOutputs <- MCBatchOutputs
INVARIANT LatestCommitteeIsNewest
