SPECIFICATION Spec
CONSTANTS
  Chunk = 8
  Sha <- MCSha
  Poseidon <- MCPoseidon
  CurveY <- MCCurveY
  Seats = 5
  SlotsPerPeriod = 32
  HeaderSlots <- MCHeaderSlots
  Keys <- MCKeys
  Signature <- MCSignature
  Served <- MCServed
INVARIANTS
  TypeOK
  CircuitsAcceptInputs
  FilesReadBack
  ContractAcceptsProofs
  StoredIsServed
