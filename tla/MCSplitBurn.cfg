SPECIFICATION MCSpec
CONSTANTS
  sameMint = sameMint
  otherMint = otherMint
  foreign = foreign
  BPS_TOTAL = 3
  Weights <- MCWeights
  Aux = {sameMint, otherMint, foreign}
  AuxMint <- MCAuxMint
  AuxStatus <- MCAuxStatus
  LegFloor <- MCLegFloor
  Markets = {0, 1, 2}
  RentFloor = 3
  SolAmounts = {0, 3, 7}
  Amounts = {0, 2}
  Outputs = {0, 1, 2}
  Calls <- MCCalls
  MaxTouches = 2
INVARIANTS
  TypeOK
  VaultIntact
  RentExempt
PROPERTIES
  BurnCoversFloor
  NothingLost
  ExactSpend
  DonationsNeverBlock
