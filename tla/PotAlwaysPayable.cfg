SPECIFICATION ThreeHandedSpec
CONSTANTS
  ann = ann
  bob = bob
  cho = cho
  Players = {ann, bob, cho}
  NoPlayer = NoPlayer
  MIN_BUY_IN = 1
  MAX_BUY_IN = 3
  BIG_BLIND = 2
  Amounts = {2, 3}
  Scores = {1, 2, 3}
  Times = {1000}
  MaxDeals = 1
  PartialShares = FALSE
CHECK_DEADLOCK FALSE
INVARIANTS
  PotAlwaysPayable
