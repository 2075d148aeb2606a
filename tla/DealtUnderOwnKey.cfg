SPECIFICATION PipelineSpec
CONSTANTS
  ann = ann
  bob = bob
  cho = cho
  Players = {ann, bob, cho}
  NoPlayer = NoPlayer
  MIN_BUY_IN = 3
  MAX_BUY_IN = 3
  BIG_BLIND = 2
  Amounts = {3}
  Scores = {1}
  Times = {1000, 3000}
  CoarseTimes = {1000, 3000}
  MaxDeals = 2
  PartialShares = FALSE
CHECK_DEADLOCK FALSE
INVARIANTS
  DealtUnderOwnKey
