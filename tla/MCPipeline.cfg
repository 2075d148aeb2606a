SPECIFICATION TableSpec
CONSTANTS
  ann = ann
  bob = bob
  cho = cho
  Players = {ann, bob, cho}
  NoPlayer = NoPlayer
  MIN_BUY_IN = 4
  MAX_BUY_IN = 4
  BIG_BLIND = 2
  Amounts = {2, 4}
  Scores = {1}
  Times = {1000, 1050, 1150, 1200, 1300, 5000, 8000}
  CoarseTimes = {5000, 8000}
  MaxDeals = 2
  PartialShares = TRUE
CHECK_DEADLOCK FALSE
INVARIANTS
  PreparationInOrder
  DeckLockedAndMixed
  CountsMatchShares
  OwedAccepted
  ClockHonest
PROPERTIES
  BudgetFromTheBlock
  BankOnlyDrawnByActor
