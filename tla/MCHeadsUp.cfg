SPECIFICATION Spec
CONSTANTS
  Players = {ann, bob}
  NoPlayer = NoPlayer
  MIN_BUY_IN = 2
  MAX_BUY_IN = 3
  BIG_BLIND = 2
  Amounts = {3}
  Scores = {1, 2}
  Times = {1000, 3000}
  MaxDeals = 1
  PartialShares = FALSE
SYMMETRY Symmetry
CHECK_DEADLOCK FALSE
INVARIANTS
  TypeOK
  EscrowBacksBooks
  SeatsHeldDuringDeal
  DeadlineWhileDealing
  HoleCardsPrivate
  AbortNamesOwer
  WaitedFor
PROPERTIES
  KeepsCustody
