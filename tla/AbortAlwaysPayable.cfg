SPECIFICATION ClockSpec
CONSTANTS
  ann = ann
  bob = bob
  Players = {ann, bob}
  NoPlayer = NoPlayer
  MIN_BUY_IN = 4
  MAX_BUY_IN = 4
  BIG_BLIND = 2
  Amounts = {2, 4}
  Scores = {1}
  Times = {1000, 3000}
  MaxDeals = 1
  PartialShares = FALSE
CHECK_DEADLOCK FALSE
INVARIANTS
  AbortAlwaysPayable
