SPECIFICATION LiveSpec
CONSTANTS
  ann = ann
  bob = bob
  Players = {ann, bob}
  NoPlayer = NoPlayer
  MIN_BUY_IN = 2
  MAX_BUY_IN = 3
  BIG_BLIND = 2
  Amounts = {2}
  Scores = {1}
  Times = {1000}
  MaxDeals = 2
  PartialShares = FALSE
  Faults = {"refuse", "lose", "reload", "drop", "unseen"}
  MaxFaults = 1
  Decisions = {"fold", "check", "call", "show"}
CHECK_DEADLOCK FALSE
INVARIANTS
  KeysKept
  ReloadLosesNothing
PROPERTIES
  DealsPlayOut
