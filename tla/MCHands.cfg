SPECIFICATION HandsSpec
CONSTANTS
  Values = {2, 3, 4, 5, 6, 14}
  Listeners = {ann, bob}
  Hour = 12
  BarUnits <- Bars
  Hair = 1
  Ahead = 3
  TimerLate = 2
  Opening = 284
  Closing = 300
  ann = ann
  bob = bob
  cid = cid
  Players = {ann, bob, cid}
  Line <- InOrder
  NoPlayer = NoPlayer
  MIN_BUY_IN = 80
  MAX_BUY_IN = 200
  BIG_BLIND = 2
  Amounts = {200}
  Scores = {1, 2}
  Times = {1700}
  MaxDeals = 1
  PartialShares = FALSE
CHECK_DEADLOCK FALSE
INVARIANTS
  ScoreAgrees
  ScoreOrdersHands
  HandNamed
  BandTogether
  GateRunsEveryCircuit
