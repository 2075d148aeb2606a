SPECIFICATION MCSpec
CONSTANTS
  ann = ann
  bob = bob
  Players = {ann, bob}
  NoPlayer = NoPlayer
  MIN_BUY_IN = 2
  MAX_BUY_IN = 5
  BIG_BLIND = 2
  Amounts = {2}
  Scores = {1, 2}
  Times = {1000}
  MaxDeals = 2
  PartialShares = FALSE
  Names <- TwoNames
  Identities = {p1, p2}
  Strangers = {cho}
  Nobody = Nobody
  Circuits <- FourCircuits
  Networks <- TwoNetworks
  Sizes = {1, 2}
  Budget = 2
  MaxCalls = 2
  MaxEdits = 3
  MaxBackoff = 5
  RED_CHIP = 2
  GREEN_CHIP = 4
  GREENS_ABOVE = 5
  CAPACITY = 5
  MODELS = {1, 2}
  MaxLoads = 3
CHECK_DEADLOCK FALSE
INVARIANTS
  AlwaysScheduled
  SceneToldTheDeal
  WinnersTakeThePot
  EveryoneHoldsCards
  AddressIsPlayable
  EntrySeated
  CreatorShowsChoice
  NeverDeaf
PROPERTIES
  PracticeGoesOn
