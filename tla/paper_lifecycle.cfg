CONSTANTS
  t1 = t1
  m1 = m1
  Mode = "PAPER"
  Trades = {t1}
  Markets = {m1}
  MarketOf <- OneMarket
  Size = 2
  MaxCloses = 2
  MaxAttempts = 5
  MaxRequeues = 0
  MaxNudges = 0
  MaxCrashes = 1
  ListingLag = FALSE
  Confirm = FALSE
SPECIFICATION Spec
INVARIANTS
  IInv
  PositionMatchesFills
CHECK_DEADLOCK FALSE
