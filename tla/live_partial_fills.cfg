CONSTANTS
  t1 = t1
  m1 = m1
  Mode = "LIVE"
  Trades = {t1}
  Markets = {m1}
  MarketOf <- OneMarket
  Size = 2
  MaxCloses = 2
  MaxAttempts = 2
  MaxRequeues = 0
  MaxNudges = 0
  MaxCrashes = 0
  ListingLag = FALSE
  Confirm = FALSE
SPECIFICATION Spec
INVARIANTS
  FillsIffSuccess
  PositionMatchesFills
  FailedEntryBoughtNothing
  ExitRequestedHasClose
CHECK_DEADLOCK FALSE
