CONSTANTS
  t1 = t1
  m1 = m1
  Mode = "LIVE"
  Trades = {t1}
  Markets = {m1}
  MarketOf <- OneMarket
  Size = 1
  MaxCloses = 0
  MaxAttempts = 2
  MaxRequeues = 0
  MaxNudges = 0
  MaxCrashes = 0
  ListingLag = TRUE
  Confirm = FALSE
SPECIFICATION Spec
INVARIANTS
  FailedEntryBoughtNothing
CHECK_DEADLOCK FALSE
