CONSTANTS
  t1 = t1
  m1 = m1
  Mode = "LIVE"
  Trades = {t1}
  Markets = {m1}
  MarketOf <- OneMarket
  Size = 1
  MaxCloses = 1
  MaxAttempts = 2
  MaxRequeues = 0
  MaxNudges = 0
  MaxCrashes = 1
  ListingLag = FALSE
  Confirm = TRUE
SPECIFICATION FairSpec
PROPERTIES
  EntryIsDecided
  CloseEnds
CHECK_DEADLOCK FALSE
