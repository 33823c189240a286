CONSTANTS
  t1 = t1
  m1 = m1
  Mode = "LIVE"
  Trades = {t1}
  Markets = {m1}
  MarketOf <- OneMarket
  Size = 1
  MaxCloses = 1
  MaxAttempts = 3
  MaxRequeues = 1
  MaxNudges = 1
  MaxCrashes = 0
  ListingLag = FALSE
  Confirm = FALSE
SPECIFICATION Spec
INVARIANTS
  ReservationExact
  SubmitBound
PROPERTIES
  OutcomeIsFinal
  ImplementsContract
CHECK_DEADLOCK FALSE
