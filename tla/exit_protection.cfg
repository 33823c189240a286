SPECIFICATION FairSpec
CONSTANTS
    t1 = t1
    Trades = {t1}
    NoTrade = NoTrade
    Size = 2
    MaxExit = 2
    MaxManual = 1
INVARIANTS AsksForWhatIsHeld QueuedMeansExiting
PROPERTY StopLossSells
CHECK_DEADLOCK FALSE
