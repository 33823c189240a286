SPECIFICATION Spec
CONSTANTS
    Tick = 2
    MaxTicks = 3
    Limits = {3, 4}
    Caps = {2, 4}
    PolicyMin = 2
    PolicyMax = 6
    EdgeMax = 5
    MaxAttempts = 3
    MaxReprices = 2
    Size = 2
    MaxFaults = 2
INVARIANTS PriceWithinMandate NoDoubleFill RejectedIsGone
CHECK_DEADLOCK FALSE
