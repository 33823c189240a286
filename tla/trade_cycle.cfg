SPECIFICATION Spec
CONSTANTS
    e1 = e1
    e2 = e2
    m1 = m1
    Engines = {e1, e2}
    Markets = {m1}
    NoMarket = NoMarket
    NoRow = NoRow
    MaxRows = 3
    MaxSwitches = 2
INVARIANTS CtEntersOnce EntersOnceUnlessRaced CtDecidedOnceUnlessRaced
SYMMETRY Symmetric
CHECK_DEADLOCK FALSE
