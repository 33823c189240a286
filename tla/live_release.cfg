SPECIFICATION Spec
CONSTANTS
  Signals = {s1, s2}
  Sessions = {x1, x2}
  Gates = {g1}
  Operators = {o1, o2}
  LimitChoices <- MCLimits
  GlobalMaxOpen = 2
  GlobalMaxExp = 3
  MaxCalls = 4
SYMMETRY Symmetric
INVARIANTS OneOrderAfterKill CompletedHasNoEntryInFlight
PROPERTIES RiskGrowsWithinLimit ReleasedUnderActiveSession
CHECK_DEADLOCK FALSE
