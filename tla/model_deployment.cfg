SPECIFICATION Spec
CONSTANTS
    Callers = {c1, c2}
    NumModels = 4
    Assets = {x, y}
    Runs = {1, 2}
    MaxCalls = 5
    MaxOthers = 1
SYMMETRY Symmetric
INVARIANTS LiveWasApproved ActiveRevisionServes
CHECK_DEADLOCK FALSE
