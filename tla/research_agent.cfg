SPECIFICATION FairSpec
CONSTANTS
    Agents = {a1, a2}
    Budget = 1
    MaxLoops = 4
    Sessions = {q1}
    MaxTrouble = 2
    NoOne = NoOne
INVARIANTS OneProposalPerIteration OneDecisionPerResult BudgetRespected
PROPERTIES FinalUnlessReadBefore RunFinishes
CHECK_DEADLOCK FALSE
