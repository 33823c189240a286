SPECIFICATION FairSpec
CONSTANTS
    Scheduler = sched
    Leased = {e1}
    Unleased = {e2}
    NumSteps = 2
    Invalid <- MCInvalid
    MaxRetry = 2
    BatchSize = 2
    MaxFaults = 1
    NoOne = NoOne
INVARIANTS ExclusiveUnlessLate AttemptsBounded
PROPERTIES FinishedStepStays QueueDrains CancelTakesHold
CHECK_DEADLOCK FALSE
