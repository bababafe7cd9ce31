CONSTANTS
    MaxGiven = 4
    Limit = 2
    Budget = 2
    MaxElapsed = 9
    MaxPolls = 4
    MaxHandles = 3
    Attempts = {0, 1, 3}
    MaxIntervals = {0, 2}
    MaxDuration = 16
    MaxRetries = 6
    Weights = {1, 3}
    MaxBufferSize = 2
    WeightLimit = 3
    MaxTaken = 4
    MaxItems = 4
    Sources = {1, 2, 3}
    Callers = {1, 2, 3}
    Threads = {t1, t2}
    MaxRegistrations = 2
    MaxSchedules = 2
    Workers = {1}
    MaxStarts = 2
    MaxProbes = 3
    NewKnobs <- TwoKnobs
    MaxVersion = 3
    MaxInits = 2
    MaxScopes = 3
    MaxOverrides = 1
SPECIFICATION Spec
CHECK_DEADLOCK FALSE
INVARIANTS
    ItemsDelivered
    PendingIsWoken
    OutcomesTruthful
    InterleavingsSound
