CONSTANTS
    ScheduledMax = 2
    QueuedMaxes = {1, 3}
    Limits <- SomeLimits
    Inits <- OneOrTwoRoots
    Weights = {0, 3}
    MaxItems = 2
    MaxDepth = 3
    MaxTotal = 8
SPECIFICATION FairSpec
INVARIANTS
    BooksBalanced
    OutputOrdered
    StartedBound
PROPERTY StreamEnds
