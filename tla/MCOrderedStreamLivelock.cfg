CONSTANTS
    ScheduledMax = 2
    QueuedMaxes = {2}
    Limits <- OneLimit
    Inits <- TwoOfOne
    Weights = {1}
    MaxItems = 2
    MaxDepth = 2
    MaxTotal = 7
SPECIFICATION FairSpec
PROPERTY EveryStreamEnds
