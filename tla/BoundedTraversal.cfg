CONSTANTS
    ScheduledMax = 2
    MaxChildren = 2
    MaxDepth = 2
SPECIFICATION FairSpec
INVARIANTS
    TypeOK
    SlotsOwned
    RootFoldLast
    FoldGetsChildren
PROPERTY Terminates
