CONSTANTS
    Values = {a, b, c, d}
    Root = a
    None = None
    Limits = {None, 0, 3}
    ScheduledMaxes = {1, 2}
    MaxChildren = 2
SPECIFICATION FairSpec
INVARIANTS
    NoPanic
    FoldGetsChildren
    NoneIffCycle
    LimitKept
PROPERTY Terminates
