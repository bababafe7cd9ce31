CONSTANTS
    Items <- MCItems
    InitItems <- MCInit
    KeyOf <- MCKeyOf
    ShardOf <- MCShardOf
    ScheduledMax = 3
    MaxChildren = 2
SPECIFICATION FairStreams
INVARIANT
    WaitersServed
PROPERTIES
    IsUnfoldStream
    StreamEnds
