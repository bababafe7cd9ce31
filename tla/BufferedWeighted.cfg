CONSTANTS
    MaxWeight = 2
    Weights = {0, 1, 3}
    MaxItems = 4
SPECIFICATION FairSpec
INVARIANTS
    WeightBalanced
    OutputOrdered
    WillBeWoken
PROPERTY StreamEnds
