SPECIFICATION FairSpec
CONSTANTS
    MaxHeight = 4
    MaxTxs = 2
    ChanCap = 2
    Word = 64
    MaxInt = 31
    MaxReorgs = 0
    MaxReorgDepth = 0
    MaxLag = 1
    MaxFaults = 1
    StopKinds = {}
    MaxStops = 0
PROPERTY ImplementsFeed
