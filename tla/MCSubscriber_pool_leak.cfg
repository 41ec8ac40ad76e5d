SPECIFICATION Spec
CONSTANTS
    MaxHeight = 6
    MaxTxs = 1
    ChanCap = 1
    Word = 64
    MaxInt = 31
    MaxReorgs = 0
    MaxReorgDepth = 0
    MaxLag = 2
    MaxFaults = 1
    StopKinds = {}
    MaxStops = 0
INVARIANT PoolDrains
