SPECIFICATION Spec
CONSTANTS
    MaxHeight = 5
    MaxTxs = 1
    ChanCap = 3
    Word = 64
    MaxInt = 31
    MaxReorgs = 0
    MaxReorgDepth = 0
    MaxLag = 2
    MaxFaults = 0
    StopKinds = {"interrupt"}
    MaxStops = 1
INVARIANT StopLosesNothing
