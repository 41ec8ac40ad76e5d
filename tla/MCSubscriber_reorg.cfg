SPECIFICATION Spec
CONSTANTS
    MaxHeight = 5
    MaxTxs = 1
    ChanCap = 2
    Word = 64
    MaxInt = 31
    MaxReorgs = 1
    MaxReorgDepth = 1
    MaxLag = 2
    MaxFaults = 0
    StopKinds = {}
    MaxStops = 0
PROPERTY SentIsOnChain
