SPECIFICATION Spec
CONSTANTS
    MaxHeight = 5
    MaxTxs = 1
    ChanCap = 2
    Word = 64
    MaxInt = 31
    MaxReorgs = 1
    MaxReorgDepth = 1
    MaxLag = 3
    MaxFaults = 0
    StopKinds = {"crash", "interrupt"}
    MaxStops = 1
INVARIANTS
    TypeOK
    SentConfirmed
    PoolDrains
    ResumeNeverSkips
    NothingDropped
PROPERTY SentInOrder
