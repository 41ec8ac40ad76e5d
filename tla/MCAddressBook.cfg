SPECIFICATION Spec
CONSTANTS
    MaxIndex = 2
    MaxInIndex = 1
    MaxBlocks = 4
    MaxPaid = 1
    MaxStops = 2
    MaxClosed = 3
INVARIANTS
    TypeOK
    HandedOutOnce
    CrashCost
    Remembered
    PaymentsCredited
CHECK_DEADLOCK FALSE
