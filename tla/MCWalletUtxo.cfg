SPECIFICATION Spec
CONSTANTS
    MaxTxs = 3
    MaxBlocks = 3
    MaxSigned = 1
    MaxTroubles = 1
    Ctor = TRUE
INVARIANTS
    TypeOK
    LossOnlyByEviction
    SpentLeave
    ConfirmedSpendsHold
CHECK_DEADLOCK FALSE
ACTION_CONSTRAINT Busy
