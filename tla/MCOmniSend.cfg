SPECIFICATION Spec
CONSTANTS
    Addrs = {a1, a2}
    Out = out
    NoAddr = none
    Places = 2
    MaxInt = 447
    All = 100
    Supply <- MCSupply
    Requests <- MCRequests
    Paid = {4}
    MaxTxs = 3
INVARIANTS
    TypeOK
    TokensCover
    AmountMeant
    BalanceReplies
CONSTRAINT
    Apart
    Later
    OneNegative
SYMMETRY Symmetry
