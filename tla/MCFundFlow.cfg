SPECIFICATION FlowSpec
CONSTANTS
    ExtAddrs = {e1}
    InnAddrs = {i1}
    Others = {f1, f2}
    Usdt = usdt
    Memo = memo
    Odd = odd
    NoAddr = none
    Values = {1, 101}
    MaxIns = 2
    MaxOuts = 3
    MaxLost = 1
    Initiator = initiator
    Operator = operator
    NoUser = nobody
    Places = 2
    MinBtc = 101
    MaxFlowOuts = 2
    MaxFailed = 1
    MaxRestarts = 1
INVARIANTS
    TypeOK
    LedgerBalances
    UserWithdrawIsHot
    OmniIsCredited
    FlowTypeOK
    RegistryFollowsChain
    FailureCost
    TwiceOnlyByRestart
    RightAccount
    InvalidLeavesNoTrace
    TextsMeanValues
SYMMETRY Symmetry
