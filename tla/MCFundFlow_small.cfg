SPECIFICATION FlowSpec
CONSTANTS
    ExtAddrs = {e1}
    InnAddrs = {i1}
    Others = {f1, f2}
    Usdt = usdt
    Memo = memo
    Odd = odd
    NoAddr = none
    Values = {1, 101}
    MaxIns = 1
    MaxOuts = 1
    MaxLost = 0
    Initiator = initiator
    Operator = operator
    NoUser = nobody
    Places = 2
    MinBtc = 101
    MaxFlowOuts = 1
    MaxFailed = 0
    MaxRestarts = 0
INVARIANTS
    SmallIgnored
