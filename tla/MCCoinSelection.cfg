SPECIFICATION Spec
CONSTANTS
    ExtAddrs = {e1}
    InnAddrs = {i1, i2}
    Fresh = fresh
    Payee = payee
    NoAddr = none
    Data = data
    Values = {546, 730, 3050, 40000}
    Amounts = {600, 39000}
    FeeRates = {1000, 20000}
    MaxUtxos = 3
    Word32 = 1073741824
    TX_MAX_SIZE = 210
INVARIANTS
    TypeOK
    InputsAccounted
    FeeBounds
    NoDustChange
    InnerOnly
    OmniPaysReceiver
    ShortageMeans
    BalanceIsSpendable
