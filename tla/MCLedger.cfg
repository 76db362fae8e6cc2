SPECIFICATION Spec
CONSTANTS
    d1 = d1  d2 = d2  u = u  x = x  y = y  z = z  s1 = s1  s2 = s2
    NoSlate = NoSlate  God = God
    Account <- MCAccount
    Delegates <- MCDelegates
    BalanceId <- MCBalanceId
    Slate <- MCSlate
    slate_of <- MCslate_of
    supported <- MCsupported
    owner <- MCowner
    genesis <- MCgenesis
    Trx <- MCTrx
    MaxPay = 2
    MinBurn = 2
    RegFee = 1
    DelegateFee = 2
    MaxExpiration = 3
    FORK_25 = 1000
    MaxBlocks = 2
    MaxTrxs = 2
INVARIANTS
    TypeOK
    SupplyMatches
    VotesBacked
