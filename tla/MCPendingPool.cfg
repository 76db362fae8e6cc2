CONSTANTS
    Coin <- MCCoin
    Trx <- MCTrx
    Delegate <- MCDelegate
    self = "me"
    genesis <- MCGenesis
    RelayFee = 1
    MaxQueue = 1
    MaxBlockSize = 2
    MaxBlockNum = 4
    MaxTrxs = 1
    MaxRestarts = 1
SPECIFICATION PoolSpec
INVARIANTS PoolConsistent
PROPERTIES UnconflictedKept EventuallyResolved ChainGrows
