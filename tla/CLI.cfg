SPECIFICATION Spec
CONSTANTS
    EphemeralAddrs = 2
    MaxOddities = 2
    MaxSetters = 4
    MaxBuilds = 2
    Latest = 4
    Chain <- MCChain
    NoFee <- MCNil
    Histories <- MCHistories
    Nil <- MCNil
    StatsFlags <- MCStatsFlags
    MaxTxs = 1
INVARIANTS ClientKeysRight  StrategyReady StatsBlocksRight GasQuantilesRight
CHECK_DEADLOCK FALSE
