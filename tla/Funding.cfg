SPECIFICATION Spec
CONSTANTS
    Keys = {k1, k2}
    Root = Root
    RootBalances = {4, 11}
    RootKeyBuffer = 1
    GasPrice = 1
    Suggested = {2}
    Estimates = {2}
    GasUsed = 2
    TransferGasFee = 1
    HealthValue = 1
    Leftovers = {0, 2}
INVARIANTS ReadyMeansFunded RootKeepsBuffer ReturnedMeansEmpty
PROPERTIES CallsReturn
CHECK_DEADLOCK FALSE
