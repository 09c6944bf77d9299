SPECIFICATION DeployFairSpec
CONSTANTS
    TxTypes = {"legacy", "dynamic"}
    Priorities = {"fast", "slow"}
    InitialPrices = {20, 40}
    MaxPrices = {0, 70}
    Retries = {0, 1, 3}
    NoBumpAttempts = 10
INVARIANT DeployedIsUsable
PROPERTIES  DeploymentIsFound
CHECK_DEADLOCK FALSE
