SPECIFICATION FairSpec
CONSTANTS
    TxTypes = {"legacy", "dynamic", "blob", "accessList", "unsupported"}
    Priorities = {"degen", "fast", "standard", "slow"}
    InitialPrices = {20, 40}
    MaxPrices = {0, 70}
    Retries = {0, 1, 3}
    TracingLevels = {"NONE", "REVERTED", "ALL"}
INVARIANTS CapRespected BumpOutbids ResultMatchesChain
PROPERTIES DecodeReturns MinedIsReported
CHECK_DEADLOCK FALSE
