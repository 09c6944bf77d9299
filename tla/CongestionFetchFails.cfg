SPECIFICATION FairSpec
CONSTANTS
    Blocks = {0, 1, 2, 3, 4, 5, 6}
    Headers = {"h"}
    Capacity = 5
    MaxInt = 15
    blocksNumber = 5
    WordSize = 16
    MaxCalls = 1
PROPERTY MetricReturns
CHECK_DEADLOCK FALSE
