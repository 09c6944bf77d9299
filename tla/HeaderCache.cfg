SPECIFICATION Spec
CONSTANTS
    Blocks = {0, 1, 2, 3}
    Headers = {"h", "fork"}
    Capacity = 3
    MaxInt = 3
    MaxUint = 15
PROPERTY CacheSpec
CHECK_DEADLOCK FALSE
