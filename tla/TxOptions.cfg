SPECIFICATION Spec
CONSTANTS
    Callers = {c1, c2}
    NumKeys = 1
    KeyNums <- MCKeyNums
    TxPriorities = {"slow", "standard", "fast"}
    NodeData <- MCNodeData
    Fallback <- MCFallback
    MaxTxs = 2
INVARIANTS PricedUnlessSwitched ProtectedNonceHasNoGap UrgencyNeverPaysLess
PROPERTIES ProtectionErrorsAreReal
CHECK_DEADLOCK FALSE
