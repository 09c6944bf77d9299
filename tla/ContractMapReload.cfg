SPECIFICATION Spec
CONSTANTS
    A = A
    B = B
    C = C
    Contracts = {A, B, C}
    Signatures = {"ab", "ac", "b"}
    Methods <- MCMethods
    Addresses = {a1}
    Finders = {f1}
    UNKNOWN = UNKNOWN
    NoName = NoName
    MaxRestarts = 1
INVARIANT SavedContractsKnown
CHECK_DEADLOCK FALSE
