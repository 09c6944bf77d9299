SPECIFICATION Spec
CONSTANTS
    A = A
    B = B
    C = C
    Contracts = {A, B, C}
    Signatures = {"ab", "ac", "b"}
    Methods <- MCMethods
    Addresses = {a1}
    Finders = {f1, f2}
    UNKNOWN = UNKNOWN
    NoName = NoName
    MaxRestarts = 1
INVARIANTS MappedHasABI WrongGuessFlagged
PROPERTIES RightMappingKept
SYMMETRY FinderSymmetry
CHECK_DEADLOCK FALSE
