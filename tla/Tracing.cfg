SPECIFICATION Spec
CONSTANTS
    EventLayouts <- MCLayouts
    MaxLogs = 2
    CodeSizes = {1, 6}
    Trailers = {2, 3, 4, 7}
    Versions <- MCVersions
    MainSig = "main"
    SubSigs = {"f", "g"}
    Known = {"main", "f"}
    MaxCalls = 4
    MaxSpecial = 1
    MaxFaults = 1
INVARIANTS RevertReasonRight EventArgumentsRight CallsMatchTrace MissingCallsReported GraphFollowsCalls RevertHighlighted
CHECK_DEADLOCK FALSE
