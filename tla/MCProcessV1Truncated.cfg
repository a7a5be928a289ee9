SPECIFICATION Spec
CONSTANTS
    Protocol = 1
    HasInput = FALSE
    InputLen = 0
    ChildWrites = 5
    LateWrites = 0
    Filter = FALSE
    SockCap = 6
    ReadMax = 1
    OutputMax = 8
INVARIANT CompleteOnSuccessV1
