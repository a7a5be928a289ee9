SPECIFICATION FairSpec
CONSTANTS
    Protocol = 2
    HasInput = TRUE
    InputLen = 3
    ChildWrites = 3
    LateWrites = 1
    Filter = FALSE
    SockCap = 2
    ReadMax = 1
    OutputMax = 4
INVARIANTS CompleteOnSuccess ErrorIffFailed ReapedOnReturn
PROPERTIES NoOutputAfterError Returns
