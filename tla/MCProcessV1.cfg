SPECIFICATION FairSpec
CONSTANTS
    Protocol = 1
    HasInput = TRUE
    InputLen = 8
    ChildWrites = 7
    LateWrites = 1
    Filter = TRUE
    SockCap = 2
    ReadMax = 1
    OutputMax = 3
PROPERTY Returns
