SPECIFICATION FairSpec
CONSTANTS
    Sockets = {1, 2}
    Options <- MCOptions
    Pids = {1, 2}
    MaxQueue = 1
    MaxFds = 2
    MaxVersion = 1
INVARIANTS
    NoZombieForgotten
    ReloadNotLost
    DescriptorsAccounted
PROPERTIES
    SignalsHandled
