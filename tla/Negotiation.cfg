CONSTANT Legs = {1, 2, 3, 4}
SPECIFICATION FairSpec
CHECK_DEADLOCK FALSE
INVARIANT AgreeOnProtocol
INVARIANT NothingLeaked
PROPERTY BothDecide
