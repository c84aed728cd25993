SPECIFICATION MCSpec
CONSTANTS
    None = None
    Away = Away
    Home = a
    Nodes = {a, b}
    MaxReq = 2
    MaxGen = 3
    MaxStamp = 2
    MaxVersion = 1
    MaxLost = 1
    MaxFail = 1
    MaxCrash = 1
INVARIANTS OneHolder MarkIsHonest NothingLost
CHECK_DEADLOCK FALSE
