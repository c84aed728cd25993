SPECIFICATION LiveSpec
CONSTANTS
    None = None
    p1 = p1
    p2 = p2
    n1 = n1
    n2 = n2
    Players = {p1, p2}
    Nodes = {n1, n2}
    Scenes = {s1}
    GenBase <- MCGenBase
    kSceneEntryMaxAttempts = 2
    MaxEnters = 2
    MaxMoves = 1
    MaxEntities = 2
    MaxEpoch = 2
INVARIANTS ScenesKnowEpoch RouteIsWhole
PROPERTIES EntersByOwnLogin HolderGetsExit LoginTypeSettles
CHECK_DEADLOCK FALSE
