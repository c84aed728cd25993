SPECIFICATION MCSpec
SYMMETRY Symmetry
CONSTANTS
    c1 = c1
    c2 = c2
    c3 = c3
    p1 = p1
    p2 = p2
    None = None
    Conns = {c1, c2, c3}
    Players = {p1, p2}
    Chains = {k1, k2, k3}
    SidOf <- MCSidOf
    InstanceOf <- MCInstanceOf
    MaxLeaves = 2
    LostReplies = {"replace"}
    Skew = 1
    MaxNow = 4
    MaxGeneration = 6
INVARIANTS OnlineIsSettled BoundWasAsked NoLoginAfterGone
PROPERTIES LiveSessionKept UndoHitsOwn GenerationsAdvance
CHECK_DEADLOCK FALSE
