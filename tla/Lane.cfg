SPECIFICATION LiveSpec
CONSTANTS
    None = None
    s1 = s1
    s2 = s2
    Sids = {s1, s2}
    Messages = {"Login", "EnterGame", "other"}
    kMaxLaneDepth = 2
    MaxRequests = 4
    MaxConnections = 2
INVARIANTS EnterAfterLogin LaneMatchesIndex OneAnswer
PROPERTIES InOrder LaneMoves
