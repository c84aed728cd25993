SPECIFICATION ScopedSpec
SYMMETRY Symmetry
CONSTANTS
    NoGate = NoGate
    NoToken = NoToken
    None = None
    Players = {p1}
    Gates = {g1}
    SessionIds = {1}
    Accounts = {"a"}
    MaxVersion = 2
    MaxGeneration = 2
    Tokens = {t1,t2}
    BatchSize = 1
    Calls = {c1}
    Monitors = {m1, m2}
INVARIANTS NoGhostLocation
PROPERTIES OnlineKeepsLocation
