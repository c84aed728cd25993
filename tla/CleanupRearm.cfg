SPECIFICATION Spec
SYMMETRY Symmetry
CONSTANTS
    NoGate = NoGate
    NoToken = NoToken
    None = None
    Players = {p1}
    Gates = {g1}
    SessionIds = {1,2}
    Accounts = {"a"}
    MaxVersion = 2
    MaxGeneration = 0
    Tokens = {t1,t2,t3}
    BatchSize = 1
    Calls = {c1}
    Monitors = {m1,m2}
PROPERTIES CleanupEndsWithAck
