SPECIFICATION Spec
CONSTANTS
    None = None
    Holders = {n1, n2}
    Values = {v1, v2, v3, v4}
    TTL = 9
    Interval = 3
    MaxCall = 1
    Delay = 1
    StartDelay = 3
    MaxLate = 1
SYMMETRY Symmetry

INVARIANTS MutualExclusion
PROPERTIES OneSlipTolerated
