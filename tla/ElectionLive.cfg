SPECIFICATION LiveSpec
CONSTANTS
    None = None
    Holders = {n1, n2}
    Values = {v1, v2, v3}
    TTL = 4
    Interval = 1
    MaxCall = 0
    Delay = 1
    StartDelay = 1
    MaxLate = 0
INVARIANTS LeadsWithinLease
PROPERTIES VacancyIsFilled DeposedResigns
