SPECIFICATION LiveSpec
CONSTANTS
    NoGate = NoGate
    NoToken = NoToken
    None = None
    Players = {p1}
    Gates = {g1, g2}
    SessionIds = {1}
    Accounts = {"a"}
    MaxVersion = 2
    MaxGeneration = 0
    Tokens = {t1}
    BatchSize = 1
    Reconcilers = {r1}
    MaxIndexGen = 1
INVARIANTS RegistryCoversIndex ReadyMeansIndexed
PROPERTIES SparesRegistered OrphansAreTaken
