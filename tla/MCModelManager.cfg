SPECIFICATION FairManagerSpec
CONSTANTS
    Keys = {k1, k2}
    Clients = {c1, c2, c3}
    Owner = c1
    None = None
    MaxModels = 1
    Budget = 2
    Sizes = {1}
    MaxEpoch = 1
INVARIANTS ServedIsResident
PROPERTIES UnloadEnds JoinEnds
CHECK_DEADLOCK FALSE
