SPECIFICATION DeliverySpec
CONSTANTS
    Events = {e1, e2, e3}
    Contents = {x}
    Workers = {w1}
    Consumers = {c1, c2}
    Keys = {}
    RuntimeStates = {}
    GrantTTL = 3
    AcceptSkew = 0
    HostSkew = 0
    MinAge = 1
    MaxAge = 1
    ReplayAge = 3
    TombAge = 4
    PayloadLimit = 2
    SoftLimit = 1
    ExpireBatch = 2
    ReadLimit = 2
    MaxRanges = 1
    MaxUint64 = 3
    MaxTime = 4
    MaxGrants = 1
    MaxGeneration = 1
SYMMETRY EventSymmetry
INVARIANTS
    NoSilentLoss
    ExpiryWaitsForConsumers
