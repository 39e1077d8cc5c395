SPECIFICATION DurabilitySpec
CONSTANTS
    Events = {e1, e2, e3}
    Contents = {x}
    Workers = {w1}
    Consumers = {c1}
    Keys = {k1}
    RuntimeStates = {"connected", "connecting", "storage_stopped", "storage_delayed"}
    GrantTTL = 2
    AcceptSkew = 1
    HostSkew = 1
    MinAge = 1
    MaxAge = 5
    ReplayAge = 5
    TombAge = 7
    PayloadLimit = 2
    SoftLimit = 1
    ExpireBatch = 2
    ReadLimit = 2
    MaxRanges = 1
    MaxUint64 = 3
    MaxTime = 1
    MaxGrants = 2
    MaxGeneration = 2
    Self = w1
    MaxFiles = 2
SYMMETRY SpoolEventSymmetry
INVARIANTS
    SpoolTypeOK
    NothingLost
    SpoolOrder
