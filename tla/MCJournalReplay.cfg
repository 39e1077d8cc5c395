SPECIFICATION ReplaySpec
CONSTANTS
    Events = {e1, e2}
    Contents = {x, y}
    Workers = {w1}
    Consumers = {}
    Keys = {}
    RuntimeStates = {}
    GrantTTL = 7
    AcceptSkew = 1
    HostSkew = 1
    MinAge = 1
    MaxAge = 1
    ReplayAge = 1
    TombAge = 3
    PayloadLimit = 2
    SoftLimit = 1
    ExpireBatch = 2
    ReadLimit = 1
    MaxRanges = 1
    MaxUint64 = 2
    MaxTime = 6
    MaxGrants = 1
    MaxGeneration = 2
SYMMETRY EventSymmetry
INVARIANTS
    EventOnce
