SPECIFICATION OwnershipSpec
CONSTANTS
    Events = {}
    Contents = {x}
    Workers = {w1, w2}
    Consumers = {c1}
    Keys = {k1}
    RuntimeStates = {"connected"}
    GrantTTL = 2
    AcceptSkew = 0
    HostSkew = 0
    MinAge = 1
    MaxAge = 1
    ReplayAge = 0
    TombAge = 0
    PayloadLimit = 2
    SoftLimit = 1
    ExpireBatch = 2
    ReadLimit = 2
    MaxRanges = 1
    MaxUint64 = 2
    MaxTime = 5
    MaxGrants = 3
    MaxGeneration = 2
SYMMETRY WorkerSymmetry
INVARIANTS
    GrantWindowsDisjoint
    OwnerGrantExists
    UnsubscribedStopsGrants
