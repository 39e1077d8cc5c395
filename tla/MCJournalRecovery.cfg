SPECIFICATION RecoverySpec
CONSTANTS
    Events = {e1, e2}
    Contents = {x}
    Workers = {w1}
    Consumers = {c1}
    Keys = {k1, k2}
    RuntimeStates = {}
    GrantTTL = 3
    AcceptSkew = 0
    HostSkew = 0
    MinAge = 1
    MaxAge = 1
    ReplayAge = 3
    TombAge = 3
    PayloadLimit = 2
    SoftLimit = 1
    ExpireBatch = 2
    ReadLimit = 2
    MaxRanges = 1
    MaxUint64 = 2
    MaxTime = 3
    MaxGrants = 2
    MaxGeneration = 2
SYMMETRY EventSymmetry
INVARIANTS
    TypeOK
    RetainedContiguous
    CursorsOrdered
    NoSilentLoss
    RecoveryPossible
PROPERTIES
    RevisionFences
