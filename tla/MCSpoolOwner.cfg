SPECIFICATION AuthoritySpec
CONSTANTS
    Events = {e1}
    Contents = {x}
    Workers = {w1}
    Consumers = {c1}
    Keys = {k1}
    RuntimeStates = {"connected", "connecting", "storage_stopped", "storage_delayed"}
    GrantTTL = 2
    AcceptSkew = 0
    HostSkew = 0
    MinAge = 1
    MaxAge = 5
    ReplayAge = 5
    TombAge = 5
    PayloadLimit = 2
    SoftLimit = 1
    ExpireBatch = 2
    ReadLimit = 2
    MaxRanges = 1
    MaxUint64 = 2
    MaxTime = 4
    MaxGrants = 1
    MaxGeneration = 1
    Self = w1
    MaxFiles = 1
INVARIANTS
    AcceptedByOwner
