\* Three concurrent appends of up to two attempts, with failures and lost replies,
\* beside two clients that export or verify at one replica and one that pages.
SPECIFICATION FairReadersSpec
CONSTANTS
    c1 = c1
    c2 = c2
    c3 = c3
    x1 = x1
    x2 = x2
    p1 = p1
    Nobody = Nobody
    Calls = {c1, c2, c3}
    Times = {3}
    PolicyVersions = {""}
    MaxRetries = 2
    MaxFaults = 2
    Clients = {x1, x2}
    Replicas = {p1}
    PageSize = 2
INVARIANTS
    ChainIntact
    RecordedOnce
    AlwaysVerifies
    ExportMissesNothing
    PagingIsComplete
    GateMatchesScans
PROPERTIES
    KeepsPromise
    AppendReturns
