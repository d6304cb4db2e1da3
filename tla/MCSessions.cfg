\* A callback that comes twice, a request, and replicas whose clocks differ.
SPECIFICATION Spec
CONSTANTS
    c1 = c1
    c2 = c2
    r1 = r1
    Callbacks = {c1, c2}
    Requests = {r1}
    AttemptTTL = 1
    SessionTTL = 6
    IdleTTL = 5
    TouchInterval = 1
    Retention = 1
    MaxSkew = 1
    MaxTime = 7
    MaxChanges = 1
    MaxFaults = 1
SYMMETRY Symmetry
CHECK_DEADLOCK FALSE
INVARIANTS
    SingleUse
    RevokedStaysOut
    OffboardedInTime
PROPERTIES
    SignedOutWhenIdle
