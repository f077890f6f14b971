\* Two requests at a time on one client, for http.
CONSTANTS
    r1 = r1
    r2 = r2
    Requests = {r1, r2}
    Connections = {1, 2}
    None = None
    Schemes = {"http"}
    Timeout = TRUE
    TimeoutConnect = TRUE
    MaxParts = 1
    MaxActive = 2
SPECIFICATION Spec
SYMMETRY Symmetry
CHECK_DEADLOCK FALSE
INVARIANTS
    OneOwner
    PoolShrinks
    NoLeak
    StopReachesAll
PROPERTIES
    ResendOnlyUnanswered
    RetriedBeforeError
