\* Two connections at a time, one of them waiting to be accepted.
CONSTANTS
    c1 = c1
    c2 = c2
    c3 = c3
    Connections = {c1, c2}
    Schemes = {"http", "https"}
    Services = {"internal", "external"}
    timeout_request = 5
    timeout_content = 300
    MaxStarts = 2
SPECIFICATION FairSpec
CHECK_DEADLOCK FALSE
INVARIANTS
    TypeOK
    SetIsExact
    NeverDeaf
    StopCloses
PROPERTIES
    EveryWaitEnds
    NothingOutlivesTheServer
