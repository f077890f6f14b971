\* One request after the other, for every kind of client.
CONSTANTS
    r1 = r1
    r2 = r2
    Requests = {r1, r2}
    Connections = {1, 2}
    None = None
    Schemes = {"http", "https", "https_proxy"}
    Timeout = TRUE
    TimeoutConnect = TRUE
    MaxParts = 1
    MaxActive = 1
SPECIFICATION FairSpec
CHECK_DEADLOCK FALSE
PROPERTIES
    Answered
