\* As HttpServer.cfg, with an io_service of the application.
CONSTANTS
    c1 = c1
    c2 = c2
    c3 = c3
    Connections = {c1, c2, c3}
    Schemes = {"http"}
    Services = {"external"}
    timeout_request = 5
    timeout_content = 300
    MaxStarts = 1
SPECIFICATION Spec
CHECK_DEADLOCK FALSE
INVARIANT StopClosesAll
