SPECIFICATION Spec
CONSTANTS
    Requests = {r1, r2, r3}
    NoRequest = NoRequest
PROPERTIES
    RestartStopsFirst
CHECK_DEADLOCK FALSE
