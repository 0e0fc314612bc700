SPECIFICATION Spec
CONSTANTS
    Clients = {c1, c2}
    Capacity = 1
    HandshakeTimeout = 1
    HeaderTimeout = 2
    DrainTimeout = 2
    Grace = 3
    WaitHint = 4
    MaxRequests = 1
    None = None
CHECK_DEADLOCK FALSE
INVARIANTS BothDrained
