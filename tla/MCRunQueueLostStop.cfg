CONSTANTS
    Runs = {r1}
    Gated = {}
    Workers = {w1}
    Handlers = {h1, h2}
    Users = {req}
    Requester = req
    None = None
    QueueDepth = 1
    Quorum = 1
    MaxCrashes = 0
    StoreMayFail = FALSE
    Disconnects = FALSE
    Watched = {r1}
SPECIFICATION Spec
CHECK_DEADLOCK FALSE
INVARIANT StopHonoured
