CONSTANTS
    Runs = {g1}
    Gated = {g1}
    Workers = {w1}
    Handlers = {h1, h2}
    Users = {req, u1, u2}
    Requester = req
    None = None
    QueueDepth = 2
    Quorum = 2
    MaxCrashes = 2
    StoreMayFail = TRUE
    Disconnects = TRUE
    Watched = {g1}
SPECIFICATION Spec
SYMMETRY Symmetry
CHECK_DEADLOCK FALSE
INVARIANTS ApprovedBeforeExecution CancelledStopHolds
PROPERTIES ImplementsLifecycle
