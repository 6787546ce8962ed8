CONSTANTS
    Runs = {r1, r2}
    Gated = {}
    Workers = {w1, w2}
    Handlers = {h1, h2}
    Users = {req}
    Requester = req
    None = None
    QueueDepth = 1
    Quorum = 1
    MaxCrashes = 1
    StoreMayFail = TRUE
    Disconnects = TRUE
    Watched = {}
SPECIFICATION Spec
SYMMETRY Symmetry
CHECK_DEADLOCK FALSE
INVARIANTS FaultOwned PermitsConserved
PROPERTIES TerminalIsFinal
