CONSTANTS
    Runs = {r1, g1}
    Gated = {g1}
    Workers = {w1}
    Handlers = {h1}
    Users = {req, u1}
    Requester = req
    None = None
    QueueDepth = 1
    Quorum = 1
    MaxCrashes = 1
    StoreMayFail = FALSE
    Disconnects = FALSE
    Watched = {}
SPECIFICATION FairSpec
CHECK_DEADLOCK FALSE
INVARIANT RowsHaveOwners
PROPERTIES RunsSettle LapsedSettles
