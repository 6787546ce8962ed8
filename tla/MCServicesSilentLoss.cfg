CONSTANTS
    TmExporters = {x1}
    TmTries = 3
    TmMaxFaults = 2
    TmMaxInt = 3
    Schedules = {"a", "b"}
    Interval <- MCInterval
    SchedMaxTime = 2
    SchedMaxLost = 1
    Hooks = {"h"}
    EventKinds = {"a", "b"}
    HookEvents <- MCHookEvents
    BatchLimit = 2
    MaxAttempts = 2
    ClockSkew = 1
    HookMaxEvents = 3
    HookMaxFaults = 1
    Servers = {"grpc", "http"}
    Supervisors = {"supervisor"}
    RunTasks = {"sweeper", "worker"}
    Sweeper = "sweeper"
    Envelopes = {"e1", "e2"}
    WriterBuffer = 1
    DaemonMaxFatal = 1
    Kids = {k1, k2}
SPECIFICATION Spec
INVARIANT LossNeverSilent
CHECK_DEADLOCK FALSE
