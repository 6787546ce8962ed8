CONSTANTS
    c1 = c1
    c2 = c2
    r1 = r1
    r2 = r2
    Accounts = {"root", "bob"}
    Requests = {r1, r2}
    AuthMaxPasswords = 2
    AuthMaxCredentials = 2
    LoginKeys = {"a", "b"}
    Attempts = {"x", "y", "z"}
    LoginBurst = 2
    MaxBuckets = 2
    LoginMaxTicks = 2
    Records = {"r"}
    People = {"ann", "bob", "eve"}
    Environments = {"e1", "e2"}
    Scopes <- MCScopes
    Contents = {"x", "y"}
    MaxEdits = 4
    ChainMaxRows = 4
    ChainMaxTime = 3
    ApMaxDecisions = 3
    Calls = {c1, c2}
    DailyBudget = 1
    PassLimit = 1
    ApMaxAnswers = 1
    ApMaxChurn = 1
    SshTasks = {"s", "t"}
    HostKeys = {"k", "j"}
    HostKeyPolicy = "TrustOnFirstUse"
    SshKnownHosts <- MCKnownHosts
    SshMaxSessions = 2
    ProxyCalls = {"p", "q"}
    FaultFunctions = {"inject_latency", "corrupt_bytes"}
    ProxyMaxPids = 2
    LocalRuns = {"l1", "l2", "l3"}
    Forced = {"l3"}
    LocalMaxFaults = 2
    Articles <- MCArticles
    MaxPolls = 1
    AgRequests = {"q1", "q2"}
    EvCommands = {"c1", "c2"}
    EvPipe = 1
    EvTalk = 3
SPECIFICATION Spec
SYMMETRY Symmetry
INVARIANTS CredentialsSound RecordsSound ApRunsEarned
    DriversSound LocalIngestOnce GdSound AgentsSound EvaluationsSound
CHECK_DEADLOCK FALSE
