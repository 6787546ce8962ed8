CONSTANTS
    McRequests = {m1, m2}
    McFiles = {1, 2}
    McPermits = 2
    McBurst = 1
    McPageSize = 1
    StProcesses = {"p", "q"}
    StIds = {"old", "young", "source"}
    StOld = {"old"}
    StSource = {"source"}
    StAttempts = 1
    StMaxCrashes = 1
    LkExporters = {e1, e2}
    LkTables = {"spans", "runs"}
    LkMaxFaults = 1
    RaEnvs = {"prod", "stage"}
    RaRows <- MCRows
    RaRuns = {"u1"}
    RaGenerations = {"g1", "g2"}
    RaNames = {"n1", "n2"}
    GrExps <- MCExps
    GrRuns <- MCRuns
    GrDocs <- MCDocs
    GrActions <- MCActions
    GrStrength <- MCStrength
    GrTraffic <- MCTraffic
    GrMaxCuts = 2
    GrMaxPurges = 1
    GrLimit = 1000
    DfDocs <- MCDfDocs
    DfValues = {"h1", "h 2"}
    DfMalformed = {"h 2"}
    DfVars <- MCDfVars
    DfKeyRank <- MCDfKeyRank
    DfEnvName <- MCDfEnvName
    DfMaxFaults = 2
    SpProbes <- MCSpProbes
    SpMaxDuring = 2
    SpTimeout = 2
    SpMaxTime = 1
    SpHandlers = 2
    SpActivities <- MCSpActivities
    SpLevels = {0, 1, 2, 30}
    SpMaxSamples = 5
    TgCalls = {1, 2, 3}
    TgPlugins <- MCPlugins
    TgNodes = {"n1", "n2"}
    TgPods <- MCPods
    TgSuffixes = {"x", "y"}
    TgCredentials = {"AWS_ACCESS_KEY_ID", "AWS_SECRET_ACCESS_KEY", "AZURE_ACCESS_TOKEN"}
    TgServices <- MCTgServices
    AuPaths = {1, 2}
    AuEntries <- MCEntries
    AuNative <- MCNative
    AuInputs <- MCInputs
    AuInjected = {"config_c"}
    AuSets <- MCSets
    AuMaxEdits = 1
    AuInstalled <- MCInstalled
    AuRequests = {1, 2, 3}
    AuTexts = {"a", "b"}
    CpRuns <- MCCpRuns
    CpRecords <- MCCpRecords
    CpPeople = {"ann", "bob"}
    CpApprovals <- MCCpApprovals
    CpSample = 2
    CpScopes = {{}, {"prod"}}
    CpInstants = {2, 5}
    CpStale = 2
    CpPeriod = 4
    CpOrg <- MCCpOrg
    TuRow <- MCTuRow
    TuFirst = {1, 2}
    TuLeaving = {1}
    TuGraphs <- MCTuGraphs
    TuLetters = {"b"}
    TuMaxQuery = 1
    TuMaxKinds = 7
    TuMarked = {1}
SPECIFICATION Spec
INVARIANTS StorageSound DisclosureSound KnowledgeSound ExecutionSound TargetsSound EvidenceSound
CHECK_DEADLOCK FALSE
