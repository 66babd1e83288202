SPECIFICATION JudgingSpec
CONSTANTS
    EngineOrder <- MCEngineOrder
    LlmEngines = {"llm"}
    Reports <- MCReports
    Settings <- MCSettings
    MaxFindings = 4
    Entries <- MCEntries
    Uploads <- MCUploads
    MaxUpload = 3
    MaxArchive = 6
    MaxFile = 4
    MaxTotal = 8
    MaxEntries = 2
    MaxRatio = 2
    MaxDepth = 2
    DefaultTimeout = 1
    AigTimeout = 4
    RunnerEnvs <- MCRunnerEnvs
    Conducts <- MCConducts
    MaxWait = 2
    Monoliths = {m1, m2}
    Runners = {r1}
    Volumes = {v1, v2}
    ProbeTtl = 2
    ProbeGrace = 1
    ProbeInterval = 1
    MaxProbeFails = 1
    TtlEnvs <- MCTtlEnvs
    SsoTtl = 3
    CsrfMaxAge = 4
    StateTtl = 1
    CacheTtl = 1
    HttpTimeout = 1
    TokenLife = 4
    MaxLogins = 3
    Usernames = {"ada", "bob"}
    Groups = {"ops"}
    Roles = {"admin", "auditor"}
    Operators = {"o1", "o2"}
    SeedAccounts <- MCSeedAccounts
    SeedGroups <- MCSeedGroups
    MaxRestarts = 1
    Activators = {"a1", "a2"}
    Logins = {"l1", "l2"}
    MaxArmings = 2
    Requests = {"q1", "q2", "q3"}
    Asks <- MCAsks
    ReviewingUser = "bob"
    RescanTier = "internal"
    MaxRollbacks = 1
    Loops = {"m1", "m2"}
    Background <- MCBackground
    Calendar <- MCCalendar
    Crons <- MCCrons
    MinuteRange <- MCMinuteRange
    DomRange <- MCDomRange
    DowRange <- MCDowRange
    FiredTtl = 2
    MaxPass = 1
    RetentionEnvs <- MCRetentionEnvs
    OldDays = 1
    DefaultDays = 1
    MinimumDays = 1
    RetentionBatch = 1
    MaxBatches = 1
    LeaseTtl = 1
    MaxTickFaults = 1
    MaxSchedules = 1
    CovScans = {"n1", "n2"}
    InProcess = {"rules"}
    Sandboxed = {"yara", "aig"}
    LlmGated = {"aig"}
    Required = {"rules"}
    Ends <- MCEnds
    MaxToggled = 1
    MaxSwept = 1
    Contents = {"c1", "c2"}
    PolledScans = {"n1", "n2"}
    ScanOf <- MCScanOf
    LastSecond = 2
INVARIANT LlmOnlyEscalates
CHECK_DEADLOCK FALSE
