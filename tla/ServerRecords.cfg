SPECIFICATION RecordsSpec
CONSTANTS
    a1 = a1
    a2 = a2
    Recorders <- TwoRecorders
    PageSize = 1
    MaxClock = 1
    MaxRecords = 3
    h1 = h1
    h2 = h2
    Mutators <- TwoMutators
    MaxEntries = 3
    MaxInstant = 2
    n1 = n1
    n2 = n2
    k1 = k1
    Callers <- TwoCalls
    EventKeys <- OneKey
    NoKey = NoKey
    MaxKeys = 1
    Timeout = 1
    MaxDate = 2
    MaxLog = 3
    j1 = j1
    j2 = j2
    w1 = w1
    w2 = w2
    e1 = e1
    e2 = e2
    b1 = b1
    b2 = b2
    Jobs <- TwoJobs
    JobWorkers <- TwoJobWorkers
    Enqueuers <- TwoEnqueuers
    Admins <- TwoAdmins
    NoJob = NoJob
    MaxJobAttempts = 2
    MaxDeaths = 1
    MaxRequeues = 2
    c1 = c1
    c2 = c2
    c3 = c3
    p1 = p1
    p2 = p2
    Clients <- ThreeClients
    Payloads <- TwoPayloads
    Outcomes <- Answers
    NoOutcome = NoOutcome
    Retention = 1
    MaxHour = 2
    MaxAnswers = 3
    d1 = d1
    d2 = d2
    d3 = d3
    Deliveries <- ThreeDeliveries
    MaxBreakdowns = 2
    m1 = m1
    m2 = m2
    Moderators <- TwoModerators
    Verdicts = {"pending"}
    MaxDecisions = 1
    MaxUnmarked = 1
    u1 = u1
    u2 = u2
    s1 = s1
    Users <- TwoUsers
    Maintainers <- OneMaintainer
    MaxRetry = 2
    MaxGranted = 4
    q1 = q1
    q2 = q2
    Nobody = Nobody
    Askers <- TwoAskers
    MaxTx = 2
    r1 = r1
    r2 = r2
    Runners <- TwoRunners
    Files <- SharedVersion
    LeaseTerm = 1
    MaxMoment = 1
    t1 = t1
    x1 = x1
    x2 = x2
    Challenges <- OneChallenge
    Requests <- TwoUnlocks
    Spellings = {1, 2}
    TokenLife = 1
    NonceFloor = 1
    ReplayLife = 2
    AnswerLife = 1
    MaxSecond = 2
    v1 = v1
    v2 = v2
    y1 = y1
    y2 = y2
    Tabs <- TwoTabs
    Wallets <- TwoWallets
    Networks = {"testnet"}
    Nothing = Nothing
    MaxWrites = 3
INVARIANTS
    ExportComplete
    ChainVerifies
    KeyAppliedOnce
    EscalatedOnlyWhenIdle
    RunByOne
    DeadLetteredWhenExhausted
    DuplicatesOnlyByRace
    RunsOnce
    ReplaysSerialisedRun
    DispatchedOnce
    DecisionsFaithful
    RetriesBounded
    RepairFollowsChain
    AppliedInOrder
    OpenedOnce
    OwnEditsOnly
PROPERTY ImplementsCase
CHECK_DEADLOCK FALSE
