SPECIFICATION MCSpec
CONSTANTS
    TaskId = {t1, t2}
    Writer = {w1, w2}
    NoTask = NoTask
    Seed <- MCSeed
    WriteAt = {1, 2, 11}
    Org = {o1, o2}
    Appender = {p1, p2}
    MaxAppends = 4
    MaxEdits = 1
    Replica = {p1, p2}
    Limit = 2
    WindowMs = 3
    PruneEvery = 2
    PruneAge = 3
    EndOfTime = 6
    MaxBurst = 3
    MaxEvents = 4
    MaxBreaks = 2
    ReplayLimit = 2
    RecentSize = 1
    BufferSize = 2
    Stored = {TRUE, FALSE}
    KeyId = {k1, k2, k3, k4}
    NoKeyId = NoKeyId
    Caller = {c1, c2}
    SessionId = {a1, a2}
    Bearer = {w4}
    NoBearer = NoBearer
    Ticket = {x1}
    LoginState = {l1}
    SessionTtl = 2
    TicketTtl = 1
    StateTtl = 1
    LastTime = 3
    NNodes = 3
    Plans <- MCPlans
    NSteps = 2
    Handlings <- MCHandlings
    Conn = {n1, n2, n3}
    NoConn = NoConn
    MaxTxns = 2
    NWrites = 2
    MaxTimeouts = 1
    s1 = s1
    s2 = s2
    Server = {s1, s2}
    Images <- MCImages
    DataKey = {d1, d2}
    NoDataKey = NoDataKey
    MaxDeaths = 2
    Req = {r1, r2, r3}
    Slug = {1}
    Deployment = {b1, b2, b3}
    NoDeployment = NoDeployment
    MaxGrants = 1
    Partner = {q1, q2, q3}
    Token = {u1, u2, u3}
    NoToken = NoToken
    Page = {1, 2, 3, 4, 5, 6, 7}
    SeedUrl = 1
    Sites <- MCSites
    Slow <- MCSlow
    Crawler = {b4, b5}
    Depth = 2
    MaxPages = 5
    MaxTries = 2
    MaxCrawls = 3
    Submission = {f1, f2, f3}
    Key = {i1}
    NoKey = NoKey
    NoRun = NoRun
    Orders <- MCOrders
    Command = {m1, m2}
    Msg = {g1}
    Fetch = {h1}
    Retries = 1
    Envs <- MCEnvs
    MaxVersion = 2
    MaxStarts = 2
    y1 = y1
    y2 = y2
    Agency = {z1, z2}
    Pod = {v1, v2}
    NewPods = {v2}
    Skill = {y1, y2}
    SkillFiles <- MCSkillFiles
    Run = {x2}
    EvidenceType = {"test-result"}
    MaxRecords = 1
    MaxOverrides = 1
    NLines = 2
    Credential = {j1, j2}
    NoCredential = NoCredential
    ApiCall = {e1, e2}
    MaxIssued = 2
    MaxChanges = 3
    Visit = {i2, i3}
    Kid = {k5, k6}
    Callback = {c3, c4}
    Sub = {u4}
    Instance = {s3, s4}
    JwksCache = 1
    Transit = 1
    LastHour = 2
INVARIANTS TypesOK TasksConsistent TamperEvident GapExplained BurstBounded OrderFree SkillsSound UnitsUntilTimeout StartsSound HandlersSound ScrapeSound AnswersAgree ChangeSound CallsSound ClientsSound
PROPERTIES AllServe AccessEnds
\* Every component may rest once its work is done or its bounds are reached.
CHECK_DEADLOCK FALSE
