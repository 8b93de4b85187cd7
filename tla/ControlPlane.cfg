SPECIFICATION Spec
CONSTANTS
    s1 = s1
    s2 = s2
    m1 = m1
    m2 = m2
    na = na
    nb = nb
    nc = nc
    good = good
    evald = evald
    plain = plain
    broken = broken
    unfit = unfit
    samechecks = samechecks
    sameevals = sameevals
    admin = admin
    worker = worker
    r1 = r1
    r2 = r2
    w = w
    NoName = NoName
    NoDoc = NoDoc
    NoSecret = NoSecret
    Servers = {s1, s2}
    Migrations <- MCMigrations
    NameOrder <- MCNames
    Docs = {good, evald, plain, broken, unfit, samechecks, sameevals}
    Unparsable = {broken}
    Invalid = {broken, unfit}
    WithEvals = {evald, sameevals}
    SameChecks = {samechecks}
    SameEvals = {sameevals}
    NameOf <- MCNameOf
    Secrets = {admin, worker, r1, r2}
    AdminToken <- MCAdmin
    WorkerToken <- MCWorker
    SeedDir <- MCSeed
    SeedDemo = TRUE
    MaxFaults = 2
    MaxVersion = 2
    Requests = {r1, r2}
    Asks <- MCAsks
    Workers = {w}
    d1 = d1
    d2 = d2
    i1 = i1
    i2 = i2
    NotFound = NotFound
    ScenarioNames = {1, 2}
    Documents = {good}
    WorkerIds = {1}
    Digests = {d1, d2}
    RunIds = {i1, i2}
    CheckNames = {1, 2}
    CheckResults <- MCCheckResults
    EvalResults <- MCEvalResults
    Limits = {0, 1}
    MaxCalls = 4
INVARIANTS
    TypeOK
    MigrationsOnce
    ChangesAuthorised
    AnswersTellTheTruth
    VersionNamesOneDocument
    BackendsAgree
PROPERTIES
    EveryServerServes
CHECK_DEADLOCK FALSE
