SPECIFICATION Spec
CONSTANTS
    Jobs <- MCJobs
    g1 = g1
    NoGroup = NoGroup
    Groups = {g1}
    MaxLog = 3
    MaxBatch = 2
    MaxLives = 2
    c1 = c1
    c2 = c2
    Callers = {c1, c2}
    Ttls = {0, 2}
    MaxSchema = 2
    MaxClock = 4
    k1 = k1
    k2 = k2
    x = x
    y = y
    EventKeys = {k1, k2}
    Times = {0, 1, 2}
    Values <- MCValues
    Percents <- MCPercents
    Alphabet = {x, y}
    Star = Star
    MaxEvents = 4
    MaxValues = 4
    MaxPattern = 4
    MaxPath = 4
    SseSteps <- MCSseSteps
    MaxLines = 5
    MaxAhead = 1
SYMMETRY CallerSymmetry
INVARIANTS
    TypeOK
    VerdictIsEarned
    NoSilentGap
    FreshWithinTTL
    OperatorsMatchReference
    FramesAreWhole
CHECK_DEADLOCK FALSE
