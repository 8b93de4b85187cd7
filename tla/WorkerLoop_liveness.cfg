SPECIFICATION FairSpec
CONSTANTS
    s1 = s1
    s2 = s2
    g1 = g1
    g2 = g2
    g3 = g3
    g4 = g4
    None = None
    Scenarios = {s1, s2}
    Goroutines = {g1, g2, g3, g4}
    MaxConcurrentRuns = 2
    MaxRegistrations = 1
    MaxRows = 1
    Deletable = {}
PROPERTIES
    AssignedGetsRun
    DrainsAfterCancel
CHECK_DEADLOCK FALSE
