SPECIFICATION Spec
CONSTANTS
    s1 = s1
    s2 = s2
    g1 = g1
    g2 = g2
    g3 = g3
    None = None
    Scenarios = {s1, s2}
    Goroutines = {g1, g2, g3}
    MaxConcurrentRuns = 1
    MaxRegistrations = 2
    MaxRows = 2
    Deletable = {s2}
SYMMETRY GoroutineSymmetry
INVARIANTS
    TypeOK
    SlotsBoundRuns
    OneLiveRun
    OutageKeepsRuns
    AssignedRunsAreCancellable
CHECK_DEADLOCK FALSE
