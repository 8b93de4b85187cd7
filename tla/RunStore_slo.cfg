SPECIFICATION Spec
CONSTANTS
    w = w
    e = e
    a = a
    b = b
    h1 = h1
    h2 = h2
    NoHandler = NoHandler
    NoRun = NoRun
    RunIds = {w, e}
    Handlers = {h1, h2}
    CheckNames = {a, b}
    ModeOf <- MCModeOf
    RowChoices <- MCRowChoices
    MaxPushes = 2
    MaxTime = 3
    EvalInterval = 1
    Window = 1
INVARIANTS
    SLOCoversWindow
CHECK_DEADLOCK FALSE
