SPECIFICATION Spec
CONSTANTS
    in = in
    out = out
    e = e
    k1 = k1
    k2 = k2
    Missing = Missing
    Streams <- MCStreams
    Cap = 2
    InTopic = in
    OutTopic = out
    Keys = {k1, k2}
    Evals = {e}
    RequiredOver <- MCOver
    Iterations = 2
    MaxInputs = 3
    Observed = FALSE
INVARIANT
    AnswersAreScored
CHECK_DEADLOCK FALSE
